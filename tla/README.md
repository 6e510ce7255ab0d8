# gostack-kit in TLA+

TLA+ models of gostack-kit, a Go service template: what its Kafka outbox, consumer,
idempotent handlers, worker pool, distributed lock, scheduler, WebSocket hub, HTTP
client, order and user modules and the process around them do when several pods,
goroutines and failures meet. TLC checks the models on small instances, TLAPS proves
the main results for every value of the constants.

Run everything from this directory: `tlc -config MCRelayOne.cfg MCRelay`,
`tlapm RelayProofs.tla`, and so on. `PROJECT.json` lists runs, mutants, the map
from definitions to source lines, findings, hazards and theorems.

## 1. The system

| Component | State it keeps | Operations | Interacts with | What is hard |
|---|---|---|---|---|
| outbox table (`pkg/broker/outbox.go`, `pkg/database/transaction.go`) | rows with status, retry count, next retry time | `WriteOutbox` in a transaction, commit, rollback | order module writes, relays read and update | ids are drawn at insert and visible at commit |
| outbox relay (`pkg/broker/relay.go`, `producer.go`, `pkg/retry`) | its batch, the entry in hand, the attempt | poll, publish with retries, `markPublished`, `markFailed`, `scheduleRetry`, `RetryFailed` | table, Kafka; one relay per pod | no row locks, stale copies, lost acks, kills, failed updates |
| consumer (`consumer.go`, `dispatcher.go`, `batcher.go`) | claim position, marks, worker channels, batch buffer | `Subscribe`, `SubscribeBatch`, `Start`, `ConsumeClaim`, `Close` | Kafka group, handlers, `App.Shutdown` | where a claim starts, rebalance, eviction, full channels, order of shutdown |
| worker pool (`pkg/async/worker.go`) | task channel, context, wait group | `Submit`, `TrySubmit`, worker loop, `Shutdown` | audit log, order notifications, `App.Shutdown` | blocking senders against cancel and close |
| distributed lock (`pkg/distlock`) | a Redis key with owner and TTL | `Acquire`, `Extend`, `Release` | scheduler | late or lost replies, expiry, crashes |
| scheduler (`pkg/scheduler`) | jobs, their cron | `Start`, `Stop`, `execute` | distributed lock | pods with different clocks, jobs that overrun, `Stop` against `Start`, shutdown while a job holds the lock |
| idempotent handlers (`pkg/broker/idempotency.go`) | `processed_events` | insert keys, call the handler, clean up | consumer, database | the key is written before the work; one of several queries fails; which messages of a batch are new |
| order module (`modules/order`) | orders, cache entries | `Create`, `Cancel`, `GetByID`, `List` | transactions, outbox, cache, pool | atomicity of order and event, optimistic locking, cache-aside races |
| user module (`modules/user`) with middleware and `pkg/auth` | users | list, get, create, update, delete behind authentication and roles | database | read-modify-write over two or three queries, soft delete, answers that get lost |
| application (`cmd/serve.go`, `pkg/app`, `pkg/grpcserver`) | what is open | boot, serve, `Run`, `Shutdown` | everything above | the order of closing against what is still under way |
| cache (`pkg/cache`) | keys, tag sets, pub/sub | get, set, delete, invalidate by tag | order module | invalidation against concurrent fills |
| websocket hub (`pkg/ws`) | clients, rooms, send channels | register, unregister, join, leave, broadcast | HTTP handlers | slow clients, close against send |
| http client, circuit breaker (`pkg/httpclient`, `pkg/circuitbreaker`, `pkg/retry`) | token cache, breaker state | calls with retries, token refresh | external services | concurrent refresh, half-open state, late results |
| rate limiters, feature flags, cron command, pagination, conversions, storage, external clients | see `PROJECT.json` | | | |

Deployment: `deployments/k8s` runs at least two pods, and every pod runs a
relay, a consumer, a worker pool and a scheduler. Everything shared goes through
PostgreSQL, Kafka and Redis. Kubernetes stops pods with SIGTERM and may kill them
at any time.

What makes each part correct:

* outbox and relay: an event reaches Kafka only if its transaction committed; a
  row is published only if Kafka has it; every committed row is eventually
  published or failed; duplicates and failures have a cause.
* consumer: nothing that was delivered and committed is lost while the process lives;
  messages of a key are handled in order; shutting down drains and ends.
* pool: an accepted task runs exactly once; `Shutdown` waits for all of them and
  returns.
* lock and scheduler: one holder at a time; nobody releases another's lock; a
  lock left behind becomes free; a job runs on one pod at a time; `Start` returns
  after its jobs, and a pod that stopped in good order leaves no lock behind.
* orders and idempotent handlers: an order and its event exist together; what a
  client is told has been committed; a message is handled once, and one that is
  skipped has a cause, outside batches that are new in part.
* http client: one fetch at a time, and only when no token is usable; a half-open
  breaker waits only for calls that will report; every call ends.
* users: a 200 or 204 is true; concurrent updates write only what was asked for.
* application: no request, message or task finds its stores, the producer or the
  pool closed; exit status 0 means that these were finished; a signal ends the process.
* websocket hub: only recovered goroutines ever meet a closed send channel; the
  hub's and the clients' records of rooms agree; a connection that has gone leaves
  no goroutine behind, whatever IDs connections share.

## 2. Modules

| Module | Models | Uses |
|---|---|---|
| `OutboxTable` | rows of `outbox_entries`, `WriteOutbox`, commit, rollback | |
| `EventChannel` | abstract: what an outbox promises (at-least-once, only committed events, settles) | |
| `Relay` | relays, retry loop, producer, kills and restarts | `OutboxTable`; implements `EventChannel` |
| `Consumer` | claim loop, dispatcher, batcher, group membership, `Close` | |
| `WorkerPool` | pool, callers, Go channel and select semantics, `Shutdown` | |
| `DistLock` | the Redis lock with discrete time | |
| `Scheduler` | `Start`, `Stop` and the executions of one job on several pods | instance of `DistLock` |
| `IdempotentHandler` | `IdempotentHandler`, `IdempotentBatchHandler`, `CleanupProcessedEvents` | |
| `OrderService` | order requests with transaction, cache and events, end to end | instances of `EventChannel` and `IdempotentHandler` |
| `HttpClient` | calls with token cache, retries and circuit breaker | |
| `UserService` | user requests from the middleware to the repository | |
| `App` | one process from `runServe` to its exit | extends `UserService` |
| `Hub` | the hub's loop and calls, both pumps, message handlers, the upgrade | |
| `RelayProofs`, `DistLockProofs`, `SchedulerProofs`, `HubProofs`, `AppProofs` | theorems | the module of that name |
| `OrderProofs`, `HttpProofs` | theorems | `OrderService`, `HttpClient` |
| `QueueProofs` | theorems | `Consumer`, `WorkerPool` |
| `MCRelay`, `MCConsumer`, `MCWorkerPool`, `MCDistLock`, `MCScheduler`, `MCHub`, `MCOrderService`, `MCHttpClient`, `MCApp` | instances for TLC | the module of that name |

**OutboxTable.** `outbox[i]` is a row. "none" covers rows never inserted and rows
rolled back; "staged" is a row of an open transaction, which no other session
sees. `backoff` says that `next_retry_at` lies in the future. Topic, key and
payload are abstracted into the id.

**Relay.** One action per step that others can interleave with: `Poll` reads a
batch (status pending, due, ordered by id, limited), `TakeEntry` starts
`publishWithRetry`, `PublishOk`, `PublishErr` and `PublishAckLost` are the outcomes
of one attempt, `NextAttempt` and `Interrupted` are the rest of `retry.Do`, and
`MarkPublished`, `MarkFailed` and `ScheduleRetry` are the three unconditional
updates, each of which may fail and is then only logged. `snap` is the relay's copy of
`RetryCount`: `scheduleRetry` increments the copy and writes it back. `AfterError`
records that `retry.IsRetryable` does not know `ProduceError`, so permanent broker
errors are retried too and only the last error decides between failed and retry.
`excuses`, `rounds` and `rejected` are history variables.

**Consumer.** A pod's `ConsumeClaim` is `Receive`, `Dispatch` (the blocking send and
the mark that follows it in the same goroutine), `CommitTick` and `LeaveClaim`. `Join`
starts at `InitialOffset`: the committed offset or, while the group has committed nothing,
the newest one, since `newSaramaConfig` leaves sarama's `Offsets.Initial` at its default. What a
claim starts over in this way is in `skipped`; `start` is where it started, because a tick
commits only what this session has marked. `Rebalance` cancels the session; `Evict` takes the
partition away from a pod that has not left in time. Workers are `Take` and
`Handle`, or `Add` for a batch subscription; `TimerFlush`, `Launched` and `FlushDone`
are the batcher. `SigTerm`, `StopBatcher`, `CloseChannels`, `WorkersDone`,
`GroupClose` and `CloseAgain` are `App.Shutdown`'s two calls of `Close`, in the
order of the code. A send on a closed channel and a second close panic and end
the process. A handler that fails or panics has handled its message: the code logs
it and goes on. The contents of a batch matter to the properties only as a set.

**WorkerPool.** `queue` is the channel's buffer and `sendq` the FIFO of blocked
senders, as in the Go runtime. `Send`, `Refuse` and `Block` are the ready cases of
the selects; `ReceiveTask` hands the freed slot to the first blocked sender. `Cancel`,
`Close` and `Wait` are the three lines of `Shutdown`.

**DistLock.** A client is one call of `Acquire` and the work under the lock. `Grant` is
`SET NX` applied in Redis, `Acquired` its reply; between the two the key's TTL already
runs. `Release` compares the value and deletes in one script; it may come late or
never. When the reply of `SET NX` is lost and the client library's repetition finds the key set,
a caller with a `RetryTimeout` goes into its loop (`ReplyLost`). `Tick` is time: it expires the key and bounds the phases that have a limit.

**Scheduler.** `execute` acquires with no retry and TTL `Timeout + Slack`; the job has
its deadline `Timeout` and may go on for `JobGrace`. `Start` and `CronStart` are the steps of
`Start` up to its wait, `ContextDone` and `StartReturns` what follows; `Stop` reads `cron`
without the mutex, does nothing when it sees nil, and may come between any two of them.
`Fire` is cron's call of `execute` and `Acquire` its `SET NX`, which may come after `Stop`. A pod may be killed. `left`
remembers keys that Redis did not give back because a reply was lost.

**IdempotentHandler.** A delivery is a sequence: one message with `IdempotentHandler`, a batch
with `IdempotentBatchHandler`, in which a message can be twice when it was redelivered before
the batch was flushed. `InsertKeys` writes the keys and calls the handler with the messages
whose key got an id (`e.ID != 0`). GORM scans the ids that PostgreSQL returns into the
slice by position, so `WithId` is the first `RowsAffected` elements, whichever keys were in
conflict; a message that is in the batch twice is passed twice. `mixed` remembers the batches
in which this matters: some rows new, some not. `InsertFails` and `QueryFails` are the error
paths of the wrapper, before and after the keys are written; `HandlerReturns` ends with
success, an error or the death of the pod; `Lose` is what the consumer never delivers.

**OrderService.** A request takes one step per statement: `InsertOrder` or `LoadOrder` and
`UpdateStatus`, `WriteEvent`, `Commit`, `DropCache`, `Notify`; reads are `Lookup`, `Read` and
`Fill`. Every step may fail, a COMMIT may be applied and its answer lost, and `Kill`
ends a request anywhere. `state` and `copies` are the channel that `Relay` implements: `Relay` and
`Settle` are its steps, so a result here holds for any number of relays. A message
is a copy of an event, since copies have different offsets. Versions are kept as
they are in the code, with the consequence described below.

**HttpClient.** `Start` is `doRequest`, `LockToken`, `Fetched` and `FetchFailed` are `clientCredentials.Token`,
`Admit` is the breaker's decision, `Answered`, `AttemptFailed`, `Retry` and `Cancelled` the retry loop,
`Decode` what follows. gobreaker is external: a generation of counts per period, and
`Report` ignores results of an older one. A token is the time at which it expires.

**UserService.** `Route` is the middleware chain down to the handler; `ValidateToken`
differs by provider. One action per query: `Load`, `UpdateSQLC` or `UpdateGORM`, `Reload`,
`SoftDelete`, `Insert`, `List`, `Count`, `Ping`, each of which may fail with or without effect.
`HandleError` maps errors to statuses as `pkg/apperror` does.

**App.** `phase` is the position of the main goroutine. Boot is one action per call of
`app.New` and `initServices`, with the exits of each; producer and consumer are made, or not,
independently. Then requests, streams, messages and tasks come and go; a message of a batch
subscription goes from its worker to the batcher's buffer (`Add`) and from there, with `flushLocked`,
to a goroutine that nobody waits for (`flushing`), which may submit tasks too. `relay` is the
goroutine that `Run` starts when there is a producer and GORM; it ends some time after the
signal, and nobody waits for it either. `SignalReceived` to `Exit` is `Run` and `Shutdown` in the order of the code, one
action per thing that is closed; `ConsumerDrained` waits for the dispatchers' workers only, and
`DispatchPanics` is the claim that sends to a closed channel meanwhile. `ShutdownHTTP` gives up after
15 s; `GracefulStop` does not.

**Hub.** A client is one connection; `id` is what `AuthFunc` returned for it, so two
connections may share an ID (all of them do without an `AuthFunc`). `Register`, `Unregister` and
`Route` are the three cases of the loop's select; `ReadMessage`, `Post` and `ReadError` are
`readPump`; `Write`, `WriteClose` and `PingError` are `writePump`. A message handler may join and
leave rooms and reply any number of times, also after its client has gone. `SendTo` and
`SendFound` are the two halves of `Hub.SendTo`, before and after the lock. A broadcast
that meets a closed channel panics in its caller after reaching any part of the
others, since maps are iterated in any order. What a message says is left out; `send` counts.

## 3. Runs

| Run | Instance | Checks | Result |
|---|---|---|---|
| `relay_one` | one relay, 3 rows, batch of 2, 2 attempts per round, 2 rounds, 2 faults, 1 reset | `DuplicatesExplained`, `FailedExplained`, `PublishedIsFinal` | hold |
| `relay_two` | two relays, 2 rows, batch of 1, 1 fault, fair | `PublishedDelivered`, `ImplementsChannel`, `Settles` | hold |
| `consumer` | two pods, 2 workers with 1 slot, 3 messages, 2 keys, batches of 2, 1 fault | `TypeOK`, `CommittedAccounted`, `OrderedPerKey`, `CloseDrains` | hold |
| `consumer_live` | the same with 2 messages, fair | `Consumed`, `ShutdownEnds` | hold |
| `consumer_close` | one pod shut down with a batch subscription | `CloseDrainsBatches` | violated |
| `pool` | 5 callers, 2 workers, queue of 2, fair | `AcceptedOnce`, `Drained`, `BlockedReturns`, `ShutdownReturns` | hold |
| `lock` | 3 clients, TTL 5, lag 2, work 2, retries, fair | `MutualExclusion`, `OnlyOwnerReleases`, `KeyFreed` | hold |
| `sched` | 2 pods, 3 executions, timeout 2, slack 3, lag 1, grace 1, fair | `OneInstance`, `StartDrains`, `NoLockLeft`, `StartEnds` | hold |
| `hub` | two connections, same or different IDs, one room, 2 messages, buffers of 1, fair | `ReaderSafe`, `RoomsAgree`, `PumpsEnd` | hold |
| `http` | 3 calls, 1 retry, a breaker that trips at the first failure and lets 2 calls in, tokens shorter and longer than the buffer, fair | `NoNeedlessFetch`, `HalfOpenAccounted`, `CallsEnd` | hold |
| `orders` | one order, 2 requests at a time, 2 workers, 2 copies of an event, one of them delivered twice, single messages or batches of 2, fair | `OrderEventTogether`, `ToldDurable`, `HandledOnce`, `SkipExplained`, `OrderAnnounced` | hold |
| `app` | 2 requests about one user, all drivers and providers, with Redis, gRPC and a plain subscription, with a batch subscription, and with nothing configured, fair | `ToldTrue`, `OnlyAskedValues`, `NoUseAfterClose`, `CleanExit`, `SignalEnds` | hold |

Every module states a type invariant `TypeOK`. It is part of what is proved for the
relay, the consumer, the pool, the lock, the scheduler and the hub, for every instance.

`consumer_close` states what a comment and a document of the repository say: `Close`
stops the batcher before the dispatcher is drained, so messages the workers still hold
are dropped by `Add`, and flushes run in goroutines that nobody waits for
(`app.go:202`, `TODO.md:7`).

### Disagreements met while modelling

The models follow the code in each of these; the properties hold with them.

* Pool: after `Shutdown` the send on the closed channel panics instead of returning
  false (`worker.go:65`, `:78`), and queued tasks are drained under a context that is
  already cancelled (`worker.go:33`). `audit.Log` blocks its caller when the queue is
  full (`audit.go:63`).
* Scheduler: a pod that reaches a slot after the lock was released runs the job a
  second time (`docs/DESIGN_PATTERNS.md:175` says once). A job that ignores its context for
  longer than the slack runs beside the next one (`scheduler.go:145`).
* Relay: two relays claim the same rows, although `pkg/database/lock.go:66-70`
  recommends SKIP LOCKED; permanent Kafka errors are retried (`errors.go:32-34`).
* Consumer: with no committed offset a claim starts at the newest one, so messages produced
  before the first member joined, or received and not yet committed when the group
  rebalances or the pod dies for the first time, are never delivered, and the next commit
  covers them (`config.go:53`; `Consumed` and `CommittedAccounted` name them as `skipped`). No
  document says where a new group starts.
* Application: flushes of batches and the relay run on while `Shutdown` closes the pool, the
  producer and the stores (`batcher.go:104`, `app.go:131`), although `README.md:174` says "Drain HTTP →
  flush batches → close resources" and `TODO.md:5` that the relay "stops via context cancellation":
  it does, but nothing waits for it. `NoUseAfterClose` is about the users that are waited for.
* Application: `Services.shutdown` closes the consumer a second time, which panics when
  something is subscribed, so Redis and the databases are not closed (`TODO.md:7`).
  `DB_DRIVER=mongo` passes `Validate`, and `New` then opens PostgreSQL with the SQLC
  repository (`config.go:144`).
* Orders: `Cancel` passes version 0 and rows start at 1, so `UpdateStatus` matches nothing and
  every `Cancel` ends in 409 (`service.go:248`, against the comment at `:229`).
* Users and orders with GORM: `FromError` does not know `gorm.ErrRecordNotFound`, so a missing
  row is answered 500 (`apperror/error.go:59`; `order/controller.go:78` says 404).
* Idempotent batch handler: "passes only new messages to the underlying handler"
  (`idempotency.go:58`) fails for a batch that is new in part. For the batch (old, new) one row is
  inserted, its id lands on the first element, and the handler gets the old message a second
  time while the new one, whose row is now there, is skipped for good (`idempotency.go:116-125`).
  For a batch that holds a message twice the handler gets it twice. TLC
  finds a violation within seven steps of `MCOrderService` when `HandledOnce` is stated without
  the exception for `mixed`.
* Idempotent handlers: the key is written before the handler runs, so a handler that
  fails is never retried (`SkipExplained` says exactly when a message is skipped). Copies that the
  relay published twice have different offsets and are both handled.
* Hub: a handler that joins a room after its client was unregistered leaves a member
  whose channel is closed (`hub.go:171` says the client is removed from all rooms), and
  connections that share an ID take each other's entry away, after which `Broadcast`
  does not reach all connected clients (`hub.go:47`). `SendTo` may send on a channel that was
  closed after the lookup and panic in its caller.
* HTTP client: a token is resolved once, before the retries, and may have expired when
  a later attempt is made (`client.go:149`); a caller that gives up counts as a failure of the
  service (`retry.go:138`). Network errors and other statuses than 502, 503 and 504
  are retried too (`client.go:172`, against `pkg/httpclient/README.md:18`).
* Cron command (not modelled): an `@every` schedule measures from a `time.Now()` read after
  the ticker was made and cuts to whole minutes, so a tick that lies just below the
  boundary runs the job a minute late (`cron.go:157`, against `cron.go:140`, "runs at a fixed
  interval"). Jobs of successive ticks may overlap and `Start` does not wait for them.

### Bounds

Every bound is a named constant. Two relays are enough for every race on a row,
since a step of a relay depends on the row and its own copy only; a batch of one
forces starvation if there is any; a batch of two with three rows gives a batch
boundary. One fault in `relay_two` and two in `relay_one` cover a fault followed by a
restart and a second fault during the recovery. In `consumer` a channel of one
message makes `Dispatch` block, three messages with two keys use both workers, and
one fault already brings redelivery, eviction, loss and shutdown. Five callers fill
a pool of two workers and two slots and leave one blocked. The timing of the lock
sits one unit above the threshold `MaxLag + HoldLimit < TTL` that the proof needs. In
`sched` the third execution is the next slot on a pod that may be stopping. In the hub
two connections are enough for one to take the other's entry, two messages put both
into the room or let one leave it, and buffers of one are full at once. In `http` two
calls fill a half-open breaker and the third is refused or comes from an earlier
generation; with `MaxTime` 2 the long token is usable at first and then is not. In
`orders` requests are reused, so two at a time give every pair of operations in any
order; a copy and its redelivery, alone, both in one batch, or in a batch with the other copy, meet on
two workers. In `app` two requests race
on one user, which is all a query of one can meet, and one task, message or stream
under way is enough to be forgotten by a shutdown that does not wait. `MCInit` picks four
combinations of configuration, driver and provider in which each occurs. `relay_two` has no
`RetryFailed`, which would take it past the time of a run; the theorems about any number of relays
include it.

### Fairness

Weak fairness of goroutine steps: Go's scheduler runs every runnable goroutine,
tickers and timers fire. Handlers and tasks are assumed to return; nothing is
assumed of callers, signals or operators. Pods are restarted (Kubernetes), and a pod
that may join the group is given the partition when nobody owns it. `BackoffElapsed` and
`Tick` are time. In the relay, fairness of `RelayStep` says nothing about success:
a broker may refuse for ever, and the row then ends as failed. In the hub the loop's
select is fair between its channels and pings are sent; nothing is assumed of peers,
handlers, callers and ordinary writes. The messages of a run are bounded; without a
bound a reader waiting for `hub.incoming` relies on the channel's FIFO of senders.

In the scheduler Redis answers or fails, jobs return, and the goroutines of `Start` and
`Stop` run; pods need not be stopped. In `http` requests end because the clients have timeouts,
the breaker's timeout passes, and the mutex is handed on to every waiter (strong
fairness: Go's mutex has a starvation mode). In `orders` the relay settles (this is
what `relay_two` shows of it), handlers return, and a message of the log is delivered or
lost, which is what `consumer_live` shows of the consumer: fairness is asked of `Lose`, which stays
enabled until the message has been delivered, so it promises no delivery. Requests need not go on.
In `app` the main goroutine goes on and message handlers and tasks return; nothing is
assumed of request handlers, of flushes and the relay or of clients that hold a stream, and `SignalEnds` says so.

## 4. Proofs

All constants are arbitrary except for the named assumptions of the modules.

**RelayProofs.** `TypeInv` adds the loop's shape to the types: a relay in
`publishWithRetry` has an entry in hand, and there is an attempt left behind every
backoff. `RelayInv` adds that ids at or above the sequence have no row (`FreshIds`), that
every row a relay has polled stays visible (`ClaimsVisible`), and that a relay about to call
`markPublished` has a message in the log (`AckedDelivered`). These parts are needed because
relays work on stale batches: a row's own status says nothing about what another
relay is about to write to it. Under `RelayInv` each action is one step of
`EventChannel`, or a stutter, with `ChannelState` as the refinement mapping:
`RelayImplementsChannel`. `DeliveryGuarantees` (`PublishedDelivered` and
`OnlyCommittedDelivered`) is then inductive over steps of the channel. Both hold for
any number of relays on the unlocked table.

With one relay (`SingleRelay`, a hypothesis of these theorems and an assumption of no
module) more is true: `DuplicatesHaveCause` (`DuplicatesExplained`), `FailuresHaveCause`
(`FailedExplained`) and `PublishedStays` (`PublishedIsFinal`, an action property). `SingleInv` adds to
`RelayInv` that the rows a relay has claimed are still pending and the entry in hand is not
waiting in its batch as well (`ClaimsPending`), so that a write never hits a published row, and
that neither a row's `RetryCount` nor the relay's copy exceeds the failed rounds that took
place (`RoundsCounted`). `ClaimsPending` is what a second relay breaks.

**QueueProofs** holds the two parts that feed goroutines through bounded channels; the
lemmas on buffers (`AppendBuffer`, `TailBuffer`) serve both.

*Pool.* `PoolInv`: the callers in `sendq` are blocked and occur once; `sendq` is empty once the
context is cancelled; a worker runs exactly while it has a task and exits only from a
closed, empty queue. Together with `AcceptedOnce` this is inductive; `TasksAcceptedOnce` and
`ShutdownDrains` follow for any callers, workers and queue size.

*Consumer.* None of the four properties is inductive alone, and `ConsumerInv` is their common
strengthening.
`ConsumerTypeCorrect` needs `ClaimInv`: the claim's position is its mark, or one above it while
`Dispatch` blocks. `CommitsAccounted` needs `MarkedAccounted`, since a tick commits whatever is
marked by then: every mark above the committed offset was handled, abandoned, skipped, or is held by
this very pod. While nothing is committed a claim starts at the newest offset, so the statements about
positions are made relative to `Floor`, the offset below which no claim will start again, which
only rises (`FloorRises`), and `StartInv` ties a claim's start to it. `KeysInOrder` (for a plain handler) is the hard one, because after a rebalance
a pod starts again at the committed offset while its workers still hold messages of the
earlier session, and these are queued a second time. `NoGap` says that what a pod was given
has no hole above the committed offset, nor above the mark of its session: a claim never
goes back behind a message the pod has not seen. So a message appended to a channel either
is new, and then all smaller ones of its shard were given before it, or repeats one; in
both cases `OrderInv` survives: whatever the worker was given and is smaller than an entry of
its pipeline is done or stands before that entry. `ClosesDrained` combines `CloseInv` (past the
drain, the workers have nothing left) with `SeenInv` (what a pod was given is done or in the
pipeline of its shard). TLC checked `ConsumerInv` on the instance of the run `consumer` before it
was proved, and on one with two faults.

**DistLockProofs.** `LockExcludes` assumes `SafeTiming`. The invariant compares timers: for a
client that is granted or works, the key is its own and the TTL left exceeds the time
the client has left, plus the work still to come. `OwnerReleases` needs no timing
assumption.

**SchedulerProofs.** `JobRunsAlone` assumes `Obedient` (`MaxLag + JobGrace < Slack`), under which the
instance of `DistLock` satisfies `SafeTiming`, and carries the lock's invariant over.
`StartWaits` (`StartDrains`) and `LocksGivenBack` (`NoLockLeft`) need no timing
assumption. Their invariant `StopInv` adds to
the types that a pod's cron is stopped once `Start` has returned (`CronInv`), that nothing
runs there (`StartDrains`), and that the owner of the key is an execution that has not ended or
is in `left` (`OwnerInv`), from which `NoLockLeft` follows.

**HubProofs.** `HubSafe` (`ReaderSafe`, with the types) and `RoomRecordsAgree` (`RoomsAgree`) hold for any
connections, IDs, rooms and buffers. The stated
properties are not inductive: unregistering looks a client up by ID and may delete
another's entry. `HubInv` adds that an entry is filed under its client's own ID and that
client's `readPump` has not ended (`EntryInv`), that a channel is closed only when `readPump` is
done (`ClosedInv`), and that a pump runs only on a connection that was opened (`ConnInv`).

**OrderProofs.** `OrderWithEvent` proves `OrderEventTogether` and `AnswersDurable` proves `ToldDurable`,
from one invariant. `OrderInv` adds that a row has a version above 0 (`VersionInv`), so the version 0 of
`Cancel` never matches and only `Create` reaches a commit; that an order being created has no
row yet and one that was created has (`CreateInv`); and that no two requests create the same
order (`UniqueInv`). `MessagesHandledOnce` proves `HandledOnce`, `SkipsHaveCause` proves `SkipExplained`, both with
the exception of `mixed` in their statement and for sequences of any length with repetitions: `HandledInv` says
that a message that is neither cleaned up nor mixed and has no row in `processed_events` has not been
handed on, and that every message delivered is done, in a worker's batch, mixed, or has met a failure. The step that matters is that
outside `mixed` the positions of the ids make no difference: all rows are new, and then no
message is repeated, or none is.

**HttpProofs.** `TokenFetchedOnce`: the mutex is held across the fetch, and a token that is not
usable stays so until the holder stores a new one. `BreakerAccounts`: `BreakerInv` counts the calls of the
current generation that are under way (`LetIn`); in the half-open state the requests let in
are the successes plus these, since any failure starts a new generation, and no call
under way belongs to a later generation than the breaker's.

**AppProofs.** `ShutdownInOrder` proves `NoUseAfterClose`, `EndsClean` proves `CleanExit`. `LifeInv`
says for every phase of the main goroutine what is open (`StoresInv`, `ProducerInv`, `PoolInv`), where messages can come from (`ConsumerInv`) and
what the phases of the shutdown have already drained (`DrainedInv`); nothing is under way
during the boot (`LoadInv`). Flushes, which outlive the consumer, can add tasks until the pool is
closed; `DrainedInv` holds because the closed pool takes none.

The user module is proved in the process that runs it. `ServesUsers` is a refinement: `App`,
with boot, shutdown and everything else, implements `UserSpec`, since only the steps of
requests touch their state and the table. `AnswersTrue` (`ToldTrue`) and `FieldsAsAsked` (`OnlyAskedValues`)
then rest on `UserInv`. An update is two or three queries with others in between, so a
request must be able to rely on what it found: `LoadedInv` says that a row it loaded is still
there, that what it read are values its user was given, and that at the reload it has written
or the row has been deleted meanwhile. This is stable because of what every query does to the
table (`TableGrows`): rows are never removed, a deleted row stays deleted, and the values
asked for only grow.

Only model-checked: all liveness (`PumpsEnd`, `Settles`, `Consumed`, `ShutdownEnds`,
`BlockedReturns`, `ShutdownReturns`, `KeyFreed`, `StartEnds`, `CallsEnd`, `OrderAnnounced`, `SignalEnds`), since
fairness and ENABLED are outside the prover. Every invariant and action property of a
passing run is stated by a theorem.

## 5. Not modelled

See `PROJECT.json` for every component and the reason. In the modelled ones: lengths
of delays and jitter, message contents, rows whose stored headers do not parse (`relay.go:95-103` marks them
failed; `WriteOutbox` writes none), the producer's circuit breaker (an open
circuit is one of the retryable errors of `PublishErr`), several partitions and topics
of one consumer (they share nothing but the dispatcher's goroutines per
subscription), several jobs of a scheduler (they have separate locks), running
without Redis, where the scheduler takes no lock at all, and `List` of orders, which
changes nothing (its `OFFSET` is cut to 32 bits, `service.go:58`). The cache fill of
a reader that was overtaken by a write (`service.go:115`) is in the model, and no property is stated
of it: as no `Cancel` ever commits, an order's status does not change after its creation and
there is no stale value to cache.

Left out as a whole: code that nothing in the repository calls (feature flags, tag
invalidation, the rate limiters and the other filters that no route installs, the
row-lock helpers), the cron command, which registers no job, conversions of values,
imaging and object storage, the clients of third-party APIs beyond their start-up, and
the generators of the command line.

## 6. What is left

1. Theorems: the type invariants of the order module, the HTTP client and the process as
   theorems of their own, and the composition of `DistLock` with `Scheduler` as a refinement.
2. Order in batch subscriptions: flushes of successive batches run concurrently
   (`batcher.go:104`), and nothing says whether keys are ordered there.
3. The parts without a caller, once a module uses them.
