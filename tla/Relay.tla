------------------------------- MODULE Relay -------------------------------
(***************************************************************************)
(* The outbox relay of pkg/broker/relay.go with the retry loop of          *)
(* pkg/retry/retry.go and the producer of pkg/broker/producer.go.  Every   *)
(* pod runs one relay on the shared table; nothing locks the rows, so      *)
(* relays work on stale copies of them.  Processes are stopped, killed and *)
(* restarted, database updates fail, and an acknowledgement may be lost    *)
(* after the broker has appended the message.                              *)
(***************************************************************************)
EXTENDS OutboxTable, FiniteSets

CONSTANTS Relays,         \* the pods that run a relay
          BatchSize,      \* RelayConfig.BatchSize
          PublishRetries, \* retry.DefaultConfig.MaxRetries
          MaxFaults,      \* bound: lost acks, failed updates, stops and kills
          MaxResets       \* bound: calls of RetryFailed

ASSUME RelayAssumption ==
    /\ BatchSize \in Nat \ {0}
    /\ PublishRetries \in Nat
    /\ MaxFaults \in Nat
    /\ MaxResets \in Nat

VARIABLES rpc,       \* relay -> where its loop is
          batch,     \* relay -> entries of this poll not yet taken up
          snap,      \* relay -> RetryCount of the entries as they were polled
          cur,       \* relay -> entry being published (0: none)
          attempt,   \* relay -> attempt of the retry loop
          ctxDone,   \* relay -> its context is cancelled
          copies,    \* id -> messages appended to the topic for the entry
          faults,    \* environment faults so far
          resets,    \* RetryFailed calls so far
          excuses,   \* history: id -> faults that justify one more copy
          rounds,    \* history: id -> rounds that ended with an error
          rejected   \* history: id -> a round ended with a permanent error

relayLocal == <<rpc, batch, snap, cur, attempt, ctxDone>>
history    == <<excuses, rounds, rejected>>
relayVars  == <<rpc, batch, snap, cur, attempt, ctxDone, copies, faults,
                resets, excuses, rounds, rejected>>
vars       == <<outbox, nextId, rpc, batch, snap, cur, attempt, ctxDone,
                copies, faults, resets, excuses, rounds, rejected>>

\* "published", "rejected" and "retry" are the calls of markPublished,
\* markFailed and scheduleRetry that publishWithRetry is about to make.
Pc == {"idle", "next", "attempt", "backoff", "published", "rejected",
       "retry", "stopped"}

TypeOK ==
    /\ OutboxTypeOK
    /\ rpc \in [Relays -> Pc]
    /\ batch \in [Relays -> SUBSET Ids]
    /\ snap \in [Relays -> [Ids -> Nat]]
    /\ cur \in [Relays -> Ids \cup {0}]
    /\ attempt \in [Relays -> 0..PublishRetries]
    /\ ctxDone \in [Relays -> BOOLEAN]
    /\ copies \in [Ids -> Nat]
    /\ faults \in 0..MaxFaults
    /\ resets \in 0..MaxResets
    /\ excuses \in [Ids -> Nat]
    /\ rounds \in [Ids -> Nat]
    /\ rejected \in [Ids -> BOOLEAN]

RelayInit ==
    /\ rpc = [r \in Relays |-> "idle"]
    /\ batch = [r \in Relays |-> {}]
    /\ snap = [r \in Relays |-> [i \in Ids |-> 0]]
    /\ cur = [r \in Relays |-> 0]
    /\ attempt = [r \in Relays |-> 0]
    /\ ctxDone = [r \in Relays |-> FALSE]
    /\ copies = [i \in Ids |-> 0]
    /\ faults = 0
    /\ resets = 0
    /\ excuses = [i \in Ids |-> 0]
    /\ rounds = [i \in Ids |-> 0]
    /\ rejected = [i \in Ids |-> FALSE]

Init == OutboxInit /\ RelayInit

----------------------------------------------------------------------------
Due(i) == outbox[i].status = "pending" /\ ~outbox[i].backoff

\* Mutant of Pollable: the rows are limited first and filtered afterwards.
PollableAfterLimit ==
    {i \in Ids : Due(i) /\ Cardinality({j \in 1..i : Visible(j)}) <= BatchSize}

\* WHERE status = pending AND next_retry_at <= now ORDER BY id LIMIT batchSize
Pollable ==
    {i \in Ids : Due(i) /\ Cardinality({j \in 1..i : Due(j)}) <= BatchSize}

\* The ticker fires and poll reads a batch.  A failed query changes nothing.
Poll(r) ==
    /\ rpc[r] = "idle"
    /\ ~ctxDone[r]
    /\ Pollable # {}
    /\ rpc' = [rpc EXCEPT ![r] = "next"]
    /\ batch' = [batch EXCEPT ![r] = Pollable]
    /\ snap' = [snap EXCEPT ![r] =
                  [i \in Ids |-> IF i \in Pollable THEN outbox[i].retryCount
                                                   ELSE 0]]
    /\ UNCHANGED <<outboxVars, cur, attempt, ctxDone, copies, faults, resets,
                   history>>

\* poll's loop is over, or finds the context cancelled.
PollDone(r) ==
    /\ rpc[r] = "next"
    /\ batch[r] = {} \/ ctxDone[r]
    /\ rpc' = [rpc EXCEPT ![r] = "idle"]
    /\ batch' = [batch EXCEPT ![r] = {}]
    /\ UNCHANGED <<outboxVars, snap, cur, attempt, ctxDone, copies, faults,
                   resets, history>>

\* The next entry of the batch, in id order, enters publishWithRetry.
TakeEntry(r, i) ==
    /\ rpc[r] = "next"
    /\ ~ctxDone[r]
    /\ i \in batch[r]
    /\ \A j \in batch[r] : i <= j
    /\ rpc' = [rpc EXCEPT ![r] = "attempt"]
    /\ batch' = [batch EXCEPT ![r] = @ \ {i}]
    /\ cur' = [cur EXCEPT ![r] = i]
    /\ attempt' = [attempt EXCEPT ![r] = 0]
    /\ UNCHANGED <<outboxVars, snap, ctxDone, copies, faults, resets, history>>

\* Publish returns nil: all in-sync replicas have the message.  retry.Do looks
\* at the context before the call and Publish does not see it, so the check
\* and the call are one step; a later cancellation is a later Cancel.
PublishOk(r) ==
    /\ rpc[r] = "attempt"
    /\ ~ctxDone[r]
    /\ rpc' = [rpc EXCEPT ![r] = "published"]
    /\ copies' = [copies EXCEPT ![cur[r]] = @ + 1]
    /\ UNCHANGED <<outboxVars, batch, snap, cur, attempt, ctxDone, faults,
                   resets, history>>

\* Mutant of AfterError: the error of the last attempt is swallowed.
AfterErrorSwallowed(r, permanent) ==
    IF attempt[r] < PublishRetries THEN "backoff" ELSE "published"

\* What retry.Do makes of an error of Publish.  A ProduceError is neither a
\* net.Error nor an HTTPError, so retry.IsRetryable retries every kind; only
\* the error of the last attempt decides between markFailed and scheduleRetry.
AfterError(r, permanent) ==
    IF attempt[r] < PublishRetries THEN "backoff"
    ELSE IF permanent THEN "rejected" ELSE "retry"

\* Publish fails and the broker did not append the message.
PublishErr(r, permanent) ==
    /\ rpc[r] = "attempt"
    /\ ~ctxDone[r]
    /\ rpc' = [rpc EXCEPT ![r] = AfterError(r, permanent)]
    /\ UNCHANGED <<outboxVars, batch, snap, cur, attempt, ctxDone, copies,
                   faults, resets, history>>

\* The acknowledgement of an appended message is lost.  The producer is not
\* idempotent: sarama sends the message again (resend), or Publish gives up
\* with a retryable error.
PublishAckLost(r, resend) ==
    /\ rpc[r] = "attempt"
    /\ ~ctxDone[r]
    /\ faults < MaxFaults
    /\ faults' = faults + 1
    /\ rpc' = [rpc EXCEPT ![r] = IF resend THEN @ ELSE AfterError(r, FALSE)]
    /\ copies' = [copies EXCEPT ![cur[r]] = @ + 1]
    /\ excuses' = [excuses EXCEPT ![cur[r]] = @ + 1]
    /\ UNCHANGED <<outboxVars, batch, snap, cur, attempt, ctxDone, resets,
                   rounds, rejected>>

\* The delay between two attempts has passed.
NextAttempt(r) ==
    /\ rpc[r] = "backoff"
    /\ rpc' = [rpc EXCEPT ![r] = "attempt"]
    /\ attempt' = [attempt EXCEPT ![r] = @ + 1]
    /\ UNCHANGED <<outboxVars, batch, snap, cur, ctxDone, copies, faults,
                   resets, history>>

\* retry.Do finds the context cancelled.  ctx.Err() is no ProduceError, so
\* the round counts as a retryable failure.
Interrupted(r) ==
    /\ rpc[r] \in {"attempt", "backoff"}
    /\ ctxDone[r]
    /\ rpc' = [rpc EXCEPT ![r] = "retry"]
    /\ UNCHANGED <<outboxVars, batch, snap, cur, attempt, ctxDone, copies,
                   faults, resets, history>>

----------------------------------------------------------------------------
\* The updates of publishWithRetry: UPDATE ... WHERE id = ?, with no check of
\* the row's status.  When ok is FALSE the update fails and is only logged.
EndRound(r, ok, row) ==
    /\ ok \/ faults < MaxFaults
    /\ faults' = IF ok THEN faults ELSE faults + 1
    /\ outbox' = IF ok THEN [outbox EXCEPT ![cur[r]] = row] ELSE outbox
    /\ rpc' = [rpc EXCEPT ![r] = "next"]
    /\ cur' = [cur EXCEPT ![r] = 0]
    /\ attempt' = [attempt EXCEPT ![r] = 0]
    /\ UNCHANGED <<nextId, batch, snap, ctxDone, copies, resets>>

\* Mutant of MarkPublished: the update leaves the status column out.
MarkPublishedNoStatus(r, ok) ==
    /\ rpc[r] = "published"
    /\ EndRound(r, ok, outbox[cur[r]])
    /\ excuses' = [excuses EXCEPT ![cur[r]] = IF ok THEN @ ELSE @ + 1]
    /\ UNCHANGED <<rounds, rejected>>

MarkPublished(r, ok) ==
    /\ rpc[r] = "published"
    /\ EndRound(r, ok, [outbox[cur[r]] EXCEPT !.status = "published"])
    /\ excuses' = [excuses EXCEPT ![cur[r]] = IF ok THEN @ ELSE @ + 1]
    /\ UNCHANGED <<rounds, rejected>>

MarkFailed(r, ok) ==
    /\ rpc[r] = "rejected"
    /\ EndRound(r, ok, [outbox[cur[r]] EXCEPT !.status = "failed"])
    /\ rejected' = [rejected EXCEPT ![cur[r]] = TRUE]
    /\ UNCHANGED <<excuses, rounds>>

\* Mutant of Retried: off by one.
RetriedEarly(r) ==
    LET count == snap[r][cur[r]] + 1
        row   == outbox[cur[r]]
    IN  IF count + 1 >= DefaultMaxRetries
        THEN [row EXCEPT !.status = "failed"]
        ELSE [row EXCEPT !.retryCount = count, !.backoff = TRUE]

\* entry.RetryCount is the relay's own copy of the column.
Retried(r) ==
    LET count == snap[r][cur[r]] + 1
        row   == outbox[cur[r]]
    IN  IF count >= DefaultMaxRetries
        THEN [row EXCEPT !.status = "failed"]
        ELSE [row EXCEPT !.retryCount = count, !.backoff = TRUE]

ScheduleRetry(r, ok) ==
    /\ rpc[r] = "retry"
    /\ EndRound(r, ok, Retried(r))
    /\ rounds' = [rounds EXCEPT ![cur[r]] = @ + 1]
    /\ UNCHANGED <<excuses, rejected>>

\* Mutant of RetryFailed: it resets published rows too.
RetryAllRows ==
    /\ resets < MaxResets
    /\ resets' = resets + 1
    /\ outbox' = [i \in Ids |->
                    IF outbox[i].status \in {"failed", "published"}
                    THEN [status |-> "pending", retryCount |-> 0,
                          backoff |-> FALSE]
                    ELSE outbox[i]]
    /\ UNCHANGED <<nextId, relayLocal, copies, faults, history>>

\* An operator resets every failed row.
RetryFailed ==
    /\ resets < MaxResets
    /\ resets' = resets + 1
    /\ outbox' = [i \in Ids |->
                    IF outbox[i].status = "failed"
                    THEN [status |-> "pending", retryCount |-> 0,
                          backoff |-> FALSE]
                    ELSE outbox[i]]
    /\ rounds' = [i \in Ids |-> IF outbox[i].status = "failed" THEN 0
                                ELSE rounds[i]]
    /\ rejected' = [i \in Ids |-> outbox[i].status # "failed" /\ rejected[i]]
    /\ UNCHANGED <<nextId, relayLocal, copies, faults, excuses>>

----------------------------------------------------------------------------
\* SIGTERM cancels the context that App.Run passed to Relay.Run.
Cancel(r) ==
    /\ rpc[r] # "stopped"
    /\ ~ctxDone[r]
    /\ faults < MaxFaults
    /\ faults' = faults + 1
    /\ ctxDone' = [ctxDone EXCEPT ![r] = TRUE]
    /\ UNCHANGED <<outboxVars, rpc, batch, snap, cur, attempt, copies, resets,
                   history>>

\* Run's select sees the cancelled context and returns.
Stop(r) ==
    /\ rpc[r] = "idle"
    /\ ctxDone[r]
    /\ rpc' = [rpc EXCEPT ![r] = "stopped"]
    /\ UNCHANGED <<outboxVars, batch, snap, cur, attempt, ctxDone, copies,
                   faults, resets, history>>

\* The process is killed (nothing waits for the relay's goroutine).  Killed
\* between the acknowledgement and markPublished, it leaves a copy behind.
Kill(r) ==
    /\ rpc[r] # "stopped"
    /\ faults < MaxFaults
    /\ faults' = faults + 1
    /\ rpc' = [rpc EXCEPT ![r] = "stopped"]
    /\ batch' = [batch EXCEPT ![r] = {}]
    /\ cur' = [cur EXCEPT ![r] = 0]
    /\ attempt' = [attempt EXCEPT ![r] = 0]
    /\ excuses' = IF rpc[r] = "published"
                  THEN [excuses EXCEPT ![cur[r]] = @ + 1] ELSE excuses
    /\ UNCHANGED <<outboxVars, snap, ctxDone, copies, resets, rounds, rejected>>

\* The pod is started again.
Restart(r) ==
    /\ rpc[r] = "stopped"
    /\ rpc' = [rpc EXCEPT ![r] = "idle"]
    /\ ctxDone' = [ctxDone EXCEPT ![r] = FALSE]
    /\ UNCHANGED <<outboxVars, batch, snap, cur, attempt, copies, faults,
                   resets, history>>

\* Time passes next_retry_at of row i.
BackoffElapsed(i) ==
    /\ outbox[i].backoff
    /\ outbox' = [outbox EXCEPT ![i].backoff = FALSE]
    /\ UNCHANGED <<nextId, relayVars>>

----------------------------------------------------------------------------
\* The steps of relay r's own goroutine, its environment aside.
RelayStep(r) ==
    \/ Poll(r) \/ PollDone(r) \/ \E i \in Ids : TakeEntry(r, i)
    \/ PublishOk(r) \/ \E permanent \in BOOLEAN : PublishErr(r, permanent)
    \/ \E resend \in BOOLEAN : PublishAckLost(r, resend)
    \/ NextAttempt(r) \/ Interrupted(r)
    \/ \E ok \in BOOLEAN :
          MarkPublished(r, ok) \/ MarkFailed(r, ok) \/ ScheduleRetry(r, ok)
    \/ Stop(r)

RelayNext ==
    \/ \E r \in Relays : RelayStep(r) \/ Cancel(r) \/ Kill(r) \/ Restart(r)
    \/ RetryFailed
    \/ \E i \in Ids : BackoffElapsed(i)

\* Transactions of the business modules, any number of them open at once.
WriterNext ==
    /\ WriteOutbox \/ \E i \in Ids : CommitEntry(i) \/ RollbackEntry(i)
    /\ UNCHANGED relayVars

Next == RelayNext \/ WriterNext

Spec == Init /\ [][Next]_vars

\* Goroutines are scheduled, timers fire and pods are restarted.
FairSpec ==
    /\ Spec
    /\ \A r \in Relays : WF_vars(RelayStep(r)) /\ WF_vars(Restart(r))
    /\ \A i \in Ids : WF_vars(BackoffElapsed(i))

----------------------------------------------------------------------------
\* A row is marked published only if the broker has the message, whatever
\* relays with stale batches, kills and failed updates do in between.
PublishedDelivered ==
    \A i \in Ids : outbox[i].status = "published" => copies[i] > 0

\* Only events of committed transactions reach the broker: never the row of
\* an open or rolled-back transaction.
OnlyCommittedDelivered == \A i \in Ids : copies[i] > 0 => Visible(i)

\* The relay that has an acknowledgement for i but has not recorded it yet.
Acked(i) == \E r \in Relays : rpc[r] = "published" /\ cur[r] = i

\* With one relay, every copy after the first is accounted for by a fault of
\* this entry: a lost acknowledgement, a failed markPublished, or a kill
\* between the acknowledgement and markPublished.
DuplicatesExplained ==
    \A i \in Ids :
        copies[i] <= excuses[i] + (IF outbox[i].status = "published" \/ Acked(i)
                                   THEN 1 ELSE 0)

\* With one relay, a row is failed only after the broker refused it for good
\* or after DefaultMaxRetries rounds since it was written or reset ended
\* with an error; lost updates and restarts never shorten that.
FailedExplained ==
    \A i \in Ids : outbox[i].status = "failed" =>
                      rejected[i] \/ rounds[i] >= DefaultMaxRetries

\* With one relay, a published row stays published.
PublishedIsFinal ==
    [][\A i \in Ids : outbox[i].status = "published" =>
                         outbox'[i].status = "published"]_vars

\* The abstract state of an entry whose row has this status.
ChannelOf(status) == CASE status = "pending"   -> "open"
                       [] status = "published" -> "confirmed"
                       [] status = "failed"    -> "abandoned"
                       [] OTHER                -> "absent"

ChannelState == [i \in Ids |-> ChannelOf(outbox[i].status)]

Channel == INSTANCE EventChannel WITH Events <- Ids, state <- ChannelState

\* Every step of the relays and writers is a step of the abstract channel.
ImplementsChannel == Channel!Spec

\* Every committed row is eventually published or failed: rows whose ids
\* became visible out of order are not skipped, and rows that keep failing
\* do not hold up the ones behind them.
Settles == Channel!Settles

============================================================================
