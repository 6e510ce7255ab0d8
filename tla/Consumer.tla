------------------------------ MODULE Consumer ------------------------------
(***************************************************************************)
(* The consumer group member of pkg/broker/consumer.go with its key-       *)
(* sharded dispatcher (dispatcher.go) and its batcher (batcher.go), on one *)
(* partition of one subscribed topic.  Pods of the group lose the          *)
(* partition to each other, are killed, and are shut down by               *)
(* App.Shutdown.  Offsets are marked when a message is queued and          *)
(* committed on a ticker; auto-commit is off, so marks that no tick has    *)
(* committed are forgotten when the claim ends.  config.go leaves sarama's *)
(* Offsets.Initial at its default, newest: while the group has committed   *)
(* nothing, a claim starts behind the last message, and what was produced  *)
(* before is never delivered.                                              *)
(***************************************************************************)
EXTENDS Naturals, Sequences, Bags, Functions

CONSTANTS Pods,            \* members of the consumer group
          NoPod,           \* nobody owns the partition
          Workers,         \* ConsumerConfig.Workers: 0..Workers-1
          BufferPerWorker, \* ConsumerConfig.BufferPerWorker
          Size,            \* BatchOpts.Size
          MaxOffset,       \* bound: messages in the partition
          KeyOf,           \* offset -> key of the message
          Shard,           \* key -> FNV-32a hash modulo Workers
          MaxFaults        \* bound: rebalances, kills and shutdowns

Offsets   == 1..MaxOffset
WorkerIds == 0..(Workers - 1)

ASSUME ConsumerAssumption ==
    /\ NoPod \notin Pods
    /\ Workers \in Nat \ {0}
    /\ BufferPerWorker \in Nat \ {0}
    /\ Size \in Nat \ {0}
    /\ MaxOffset \in Nat
    /\ MaxFaults \in Nat
    /\ \A o \in Offsets : Shard[KeyOf[o]] \in WorkerIds

VARIABLES kind,      \* "plain": Subscribe, "batch": SubscribeBatch
          hw,        \* last offset of the partition
          committed, \* the group's committed offset (0: none yet)
          owner,     \* pod the partition is assigned to
          up,        \* pod -> its process runs
          cpc,       \* pod -> where ConsumeClaim is
          start,     \* pod -> the offset its claim starts behind
          pos,       \* pod -> last offset received from the claim
          marked,    \* pod -> last offset marked (start: none in this session)
          ctxDone,   \* pod -> the session's context is cancelled
          chans,     \* pod -> worker -> queued offsets
          closed,    \* pod -> the worker channels are closed
          busy,      \* pod -> worker -> offset in safeHandle (0: none)
          buffer,    \* pod -> Batcher.buffer
          stopped,   \* pod -> Batcher.stopped
          flights,   \* pod -> bag of the batches in safeFlush goroutines
          stage,     \* pod -> how far App.Shutdown's Close has come
          faults,    \* faults so far
          seen,      \* history: pod -> offsets dispatched since it started
          done,      \* history: pod -> offsets handled since it started
          handled,   \* history: offsets handled by some pod
          abandoned, \* history: offsets dropped, or committed and lost
          skipped    \* history: offsets a claim without a commit started over

claimVars  == <<cpc, start, pos, marked, ctxDone>>
workerVars == <<chans, closed, busy>>
batchVars  == <<buffer, stopped, flights>>
groupVars  == <<kind, hw, committed, owner>>
histVars   == <<seen, done, handled, abandoned, skipped>>
vars == <<kind, hw, committed, owner, up, cpc, start, pos, marked, ctxDone,
          chans, closed, busy, buffer, stopped, flights, stage, faults, seen,
          done, handled, abandoned, skipped>>

Stages == {"run", "cancelled", "flushed", "closing", "drained", "closed"}

TypeOK ==
    /\ kind \in {"plain", "batch"}
    /\ hw \in 0..MaxOffset
    /\ committed \in 0..MaxOffset
    /\ owner \in Pods \cup {NoPod}
    /\ up \in [Pods -> BOOLEAN]
    /\ cpc \in [Pods -> {"none", "recv", "dispatch"}]
    /\ start \in [Pods -> 0..MaxOffset]
    /\ pos \in [Pods -> 0..MaxOffset]
    /\ marked \in [Pods -> 0..MaxOffset]
    /\ ctxDone \in [Pods -> BOOLEAN]
    /\ chans \in [Pods -> [WorkerIds -> Seq(Offsets)]]
    /\ \A p \in Pods, w \in WorkerIds : Len(chans[p][w]) <= BufferPerWorker
    /\ closed \in [Pods -> BOOLEAN]
    /\ busy \in [Pods -> [WorkerIds -> 0..MaxOffset]]
    /\ buffer \in [Pods -> Seq(Offsets)]
    /\ \A p \in Pods : Len(buffer[p]) < Size
    /\ stopped \in [Pods -> BOOLEAN]
    /\ \A p \in Pods : IsABag(flights[p]) /\ BagToSet(flights[p]) \subseteq SUBSET Offsets
    /\ stage \in [Pods -> Stages]
    /\ faults \in 0..MaxFaults
    /\ seen \in [Pods -> SUBSET Offsets]
    /\ done \in [Pods -> SUBSET Offsets]
    /\ handled \subseteq Offsets
    /\ abandoned \subseteq Offsets
    /\ skipped \subseteq Offsets

Init ==
    /\ kind \in {"plain", "batch"}
    /\ hw = 0
    /\ committed = 0
    /\ owner = NoPod
    /\ up = [p \in Pods |-> TRUE]
    /\ cpc = [p \in Pods |-> "none"]
    /\ start = [p \in Pods |-> 0]
    /\ pos = [p \in Pods |-> 0]
    /\ marked = [p \in Pods |-> 0]
    /\ ctxDone = [p \in Pods |-> FALSE]
    /\ chans = [p \in Pods |-> [w \in WorkerIds |-> <<>>]]
    /\ closed = [p \in Pods |-> FALSE]
    /\ busy = [p \in Pods |-> [w \in WorkerIds |-> 0]]
    /\ buffer = [p \in Pods |-> <<>>]
    /\ stopped = [p \in Pods |-> FALSE]
    /\ flights = [p \in Pods |-> EmptyBag]
    /\ stage = [p \in Pods |-> "run"]
    /\ faults = 0
    /\ seen = [p \in Pods |-> {}]
    /\ done = [p \in Pods |-> {}]
    /\ handled = {}
    /\ abandoned = {}
    /\ skipped = {}

\* What pod p has dispatched and not handed to the handler yet.
HeldBy(p) ==
    UNION ({Range(chans[p][w]) : w \in WorkerIds}
           \cup {{busy[p][w]} \ {0} : w \in WorkerIds}
           \cup {Range(buffer[p])}
           \cup BagToSet(flights[p]))

----------------------------------------------------------------------------
\* A producer appends a message.
Produce ==
    /\ hw < MaxOffset
    /\ hw' = hw + 1
    /\ UNCHANGED <<kind, committed, owner, up, claimVars, workerVars,
                   batchVars, stage, faults, histVars>>

\* Where a claim of the group starts: behind the committed offset, or behind
\* the newest message when nothing is committed.
InitialOffset == IF committed = 0 THEN hw ELSE committed

\* Start's loop calls Consume; the group assigns the partition to p.
Join(p) ==
    /\ up[p]
    /\ stage[p] = "run"
    /\ cpc[p] = "none"
    /\ owner = NoPod
    /\ owner' = p
    /\ cpc' = [cpc EXCEPT ![p] = "recv"]
    /\ start' = [start EXCEPT ![p] = InitialOffset]
    /\ pos' = [pos EXCEPT ![p] = InitialOffset]
    /\ marked' = [marked EXCEPT ![p] = InitialOffset]
    /\ skipped' = skipped \cup ((committed + 1)..InitialOffset)
    /\ UNCHANGED <<kind, hw, committed, up, ctxDone, workerVars, batchVars,
                   stage, faults, seen, done, handled, abandoned>>

\* ConsumeClaim's select takes a message; it may do so after the context is
\* cancelled, since both cases are ready.
Receive(p) ==
    /\ cpc[p] = "recv"
    /\ pos[p] < hw
    /\ cpc' = [cpc EXCEPT ![p] = "dispatch"]
    /\ pos' = [pos EXCEPT ![p] = @ + 1]
    /\ UNCHANGED <<groupVars, up, start, marked, ctxDone, workerVars,
                   batchVars, stage, faults, histVars>>

\* Mutant of ShardIndex: messages are dealt to the workers in turn.
ShardRoundRobin(o) == o % Workers

ShardIndex(o) == Shard[KeyOf[o]]

\* Mutant of Room: one message more than the channel's capacity.
RoomOneMore(p, w) == Len(chans[p][w]) <= BufferPerWorker

Room(p, w) == Len(chans[p][w]) < BufferPerWorker

\* Mutant of Dispatch: a full channel drops the message, which is marked.
DispatchDrops(p) ==
    LET w == ShardIndex(pos[p])
    IN  /\ cpc[p] = "dispatch"
        /\ ~closed[p]
        /\ chans' = IF Room(p, w) THEN [chans EXCEPT ![p][w] = Append(@, pos[p])]
                                  ELSE chans
        /\ cpc' = [cpc EXCEPT ![p] = "recv"]
        /\ marked' = [marked EXCEPT ![p] = pos[p]]
        /\ seen' = [seen EXCEPT ![p] = @ \cup {pos[p]}]
        /\ UNCHANGED <<groupVars, up, start, pos, ctxDone, closed, busy,
                       batchVars, stage, faults, done, handled, abandoned,
                       skipped>>

\* Dispatch, which blocks while the worker's channel is full and does not see
\* the context, and then MarkMessage.
Dispatch(p) ==
    LET w == ShardIndex(pos[p])
    IN  /\ cpc[p] = "dispatch"
        /\ ~closed[p]
        /\ Room(p, w)
        /\ chans' = [chans EXCEPT ![p][w] = Append(@, pos[p])]
        /\ cpc' = [cpc EXCEPT ![p] = "recv"]
        /\ marked' = [marked EXCEPT ![p] = pos[p]]
        /\ seen' = [seen EXCEPT ![p] = @ \cup {pos[p]}]
        /\ UNCHANGED <<groupVars, up, start, pos, ctxDone, closed, busy,
                       batchVars, stage, faults, done, handled, abandoned,
                       skipped>>

\* The ticker fires and Commit is sent if this session has marked something
\* new; Kafka refuses it from a pod that no longer owns the partition.
CommitTick(p) ==
    /\ cpc[p] = "recv"
    /\ owner = p
    /\ start[p] < marked[p]
    /\ committed < marked[p]
    /\ committed' = marked[p]
    /\ UNCHANGED <<kind, hw, owner, up, claimVars, workerVars, batchVars,
                   stage, faults, histVars>>

\* ConsumeClaim and its session are over; uncommitted marks are forgotten.
EndSession(p) ==
    /\ cpc' = [cpc EXCEPT ![p] = "none"]
    /\ start' = [start EXCEPT ![p] = 0]
    /\ pos' = [pos EXCEPT ![p] = 0]
    /\ marked' = [marked EXCEPT ![p] = 0]
    /\ ctxDone' = [ctxDone EXCEPT ![p] = FALSE]
    /\ owner' = IF owner = p THEN NoPod ELSE owner

\* ConsumeClaim sees the cancelled context (or the closed claim) and returns.
\* Cleanup does nothing: what the workers hold stays with them.
LeaveClaim(p) ==
    /\ cpc[p] = "recv"
    /\ ctxDone[p]
    /\ EndSession(p)
    /\ UNCHANGED <<kind, hw, committed, up, workerVars, batchVars, stage,
                   faults, histVars>>

\* The group rebalances and cancels p's session.
Rebalance(p) ==
    /\ owner = p
    /\ ~ctxDone[p]
    /\ faults < MaxFaults
    /\ faults' = faults + 1
    /\ ctxDone' = [ctxDone EXCEPT ![p] = TRUE]
    /\ UNCHANGED <<groupVars, up, cpc, start, pos, marked, workerVars,
                   batchVars, stage, histVars>>

\* p has not left its claim within the rebalance timeout: it loses the
\* partition while ConsumeClaim is still running.
Evict(p) ==
    /\ owner = p
    /\ ctxDone[p]
    /\ owner' = NoPod
    /\ UNCHANGED <<kind, hw, committed, up, claimVars, workerVars, batchVars,
                   stage, faults, histVars>>

----------------------------------------------------------------------------
\* A worker takes the next message off its channel.
Take(p, w) ==
    /\ busy[p][w] = 0
    /\ chans[p][w] # <<>>
    /\ busy' = [busy EXCEPT ![p][w] = Head(chans[p][w])]
    /\ chans' = [chans EXCEPT ![p][w] = Tail(@)]
    /\ UNCHANGED <<groupVars, up, claimVars, closed, batchVars, stage, faults,
                   histVars>>

\* safeHandle is over.  An error or a panic of the handler is logged and the
\* message counts as handled.
Handle(p, w) ==
    /\ kind = "plain"
    /\ busy[p][w] # 0
    /\ busy' = [busy EXCEPT ![p][w] = 0]
    /\ done' = [done EXCEPT ![p] = @ \cup {busy[p][w]}]
    /\ handled' = handled \cup {busy[p][w]}
    /\ UNCHANGED <<groupVars, up, claimVars, chans, closed, batchVars, stage,
                   faults, seen, abandoned, skipped>>

\* flushLocked: the messages of the buffer go to a safeFlush goroutine.
Launched(p, messages) ==
    [flights EXCEPT ![p] = @ (+) SetToBag({Range(messages)})]

\* Batcher.Add as the handler: a stopped batcher drops the message, a full
\* buffer is handed to a goroutine of its own.
Add(p, w) ==
    LET grown == Append(buffer[p], busy[p][w])
    IN  /\ kind = "batch"
        /\ busy[p][w] # 0
        /\ busy' = [busy EXCEPT ![p][w] = 0]
        /\ \/ /\ stopped[p]
              /\ abandoned' = abandoned \cup {busy[p][w]}
              /\ UNCHANGED <<buffer, flights>>
           \/ /\ ~stopped[p]
              /\ Len(grown) < Size
              /\ buffer' = [buffer EXCEPT ![p] = grown]
              /\ UNCHANGED <<flights, abandoned>>
           \/ /\ ~stopped[p]
              /\ Len(grown) >= Size
              /\ buffer' = [buffer EXCEPT ![p] = <<>>]
              /\ flights' = Launched(p, grown)
              /\ UNCHANGED abandoned
        /\ UNCHANGED <<groupVars, up, claimVars, chans, closed, stopped, stage,
                       faults, seen, done, handled, skipped>>

\* Mutant of TimerFlush: the interval flushes full batches only.
TimerFlushFull(p) ==
    /\ ~stopped[p]
    /\ Len(buffer[p]) >= Size
    /\ buffer' = [buffer EXCEPT ![p] = <<>>]
    /\ flights' = Launched(p, buffer[p])
    /\ UNCHANGED <<groupVars, up, claimVars, workerVars, stopped, stage,
                   faults, histVars>>

\* The flush interval has passed.
TimerFlush(p) ==
    /\ ~stopped[p]
    /\ buffer[p] # <<>>
    /\ buffer' = [buffer EXCEPT ![p] = <<>>]
    /\ flights' = Launched(p, buffer[p])
    /\ UNCHANGED <<groupVars, up, claimVars, workerVars, stopped, stage,
                   faults, histVars>>

\* The safeFlush of a batch is over; flushes run concurrently and end in any
\* order.
FlushDone(p, batch) ==
    /\ BagIn(batch, flights[p])
    /\ flights' = [flights EXCEPT ![p] = @ (-) SetToBag({batch})]
    /\ done' = [done EXCEPT ![p] = @ \cup batch]
    /\ handled' = handled \cup batch
    /\ UNCHANGED <<groupVars, up, claimVars, workerVars, buffer, stopped,
                   stage, faults, seen, abandoned, skipped>>

----------------------------------------------------------------------------
\* The process of p ends: what it holds is gone.  A message that is not
\* committed will be delivered again; a committed one is lost.
Die(p) ==
    /\ up' = [up EXCEPT ![p] = FALSE]
    /\ EndSession(p)
    /\ chans' = [chans EXCEPT ![p] = [w \in WorkerIds |-> <<>>]]
    /\ closed' = [closed EXCEPT ![p] = FALSE]
    /\ busy' = [busy EXCEPT ![p] = [w \in WorkerIds |-> 0]]
    /\ buffer' = [buffer EXCEPT ![p] = <<>>]
    /\ stopped' = [stopped EXCEPT ![p] = FALSE]
    /\ flights' = [flights EXCEPT ![p] = EmptyBag]
    /\ stage' = [stage EXCEPT ![p] = "run"]
    /\ seen' = [seen EXCEPT ![p] = {}]
    /\ done' = [done EXCEPT ![p] = {}]
    /\ abandoned' = abandoned \cup {o \in HeldBy(p) : o <= committed}
    /\ UNCHANGED <<kind, hw, committed, handled, skipped>>

Kill(p) ==
    /\ up[p]
    /\ faults < MaxFaults
    /\ faults' = faults + 1
    /\ Die(p)

Restart(p) ==
    /\ ~up[p]
    /\ up' = [up EXCEPT ![p] = TRUE]
    /\ UNCHANGED <<groupVars, claimVars, workerVars, batchVars, stage, faults,
                   histVars>>

\* SIGTERM: App.Shutdown calls Close, which first cancels the context of Start
\* and with it the session's.
SigTerm(p) ==
    /\ up[p]
    /\ stage[p] = "run"
    /\ faults < MaxFaults
    /\ faults' = faults + 1
    /\ stage' = [stage EXCEPT ![p] = "cancelled"]
    /\ ctxDone' = [ctxDone EXCEPT ![p] = cpc[p] # "none"]
    /\ UNCHANGED <<groupVars, up, cpc, start, pos, marked, workerVars,
                   batchVars, histVars>>

\* Batcher.Shutdown flushes the buffer in a goroutine nobody waits for.
StopBatcher(p) ==
    /\ stage[p] = "cancelled"
    /\ stage' = [stage EXCEPT ![p] = "flushed"]
    /\ stopped' = [stopped EXCEPT ![p] = kind = "batch"]
    /\ buffer' = [buffer EXCEPT ![p] = <<>>]
    /\ flights' = IF buffer[p] = <<>> THEN flights
                  ELSE Launched(p, buffer[p])
    /\ UNCHANGED <<groupVars, up, claimVars, workerVars, faults, histVars>>

\* Mutant of CloseChannels: Shutdown waits for workers it has not told.
CloseChannelsForgotten(p) ==
    /\ stage[p] = "flushed"
    /\ stage' = [stage EXCEPT ![p] = "closing"]
    /\ UNCHANGED <<groupVars, up, claimVars, workerVars, batchVars, faults,
                   histVars>>

\* dispatcher.Shutdown closes the worker channels.
CloseChannels(p) ==
    /\ stage[p] = "flushed"
    /\ stage' = [stage EXCEPT ![p] = "closing"]
    /\ closed' = [closed EXCEPT ![p] = TRUE]
    /\ UNCHANGED <<groupVars, up, claimVars, chans, busy, batchVars, faults,
                   histVars>>

\* A send on a closed channel panics in ConsumeClaim, also in one that was
\* blocked on the full channel: the process ends.
SendPanics(p) ==
    /\ cpc[p] = "dispatch"
    /\ closed[p]
    /\ Die(p)
    /\ UNCHANGED faults

\* Mutant of Exited: a worker counts as done once its channel is empty.
ExitedEarly(p, w) == closed[p] /\ chans[p][w] = <<>>

\* runWorker has left its loop over the closed channel.
Exited(p, w) == closed[p] /\ chans[p][w] = <<>> /\ busy[p][w] = 0

\* wg.Wait returns.
WorkersDone(p) ==
    /\ stage[p] = "closing"
    /\ \A w \in WorkerIds : Exited(p, w)
    /\ stage' = [stage EXCEPT ![p] = "drained"]
    /\ UNCHANGED <<groupVars, up, claimVars, workerVars, batchVars, faults,
                   histVars>>

\* group.Close waits for the session to end.  Close returns.
GroupClose(p) ==
    /\ stage[p] = "drained"
    /\ cpc[p] = "none"
    /\ stage' = [stage EXCEPT ![p] = "closed"]
    /\ UNCHANGED <<groupVars, up, claimVars, workerVars, batchVars, faults,
                   histVars>>

\* Services.shutdown calls Close again, which closes closed channels: the
\* panic ends the process.
CloseAgain(p) ==
    /\ stage[p] = "closed"
    /\ Die(p)
    /\ UNCHANGED faults

----------------------------------------------------------------------------
ClaimStep(p) ==
    Join(p) \/ Receive(p) \/ Dispatch(p) \/ LeaveClaim(p) \/ SendPanics(p)

WorkerStep(p, w) == Take(p, w) \/ Handle(p, w) \/ Add(p, w)

CloseStep(p) ==
    \/ StopBatcher(p) \/ CloseChannels(p) \/ WorkersDone(p) \/ GroupClose(p)
    \/ CloseAgain(p)

Next ==
    \/ Produce
    \/ \E p \in Pods :
          \/ ClaimStep(p) \/ CommitTick(p) \/ CloseStep(p)
          \/ \E w \in WorkerIds : WorkerStep(p, w)
          \/ TimerFlush(p) \/ \E batch \in BagToSet(flights[p]) : FlushDone(p, batch)
          \/ Rebalance(p) \/ Evict(p) \/ Kill(p) \/ Restart(p) \/ SigTerm(p)

Spec == Init /\ [][Next]_vars

\* Goroutines are scheduled, handlers return, timers fire and pods restart.
FairSpec ==
    /\ Spec
    /\ \A p \in Pods :
          /\ WF_vars(ClaimStep(p)) /\ WF_vars(CloseStep(p))
          /\ WF_vars(TimerFlush(p)) /\ WF_vars(Restart(p))
          /\ WF_vars(\E batch \in SUBSET Offsets : FlushDone(p, batch))
          /\ \A w \in WorkerIds : WF_vars(WorkerStep(p, w))

----------------------------------------------------------------------------
\* A committed message was handled or is still held by a running pod, unless
\* a process ended with it, a stopped batcher dropped it, or a claim started
\* over it before the group's first commit: afterwards rebalances, evictions
\* and full channels never lose one.
CommittedAccounted ==
    \A o \in 1..committed :
        \/ o \in handled \cup abandoned \cup skipped
        \/ \E p \in Pods : o \in HeldBy(p)

\* With a plain handler a pod handles a message only after every earlier one
\* with its key that it was given, redeliveries after a rebalance included.
OrderedPerKey ==
    kind = "plain" =>
        \A p \in Pods : \A o \in done[p], e \in seen[p] :
            KeyOf[e] = KeyOf[o] /\ e < o => e \in done[p]

\* With a plain handler, when Close returns every message the pod was given
\* has been handled.
CloseDrains ==
    kind = "plain" =>
        \A p \in Pods : stage[p] = "closed" => seen[p] \subseteq done[p]

\* What App.Shutdown and TODO.md say of Close for every subscription: it
\* drains in-flight messages and flushes batchers.
CloseDrainsBatches ==
    \A p \in Pods : stage[p] = "closed" => seen[p] \subseteq done[p]

\* Every message of the partition is eventually handled, unless a process
\* ended with it, a stopped batcher dropped it, or a claim started over it
\* before the group's first commit.
Consumed ==
    \A o \in Offsets : o <= hw ~> o \in handled \cup abandoned \cup skipped

\* A pod that got SIGTERM ends, although its claim may be blocked on a full
\* channel while Close waits for the session.
ShutdownEnds ==
    \A p \in Pods : stage[p] # "run" ~> ~up[p]

=============================================================================
