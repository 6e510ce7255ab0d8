---------------------------- MODULE QueueProofs ----------------------------
(***************************************************************************)
(* Proofs about the two parts that feed goroutines through bounded Go      *)
(* channels and wait for them when they are closed.                        *)
(*                                                                         *)
(* The consumer group member of pkg/broker (Consumer), for any pods,       *)
(* workers, buffers, keys and messages: what is committed is accounted     *)
(* for, a key's messages are handled in order, and Close waits for the     *)
(* workers.  The worker pool of pkg/async (WorkerPool), for any callers,   *)
(* workers and queue: no accepted task is lost or run twice, and Shutdown  *)
(* returns only when all of them have run.                                 *)
(***************************************************************************)
EXTENDS Consumer, WorkerPool, TLAPS

----------------------------------------------------------------------------
(* The buffers of Go channels, as sequences.                               *)

\* No message is in the buffer twice.
Distinct(q) == \A j, k \in DOMAIN q : q[j] = q[k] => j = k

LEMMA AppendBuffer ==
    ASSUME NEW S, NEW q \in Seq(S), NEW e \in S
    PROVE  /\ Append(q, e) \in Seq(S)
           /\ Len(Append(q, e)) = Len(q) + 1
           /\ Range(Append(q, e)) = Range(q) \cup {e}
           /\ Distinct(q) /\ e \notin Range(q) => Distinct(Append(q, e))
<1>1. /\ DOMAIN q = 1..Len(q)
      /\ Len(q) \in Nat
      /\ Append(q, e) \in Seq(S)
      /\ Len(Append(q, e)) = Len(q) + 1
      /\ DOMAIN Append(q, e) = 1..(Len(q) + 1)
  OBVIOUS
<1>2. \A k \in 1..(Len(q) + 1) :
         Append(q, e)[k] = IF k = Len(q) + 1 THEN e ELSE q[k]
  OBVIOUS
<1>3. Range(Append(q, e)) = Range(q) \cup {e}
  BY <1>1, <1>2 DEF Range
<1>4. Distinct(q) /\ e \notin Range(q) => Distinct(Append(q, e))
  BY <1>1, <1>2 DEF Range, Distinct
<1> QED BY <1>1, <1>3, <1>4

LEMMA TailBuffer ==
    ASSUME NEW S, NEW q \in Seq(S), q # <<>>
    PROVE  /\ Head(q) \in S
           /\ Tail(q) \in Seq(S)
           /\ Len(Tail(q)) = Len(q) - 1
           /\ Range(q) = Range(Tail(q)) \cup {Head(q)}
           /\ Distinct(q) => /\ Distinct(Tail(q))
                             /\ Range(Tail(q)) = Range(q) \ {Head(q)}
<1>1. /\ DOMAIN q = 1..Len(q)
      /\ Len(q) \in Nat \ {0}
      /\ Head(q) = q[1]
      /\ Tail(q) \in Seq(S)
      /\ Len(Tail(q)) = Len(q) - 1
      /\ DOMAIN Tail(q) = 1..(Len(q) - 1)
  OBVIOUS
<1>2. \A k \in 1..(Len(q) - 1) : Tail(q)[k] = q[k + 1]
  OBVIOUS
<1>3. Head(q) \in S /\ Head(q) \in Range(q)
  BY <1>1 DEF Range
<1>4. ASSUME NEW k \in 1..Len(q) PROVE q[k] \in Range(Tail(q)) \cup {Head(q)}
  <2>1. CASE k = 1
    BY <1>1, <2>1
  <2>2. CASE k # 1
    <3>1. k - 1 \in 1..(Len(q) - 1) /\ Tail(q)[k - 1] = q[k]
      BY <1>1, <1>2, <2>2
    <3> QED BY <1>1, <3>1 DEF Range
  <2> QED BY <2>1, <2>2
<1>5. Range(q) = Range(Tail(q)) \cup {Head(q)}
  <2>1. Range(q) \subseteq Range(Tail(q)) \cup {Head(q)}
    BY <1>1, <1>4 DEF Range
  <2>2. Range(Tail(q)) \cup {Head(q)} \subseteq Range(q)
    BY <1>1, <1>2 DEF Range
  <2> QED BY <2>1, <2>2
<1>6. ASSUME Distinct(q) PROVE Distinct(Tail(q))
  BY <1>1, <1>2, <1>6 DEF Distinct
<1>7. ASSUME Distinct(q) PROVE Head(q) \notin Range(Tail(q))
  BY <1>1, <1>2, <1>7 DEF Range, Distinct
<1> QED BY <1>1, <1>3, <1>5, <1>6, <1>7

LEMMA NoMessages == Range(<<>>) = {}
BY DEF Range

----------------------------------------------------------------------------
(* The worker pool.                                                        *)

\* A waiting sender waits once, and only until the context is cancelled.
SendqInv ==
    /\ \A k \in DOMAIN sendq : call[sendq[k]] = "blocked"
    /\ \A j, k \in DOMAIN sendq : sendq[j] = sendq[k] => j = k
    /\ Cancelled => sendq = <<>>

\* A worker that has left has seen the channel closed and empty.
WorkerInv ==
    /\ \A w \in PoolWorkers : wpc[w] = "run" <=> wtask[w] # NoTask
    /\ \A w \in PoolWorkers : wpc[w] = "exited" => Closed /\ queue = <<>>
    /\ shutdown = "done" => \A w \in PoolWorkers : wpc[w] = "exited"

PoolInv == PoolTypeOK /\ SendqInv /\ WorkerInv /\ AcceptedOnce

LEMMA PoolTypeStep ==
    ASSUME PoolTypeOK, [PoolNext]_poolVars
    PROVE  PoolTypeOK'
<1> USE PoolAssumption DEF PoolTypeOK
<1>1. ASSUME NEW c \in Callers, Send(c) PROVE PoolTypeOK'
  <2>1. CASE HasRoom /\ queue' = Append(queue, c)
    <3>1. queue' \in Seq(Callers) /\ Len(queue') <= QueueSize
      BY <2>1 DEF HasRoom
    <3> QED BY <1>1, <3>1 DEF Send
  <2>2. CASE UNCHANGED queue
    BY <1>1, <2>2 DEF Send
  <2> QED BY <1>1, <2>1, <2>2 DEF Send
<1>2. ASSUME NEW c \in Callers, Refuse(c) PROVE PoolTypeOK'
  BY <1>2 DEF Refuse
<1>3. ASSUME NEW c \in Callers, Block(c) PROVE PoolTypeOK'
  <2>1. sendq' \in Seq(Callers)
    BY <1>3 DEF Block
  <2> QED BY <1>3, <2>1 DEF Block
<1>4. ASSUME NEW w \in PoolWorkers, ReceiveTask(w) PROVE PoolTypeOK'
  <2>1. /\ Head(queue) \in Callers
        /\ Tail(queue) \in Seq(Callers)
        /\ Len(Tail(queue)) = Len(queue) - 1
    BY <1>4 DEF ReceiveTask
  <2>2. ASSUME sendq # <<>>
        PROVE  Head(sendq) \in Callers /\ Tail(sendq) \in Seq(Callers)
    BY <2>2
  <2>3. queue' \in Seq(Callers) /\ Len(queue') <= QueueSize
    <3>1. CASE queue' = Tail(queue)
      BY <2>1, <3>1
    <3>2. CASE sendq # <<>>
      <4>1. queue' = Append(Tail(queue), Head(sendq)) /\ Head(sendq) \in Callers
        BY <1>4, <2>2, <3>2 DEF ReceiveTask
      <4> QED BY <2>1, <4>1
    <3> QED BY <1>4, <3>1, <3>2 DEF ReceiveTask
  <2>4. sendq' \in Seq(Callers)
    BY <1>4, <2>2 DEF ReceiveTask
  <2>5. call' \in [Callers -> {"idle", "blocked", "accepted", "refused",
                              "panicked"}]
    BY <1>4, <2>2 DEF ReceiveTask
  <2>6. wlive' \in [PoolWorkers -> BOOLEAN]
    BY <1>4 DEF ReceiveTask, Cancelled
  <2> QED BY <1>4, <2>1, <2>3, <2>4, <2>5, <2>6 DEF ReceiveTask
<1>5. ASSUME NEW w \in PoolWorkers, NEW outcome \in {"ok", "failed"}, Finish(w, outcome)
      PROVE  PoolTypeOK'
  BY <1>5 DEF Finish
<1>6. ASSUME NEW w \in PoolWorkers, Exit(w) PROVE PoolTypeOK'
  BY <1>6 DEF Exit
<1>7. CASE Cancel
  <2>1. call' \in [Callers -> {"idle", "blocked", "accepted", "refused",
                              "panicked"}]
    BY <1>7 DEF Cancel
  <2> QED BY <1>7, <2>1 DEF Cancel, ShutdownPc
<1>8. CASE Close \/ Wait
  BY <1>8 DEF Close, Wait, ShutdownPc
<1>9. CASE UNCHANGED poolVars
  BY <1>9 DEF poolVars
<1> QED BY <1>1, <1>2, <1>3, <1>4, <1>5, <1>6, <1>7, <1>8, <1>9
        DEF PoolNext, Call, PoolWorkerStep

LEMMA SendqStep ==
    ASSUME PoolTypeOK, SendqInv, WorkerInv, [PoolNext]_poolVars
    PROVE  SendqInv'
<1> USE DEF PoolTypeOK, SendqInv
<1>1. ASSUME NEW c \in Callers, Send(c) \/ Refuse(c) PROVE SendqInv'
  BY <1>1 DEF Send, Refuse, Cancelled
<1>2. ASSUME NEW c \in Callers, Block(c) PROVE SendqInv'
  <2>1. DOMAIN sendq' = 1..(Len(sendq) + 1)
    BY <1>2 DEF Block
  <2>2. \A k \in DOMAIN sendq' : sendq'[k] = IF k = Len(sendq) + 1 THEN c
                                                                   ELSE sendq[k]
    BY <1>2 DEF Block
  <2>3. \A k \in DOMAIN sendq : sendq[k] # c
    BY <1>2 DEF Block
  <2> QED BY <1>2, <2>1, <2>2, <2>3 DEF Block, Cancelled
<1>3. ASSUME NEW w \in PoolWorkers, ReceiveTask(w) PROVE SendqInv'
  <2>1. CASE sendq = <<>>
    BY <1>3, <2>1 DEF ReceiveTask, Cancelled
  <2>2. CASE sendq # <<>>
    <3>1. /\ sendq' = Tail(sendq)
          /\ DOMAIN sendq' = 1..(Len(sendq) - 1)
          /\ \A k \in DOMAIN sendq' : sendq'[k] = sendq[k + 1]
      BY <1>3, <2>2 DEF ReceiveTask
    <3>2. \A k \in DOMAIN sendq' : sendq'[k] # Head(sendq)
      BY <2>2, <3>1
    <3> QED BY <1>3, <2>2, <3>1, <3>2 DEF ReceiveTask, Cancelled
  <2> QED BY <2>1, <2>2
<1>4. CASE \E w \in PoolWorkers : Exit(w) \/ \E o \in {"ok", "failed"} : Finish(w, o)
  BY <1>4 DEF Exit, Finish, Cancelled
<1>5. CASE Cancel \/ Close \/ Wait
  BY <1>5 DEF Cancel, Close, Wait, Cancelled
<1>6. CASE UNCHANGED poolVars
  BY <1>6 DEF poolVars, Cancelled
<1> QED BY <1>1, <1>2, <1>3, <1>4, <1>5, <1>6 DEF PoolNext, PoolWorkerStep, Call

LEMMA WorkerInvStep ==
    ASSUME PoolTypeOK, SendqInv, WorkerInv, [PoolNext]_poolVars
    PROVE  WorkerInv'
<1> USE PoolAssumption DEF PoolTypeOK, SendqInv, WorkerInv, Closed, Cancelled
<1>1. ASSUME NEW c \in Callers, Call(c) PROVE WorkerInv'
  BY <1>1 DEF Call, Send, Refuse, Block, HasRoom
<1>2. ASSUME NEW w \in PoolWorkers, ReceiveTask(w) PROVE WorkerInv'
  <2>1. Head(queue) \in Callers /\ Head(queue) # NoTask
    BY <1>2 DEF ReceiveTask
  <2> QED BY <1>2, <2>1 DEF ReceiveTask
<1>3. ASSUME NEW w \in PoolWorkers, NEW outcome \in {"ok", "failed"}, Finish(w, outcome)
      PROVE  WorkerInv'
  BY <1>3 DEF Finish
<1>4. ASSUME NEW w \in PoolWorkers, Exit(w) PROVE WorkerInv'
  BY <1>4 DEF Exit
<1>5. CASE Cancel \/ Close \/ Wait
  BY <1>5 DEF Cancel, Close, Wait
<1>6. CASE UNCHANGED poolVars
  BY <1>6 DEF poolVars
<1> QED BY <1>1, <1>2, <1>3, <1>4, <1>5, <1>6 DEF PoolNext, PoolWorkerStep

----------------------------------------------------------------------------
\* AcceptedOnce for tasks as sets.
LEMMA AcceptedOnceMeans ==
    AcceptedOnce <=>
      /\ \A c \in Callers :
           /\ call[c] = "accepted" <=> c \in Range(queue) \/ Running(c) \/ Finished(c)
           /\ ~(c \in Range(queue) /\ Running(c))
           /\ ~(Finished(c) /\ (c \in Range(queue) \/ Running(c)))
      /\ Distinct(queue)
      /\ \A v, w \in PoolWorkers : wtask[v] = wtask[w] /\ wtask[v] # NoTask => v = w
BY DEF AcceptedOnce, Queued, Range, Distinct

LEMMA AcceptedOnceMeansNext ==
    AcceptedOnce' <=>
      /\ \A c \in Callers :
           /\ call'[c] = "accepted" <=> c \in Range(queue') \/ Running(c)' \/ Finished(c)'
           /\ ~(c \in Range(queue') /\ Running(c)')
           /\ ~(Finished(c)' /\ (c \in Range(queue') \/ Running(c)'))
      /\ Distinct(queue')
      /\ \A v, w \in PoolWorkers : wtask'[v] = wtask'[w] /\ wtask'[v] # NoTask => v = w
BY DEF AcceptedOnce, Queued, Range, Distinct

LEMMA AcceptedStep ==
    ASSUME PoolInv, [PoolNext]_poolVars
    PROVE  AcceptedOnce'
<1> USE PoolAssumption, AcceptedOnceMeans, AcceptedOnceMeansNext
        DEF PoolInv, PoolTypeOK
<1>1. ASSUME NEW c \in Callers, Send(c) PROVE AcceptedOnce'
  <2>1. \A d \in Callers : (Running(d)' <=> Running(d)) /\ (Finished(d)' <=> Finished(d))
    BY <1>1 DEF Send, Running, Finished
  <2>2. wtask' = wtask
    BY <1>1 DEF Send
  <2>3. CASE queue' = Append(queue, c) /\ call' = [call EXCEPT ![c] = "accepted"]
    <3>1. c \notin Range(queue) /\ ~Running(c) /\ ~Finished(c)
      BY <1>1 DEF Send
    <3>2. Range(queue') = Range(queue) \cup {c} /\ Distinct(queue')
      BY <2>3, <3>1, AppendBuffer
    <3> QED BY <2>1, <2>2, <2>3, <3>1, <3>2
  <2>4. CASE UNCHANGED queue /\ call' = [call EXCEPT ![c] = "panicked"]
    BY <1>1, <2>1, <2>2, <2>4 DEF Send
  <2> QED BY <1>1, <2>3, <2>4 DEF Send
<1>2. ASSUME NEW c \in Callers, Refuse(c) \/ Block(c) PROVE AcceptedOnce'
  BY <1>2 DEF Refuse, Block, Running, Finished
<1>3. ASSUME NEW w \in PoolWorkers, ReceiveTask(w) PROVE AcceptedOnce'
  <2> DEFINE t == Head(queue)
  <2>1. /\ t \in Callers /\ t \in Range(queue)
        /\ Tail(queue) \in Seq(Callers)
        /\ Distinct(Tail(queue))
        /\ Range(Tail(queue)) = Range(queue) \ {t}
    BY <1>3, TailBuffer DEF ReceiveTask
  <2>2. wtask[w] = NoTask /\ wtask' = [wtask EXCEPT ![w] = t]
    BY <1>3 DEF ReceiveTask, WorkerInv
  <2> HIDE DEF t
  <2>3. \A d \in Callers : Running(d)' <=> Running(d) \/ d = t
    BY <2>1, <2>2 DEF Running
  <2>4. ~Running(t) /\ ~Finished(t) /\ t # NoTask
    BY <2>1
  <2>5. \A u, v \in PoolWorkers : wtask'[u] = wtask'[v] /\ wtask'[u] # NoTask => u = v
    BY <2>1, <2>2, <2>4 DEF Running
  <2>6. \A d \in Callers : Finished(d)' <=> Finished(d)
    BY <1>3 DEF ReceiveTask, Finished
  <2>7. CASE queue' = Tail(queue) /\ call' = call
    BY <2>1, <2>3, <2>4, <2>5, <2>6, <2>7
  <2>8. CASE sendq # <<>>
    <3> DEFINE s == Head(sendq)
    <3>1. s \in Callers /\ s \in Range(sendq)
      BY <2>8, TailBuffer
    <3>2. call[s] = "blocked"
      BY <3>1 DEF SendqInv, Range
    <3>3. s \notin Range(queue) /\ ~Running(s) /\ ~Finished(s) /\ s # t
      BY <2>1, <3>1, <3>2
    <3>4. queue' = Append(Tail(queue), s) /\ call' = [call EXCEPT ![s] = "accepted"]
      BY <1>3, <2>8 DEF ReceiveTask
    <3> HIDE DEF s
    <3>5. Distinct(queue') /\ Range(queue') = (Range(queue) \ {t}) \cup {s}
      <4> DEFINE q == Tail(queue)
      <4>1. q \in Seq(Callers) /\ Distinct(q) /\ Range(q) = Range(queue) \ {t}
        BY <2>1
      <4>2. s \notin Range(q)
        BY <3>3, <4>1
      <4>3. queue' = Append(q, s)
        BY <3>4
      <4> HIDE DEF q
      <4>4. Distinct(Append(q, s)) /\ Range(Append(q, s)) = Range(q) \cup {s}
        BY <3>1, <4>1, <4>2, AppendBuffer
      <4> QED BY <4>1, <4>3, <4>4
    <3> QED BY <2>1, <2>3, <2>4, <2>5, <2>6, <3>1, <3>3, <3>4, <3>5
  <2> QED BY <1>3, <2>7, <2>8 DEF ReceiveTask
<1>4. ASSUME NEW w \in PoolWorkers, NEW outcome \in {"ok", "failed"}, Finish(w, outcome)
      PROVE  AcceptedOnce'
  <2>1. wtask[w] \in Callers /\ Running(wtask[w])
    BY <1>4 DEF Finish, WorkerInv, Running
  <2>2. \A d \in Callers : Running(d)' <=> Running(d) /\ d # wtask[w]
    BY <1>4, <2>1 DEF Finish, Running
  <2>3. \A d \in Callers : Finished(d)' <=> Finished(d) \/ d = wtask[w]
    BY <1>4, <2>1 DEF Finish, Finished
  <2>4. \A u, v \in PoolWorkers : wtask'[u] = wtask'[v] /\ wtask'[u] # NoTask => u = v
    BY <1>4 DEF Finish
  <2>5. queue' = queue /\ call' = call
    BY <1>4 DEF Finish
  <2> QED BY <2>1, <2>2, <2>3, <2>4, <2>5
<1>5. CASE \/ \E w \in PoolWorkers : Exit(w)
           \/ Close \/ Wait \/ UNCHANGED poolVars
  <2>1. UNCHANGED <<queue, call, wtask, result>>
    BY <1>5 DEF Exit, Close, Wait, poolVars
  <2> QED BY <2>1 DEF Running, Finished
<1>6. CASE Cancel
  <2>1. /\ UNCHANGED <<queue, wtask, result>>
        /\ \A c \in Callers : call'[c] = "accepted" <=> call[c] = "accepted"
    BY <1>6 DEF Cancel
  <2> QED BY <2>1 DEF Running, Finished
<1> QED BY <1>1, <1>2, <1>3, <1>4, <1>5, <1>6 DEF PoolNext, Call, PoolWorkerStep

LEMMA PoolInvariant == PoolSpec => []PoolInv
<1>1. PoolInit => PoolInv
  BY PoolAssumption DEF PoolInit, PoolInv, PoolTypeOK, SendqInv, WorkerInv,
         AcceptedOnce, Cancelled, Closed, ShutdownPc, Queued,
         Running, Finished
<1>2. PoolInv /\ [PoolNext]_poolVars => PoolInv'
  BY PoolTypeStep, SendqStep, WorkerInvStep, AcceptedStep DEF PoolInv
<1> QED BY <1>1, <1>2, PTL DEF PoolSpec

\* No accepted task is lost, run twice, or run for a caller that was refused
\* (pkg/async/worker.go, Submit and worker), for any number of callers and
\* workers and any queue size.
THEOREM TasksAcceptedOnce == PoolSpec => []AcceptedOnce
<1>1. PoolInv => AcceptedOnce
  BY DEF PoolInv
<1> QED BY <1>1, PoolInvariant, PTL

\* Shutdown of pkg/async/worker.go returns only when every accepted task has
\* run.
THEOREM ShutdownDrains == PoolSpec => []Drained
<1>1. PoolInv => Drained
  <2> SUFFICES ASSUME PoolInv, shutdown = "done", NEW c \in Callers,
                      call[c] = "accepted"
               PROVE  Finished(c)
    BY DEF Drained
  <2>1. PICK w \in PoolWorkers : wpc[w] = "exited"
    BY PoolAssumption DEF PoolInv, WorkerInv
  <2>2. queue = <<>>
    BY <2>1 DEF PoolInv, WorkerInv
  <2>3. ~Queued(c)
    BY <2>2 DEF Queued
  <2>4. ~Running(c)
    BY PoolAssumption DEF PoolInv, WorkerInv, Running
  <2> QED BY <2>3, <2>4 DEF PoolInv, AcceptedOnce
<1> QED BY <1>1, PoolInvariant, PTL

----------------------------------------------------------------------------
(* The consumer: the inductive invariant.                                  *)

\* What a worker of pod p has before it: the message in its handler and the
\* ones in its channel.
Pipe(p, w) == Range(chans[p][w]) \cup ({busy[p][w]} \ {0})

\* Where ConsumeClaim is says how far it has marked.
ClaimInv ==
    \A p \in Pods :
        /\ cpc[p] = "none" => marked[p] = 0
        /\ cpc[p] = "recv" => pos[p] = marked[p]
        /\ cpc[p] = "dispatch" => pos[p] = marked[p] + 1

\* Marks that no tick has committed yet are accounted for as well.
MarkedAccounted ==
    \A p \in Pods : \A o \in 1..marked[p] :
        o <= committed \/ o \in handled \cup abandoned \cup skipped \cup HeldBy(p)

\* Only a batcher has a buffer and flights.
NoBatches(p) == buffer[p] = <<>> /\ BagToSet(flights[p]) = {}

\* What a pod was given is handled, or before the worker of its shard.
SeenInv(p) ==
    /\ done[p] \subseteq seen[p]
    /\ \A w \in WorkerIds : \A o \in Pipe(p, w) : o \in seen[p] /\ ShardIndex(o) = w
    /\ \A e \in seen[p] : e \in done[p] \/ e \in Pipe(p, ShardIndex(e))

\* No claim will start behind this offset any more: it is the committed one,
\* or, before the first commit, where the current claim has started, or the
\* newest.
Floor == IF committed # 0 THEN committed
         ELSE IF owner = NoPod THEN hw ELSE start[owner]

\* Before the first commit the owner's claim has started within the partition.
StartInv == committed = 0 /\ owner # NoPod => start[owner] <= hw

\* What a pod was given has no gap above the floor, or above the mark of its
\* session: a claim that starts again does not go back behind a message that
\* the pod has not been given.
NoGap(p) ==
    /\ \A y \in 1..marked[p] : y <= Floor \/ y \in seen[p]
    /\ \A x \in seen[p] : \A y \in (Floor + 1)..x : y \in seen[p]
    /\ cpc[p] # "none" => \A x \in seen[p] : \A y \in (marked[p] + 1)..x : y \in seen[p]

\* What was given to a worker before o, and is smaller, comes before o.
OrderInv(p) ==
    \A w \in WorkerIds : \A e \in seen[p] : ShardIndex(e) = w =>
        /\ \A o \in done[p] : ShardIndex(o) = w /\ e < o => e \in done[p]
        /\ e < busy[p][w] => e \in done[p]
        /\ \A i \in DOMAIN chans[p][w] : e < chans[p][w][i] =>
              \/ e \in done[p] \/ e = busy[p][w]
              \/ \E j \in 1..(i - 1) : chans[p][w][j] = e

PlainInv == kind = "plain" => \A p \in Pods :
                NoBatches(p) /\ SeenInv(p) /\ NoGap(p) /\ OrderInv(p)

\* Close has got past the workers only when they have left.
CloseInv ==
    \A p \in Pods :
        /\ closed[p] <=> stage[p] \in {"closing", "drained", "closed"}
        /\ stage[p] \in {"drained", "closed"} =>
              \A w \in WorkerIds : chans[p][w] = <<>> /\ busy[p][w] = 0

FlightsInv == flights = [p \in Pods |-> flights[p]]

ConsumerInv ==
    /\ TypeOK /\ FlightsInv /\ ClaimInv /\ StartInv /\ CloseInv
    /\ CommittedAccounted /\ MarkedAccounted /\ PlainInv

LEMMA BagGrows ==
    ASSUME NEW B, NEW x, IsABag(B)
    PROVE  /\ IsABag(B (+) SetToBag({x}))
           /\ BagToSet(B (+) SetToBag({x})) = BagToSet(B) \cup {x}
BY DEF IsABag, BagToSet, SetToBag, (+)

LEMMA BagShrinks ==
    ASSUME NEW B, NEW x, IsABag(B)
    PROVE  /\ IsABag(B (-) SetToBag({x}))
           /\ BagToSet(B (-) SetToBag({x})) \subseteq BagToSet(B)
           /\ BagToSet(B) \ {x} \subseteq BagToSet(B (-) SetToBag({x}))
BY DEF IsABag, BagToSet, SetToBag, (-)

LEMMA NoBag == IsABag(EmptyBag) /\ BagToSet(EmptyBag) = {}
BY DEF IsABag, BagToSet, SetToBag, EmptyBag

----------------------------------------------------------------------------
(* Types.                                                                  *)

TypeInv == TypeOK /\ FlightsInv /\ ClaimInv

USE DEF claimVars, workerVars, batchVars, groupVars, histVars

\* One channel changes.
LEMMA OneChannel ==
    ASSUME TypeOK, NEW p \in Pods, NEW w \in WorkerIds, NEW q \in Seq(Offsets),
           chans' = [chans EXCEPT ![p][w] = q]
    PROVE  /\ chans' \in [Pods -> [WorkerIds -> Seq(Offsets)]]
           /\ chans'[p][w] = q
           /\ \A v \in WorkerIds \ {w} : chans'[p][v] = chans[p][v]
           /\ \A r \in Pods \ {p} : chans'[r] = chans[r]
BY DEF TypeOK

\* One worker changes what it handles.
LEMMA OneWorker ==
    ASSUME TypeOK, NEW p \in Pods, NEW w \in WorkerIds, NEW o \in 0..MaxOffset,
           busy' = [busy EXCEPT ![p][w] = o]
    PROVE  /\ busy' \in [Pods -> [WorkerIds -> 0..MaxOffset]]
           /\ busy'[p][w] = o
           /\ \A v \in WorkerIds \ {w} : busy'[p][v] = busy[p][v]
           /\ \A r \in Pods \ {p} : busy'[r] = busy[r]
BY DEF TypeOK

\* The flights of one pod change.
LEMMA OnePodsFlights ==
    ASSUME TypeOK, FlightsInv, NEW p \in Pods, NEW B, IsABag(B),
           BagToSet(B) \subseteq SUBSET Offsets,
           flights' = [flights EXCEPT ![p] = B]
    PROVE  /\ FlightsInv'
           /\ \A r \in Pods : IsABag(flights'[r]) /\ BagToSet(flights'[r]) \subseteq SUBSET Offsets
           /\ flights'[p] = B
           /\ \A r \in Pods \ {p} : flights'[r] = flights[r]
<1>1. DOMAIN flights = Pods
  BY DEF FlightsInv
<1>2. /\ flights' = [r \in Pods |-> IF r = p THEN B ELSE flights[r]]
  BY <1>1
<1>3. flights'[p] = B /\ \A r \in Pods \ {p} : flights'[r] = flights[r]
  BY <1>2
<1>4. FlightsInv'
  BY <1>2 DEF FlightsInv
<1> QED BY <1>3, <1>4 DEF TypeOK

\* A batch takes off: it is one flight more.
LEMMA TakesOff ==
    ASSUME TypeOK, FlightsInv, NEW p \in Pods, NEW q \in Seq(Offsets),
           flights' = Launched(p, q)
    PROVE  /\ FlightsInv'
           /\ \A r \in Pods : IsABag(flights'[r]) /\ BagToSet(flights'[r]) \subseteq SUBSET Offsets
           /\ BagToSet(flights'[p]) = BagToSet(flights[p]) \cup {Range(q)}
           /\ \A r \in Pods \ {p} : flights'[r] = flights[r]
<1> DEFINE B == flights[p] (+) SetToBag({Range(q)})
<1>1. flights' = [flights EXCEPT ![p] = B]
  <2>1. DOMAIN flights = Pods
    BY DEF FlightsInv
  <2> QED BY <2>1 DEF Launched
<1>2. Range(q) \subseteq Offsets
  BY DEF Range
<1>3. IsABag(flights[p]) /\ BagToSet(flights[p]) \subseteq SUBSET Offsets
  BY DEF TypeOK
<1>4. IsABag(B) /\ BagToSet(B) = BagToSet(flights[p]) \cup {Range(q)}
  BY <1>3, BagGrows
<1>5. BagToSet(B) \subseteq SUBSET Offsets
  BY <1>2, <1>3, <1>4
<1> HIDE DEF B
<1> QED BY <1>1, <1>4, <1>5, OnePodsFlights

LEMMA ConsumerTypeInit == Init => TypeInv
<1> SUFFICES ASSUME Init PROVE TypeInv
  OBVIOUS
<1>1. FlightsInv /\ \A p \in Pods : flights[p] = EmptyBag
  BY DEF Init, FlightsInv
<1>2. \A p \in Pods : IsABag(flights[p]) /\ BagToSet(flights[p]) \subseteq SUBSET Offsets
  BY <1>1, NoBag
<1>3. TypeOK
  BY <1>2, ConsumerAssumption DEF Init, TypeOK, Stages
<1>4. ClaimInv
  BY DEF Init, ClaimInv
<1> QED BY <1>1, <1>3, <1>4 DEF TypeInv

\* TypeOK in parts: what the workers hold, what the batcher holds, where the
\* claim is, and the rest.
PipesTyped ==
    /\ chans \in [Pods -> [WorkerIds -> Seq(Offsets)]]
    /\ \A p \in Pods, w \in WorkerIds : Len(chans[p][w]) <= BufferPerWorker
    /\ busy \in [Pods -> [WorkerIds -> 0..MaxOffset]]

BatchesTyped ==
    /\ buffer \in [Pods -> Seq(Offsets)]
    /\ \A p \in Pods : Len(buffer[p]) < Size
    /\ \A p \in Pods : IsABag(flights[p]) /\ BagToSet(flights[p]) \subseteq SUBSET Offsets

ClaimsTyped ==
    /\ owner \in Pods \cup {NoPod}
    /\ cpc \in [Pods -> {"none", "recv", "dispatch"}]
    /\ start \in [Pods -> 0..MaxOffset]
    /\ pos \in [Pods -> 0..MaxOffset]
    /\ marked \in [Pods -> 0..MaxOffset]
    /\ ctxDone \in [Pods -> BOOLEAN]

RestTyped ==
    /\ kind \in {"plain", "batch"}
    /\ hw \in 0..MaxOffset /\ committed \in 0..MaxOffset /\ faults \in 0..MaxFaults
    /\ up \in [Pods -> BOOLEAN]
    /\ closed \in [Pods -> BOOLEAN]
    /\ stopped \in [Pods -> BOOLEAN]
    /\ stage \in [Pods -> Stages]
    /\ seen \in [Pods -> SUBSET Offsets]
    /\ done \in [Pods -> SUBSET Offsets]
    /\ handled \subseteq Offsets /\ abandoned \subseteq Offsets /\ skipped \subseteq Offsets

LEMMA TypeParts == TypeOK => PipesTyped /\ BatchesTyped /\ ClaimsTyped /\ RestTyped
BY DEF TypeOK, PipesTyped, BatchesTyped, ClaimsTyped, RestTyped

LEMMA PartsType ==
    (PipesTyped /\ BatchesTyped /\ ClaimsTyped /\ RestTyped)' => TypeOK'
BY DEF TypeOK, PipesTyped, BatchesTyped, ClaimsTyped, RestTyped

\* What a step does not touch keeps its type.
LEMMA SamePipes == PipesTyped /\ UNCHANGED <<chans, busy>> => PipesTyped'
BY DEF PipesTyped

LEMMA SameBatches ==
    BatchesTyped /\ FlightsInv /\ UNCHANGED <<buffer, flights>> => BatchesTyped' /\ FlightsInv'
BY DEF BatchesTyped, FlightsInv

LEMMA SameClaims ==
    ClaimsTyped /\ ClaimInv /\ UNCHANGED <<owner, cpc, start, pos, marked, ctxDone>>
       => ClaimsTyped' /\ ClaimInv'
BY DEF ClaimsTyped, ClaimInv

LEMMA SameRest ==
    RestTyped /\ UNCHANGED <<kind, hw, committed, up, closed, stopped, stage, faults, seen,
                             done, handled, abandoned, skipped>> => RestTyped'
BY DEF RestTyped

LEMMA ClaimTypes ==
    ASSUME TypeInv, NEW p \in Pods,
           Join(p) \/ Receive(p) \/ Dispatch(p) \/ LeaveClaim(p) \/ CommitTick(p)
    PROVE  TypeInv'
<1> USE ConsumerAssumption, TypeParts, PartsType DEF TypeInv
<1>1. CASE Join(p)
  <2>1. PipesTyped' /\ BatchesTyped' /\ FlightsInv'
    BY <1>1, SamePipes, SameBatches DEF Join
  <2>2. InitialOffset \in 0..MaxOffset
    BY DEF InitialOffset, RestTyped
  <2>3. (committed + 1)..InitialOffset \subseteq Offsets
    BY <2>2 DEF RestTyped, Offsets
  <2>4. RestTyped'
    BY <1>1, <2>3 DEF Join, RestTyped
  <2>5. ClaimsTyped' /\ ClaimInv'
    BY <1>1, <2>2 DEF Join, ClaimsTyped, ClaimInv
  <2> QED BY <2>1, <2>4, <2>5
<1>2. CASE Receive(p)
  <2>1. PipesTyped' /\ BatchesTyped' /\ FlightsInv' /\ RestTyped'
    BY <1>2, SamePipes, SameBatches, SameRest DEF Receive
  <2>2. ClaimsTyped' /\ ClaimInv'
    BY <1>2 DEF Receive, ClaimsTyped, RestTyped, ClaimInv
  <2> QED BY <2>1, <2>2
<1>3. CASE Dispatch(p)
  <2> DEFINE w == ShardIndex(pos[p])
             q == Append(chans[p][w], pos[p])
  <2>1. pos[p] \in Offsets /\ w \in WorkerIds
    BY <1>3 DEF Dispatch, ClaimsTyped, ClaimInv, Offsets, ShardIndex
  <2>2. q \in Seq(Offsets) /\ Len(q) <= BufferPerWorker
    BY <1>3, <2>1 DEF Dispatch, Room, PipesTyped
  <2>3. chans' = [chans EXCEPT ![p][w] = q] /\ UNCHANGED busy
    BY <1>3, <2>1 DEF Dispatch, PipesTyped
  <2> HIDE DEF w, q
  <2>4. PipesTyped'
    BY <2>1, <2>2, <2>3, OneChannel DEF PipesTyped
  <2>5. BatchesTyped' /\ FlightsInv'
    BY <1>3, SameBatches DEF Dispatch
  <2>6. ClaimsTyped' /\ ClaimInv'
    BY <1>3 DEF Dispatch, ClaimsTyped, ClaimInv
  <2>7. RestTyped'
    BY <1>3, <2>1 DEF Dispatch, RestTyped
  <2> QED BY <2>4, <2>5, <2>6, <2>7
<1>4. CASE LeaveClaim(p)
  <2>1. PipesTyped' /\ BatchesTyped' /\ FlightsInv' /\ RestTyped'
    BY <1>4, SamePipes, SameBatches, SameRest DEF LeaveClaim
  <2>2. ClaimsTyped' /\ ClaimInv'
    BY <1>4 DEF LeaveClaim, EndSession, ClaimsTyped, ClaimInv
  <2> QED BY <2>1, <2>2
<1>5. CASE CommitTick(p)
  <2>1. PipesTyped' /\ BatchesTyped' /\ FlightsInv' /\ ClaimsTyped' /\ ClaimInv'
    BY <1>5, SamePipes, SameBatches, SameClaims DEF CommitTick
  <2>2. RestTyped'
    BY <1>5 DEF CommitTick, RestTyped, ClaimsTyped
  <2> QED BY <2>1, <2>2
<1> QED BY <1>1, <1>2, <1>3, <1>4, <1>5

LEMMA WorkerTypes ==
    ASSUME TypeInv, NEW p \in Pods, NEW w \in WorkerIds,
           WorkerStep(p, w)
    PROVE  TypeInv'
<1> USE ConsumerAssumption, TypeParts, PartsType DEF TypeInv
<1>1. CASE Take(p, w)
  <2> DEFINE q == chans[p][w]
  <2>1. q \in Seq(Offsets) /\ q # <<>> /\ Len(q) <= BufferPerWorker
    BY <1>1 DEF Take, TypeOK
  <2>2. Head(q) \in 0..MaxOffset /\ Tail(q) \in Seq(Offsets) /\ Len(Tail(q)) <= BufferPerWorker
    <3> HIDE DEF q
    <3>1. Head(q) \in Offsets /\ Tail(q) \in Seq(Offsets) /\ Len(Tail(q)) = Len(q) - 1
      BY <2>1
    <3>2. Len(q) \in Nat
      BY <2>1
    <3> QED BY <2>1, <3>1, <3>2 DEF Offsets
  <2>3. /\ chans' = [chans EXCEPT ![p][w] = Tail(q)]
        /\ busy' = [busy EXCEPT ![p][w] = Head(q)]
    BY <1>1 DEF Take, TypeOK
  <2> HIDE DEF q
  <2>4. busy' \in [Pods -> [WorkerIds -> 0..MaxOffset]]
    BY <2>2, <2>3, OneWorker
  <2>5. /\ chans' \in [Pods -> [WorkerIds -> Seq(Offsets)]]
        /\ chans'[p][w] = Tail(q)
        /\ \A v \in WorkerIds \ {w} : chans'[p][v] = chans[p][v]
        /\ \A r \in Pods \ {p} : chans'[r] = chans[r]
    BY <2>2, <2>3, OneChannel
  <2>6. PipesTyped'
    BY <2>2, <2>4, <2>5 DEF PipesTyped
  <2>7. BatchesTyped' /\ FlightsInv' /\ ClaimsTyped' /\ ClaimInv' /\ RestTyped'
    BY <1>1, SameBatches, SameClaims, SameRest DEF Take
  <2> QED BY <2>6, <2>7
<1>2. ASSUME busy[p][w] # 0 PROVE busy[p][w] \in Offsets
  BY <1>2 DEF TypeOK, Offsets
<1>3. ASSUME busy' = [busy EXCEPT ![p][w] = 0]
      PROVE  busy' \in [Pods -> [WorkerIds -> 0..MaxOffset]]
  <2>1. 0 \in 0..MaxOffset /\ TypeOK
    OBVIOUS
  <2> QED BY <1>3, <2>1, OneWorker
<1>4. CASE Handle(p, w)
  <2>1. PipesTyped'
    BY <1>3, <1>4 DEF Handle, PipesTyped
  <2>2. BatchesTyped' /\ FlightsInv' /\ ClaimsTyped' /\ ClaimInv'
    BY <1>4, SameBatches, SameClaims DEF Handle
  <2>3. RestTyped'
    BY <1>2, <1>4 DEF Handle, RestTyped
  <2> QED BY <2>1, <2>2, <2>3
<1>5. CASE Add(p, w)
  <2> DEFINE q == Append(buffer[p], busy[p][w])
  <2>1. q \in Seq(Offsets) /\ busy[p][w] \in Offsets
    BY <1>2, <1>5 DEF Add, TypeOK
  <2>2. busy' \in [Pods -> [WorkerIds -> 0..MaxOffset]]
    BY <1>3, <1>5 DEF Add
  <2> HIDE DEF q
  <2>3. PipesTyped' /\ ClaimsTyped' /\ ClaimInv'
    BY <1>5, <2>2, SameClaims DEF Add, PipesTyped
  <2>4. abandoned' \subseteq Offsets => RestTyped'
    BY <1>5 DEF Add, RestTyped
  <2>5. CASE stopped[p] /\ abandoned' = abandoned \cup {busy[p][w]}
             /\ UNCHANGED <<buffer, flights>>
    <3>1. BatchesTyped' /\ FlightsInv' /\ abandoned' \subseteq Offsets
      BY <2>1, <2>5, SameBatches DEF RestTyped
    <3> QED BY <2>3, <2>4, <3>1
  <2>6. CASE Len(q) < Size /\ buffer' = [buffer EXCEPT ![p] = q]
             /\ UNCHANGED <<flights, abandoned>>
    <3>1. BatchesTyped' /\ FlightsInv' /\ abandoned' \subseteq Offsets
      BY <2>1, <2>6 DEF BatchesTyped, FlightsInv, RestTyped
    <3> QED BY <2>3, <2>4, <3>1
  <2>7. CASE buffer' = [buffer EXCEPT ![p] = <<>>] /\ flights' = Launched(p, q)
             /\ UNCHANGED abandoned
    <3>1. /\ FlightsInv'
          /\ \A r \in Pods : IsABag(flights'[r]) /\ BagToSet(flights'[r]) \subseteq SUBSET Offsets
      BY <2>1, <2>7, TakesOff
    <3>2. buffer' \in [Pods -> Seq(Offsets)] /\ \A r \in Pods : Len(buffer'[r]) < Size
      BY <2>7 DEF BatchesTyped
    <3>3. abandoned' \subseteq Offsets
      BY <2>7 DEF RestTyped
    <3> QED BY <2>3, <2>4, <3>1, <3>2, <3>3 DEF BatchesTyped
  <2> QED BY <1>5, <2>5, <2>6, <2>7 DEF Add, q
<1> QED BY <1>1, <1>4, <1>5 DEF WorkerStep

LEMMA BatchTypes ==
    ASSUME TypeInv, NEW p \in Pods,
           \/ TimerFlush(p) \/ StopBatcher(p)
           \/ \E batch \in BagToSet(flights[p]) : FlushDone(p, batch)
    PROVE  TypeInv'
<1> USE ConsumerAssumption DEF TypeInv
<1>1. ASSUME buffer' = [buffer EXCEPT ![p] = <<>>]
      PROVE  buffer' \in [Pods -> Seq(Offsets)] /\ \A r \in Pods : Len(buffer'[r]) < Size
  BY <1>1 DEF TypeOK
<1>2. ASSUME flights' = Launched(p, buffer[p])
      PROVE  /\ FlightsInv'
             /\ \A r \in Pods : IsABag(flights'[r]) /\ BagToSet(flights'[r]) \subseteq SUBSET Offsets
  <2>1. buffer[p] \in Seq(Offsets)
    BY DEF TypeOK
  <2> QED BY <1>2, <2>1, TakesOff
<1>3. CASE TimerFlush(p)
  BY <1>1, <1>2, <1>3 DEF TimerFlush, TypeOK, ClaimInv
<1>4. CASE StopBatcher(p)
  <2>1. CASE UNCHANGED flights
    BY <1>1, <1>4, <2>1 DEF StopBatcher, TypeOK, FlightsInv, ClaimInv, Stages
  <2>2. CASE flights' = Launched(p, buffer[p])
    BY <1>1, <1>2, <1>4, <2>2 DEF StopBatcher, TypeOK, ClaimInv, Stages
  <2> QED BY <1>4, <2>1, <2>2 DEF StopBatcher
<1>5. CASE \E batch \in BagToSet(flights[p]) : FlushDone(p, batch)
  <2>1. PICK batch \in BagToSet(flights[p]) : FlushDone(p, batch)
    BY <1>5
  <2> DEFINE B == flights[p] (-) SetToBag({batch})
  <2>2. IsABag(flights[p]) /\ BagToSet(flights[p]) \subseteq SUBSET Offsets
    BY DEF TypeOK
  <2>3. IsABag(B) /\ BagToSet(B) \subseteq BagToSet(flights[p])
    BY <2>2, BagShrinks
  <2>4. flights' = [flights EXCEPT ![p] = B]
    <3>1. DOMAIN flights = Pods
      BY DEF FlightsInv
    <3> QED BY <2>1, <3>1 DEF FlushDone
  <2> HIDE DEF B
  <2>5. /\ FlightsInv'
        /\ \A r \in Pods : IsABag(flights'[r]) /\ BagToSet(flights'[r]) \subseteq SUBSET Offsets
    BY <2>2, <2>3, <2>4, OnePodsFlights
  <2>6. batch \subseteq Offsets
    BY <2>2
  <2> QED BY <2>1, <2>5, <2>6 DEF FlushDone, TypeOK, ClaimInv
<1> QED BY <1>3, <1>4, <1>5

LEMMA DieTypes ==
    ASSUME TypeInv, NEW p \in Pods, Die(p), faults' \in 0..MaxFaults
    PROVE  TypeInv'
<1> USE ConsumerAssumption DEF TypeInv
<1>1. /\ FlightsInv'
      /\ \A r \in Pods : IsABag(flights'[r]) /\ BagToSet(flights'[r]) \subseteq SUBSET Offsets
  <2>1. flights' = [flights EXCEPT ![p] = EmptyBag]
    BY DEF Die
  <2> QED BY <2>1, NoBag, OnePodsFlights
<1>2. /\ chans' \in [Pods -> [WorkerIds -> Seq(Offsets)]]
      /\ \A r \in Pods, v \in WorkerIds : Len(chans'[r][v]) <= BufferPerWorker
      /\ busy' \in [Pods -> [WorkerIds -> 0..MaxOffset]]
  BY DEF Die, TypeOK
<1>3. buffer' \in [Pods -> Seq(Offsets)] /\ \A r \in Pods : Len(buffer'[r]) < Size
  BY DEF Die, TypeOK
<1>4. abandoned' \subseteq Offsets
  <2>1. \A o \in HeldBy(p) : o <= committed => o \in Offsets
    <3>1. \A w \in WorkerIds : /\ Range(chans[p][w]) \subseteq Offsets
                               /\ {busy[p][w]} \ {0} \subseteq Offsets
      <4> TAKE w \in WorkerIds
      <4>1. chans[p][w] \in Seq(Offsets) /\ busy[p][w] \in 0..MaxOffset
        BY DEF TypeOK
      <4>2. Range(chans[p][w]) \subseteq Offsets
        BY <4>1 DEF Range
      <4>3. {busy[p][w]} \ {0} \subseteq Offsets
        BY <4>1 DEF Offsets
      <4> QED BY <4>2, <4>3
    <3>2. Range(buffer[p]) \subseteq Offsets /\ BagToSet(flights[p]) \subseteq SUBSET Offsets
      BY DEF TypeOK, Range
    <3> QED BY <3>1, <3>2 DEF HeldBy
  <2> QED BY <2>1 DEF Die, TypeOK
<1>5. ClaimInv'
  BY DEF Die, EndSession, ClaimInv, TypeOK
<1>6. /\ up' \in [Pods -> BOOLEAN] /\ closed' \in [Pods -> BOOLEAN]
      /\ stopped' \in [Pods -> BOOLEAN] /\ stage' \in [Pods -> Stages]
      /\ seen' \in [Pods -> SUBSET Offsets] /\ done' \in [Pods -> SUBSET Offsets]
  BY DEF Die, TypeOK, Stages
<1>7. /\ cpc' \in [Pods -> {"none", "recv", "dispatch"}]
      /\ ctxDone' \in [Pods -> BOOLEAN] /\ owner' \in Pods \cup {NoPod}
  BY DEF Die, EndSession, TypeOK
<1>9. /\ start' \in [Pods -> 0..MaxOffset] /\ pos' \in [Pods -> 0..MaxOffset]
      /\ marked' \in [Pods -> 0..MaxOffset]
  <2>1. 0 \in 0..MaxOffset
    OBVIOUS
  <2> QED BY <2>1 DEF Die, EndSession, TypeOK
<1>8. UNCHANGED <<kind, hw, committed, handled, skipped>>
  BY DEF Die
<1> QED BY <1>1, <1>2, <1>3, <1>4, <1>5, <1>6, <1>7, <1>8, <1>9 DEF TypeOK

\* The steps that end a process.
Dies(p) == Kill(p) \/ SendPanics(p) \/ CloseAgain(p)

\* The steps that leave what a pod holds alone.
Passes(p) ==
    \/ Rebalance(p) \/ Evict(p) \/ Restart(p) \/ SigTerm(p) \/ CloseChannels(p)
    \/ WorkersDone(p) \/ GroupClose(p)

LEMMA PassTypes ==
    ASSUME TypeInv, NEW p \in Pods, Passes(p)
    PROVE  TypeInv'
<1> USE ConsumerAssumption, TypeParts, PartsType DEF TypeInv
<1>1. PipesTyped' /\ BatchesTyped' /\ FlightsInv'
  <2>1. UNCHANGED <<chans, busy, buffer, flights>>
    BY DEF Passes, Rebalance, Evict, Restart, SigTerm, CloseChannels, WorkersDone, GroupClose
  <2> QED BY <2>1, SamePipes, SameBatches
<1>2. ClaimsTyped' /\ ClaimInv'
  <2>1. CASE Rebalance(p) \/ Evict(p) \/ SigTerm(p)
    BY <2>1 DEF Rebalance, Evict, SigTerm, ClaimsTyped, ClaimInv
  <2>2. CASE Restart(p) \/ CloseChannels(p) \/ WorkersDone(p) \/ GroupClose(p)
    BY <2>2, SameClaims DEF Restart, CloseChannels, WorkersDone, GroupClose
  <2> QED BY <2>1, <2>2 DEF Passes
<1>3. RestTyped'
  <2>1. CASE Rebalance(p) \/ SigTerm(p)
    <3>1. faults' \in 0..MaxFaults /\ stage' \in [Pods -> Stages]
      BY <2>1 DEF Rebalance, SigTerm, RestTyped, Stages
    <3> QED BY <2>1, <3>1 DEF Rebalance, SigTerm, RestTyped
  <2>2. CASE Evict(p) \/ Restart(p) \/ CloseChannels(p)
    <3>1. /\ up' \in [Pods -> BOOLEAN] /\ closed' \in [Pods -> BOOLEAN]
          /\ stage' \in [Pods -> Stages]
      BY <2>2 DEF Evict, Restart, CloseChannels, RestTyped, Stages
    <3> QED BY <2>2, <3>1 DEF Evict, Restart, CloseChannels, RestTyped
  <2>3. CASE WorkersDone(p) \/ GroupClose(p)
    BY <2>3 DEF WorkersDone, GroupClose, RestTyped, Stages
  <2> QED BY <2>1, <2>2, <2>3 DEF Passes
<1> QED BY <1>1, <1>2, <1>3

\* What a step is.
LEMMA StepsOf ==
    ASSUME Next
    PROVE  \/ Produce
           \/ \E p \in Pods :
                 \/ Join(p) \/ Receive(p) \/ Dispatch(p) \/ LeaveClaim(p) \/ CommitTick(p)
                 \/ \E w \in WorkerIds : WorkerStep(p, w)
                 \/ TimerFlush(p) \/ StopBatcher(p)
                 \/ \E batch \in BagToSet(flights[p]) : FlushDone(p, batch)
                 \/ Dies(p) \/ Passes(p)
BY DEF Next, ClaimStep, CloseStep, Dies, Passes

LEMMA DiesMeans ==
    ASSUME NEW p \in Pods, TypeOK, Dies(p)
    PROVE  Die(p) /\ faults' \in 0..MaxFaults
BY ConsumerAssumption DEF Dies, Kill, SendPanics, CloseAgain, TypeOK

LEMMA TypeInvStep == TypeInv /\ [Next]_vars => TypeInv'
<1> SUFFICES ASSUME TypeInv, [Next]_vars PROVE TypeInv'
  OBVIOUS
<1>1. CASE Produce
  BY <1>1, ConsumerAssumption DEF Produce, TypeInv, TypeOK, FlightsInv, ClaimInv
<1>2. CASE UNCHANGED vars
  BY <1>2 DEF vars, TypeInv, TypeOK, FlightsInv, ClaimInv
<1>3. ASSUME NEW p \in Pods, Dies(p) PROVE TypeInv'
  BY <1>3, DiesMeans, DieTypes DEF TypeInv
<1> QED
  BY <1>1, <1>2, <1>3, StepsOf, ClaimTypes, WorkerTypes, BatchTypes, PassTypes

----------------------------------------------------------------------------
(* Close waits for the workers.                                            *)

LEMMA CloseInvStep == TypeInv /\ CloseInv /\ [Next]_vars => CloseInv'
<1> SUFFICES ASSUME TypeInv, CloseInv, [Next]_vars PROVE CloseInv'
  OBVIOUS
<1> USE ConsumerAssumption DEF TypeInv
<1>1. CASE UNCHANGED <<stage, closed, chans, busy>>
  BY <1>1 DEF CloseInv
<1>2. ASSUME NEW p \in Pods, Dispatch(p) PROVE CloseInv'
  <2>1. \A r \in Pods \ {p} : chans'[r] = chans[r]
    BY <1>2 DEF Dispatch, TypeOK
  <2>2. ~closed[p] /\ UNCHANGED <<stage, closed, busy>>
    BY <1>2 DEF Dispatch
  <2> QED BY <2>1, <2>2 DEF CloseInv
<1>3. ASSUME NEW p \in Pods, NEW w \in WorkerIds, WorkerStep(p, w) PROVE CloseInv'
  <2>1. /\ UNCHANGED <<stage, closed>>
        /\ \A r \in Pods \ {p} : chans'[r] = chans[r] /\ busy'[r] = busy[r]
    BY <1>3 DEF WorkerStep, Take, Handle, Add, TypeOK
  <2>2. chans[p][w] # <<>> \/ busy[p][w] # 0
    BY <1>3 DEF WorkerStep, Take, Handle, Add
  <2> QED BY <2>1, <2>2 DEF CloseInv
<1>4. ASSUME NEW p \in Pods, StopBatcher(p) PROVE CloseInv'
  <2>1. /\ stage[p] = "cancelled" /\ stage'[p] = "flushed"
        /\ \A r \in Pods \ {p} : stage'[r] = stage[r]
        /\ UNCHANGED <<closed, chans, busy>>
    BY <1>4 DEF StopBatcher, TypeOK
  <2> QED BY <2>1 DEF CloseInv
<1>5. ASSUME NEW p \in Pods, Dies(p) PROVE CloseInv'
  <2>1. Die(p)
    BY <1>5, DiesMeans
  <2>2. /\ ~closed'[p] /\ stage'[p] = "run"
        /\ \A r \in Pods \ {p} : /\ stage'[r] = stage[r] /\ closed'[r] = closed[r]
                                 /\ chans'[r] = chans[r] /\ busy'[r] = busy[r]
    BY <2>1 DEF Die, TypeOK
  <2> QED BY <2>2 DEF CloseInv
<1>6. ASSUME NEW p \in Pods, SigTerm(p) \/ CloseChannels(p) \/ WorkersDone(p) \/ GroupClose(p)
      PROVE  CloseInv'
  <2>1. /\ UNCHANGED <<chans, busy>>
        /\ \A r \in Pods \ {p} : stage'[r] = stage[r] /\ closed'[r] = closed[r]
    BY <1>6 DEF SigTerm, CloseChannels, WorkersDone, GroupClose, TypeOK
  <2>2. CASE SigTerm(p)
    <3>1. stage[p] = "run" /\ stage'[p] = "cancelled" /\ closed' = closed
      BY <2>2 DEF SigTerm, TypeOK
    <3> QED BY <2>1, <3>1 DEF CloseInv
  <2>3. CASE CloseChannels(p)
    <3>1. stage'[p] = "closing" /\ closed'[p]
      BY <2>3 DEF CloseChannels, TypeOK
    <3> QED BY <2>1, <3>1 DEF CloseInv
  <2>4. CASE WorkersDone(p)
    <3>1. /\ stage[p] = "closing" /\ stage'[p] = "drained" /\ closed' = closed
          /\ \A w \in WorkerIds : chans[p][w] = <<>> /\ busy[p][w] = 0
      BY <2>4 DEF WorkersDone, Exited, TypeOK
    <3> QED BY <2>1, <3>1 DEF CloseInv
  <2>5. CASE GroupClose(p)
    <3>1. stage[p] = "drained" /\ stage'[p] = "closed" /\ closed' = closed
      BY <2>5 DEF GroupClose, TypeOK
    <3> QED BY <2>1, <3>1 DEF CloseInv
  <2> QED BY <1>6, <2>2, <2>3, <2>4, <2>5
<1>7. ASSUME NEW p \in Pods,
             \/ Join(p) \/ Receive(p) \/ LeaveClaim(p) \/ CommitTick(p) \/ TimerFlush(p)
             \/ \E batch \in BagToSet(flights[p]) : FlushDone(p, batch)
             \/ Rebalance(p) \/ Evict(p) \/ Restart(p)
      PROVE  UNCHANGED <<stage, closed, chans, busy>>
  BY <1>7 DEF Join, Receive, LeaveClaim, CommitTick, TimerFlush, FlushDone, Rebalance,
       Evict, Restart
<1>8. CASE Next
  BY <1>1, <1>2, <1>3, <1>4, <1>5, <1>6, <1>7, <1>8, StepsOf DEF Passes, Produce
<1> QED BY <1>1, <1>8 DEF vars

----------------------------------------------------------------------------
(* No committed message is lost.                                           *)

\* Where a message that a pod holds is.
LEMMA HeldMeans ==
    ASSUME NEW p \in Pods, NEW o
    PROVE  o \in HeldBy(p) <=>
               \/ \E w \in WorkerIds : o \in Range(chans[p][w])
               \/ \E w \in WorkerIds : o = busy[p][w] /\ o # 0
               \/ o \in Range(buffer[p])
               \/ \E batch \in BagToSet(flights[p]) : o \in batch
BY DEF HeldBy

LEMMA HeldMeansNext ==
    ASSUME NEW p \in Pods, NEW o
    PROVE  o \in HeldBy(p)' <=>
               \/ \E w \in WorkerIds : o \in Range(chans'[p][w])
               \/ \E w \in WorkerIds : o = busy'[p][w] /\ o # 0
               \/ o \in Range(buffer'[p])
               \/ \E batch \in BagToSet(flights'[p]) : o \in batch
BY DEF HeldBy

\* A pod whose channels, workers and batcher stay as they are.
Rests(p) ==
    /\ chans'[p] = chans[p] /\ busy'[p] = busy[p]
    /\ buffer'[p] = buffer[p] /\ flights'[p] = flights[p]

LEMMA RestHolds == ASSUME NEW p \in Pods, Rests(p) PROVE HeldBy(p)' = HeldBy(p)
BY DEF HeldBy, Rests

\* What pod p holds it still holds, or it is handled or given up.
Keeps(p) ==
    HeldBy(p) \subseteq handled' \cup abandoned' \cup HeldBy(p)'

Accounted == CommittedAccounted /\ MarkedAccounted

LEMMA KeptAccounted ==
    ASSUME TypeInv, Accounted, \A p \in Pods : Keeps(p), UNCHANGED committed,
           handled \subseteq handled', abandoned \subseteq abandoned',
           skipped \subseteq skipped',
           \A p \in Pods : \A o \in 1..marked'[p] :
               \/ o \in 1..marked[p] \/ o <= committed
               \/ o \in skipped' \/ o \in HeldBy(p)'
    PROVE  Accounted'
<1>1. CommittedAccounted'
  <2> SUFFICES ASSUME NEW o \in 1..committed
               PROVE  \/ o \in handled' \cup abandoned' \cup skipped'
                      \/ \E p \in Pods : o \in HeldBy(p)'
    BY DEF CommittedAccounted
  <2>1. \/ o \in handled \cup abandoned \cup skipped
        \/ \E p \in Pods : o \in HeldBy(p)
    BY DEF Accounted, CommittedAccounted
  <2>2. CASE o \in handled \cup abandoned \cup skipped
    BY <2>2
  <2>3. ASSUME NEW p \in Pods, o \in HeldBy(p)
        PROVE  o \in handled' \cup abandoned' \cup HeldBy(p)'
    BY <2>3 DEF Keeps
  <2> QED BY <2>1, <2>2, <2>3
<1>2. MarkedAccounted'
  <2> SUFFICES ASSUME NEW p \in Pods, NEW o \in 1..marked'[p], ~(o <= committed)
               PROVE  o \in handled' \cup abandoned' \cup skipped' \cup HeldBy(p)'
    BY DEF MarkedAccounted
  <2>1. CASE o \in 1..marked[p]
    <3>1. o \in handled \cup abandoned \cup skipped \cup HeldBy(p)
      BY <2>1 DEF Accounted, MarkedAccounted
    <3> QED BY <3>1 DEF Keeps
  <2> QED BY <2>1
<1> QED BY <1>1, <1>2 DEF Accounted

LEMMA TakeKeeps ==
    ASSUME TypeInv, NEW p \in Pods, NEW w \in WorkerIds, Take(p, w)
    PROVE  /\ \A r \in Pods \ {p} : Rests(r)
           /\ HeldBy(p)' = HeldBy(p)
<1> DEFINE q == chans[p][w]
<1> USE DEF TypeInv
<1>1. q \in Seq(Offsets) /\ q # <<>>
  BY DEF Take, TypeOK
<1>2. /\ chans' = [chans EXCEPT ![p][w] = Tail(q)]
      /\ busy' = [busy EXCEPT ![p][w] = Head(q)]
      /\ UNCHANGED <<buffer, flights>> /\ busy[p][w] = 0
  BY DEF Take
<1> HIDE DEF q
<1>3. Head(q) \in Offsets /\ Tail(q) \in Seq(Offsets) /\ Range(q) = Range(Tail(q)) \cup {Head(q)}
  BY <1>1, TailBuffer
<1>4. Head(q) \in 0..MaxOffset /\ Head(q) # 0
  BY <1>3, ConsumerAssumption DEF Offsets
<1>5. /\ chans'[p][w] = Tail(q)
      /\ \A v \in WorkerIds \ {w} : chans'[p][v] = chans[p][v]
      /\ \A r \in Pods \ {p} : chans'[r] = chans[r]
  <2>1. chans \in [Pods -> [WorkerIds -> Seq(Offsets)]]
    BY DEF TypeOK
  <2> QED BY <1>2, <2>1
<1>6. /\ busy'[p][w] = Head(q)
      /\ \A v \in WorkerIds \ {w} : busy'[p][v] = busy[p][v]
      /\ \A r \in Pods \ {p} : busy'[r] = busy[r]
  <2>1. busy \in [Pods -> [WorkerIds -> 0..MaxOffset]]
    BY DEF TypeOK
  <2> QED BY <1>2, <2>1
<1>7. ASSUME NEW o
      PROVE  /\ (\E v \in WorkerIds : o \in Range(chans[p][v])) <=>
                   \/ \E v \in WorkerIds : o \in Range(chans'[p][v])
                   \/ o = Head(q)
             /\ (\E v \in WorkerIds : o = busy'[p][v] /\ o # 0) <=>
                   \/ \E v \in WorkerIds : o = busy[p][v] /\ o # 0
                   \/ o = Head(q)
  <2>1. chans[p][w] = q
    BY DEF q
  <2>2. (\E v \in WorkerIds : o \in Range(chans[p][v])) <=>
            \/ o \in Range(q)
            \/ \E v \in WorkerIds \ {w} : o \in Range(chans[p][v])
    BY <2>1
  <2>3. (\E v \in WorkerIds : o \in Range(chans'[p][v])) <=>
            \/ o \in Range(Tail(q))
            \/ \E v \in WorkerIds \ {w} : o \in Range(chans'[p][v])
    BY <1>5
  <2>4. (\E v \in WorkerIds \ {w} : o \in Range(chans'[p][v])) <=>
            \E v \in WorkerIds \ {w} : o \in Range(chans[p][v])
    BY <1>5
  <2>5. (\E v \in WorkerIds : o = busy'[p][v] /\ o # 0) <=>
            \/ \E v \in WorkerIds : o = busy[p][v] /\ o # 0
            \/ o = Head(q)
    BY <1>2, <1>4, <1>6
  <2> QED BY <1>3, <2>2, <2>3, <2>4, <2>5
<1>8. ASSUME NEW o PROVE o \in HeldBy(p)' <=> o \in HeldBy(p)
  BY <1>2, <1>7, HeldMeans, HeldMeansNext
<1> QED BY <1>2, <1>5, <1>6, <1>8 DEF Rests

LEMMA DispatchKeeps ==
    ASSUME TypeInv, NEW p \in Pods, Dispatch(p)
    PROVE  /\ \A r \in Pods \ {p} : Rests(r)
           /\ HeldBy(p) \subseteq HeldBy(p)' /\ pos[p] \in HeldBy(p)'
<1> DEFINE w == ShardIndex(pos[p])
           q == chans[p][w]
<1> USE DEF TypeInv
<1>1. pos[p] \in Offsets /\ w \in WorkerIds
  BY ConsumerAssumption DEF Dispatch, TypeOK, ClaimInv, Offsets, ShardIndex
<1>2. q \in Seq(Offsets)
  BY <1>1 DEF TypeOK
<1>3. chans' = [chans EXCEPT ![p][w] = Append(q, pos[p])] /\ UNCHANGED <<busy, buffer, flights>>
  BY <1>1 DEF Dispatch
<1> HIDE DEF q, w
<1>4. Append(q, pos[p]) \in Seq(Offsets) /\ Range(Append(q, pos[p])) = Range(q) \cup {pos[p]}
  BY <1>1, <1>2, AppendBuffer
<1>5. /\ chans'[p][w] = Append(q, pos[p])
      /\ \A v \in WorkerIds \ {w} : chans'[p][v] = chans[p][v]
      /\ \A r \in Pods \ {p} : chans'[r] = chans[r]
  <2>1. chans \in [Pods -> [WorkerIds -> Seq(Offsets)]]
    BY DEF TypeOK
  <2> QED BY <1>1, <1>3, <2>1
<1>6. ASSUME NEW o \in HeldBy(p) PROVE o \in HeldBy(p)'
  BY <1>1, <1>3, <1>4, <1>5, HeldMeans, HeldMeansNext DEF q
<1>7. pos[p] \in HeldBy(p)'
  BY <1>1, <1>4, <1>5, HeldMeansNext
<1> QED BY <1>3, <1>5, <1>6, <1>7 DEF Rests

LEMMA HandleKeeps ==
    ASSUME TypeInv, NEW p \in Pods, NEW w \in WorkerIds, Handle(p, w)
    PROVE  /\ \A r \in Pods \ {p} : Rests(r)
           /\ Keeps(p)
<1> USE DEF TypeInv
<1>1. 0 \in 0..MaxOffset /\ busy' = [busy EXCEPT ![p][w] = 0]
      /\ UNCHANGED <<chans, buffer, flights>> /\ handled' = handled \cup {busy[p][w]}
  BY ConsumerAssumption DEF Handle
<1>2. /\ \A v \in WorkerIds \ {w} : busy'[p][v] = busy[p][v]
      /\ \A r \in Pods \ {p} : busy'[r] = busy[r]
  <2>1. busy \in [Pods -> [WorkerIds -> 0..MaxOffset]]
    BY DEF TypeOK
  <2> QED BY <1>1, <2>1
<1>3. ASSUME NEW o \in HeldBy(p) PROVE o \in handled' \/ o \in HeldBy(p)'
  BY <1>1, <1>2, HeldMeans, HeldMeansNext
<1> QED BY <1>1, <1>2, <1>3 DEF Rests, Keeps

LEMMA AddKeeps ==
    ASSUME TypeInv, NEW p \in Pods, NEW w \in WorkerIds, Add(p, w)
    PROVE  /\ \A r \in Pods \ {p} : Rests(r)
           /\ Keeps(p)
<1> USE DEF TypeInv
<1> DEFINE b == busy[p][w]
           q == Append(buffer[p], b)
<1>1. 0 \in 0..MaxOffset /\ busy' = [busy EXCEPT ![p][w] = 0] /\ UNCHANGED chans
  BY ConsumerAssumption DEF Add
<1>2. /\ \A v \in WorkerIds \ {w} : busy'[p][v] = busy[p][v]
      /\ \A r \in Pods \ {p} : busy'[r] = busy[r]
  <2>1. busy \in [Pods -> [WorkerIds -> 0..MaxOffset]]
    BY DEF TypeOK
  <2> QED BY <1>1, <2>1
<1>3. b \in Offsets /\ buffer[p] \in Seq(Offsets)
  BY DEF Add, TypeOK, Offsets
<1>4. q \in Seq(Offsets) /\ Range(q) = Range(buffer[p]) \cup {b}
  BY <1>3, AppendBuffer
<1>5. CASE abandoned' = abandoned \cup {b} /\ UNCHANGED <<buffer, flights>>
  <2>1. ASSUME NEW o \in HeldBy(p) PROVE o \in abandoned' \/ o \in HeldBy(p)'
    BY <1>1, <1>2, <1>5, HeldMeans, HeldMeansNext
  <2> QED BY <1>1, <1>2, <1>5, <2>1 DEF Rests, Keeps
<1>6. CASE buffer' = [buffer EXCEPT ![p] = q] /\ UNCHANGED <<flights, abandoned>>
  <2>1. buffer'[p] = q /\ \A r \in Pods \ {p} : buffer'[r] = buffer[r]
    BY <1>6 DEF TypeOK
  <2> HIDE DEF q
  <2>2. ASSUME NEW o \in HeldBy(p) PROVE o \in HeldBy(p)'
    BY <1>1, <1>2, <1>4, <1>6, <2>1, HeldMeans, HeldMeansNext
  <2> QED BY <1>1, <1>2, <1>6, <2>1, <2>2 DEF Rests, Keeps
<1>7. CASE buffer' = [buffer EXCEPT ![p] = <<>>] /\ flights' = Launched(p, q)
  <2>1. buffer'[p] = <<>> /\ \A r \in Pods \ {p} : buffer'[r] = buffer[r]
    BY <1>7 DEF TypeOK
  <2> HIDE DEF q
  <2>2. /\ BagToSet(flights'[p]) = BagToSet(flights[p]) \cup {Range(q)}
        /\ \A r \in Pods \ {p} : flights'[r] = flights[r]
    BY <1>4, <1>7, TakesOff
  <2>3. ASSUME NEW o \in HeldBy(p) PROVE o \in HeldBy(p)'
    BY <1>1, <1>2, <1>4, <2>1, <2>2, HeldMeans, HeldMeansNext
  <2> QED BY <1>1, <1>2, <2>1, <2>2, <2>3 DEF Rests, Keeps
<1> QED BY <1>5, <1>6, <1>7 DEF Add

LEMMA FlushKeeps ==
    ASSUME TypeInv, NEW p \in Pods, TimerFlush(p) \/ StopBatcher(p)
    PROVE  /\ \A r \in Pods \ {p} : Rests(r)
           /\ Keeps(p)
<1> USE DEF TypeInv
<1>1. UNCHANGED <<chans, busy>> /\ buffer' = [buffer EXCEPT ![p] = <<>>]
  BY DEF TimerFlush, StopBatcher
<1>2. buffer'[p] = <<>> /\ \A r \in Pods \ {p} : buffer'[r] = buffer[r]
  BY <1>1 DEF TypeOK
<1>3. CASE flights' = Launched(p, buffer[p])
  <2>1. buffer[p] \in Seq(Offsets)
    BY DEF TypeOK
  <2>2. /\ BagToSet(flights'[p]) = BagToSet(flights[p]) \cup {Range(buffer[p])}
        /\ \A r \in Pods \ {p} : flights'[r] = flights[r]
    BY <1>3, <2>1, TakesOff
  <2>3. ASSUME NEW o \in HeldBy(p) PROVE o \in HeldBy(p)'
    BY <1>1, <1>2, <2>2, HeldMeans, HeldMeansNext
  <2> QED BY <1>1, <1>2, <2>2, <2>3 DEF Rests, Keeps
<1>4. CASE buffer[p] = <<>> /\ UNCHANGED flights
  <2>1. ASSUME NEW o \in HeldBy(p) PROVE o \in HeldBy(p)'
    BY <1>1, <1>2, <1>4, HeldMeans, HeldMeansNext
  <2> QED BY <1>1, <1>2, <1>4, <2>1 DEF Rests, Keeps
<1> QED BY <1>3, <1>4 DEF TimerFlush, StopBatcher

LEMMA FlushDoneKeeps ==
    ASSUME TypeInv, NEW p \in Pods, NEW batch, FlushDone(p, batch)
    PROVE  /\ \A r \in Pods \ {p} : Rests(r)
           /\ Keeps(p)
<1> USE DEF TypeInv
<1> DEFINE B == flights[p] (-) SetToBag({batch})
<1>1. DOMAIN flights = Pods
  BY DEF FlightsInv
<1>2. /\ UNCHANGED <<chans, busy, buffer>> /\ handled' = handled \cup batch
      /\ flights' = [flights EXCEPT ![p] = B]
  BY DEF FlushDone
<1>3. BagToSet(flights[p]) \ {batch} \subseteq BagToSet(B)
  BY BagShrinks DEF TypeOK
<1> HIDE DEF B
<1>4. flights'[p] = B /\ \A r \in Pods \ {p} : flights'[r] = flights[r]
  BY <1>1, <1>2
<1>5. ASSUME NEW o \in HeldBy(p) PROVE o \in handled' \/ o \in HeldBy(p)'
  BY <1>2, <1>3, <1>4, HeldMeans, HeldMeansNext
<1> QED BY <1>2, <1>4, <1>5 DEF Rests, Keeps

LEMMA DieHolds ==
    ASSUME TypeInv, NEW p \in Pods, Die(p)
    PROVE  /\ \A r \in Pods \ {p} : Rests(r) /\ marked'[r] = marked[r]
           /\ marked'[p] = 0
<1>1. DOMAIN flights = Pods
  BY DEF TypeInv, FlightsInv
<1> QED BY <1>1 DEF Die, EndSession, Rests, TypeInv, TypeOK

LEMMA AccountedStep == TypeInv /\ Accounted /\ [Next]_vars => Accounted'
<1> SUFFICES ASSUME TypeInv, Accounted, [Next]_vars PROVE Accounted'
  OBVIOUS
<1>1. ASSUME NEW p \in Pods, Rests(p) PROVE Keeps(p)
  BY <1>1, RestHolds DEF Keeps
\* The steps that only change where messages are.
<1>2. ASSUME NEW p \in Pods, Keeps(p), \A r \in Pods \ {p} : Rests(r),
             UNCHANGED <<committed, marked, skipped>>,
             handled \subseteq handled', abandoned \subseteq abandoned'
      PROVE  Accounted'
  <2>1. \A r \in Pods : Keeps(r)
    BY <1>1, <1>2
  <2>2. \A r \in Pods : \A o \in 1..marked'[r] : o \in 1..marked[r]
    BY <1>2
  <2> QED BY <1>2, <2>1, <2>2, KeptAccounted
<1>3. ASSUME UNCHANGED <<committed, marked, chans, busy, buffer, flights, handled, abandoned,
                         skipped>>
      PROVE  Accounted'
  <2>1. \A r \in Pods : Keeps(r)
    BY <1>1, <1>3 DEF Rests
  <2>2. \A r \in Pods : \A o \in 1..marked'[r] : o \in 1..marked[r]
    BY <1>3
  <2> QED BY <1>3, <2>1, <2>2, KeptAccounted
<1>4. ASSUME NEW p \in Pods, NEW w \in WorkerIds, WorkerStep(p, w) PROVE Accounted'
  <2>1. /\ UNCHANGED <<committed, marked, skipped>>
        /\ handled \subseteq handled' /\ abandoned \subseteq abandoned'
    BY <1>4 DEF WorkerStep, Take, Handle, Add
  <2>2. Keeps(p) /\ \A r \in Pods \ {p} : Rests(r)
    BY <1>4, TakeKeeps, HandleKeeps, AddKeeps DEF WorkerStep, Keeps
  <2> QED BY <1>2, <2>1, <2>2
<1>5. ASSUME NEW p \in Pods, TimerFlush(p) \/ StopBatcher(p) PROVE Accounted'
  <2>1. UNCHANGED <<committed, marked, handled, abandoned, skipped>>
    BY <1>5 DEF TimerFlush, StopBatcher
  <2>2. Keeps(p) /\ \A r \in Pods \ {p} : Rests(r)
    BY <1>5, FlushKeeps
  <2> QED BY <1>2, <2>1, <2>2
<1>6. ASSUME NEW p \in Pods, NEW batch, FlushDone(p, batch) PROVE Accounted'
  <2>1. UNCHANGED <<committed, marked, abandoned, skipped>> /\ handled \subseteq handled'
    BY <1>6 DEF FlushDone
  <2>2. Keeps(p) /\ \A r \in Pods \ {p} : Rests(r)
    BY <1>6, FlushDoneKeeps
  <2> QED BY <1>2, <2>1, <2>2
<1>7. ASSUME NEW p \in Pods, Dispatch(p) PROVE Accounted'
  <2>1. UNCHANGED <<committed, handled, abandoned, skipped>>
    BY <1>7 DEF Dispatch
  <2>2. /\ HeldBy(p) \subseteq HeldBy(p)' /\ pos[p] \in HeldBy(p)'
        /\ \A r \in Pods \ {p} : Rests(r)
    BY <1>7, DispatchKeeps
  <2>3. \A r \in Pods : Keeps(r)
    BY <1>1, <2>2 DEF Keeps
  <2>4. /\ marked'[p] = marked[p] + 1 /\ pos[p] = marked[p] + 1 /\ marked[p] \in Nat
        /\ \A r \in Pods \ {p} : marked'[r] = marked[r]
    BY <1>7, ConsumerAssumption DEF Dispatch, TypeInv, TypeOK, ClaimInv
  <2>5. ASSUME NEW r \in Pods, NEW o \in 1..marked'[r]
        PROVE  o \in 1..marked[r] \/ o \in HeldBy(r)'
    BY <2>2, <2>4
  <2> QED BY <2>1, <2>3, <2>5, KeptAccounted
<1>8. ASSUME NEW p \in Pods, Join(p) \/ LeaveClaim(p) PROVE Accounted'
  <2>1. /\ UNCHANGED <<committed, chans, busy, buffer, flights, handled, abandoned>>
        /\ skipped \subseteq skipped'
    BY <1>8 DEF Join, LeaveClaim
  <2>2. \A r \in Pods : Keeps(r)
    BY <1>1, <2>1 DEF Rests
  <2>3. /\ \/ marked'[p] = 0
           \/ marked'[p] = InitialOffset /\ (committed + 1)..InitialOffset \subseteq skipped'
        /\ \A r \in Pods \ {p} : marked'[r] = marked[r]
    BY <1>8 DEF Join, LeaveClaim, EndSession, TypeInv, TypeOK
  <2>4. committed \in Nat /\ InitialOffset \in Nat
    BY ConsumerAssumption DEF InitialOffset, TypeInv, TypeOK
  <2>5. ASSUME NEW r \in Pods, NEW o \in 1..marked'[r]
        PROVE  o \in 1..marked[r] \/ o <= committed \/ o \in skipped'
    <3>1. CASE r = p /\ marked'[p] = InitialOffset
      BY <2>3, <2>4, <3>1
    <3> QED BY <2>3, <3>1
  <2> QED BY <2>1, <2>2, <2>5, KeptAccounted
\* What is committed now was marked, and so accounted for.
<1>9. ASSUME NEW p \in Pods, CommitTick(p) PROVE Accounted'
  <2>1. /\ committed' = marked[p] /\ committed < marked[p]
        /\ UNCHANGED <<marked, chans, busy, buffer, flights, handled, abandoned, skipped>>
    BY <1>9 DEF CommitTick
  <2>2. \A r \in Pods : HeldBy(r)' = HeldBy(r)
    BY <2>1, RestHolds DEF Rests
  <2>3. committed \in Nat /\ \A r \in Pods : marked[r] \in Nat
    BY ConsumerAssumption DEF TypeInv, TypeOK
  <2>4. ASSUME NEW o \in 1..committed'
        PROVE  o \in handled \cup abandoned \cup skipped \/ \E r \in Pods : o \in HeldBy(r)
    <3>1. CASE o <= committed
      BY <2>1, <2>3, <2>4, <3>1 DEF Accounted, CommittedAccounted
    <3>2. CASE ~(o <= committed)
      BY <2>1, <2>4, <3>2 DEF Accounted, MarkedAccounted
    <3> QED BY <3>1, <3>2
  <2>5. CommittedAccounted'
    BY <2>1, <2>2, <2>4 DEF CommittedAccounted
  <2>6. MarkedAccounted'
    <3> SUFFICES ASSUME NEW r \in Pods, NEW o \in 1..marked'[r], ~(o <= committed')
                 PROVE  o \in handled' \cup abandoned' \cup skipped' \cup HeldBy(r)'
      BY DEF MarkedAccounted
    <3>1. o \in 1..marked[r] /\ ~(o <= committed)
      BY <2>1, <2>3
    <3> QED BY <2>1, <2>2, <3>1 DEF Accounted, MarkedAccounted
  <2> QED BY <2>5, <2>6 DEF Accounted
\* A process takes with it what it holds; what of that is committed is lost.
<1>10. ASSUME NEW p \in Pods, Dies(p) PROVE Accounted'
  <2>1. Die(p)
    BY <1>10, DiesMeans DEF TypeInv
  <2>2. /\ UNCHANGED <<committed, handled, skipped>>
        /\ abandoned' = abandoned \cup {o \in HeldBy(p) : o <= committed}
    BY <2>1 DEF Die
  <2>3. /\ \A r \in Pods \ {p} : HeldBy(r)' = HeldBy(r) /\ marked'[r] = marked[r]
        /\ marked'[p] = 0
    BY <2>1, DieHolds, RestHolds
  <2>4. committed \in Nat
    BY ConsumerAssumption DEF TypeInv, TypeOK
  <2>5. CommittedAccounted'
    <3> SUFFICES ASSUME NEW o \in 1..committed
                 PROVE  \/ o \in handled' \cup abandoned' \cup skipped'
                        \/ \E r \in Pods : o \in HeldBy(r)'
      BY <2>2 DEF CommittedAccounted
    <3>1. o <= committed
      BY <2>4
    <3>2. o \in handled \cup abandoned \cup skipped \/ \E r \in Pods : o \in HeldBy(r)
      BY DEF Accounted, CommittedAccounted
    <3>3. ASSUME NEW r \in Pods, o \in HeldBy(r)
          PROVE  o \in abandoned' \cup HeldBy(r)'
      BY <2>2, <2>3, <3>1, <3>3
    <3> QED BY <2>2, <3>2, <3>3
  <2>6. MarkedAccounted'
    <3> SUFFICES ASSUME NEW r \in Pods, NEW o \in 1..marked'[r], ~(o <= committed)
                 PROVE  o \in handled' \cup abandoned' \cup skipped' \cup HeldBy(r)'
      BY <2>2 DEF MarkedAccounted
    <3>1. r # p
      BY <2>3
    <3> QED BY <2>2, <2>3, <3>1 DEF Accounted, MarkedAccounted
  <2> QED BY <2>5, <2>6 DEF Accounted
<1>11. ASSUME NEW p \in Pods, Receive(p) \/ Passes(p) PROVE Accounted'
  BY <1>3, <1>11 DEF Receive, Passes, Rebalance, Evict, Restart, SigTerm, CloseChannels,
       WorkersDone, GroupClose
<1>12. CASE Produce \/ UNCHANGED vars
  BY <1>3, <1>12 DEF Produce, vars
<1> QED
  BY <1>4, <1>5, <1>6, <1>7, <1>8, <1>9, <1>10, <1>11, <1>12, StepsOf

----------------------------------------------------------------------------
(* Order, for a plain handler.                                             *)

\* The floor rises: no claim starts further back than one before it.
LEMMA FloorRises ==
    TypeInv /\ StartInv /\ [Next]_vars => StartInv' /\ Floor' \in Nat /\ Floor <= Floor'
<1> SUFFICES ASSUME TypeInv, StartInv, [Next]_vars
             PROVE  StartInv' /\ Floor' \in Nat /\ Floor <= Floor'
  OBVIOUS
<1> USE ConsumerAssumption DEF TypeInv
<1>0. /\ hw \in Nat /\ committed \in Nat /\ owner \in Pods \cup {NoPod}
      /\ \A p \in Pods : start[p] \in Nat
  BY DEF TypeOK
<1>1. CASE /\ UNCHANGED <<committed, owner>> /\ hw' \in Nat /\ hw <= hw'
           /\ owner # NoPod => start'[owner] = start[owner]
  BY <1>0, <1>1 DEF StartInv, Floor
<1>2. CASE UNCHANGED <<committed, owner, hw, start>>
  BY <1>0, <1>1, <1>2
<1>3. ASSUME NEW p \in Pods, Join(p) PROVE StartInv' /\ Floor' \in Nat /\ Floor <= Floor'
  <2>1. /\ owner = NoPod /\ owner' = p /\ start'[p] = InitialOffset
        /\ UNCHANGED <<committed, hw>>
    BY <1>3 DEF Join, TypeOK
  <2> QED BY <1>0, <2>1 DEF StartInv, Floor, InitialOffset
<1>4. ASSUME NEW p \in Pods, CommitTick(p)
      PROVE  StartInv' /\ Floor' \in Nat /\ Floor <= Floor'
  <2>1. /\ owner = p /\ start[p] < marked[p] /\ committed < marked[p]
        /\ committed' = marked[p] /\ marked[p] \in Nat
    BY <1>4 DEF CommitTick, TypeOK
  <2> QED BY <1>0, <2>1 DEF StartInv, Floor
<1>5. ASSUME NEW p \in Pods, EndSession(p), UNCHANGED <<committed, hw>>
      PROVE  StartInv' /\ Floor' \in Nat /\ Floor <= Floor'
  <2>1. /\ owner' = IF owner = p THEN NoPod ELSE owner
        /\ \A r \in Pods \ {p} : start'[r] = start[r]
    BY <1>5 DEF EndSession, TypeOK
  <2>2. CASE owner = p
    BY <1>0, <1>5, <2>1, <2>2 DEF StartInv, Floor
  <2>3. CASE owner # p
    BY <1>0, <1>1, <1>5, <2>1, <2>3
  <2> QED BY <2>2, <2>3
<1>6. ASSUME NEW p \in Pods, LeaveClaim(p) \/ Dies(p)
      PROVE  StartInv' /\ Floor' \in Nat /\ Floor <= Floor'
  <2>1. EndSession(p) /\ UNCHANGED <<committed, hw>>
    BY <1>6, DiesMeans DEF LeaveClaim, Die
  <2> QED BY <1>5, <2>1
<1>7. ASSUME NEW p \in Pods, Evict(p) PROVE StartInv' /\ Floor' \in Nat /\ Floor <= Floor'
  <2>1. owner = p /\ owner' = NoPod /\ UNCHANGED <<committed, hw, start>>
    BY <1>7 DEF Evict
  <2> QED BY <1>0, <2>1 DEF StartInv, Floor
<1>8. CASE Produce
  <2>1. UNCHANGED <<committed, owner, start>> /\ hw' = hw + 1
    BY <1>8 DEF Produce
  <2> QED BY <1>0, <1>1, <2>1
<1>9. ASSUME NEW p \in Pods, Receive(p) \/ Dispatch(p) \/ TimerFlush(p) \/ StopBatcher(p)
      PROVE  UNCHANGED <<committed, owner, hw, start>>
  BY <1>9 DEF Receive, Dispatch, TimerFlush, StopBatcher
<1>10. ASSUME NEW p \in Pods,
              \/ \E w \in WorkerIds : WorkerStep(p, w)
              \/ \E batch \in BagToSet(flights[p]) : FlushDone(p, batch)
       PROVE  UNCHANGED <<committed, owner, hw, start>>
  BY <1>10 DEF WorkerStep, Take, Handle, Add, FlushDone
<1>11. ASSUME NEW p \in Pods, Passes(p), ~Evict(p)
       PROVE  UNCHANGED <<committed, owner, hw, start>>
  BY <1>11 DEF Passes, Rebalance, Restart, SigTerm, CloseChannels, WorkersDone, GroupClose
<1>12. CASE UNCHANGED vars
  BY <1>2, <1>12 DEF vars
<1> QED
  BY <1>2, <1>3, <1>4, <1>6, <1>7, <1>8, <1>9, <1>10, <1>11, <1>12, StepsOf

LEMMA FloorTyped == ASSUME TypeInv PROVE Floor \in Nat
BY ConsumerAssumption DEF TypeInv, TypeOK, Floor

PodInv(p) == NoBatches(p) /\ SeenInv(p) /\ NoGap(p) /\ OrderInv(p)

\* A pod that rests and whose mark stays, while others may commit.
LEMMA PodRests ==
    ASSUME TypeInv, NEW p \in Pods, PodInv(p), Rests(p),
           seen'[p] = seen[p], done'[p] = done[p], marked'[p] = marked[p],
           cpc'[p] = "none" <=> cpc[p] = "none",
           Floor' \in Nat, Floor <= Floor'
    PROVE  PodInv(p)'
<1>1. Floor \in Nat
  BY FloorTyped
<1>2. NoBatches(p)'
  BY DEF PodInv, NoBatches, Rests
<1>3. SeenInv(p)'
  BY DEF PodInv, SeenInv, Pipe, Rests, ShardIndex
<1>4. NoGap(p)'
  <2>1. seen[p] \subseteq Offsets /\ marked[p] \in Nat
    BY ConsumerAssumption DEF TypeInv, TypeOK
  <2>2. \A y \in 1..marked'[p] : y <= Floor' \/ y \in seen'[p]
    BY <1>1, <2>1 DEF PodInv, NoGap
  <2>3. \A x \in seen'[p] : \A y \in (Floor' + 1)..x : y \in seen'[p]
    BY <1>1, <2>1 DEF PodInv, NoGap, Offsets
  <2>4. cpc'[p] # "none" =>
           \A x \in seen'[p] : \A y \in (marked'[p] + 1)..x : y \in seen'[p]
    BY DEF PodInv, NoGap
  <2> QED BY <2>2, <2>3, <2>4 DEF NoGap
<1>5. OrderInv(p)'
  BY DEF PodInv, OrderInv, Rests, ShardIndex
<1> QED BY <1>2, <1>3, <1>4, <1>5 DEF PodInv

\* The claim starts again at the floor, or ends.
LEMMA SessionOrder ==
    ASSUME TypeInv, NEW p \in Pods, PodInv(p), Rests(p),
           seen'[p] = seen[p], done'[p] = done[p], Floor' \in Nat, Floor <= Floor',
           \/ marked'[p] = Floor'
           \/ marked'[p] = 0 /\ cpc'[p] = "none"
    PROVE  PodInv(p)'
<1>1. NoBatches(p)'
  BY DEF PodInv, NoBatches, Rests
<1>2. SeenInv(p)'
  BY DEF PodInv, SeenInv, Pipe, Rests, ShardIndex
<1>3. NoGap(p)'
  <2>1. Floor \in Nat /\ seen[p] \subseteq Offsets
    BY FloorTyped DEF TypeInv, TypeOK
  <2>2. \A x \in seen'[p] : \A y \in (Floor' + 1)..x : y \in seen'[p]
    BY <2>1, ConsumerAssumption DEF PodInv, NoGap, Offsets
  <2>3. \A y \in 1..marked'[p] : y <= Floor' \/ y \in seen'[p]
    OBVIOUS
  <2> QED BY <2>2, <2>3 DEF NoGap
<1>4. OrderInv(p)'
  BY DEF PodInv, OrderInv, Rests, ShardIndex
<1> QED BY <1>1, <1>2, <1>3, <1>4 DEF PodInv

\* A process that ended has been given nothing.
LEMMA DeadOrder ==
    ASSUME TypeInv, NEW p \in Pods, Die(p) PROVE PodInv(p)'
<1>1. DOMAIN flights = Pods
  BY DEF TypeInv, FlightsInv
<1>2. /\ buffer'[p] = <<>> /\ flights'[p] = EmptyBag /\ seen'[p] = {} /\ done'[p] = {}
      /\ marked'[p] = 0
      /\ \A w \in WorkerIds : chans'[p][w] = <<>> /\ busy'[p][w] = 0
  BY <1>1 DEF Die, EndSession, TypeInv, TypeOK
<1>3. NoBatches(p)'
  BY <1>2, NoBag DEF NoBatches
<1>4. SeenInv(p)'
  BY <1>2, NoMessages DEF SeenInv, Pipe
<1>5. NoGap(p)' /\ OrderInv(p)'
  BY <1>2 DEF NoGap, OrderInv
<1> QED BY <1>3, <1>4, <1>5 DEF PodInv

\* A worker takes the first message of its channel: nothing before it is left.
LEMMA TakeOrder ==
    ASSUME TypeInv, NEW p \in Pods, NEW w \in WorkerIds, PodInv(p), Take(p, w)
    PROVE  PodInv(p)'
<1> DEFINE q == chans[p][w]
<1> USE DEF TypeInv
<1>1. q \in Seq(Offsets) /\ q # <<>> /\ busy[p][w] = 0
  BY DEF Take, TypeOK
<1>2. /\ chans' = [chans EXCEPT ![p][w] = Tail(q)]
      /\ busy' = [busy EXCEPT ![p][w] = Head(q)]
      /\ UNCHANGED <<buffer, flights, seen, done, marked, cpc, committed, hw, owner, start>>
  BY DEF Take
<1>3. chans[p][w] = q
  OBVIOUS
<1> HIDE DEF q
<1>4. Head(q) \in Offsets /\ Tail(q) \in Seq(Offsets) /\ Range(q) = Range(Tail(q)) \cup {Head(q)}
  BY <1>1, TailBuffer
<1>5. Head(q) \in 0..MaxOffset /\ Head(q) # 0
  BY <1>4, ConsumerAssumption DEF Offsets
<1>6. /\ chans'[p][w] = Tail(q)
      /\ \A v \in WorkerIds \ {w} : chans'[p][v] = chans[p][v]
  <2>1. chans \in [Pods -> [WorkerIds -> Seq(Offsets)]]
    BY DEF TypeOK
  <2> QED BY <1>2, <2>1
<1>7. /\ busy'[p][w] = Head(q)
      /\ \A v \in WorkerIds \ {w} : busy'[p][v] = busy[p][v]
  <2>1. busy \in [Pods -> [WorkerIds -> 0..MaxOffset]]
    BY DEF TypeOK
  <2> QED BY <1>2, <2>1
<1>8. \A v \in WorkerIds : Pipe(p, v)' = Pipe(p, v)
  <2>1. Pipe(p, w)' = Pipe(p, w)
    BY <1>1, <1>3, <1>4, <1>5, <1>6, <1>7 DEF Pipe
  <2>2. \A v \in WorkerIds \ {w} : Pipe(p, v)' = Pipe(p, v)
    BY <1>6, <1>7 DEF Pipe
  <2> QED BY <2>1, <2>2
<1>9. NoBatches(p)' /\ NoGap(p)'
  BY <1>2 DEF PodInv, NoBatches, NoGap, Floor
<1>10. seen[p] \subseteq Offsets /\ \A e \in seen[p] : ShardIndex(e) \in WorkerIds
  BY ConsumerAssumption DEF TypeOK, ShardIndex
<1>11. SeenInv(p)'
  <2>1. done'[p] \subseteq seen'[p]
    BY <1>2 DEF PodInv, SeenInv
  <2>2. \A v \in WorkerIds : \A o \in Pipe(p, v)' : o \in seen'[p] /\ ShardIndex(o) = v
    BY <1>2, <1>8 DEF PodInv, SeenInv
  <2>3. \A e \in seen'[p] : e \in done'[p] \/ e \in Pipe(p, ShardIndex(e))'
    BY <1>2, <1>8, <1>10 DEF PodInv, SeenInv
  <2> QED BY <2>1, <2>2, <2>3 DEF SeenInv, ShardIndex
<1>12. OrderInv(p)'
  <2> SUFFICES ASSUME NEW v \in WorkerIds, NEW e \in seen[p], ShardIndex(e) = v
        PROVE  /\ \A o \in done[p] : ShardIndex(o) = v /\ e < o => e \in done[p]
               /\ e < busy'[p][v] => e \in done[p]
               /\ \A k \in DOMAIN chans'[p][v] : e < chans'[p][v][k] =>
                     \/ e \in done[p] \/ e = busy'[p][v]
                     \/ \E j \in 1..(k - 1) : chans'[p][v][j] = e
    BY <1>2 DEF OrderInv, ShardIndex
  <2>1. /\ \A o \in done[p] : ShardIndex(o) = v /\ e < o => e \in done[p]
        /\ e < busy[p][v] => e \in done[p]
        /\ \A k \in DOMAIN chans[p][v] : e < chans[p][v][k] =>
              \/ e \in done[p] \/ e = busy[p][v]
              \/ \E j \in 1..(k - 1) : chans[p][v][j] = e
    BY DEF PodInv, OrderInv
  <2>2. CASE v # w
    BY <1>6, <1>7, <2>1, <2>2
  <2>3. CASE v = w
    <3>1. /\ DOMAIN q = 1..Len(q) /\ Len(q) \in Nat \ {0} /\ Head(q) = q[1]
          /\ DOMAIN Tail(q) = 1..(Len(q) - 1)
      BY <1>1
    <3>2. \A k \in 1..(Len(q) - 1) : Tail(q)[k] = q[k + 1]
      BY <1>1
    <3>3. e # 0
      BY <1>10 DEF Offsets
    <3>4. e < Head(q) => e \in done[p]
      BY <1>1, <1>3, <2>1, <2>3, <3>1, <3>3
    <3>5. ASSUME NEW k \in 1..(Len(q) - 1), e < Tail(q)[k], e \notin done[p], e # Head(q)
          PROVE  \E j \in 1..(k - 1) : Tail(q)[j] = e
      <4>1. k + 1 \in DOMAIN q /\ e < q[k + 1]
        BY <3>1, <3>2, <3>5
      <4>2. PICK j \in 1..((k + 1) - 1) : q[j] = e
        BY <1>1, <1>3, <2>1, <2>3, <3>3, <3>5, <4>1
      <4>3. j # 1
        BY <3>1, <3>5, <4>2
      <4>4. j - 1 \in 1..(k - 1) /\ j - 1 \in 1..(Len(q) - 1) /\ (j - 1) + 1 = j
        BY <3>1, <4>2, <4>3
      <4>5. Tail(q)[j - 1] = e
        BY <3>2, <4>2, <4>4
      <4> QED BY <4>4, <4>5
    <3>6. chans'[p][v] = Tail(q) /\ busy'[p][v] = Head(q)
      BY <1>6, <1>7, <2>3
    <3>7. \A k \in DOMAIN chans'[p][v] : e < chans'[p][v][k] =>
             \/ e \in done[p] \/ e = busy'[p][v]
             \/ \E j \in 1..(k - 1) : chans'[p][v][j] = e
      BY <3>1, <3>5, <3>6
    <3> QED BY <2>1, <3>4, <3>6, <3>7
  <2> QED BY <2>2, <2>3
<1> QED BY <1>9, <1>11, <1>12 DEF PodInv

\* A worker has handled its message.
LEMMA HandleOrder ==
    ASSUME TypeInv, NEW p \in Pods, NEW w \in WorkerIds, PodInv(p), Handle(p, w)
    PROVE  PodInv(p)'
<1> DEFINE b == busy[p][w]
<1> USE DEF TypeInv
<1>1. /\ b # 0 /\ busy' = [busy EXCEPT ![p][w] = 0] /\ 0 \in 0..MaxOffset
      /\ UNCHANGED <<chans, buffer, flights, seen, marked, cpc, committed, hw, owner, start>>
  BY ConsumerAssumption DEF Handle
<1>2. done'[p] = done[p] \cup {b}
  BY DEF Handle, TypeOK
<1>3. /\ busy'[p][w] = 0
      /\ \A v \in WorkerIds \ {w} : busy'[p][v] = busy[p][v]
  <2>1. busy \in [Pods -> [WorkerIds -> 0..MaxOffset]]
    BY DEF TypeOK
  <2> QED BY <1>1, <2>1
<1>4. b \in Pipe(p, w) /\ b \in seen[p] /\ ShardIndex(b) = w
  BY <1>1 DEF Pipe, PodInv, SeenInv
<1>5. /\ Pipe(p, w) = Pipe(p, w)' \cup {b}
      /\ \A v \in WorkerIds \ {w} : Pipe(p, v)' = Pipe(p, v)
  BY <1>1, <1>3 DEF Pipe
<1>6. NoBatches(p)' /\ NoGap(p)'
  BY <1>1 DEF PodInv, NoBatches, NoGap, Floor
<1>7. SeenInv(p)'
  <2>1. done'[p] \subseteq seen'[p]
    BY <1>1, <1>2, <1>4 DEF PodInv, SeenInv
  <2>2. \A v \in WorkerIds : \A o \in Pipe(p, v)' : o \in seen'[p] /\ ShardIndex(o) = v
    BY <1>1, <1>5 DEF PodInv, SeenInv
  <2>3. \A e \in seen[p] : ShardIndex(e) \in WorkerIds
    BY ConsumerAssumption DEF TypeOK, ShardIndex
  <2>4. \A e \in seen'[p] : e \in done'[p] \/ e \in Pipe(p, ShardIndex(e))'
    BY <1>1, <1>2, <1>5, <2>3 DEF PodInv, SeenInv
  <2> QED BY <2>1, <2>2, <2>4 DEF SeenInv, ShardIndex
<1>8. OrderInv(p)'
  <2> HIDE DEF b
  <2> SUFFICES ASSUME NEW v \in WorkerIds, NEW e \in seen[p], ShardIndex(e) = v
        PROVE  /\ \A o \in done'[p] : ShardIndex(o) = v /\ e < o => e \in done'[p]
               /\ e < busy'[p][v] => e \in done'[p]
               /\ \A k \in DOMAIN chans[p][v] : e < chans[p][v][k] =>
                     \/ e \in done'[p] \/ e = busy'[p][v]
                     \/ \E j \in 1..(k - 1) : chans[p][v][j] = e
    BY <1>1 DEF OrderInv, ShardIndex
  <2>1. /\ \A o \in done[p] : ShardIndex(o) = v /\ e < o => e \in done[p]
        /\ e < busy[p][v] => e \in done[p]
        /\ \A k \in DOMAIN chans[p][v] : e < chans[p][v][k] =>
              \/ e \in done[p] \/ e = busy[p][v]
              \/ \E j \in 1..(k - 1) : chans[p][v][j] = e
    BY DEF PodInv, OrderInv
  <2>2. v = w => busy[p][v] = b
    BY DEF b
  <2>3. e \in Offsets
    BY DEF TypeOK
  <2>4. ~(e < 0)
    BY <2>3, ConsumerAssumption DEF Offsets
  <2>5. \A o \in done'[p] : ShardIndex(o) = v /\ e < o => e \in done'[p]
    BY <1>2, <1>4, <2>1, <2>2
  <2>6. e < busy'[p][v] => e \in done'[p]
    BY <1>2, <1>3, <2>1, <2>4
  <2>7. \A k \in DOMAIN chans[p][v] : e < chans[p][v][k] =>
           \/ e \in done'[p] \/ e = busy'[p][v]
           \/ \E j \in 1..(k - 1) : chans[p][v][j] = e
    BY <1>2, <1>3, <2>1, <2>2
  <2> QED BY <2>5, <2>6, <2>7
<1> QED BY <1>6, <1>7, <1>8 DEF PodInv

\* A message goes to the end of its worker's channel.  Either the pod was given
\* it before, or it was given nothing behind it.
LEMMA DispatchOrder ==
    ASSUME TypeInv, NEW p \in Pods, PodInv(p), Dispatch(p)
    PROVE  PodInv(p)'
<1> USE DEF TypeInv
<1>0. PICK x \in Offsets, w \in WorkerIds : x = pos[p] /\ w = ShardIndex(x)
  <2>1. pos[p] \in Offsets
    BY ConsumerAssumption DEF Dispatch, TypeOK, ClaimInv, Offsets
  <2>2. ShardIndex(pos[p]) \in WorkerIds
    BY <2>1, ConsumerAssumption DEF ShardIndex
  <2> QED BY <2>1, <2>2
<1> DEFINE q == chans[p][w]
<1>1. /\ x \in Offsets /\ w \in WorkerIds /\ cpc[p] # "none"
      /\ x = marked[p] + 1 /\ marked[p] \in Nat
  BY <1>0, ConsumerAssumption DEF Dispatch, TypeOK, ClaimInv
<1>2. q \in Seq(Offsets)
  BY <1>1 DEF TypeOK
<1>3. /\ chans' = [chans EXCEPT ![p][w] = Append(q, x)]
      /\ UNCHANGED <<busy, buffer, flights, done, committed, hw, owner, start>>
  BY <1>0 DEF Dispatch
<1>4. seen'[p] = seen[p] \cup {x} /\ marked'[p] = x
  BY <1>0 DEF Dispatch, TypeOK
<1>5. chans[p][w] = q /\ ShardIndex(x) = w
  BY <1>0
<1> HIDE DEF q
<1>6. Append(q, x) \in Seq(Offsets) /\ Range(Append(q, x)) = Range(q) \cup {x}
  BY <1>1, <1>2, AppendBuffer
<1>7. /\ chans'[p][w] = Append(q, x)
      /\ \A v \in WorkerIds \ {w} : chans'[p][v] = chans[p][v]
  <2>1. chans \in [Pods -> [WorkerIds -> Seq(Offsets)]]
    BY DEF TypeOK
  <2> QED BY <1>1, <1>3, <2>1
<1>8. /\ Pipe(p, w)' = Pipe(p, w) \cup {x}
      /\ \A v \in WorkerIds \ {w} : Pipe(p, v)' = Pipe(p, v)
  <2>1. Pipe(p, w)' = Pipe(p, w) \cup {x}
    BY <1>3, <1>5, <1>6, <1>7 DEF Pipe
  <2>2. \A v \in WorkerIds \ {w} : Pipe(p, v)' = Pipe(p, v)
    BY <1>3, <1>7 DEF Pipe
  <2> QED BY <2>1, <2>2
<1>9. seen[p] \subseteq Offsets /\ \A e \in Offsets : ShardIndex(e) \in WorkerIds
  BY ConsumerAssumption DEF TypeOK, ShardIndex
<1>10. \A e \in seen[p] : x < e => x \in seen[p]
  <2> SUFFICES ASSUME NEW e \in seen[p], x < e PROVE x \in seen[p]
    OBVIOUS
  <2>1. x \in (marked[p] + 1)..e
    BY <1>1, <1>9 DEF Offsets
  <2> QED BY <1>1, <2>1 DEF PodInv, NoGap
<1>11. NoBatches(p)'
  BY <1>3 DEF PodInv, NoBatches
<1>12. SeenInv(p)'
  <2>1. done'[p] \subseteq seen'[p]
    BY <1>3, <1>4 DEF PodInv, SeenInv
  <2>2. \A v \in WorkerIds : \A o \in Pipe(p, v)' : o \in seen'[p] /\ ShardIndex(o) = v
    BY <1>4, <1>5, <1>8 DEF PodInv, SeenInv
  <2>3. \A e \in seen'[p] : e \in done'[p] \/ e \in Pipe(p, ShardIndex(e))'
    BY <1>1, <1>3, <1>4, <1>5, <1>8, <1>9 DEF PodInv, SeenInv
  <2> QED BY <2>1, <2>2, <2>3 DEF SeenInv, ShardIndex
<1>13. NoGap(p)'
  <2>1. Floor \in Nat /\ Floor' = Floor
    BY <1>3, FloorTyped DEF Floor
  <2>2. \A y \in 1..x : y <= Floor \/ y \in seen'[p]
    BY <1>1, <1>4 DEF PodInv, NoGap
  <2>3. ASSUME NEW z \in seen'[p], NEW y \in (Floor + 1)..z PROVE y \in seen'[p]
    <3>1. CASE z \in seen[p]
      BY <1>4, <2>3, <3>1 DEF PodInv, NoGap
    <3>2. CASE z = x
      <4>1. y \in 1..x /\ ~(y <= Floor)
        BY <1>1, <2>1, <2>3, <3>2 DEF Offsets
      <4> QED BY <2>2, <4>1
    <3> QED BY <1>4, <3>1, <3>2
  <2>4. ASSUME NEW z \in seen'[p], NEW y \in (x + 1)..z PROVE y \in seen'[p]
    <3>1. z # x
      BY <1>1, <2>4 DEF Offsets
    <3>2. z \in seen[p] /\ y \in (marked[p] + 1)..z
      BY <1>1, <1>4, <1>9, <2>4, <3>1 DEF Offsets
    <3> QED BY <1>1, <1>4, <3>2 DEF PodInv, NoGap
  <2> QED BY <1>3, <1>4, <2>1, <2>2, <2>3, <2>4 DEF NoGap
<1>14. OrderInv(p)'
  <2> SUFFICES ASSUME NEW v \in WorkerIds, NEW e \in seen'[p], ShardIndex(e) = v
        PROVE  /\ \A o \in done[p] : ShardIndex(o) = v /\ e < o => e \in done[p]
               /\ e < busy[p][v] => e \in done[p]
               /\ \A k \in DOMAIN chans'[p][v] : e < chans'[p][v][k] =>
                     \/ e \in done[p] \/ e = busy[p][v]
                     \/ \E j \in 1..(k - 1) : chans'[p][v][j] = e
    BY <1>3 DEF OrderInv, ShardIndex
  <2>1. /\ DOMAIN q = 1..Len(q) /\ Len(q) \in Nat
        /\ DOMAIN Append(q, x) = 1..(Len(q) + 1)
    BY <1>1, <1>2
  <2>2. \A k \in 1..(Len(q) + 1) : Append(q, x)[k] = IF k = Len(q) + 1 THEN x ELSE q[k]
    BY <1>1, <1>2
  \* It is behind what its worker has, which is all that it was given.
  <2>3. CASE e \in seen[p]
    <3>1. /\ \A o \in done[p] : ShardIndex(o) = v /\ e < o => e \in done[p]
          /\ e < busy[p][v] => e \in done[p]
          /\ \A k \in DOMAIN chans[p][v] : e < chans[p][v][k] =>
                \/ e \in done[p] \/ e = busy[p][v]
                \/ \E j \in 1..(k - 1) : chans[p][v][j] = e
      BY <2>3 DEF PodInv, OrderInv
    <3>2. CASE v # w
      BY <1>7, <3>1, <3>2
    <3>3. CASE v = w
      <4>1. ASSUME NEW k \in 1..Len(q), e < q[k], e \notin done[p], e # busy[p][w]
            PROVE  \E j \in 1..(k - 1) : Append(q, x)[j] = e
        <5>1. PICK j \in 1..(k - 1) : q[j] = e
          BY <1>5, <2>1, <3>1, <3>3, <4>1
        <5>2. Append(q, x)[j] = e
          BY <2>1, <2>2, <5>1
        <5> QED BY <5>1, <5>2
      <4>2. ASSUME e \notin done[p], e # busy[p][w]
            PROVE  \E j \in 1..((Len(q) + 1) - 1) : Append(q, x)[j] = e
        <5>1. e \in Range(q)
          BY <1>5, <2>3, <3>3, <4>2 DEF PodInv, SeenInv, Pipe
        <5>2. PICK j \in 1..Len(q) : q[j] = e
          BY <2>1, <5>1 DEF Range
        <5>3. Append(q, x)[j] = e /\ j \in 1..((Len(q) + 1) - 1)
          BY <2>1, <2>2, <5>2
        <5> QED BY <5>3
      <4>3. ASSUME NEW k \in 1..(Len(q) + 1), e < Append(q, x)[k]
            PROVE  \/ e \in done[p] \/ e = busy[p][w]
                   \/ \E j \in 1..(k - 1) : Append(q, x)[j] = e
        <5>1. CASE k = Len(q) + 1
          BY <4>2, <5>1
        <5>2. CASE k # Len(q) + 1
          <6>1. k \in 1..Len(q) /\ Append(q, x)[k] = q[k]
            BY <2>1, <2>2, <5>2
          <6> QED BY <4>1, <4>3, <6>1
        <5> QED BY <5>1, <5>2
      <4> QED BY <1>7, <2>1, <3>1, <3>3, <4>3
    <3> QED BY <3>2, <3>3
  \* It is new, and nothing that it was given is behind it.
  <2>4. CASE e \notin seen[p]
    <3>1. e = x /\ v = w /\ \A o \in seen[p] : ~(x < o)
      BY <1>4, <1>5, <1>10, <2>4
    <3>2. done[p] \subseteq seen[p] /\ Pipe(p, w) \subseteq seen[p]
      BY <1>1 DEF PodInv, SeenInv
    <3>3. ~(x < busy[p][w])
      <4>1. CASE busy[p][w] = 0
        BY <1>1, <4>1, ConsumerAssumption DEF Offsets
      <4>2. CASE busy[p][w] # 0
        BY <3>1, <3>2, <4>2 DEF Pipe
      <4> QED BY <4>1, <4>2
    <3>4. \A k \in 1..Len(q) : ~(x < q[k])
      BY <1>5, <2>1, <3>1, <3>2 DEF Pipe, Range
    <3>5. ~(x < x)
      BY <1>1 DEF Offsets
    <3>6. \A k \in 1..(Len(q) + 1) : ~(x < Append(q, x)[k])
      BY <2>1, <2>2, <3>4, <3>5
    <3> QED BY <1>7, <2>1, <3>1, <3>2, <3>3, <3>6
  <2> QED BY <2>3, <2>4
<1> QED BY <1>11, <1>12, <1>13, <1>14 DEF PodInv

LEMMA PlainStep == TypeInv /\ StartInv /\ PlainInv /\ [Next]_vars => PlainInv'
<1> SUFFICES ASSUME TypeInv, StartInv, PlainInv, [Next]_vars, kind' = "plain"
             PROVE  \A p \in Pods : PodInv(p)'
  BY DEF PlainInv, PodInv
<1>1. kind' = kind
  <2>1. ASSUME NEW p \in Pods,
               Join(p) \/ Receive(p) \/ Dispatch(p) \/ LeaveClaim(p) \/ CommitTick(p)
        PROVE  kind' = kind
    BY <2>1 DEF Join, Receive, Dispatch, LeaveClaim, CommitTick
  <2>2. ASSUME NEW p \in Pods, NEW w \in WorkerIds, WorkerStep(p, w) PROVE kind' = kind
    BY <2>2 DEF WorkerStep, Take, Handle, Add
  <2>3. ASSUME NEW p \in Pods,
               \/ TimerFlush(p) \/ StopBatcher(p)
               \/ \E batch \in BagToSet(flights[p]) : FlushDone(p, batch)
        PROVE  kind' = kind
    BY <2>3 DEF TimerFlush, StopBatcher, FlushDone
  <2>4. ASSUME NEW p \in Pods, Dies(p) \/ Passes(p) PROVE kind' = kind
    BY <2>4 DEF Dies, Kill, SendPanics, CloseAgain, Die, Passes, Rebalance, Evict, Restart,
         SigTerm, CloseChannels, WorkersDone, GroupClose
  <2>5. CASE Produce \/ UNCHANGED vars
    BY <2>5 DEF Produce, vars
  <2> QED BY <2>1, <2>2, <2>3, <2>4, <2>5, StepsOf
<1>2. \A p \in Pods : PodInv(p)
  BY <1>1 DEF PlainInv, PodInv
<1>3. Floor' \in Nat /\ Floor <= Floor'
  BY FloorRises
<1>4. ASSUME NEW p \in Pods, Rests(p), seen'[p] = seen[p], done'[p] = done[p],
             marked'[p] = marked[p], cpc'[p] = "none" <=> cpc[p] = "none"
      PROVE  PodInv(p)'
  BY <1>2, <1>3, <1>4, PodRests
<1>5. ASSUME NEW p \in Pods, Join(p) \/ LeaveClaim(p) PROVE \A r \in Pods : PodInv(r)'
  <2>1. /\ UNCHANGED <<chans, busy, buffer, flights, seen, done>>
        /\ \A r \in Pods \ {p} : marked'[r] = marked[r] /\ cpc'[r] = cpc[r]
    BY <1>5 DEF Join, LeaveClaim, EndSession, TypeInv, TypeOK
  <2>2. marked'[p] = Floor' \/ (marked'[p] = 0 /\ cpc'[p] = "none")
    BY <1>5, ConsumerAssumption
       DEF Join, InitialOffset, Floor, LeaveClaim, EndSession, TypeInv, TypeOK
  <2>3. PodInv(p)'
    BY <1>2, <1>3, <2>1, <2>2, SessionOrder DEF Rests
  <2> QED BY <1>4, <2>1, <2>3 DEF Rests
<1>6. ASSUME NEW p \in Pods, Dispatch(p) PROVE \A r \in Pods : PodInv(r)'
  <2>1. /\ \A r \in Pods \ {p} : /\ Rests(r) /\ seen'[r] = seen[r] /\ marked'[r] = marked[r]
                                 /\ cpc'[r] = cpc[r]
        /\ UNCHANGED done
    BY <1>6, DispatchKeeps DEF Dispatch, TypeInv, TypeOK
  <2> QED BY <1>2, <1>4, <1>6, <2>1, DispatchOrder
<1>7. ASSUME NEW p \in Pods, NEW w \in WorkerIds, WorkerStep(p, w)
      PROVE  \A r \in Pods : PodInv(r)'
  <2>1. Take(p, w) \/ Handle(p, w)
    BY <1>1, <1>7 DEF WorkerStep, Add
  <2>2. /\ \A r \in Pods \ {p} : Rests(r) /\ done'[r] = done[r]
        /\ UNCHANGED <<seen, marked, cpc>>
    BY <2>1, TakeKeeps, HandleKeeps DEF Take, Handle, TypeInv, TypeOK
  <2> QED BY <1>2, <1>4, <2>1, <2>2, TakeOrder, HandleOrder
<1>8. ASSUME NEW p \in Pods, CommitTick(p) PROVE \A r \in Pods : PodInv(r)'
  <2>1. UNCHANGED <<chans, busy, buffer, flights, seen, done, marked, cpc>>
    BY <1>8 DEF CommitTick
  <2> QED BY <1>4, <2>1 DEF Rests
\* Without a batcher there is nothing to flush.
<1>9. ASSUME NEW p \in Pods, StopBatcher(p) PROVE \A r \in Pods : PodInv(r)'
  <2>1. buffer[p] = <<>>
    BY <1>2 DEF PodInv, NoBatches
  <2>2. UNCHANGED <<chans, busy, flights, seen, done, marked, cpc>>
    BY <1>9, <2>1 DEF StopBatcher
  <2>3. \A r \in Pods : buffer'[r] = buffer[r]
    BY <1>9, <2>1 DEF StopBatcher, TypeInv, TypeOK
  <2> QED BY <1>4, <2>2, <2>3 DEF Rests
<1>10. ASSUME NEW p \in Pods,
              TimerFlush(p) \/ \E batch \in BagToSet(flights[p]) : FlushDone(p, batch)
       PROVE  FALSE
  BY <1>2, <1>10 DEF PodInv, NoBatches, TimerFlush
<1>11. ASSUME NEW p \in Pods, Dies(p) PROVE \A r \in Pods : PodInv(r)'
  <2>1. Die(p)
    BY <1>11, DiesMeans DEF TypeInv
  <2>2. \A r \in Pods \ {p} : /\ seen'[r] = seen[r] /\ done'[r] = done[r]
                              /\ cpc'[r] = cpc[r]
    BY <2>1 DEF Die, EndSession, TypeInv, TypeOK
  <2> QED BY <1>4, <2>1, <2>2, DieHolds, DeadOrder
<1>12. ASSUME NEW p \in Pods, Receive(p) PROVE \A r \in Pods : PodInv(r)'
  <2>1. /\ UNCHANGED <<chans, busy, buffer, flights, seen, done, marked>>
        /\ \A r \in Pods : cpc'[r] = "none" <=> cpc[r] = "none"
    BY <1>12 DEF Receive, TypeInv, TypeOK
  <2> QED BY <1>4, <2>1 DEF Rests
<1>13. ASSUME UNCHANGED <<chans, busy, buffer, flights, seen, done, marked, cpc>>
       PROVE  \A r \in Pods : PodInv(r)'
  BY <1>4, <1>13 DEF Rests
<1>14. ASSUME NEW p \in Pods, Passes(p) PROVE \A r \in Pods : PodInv(r)'
  BY <1>13, <1>14 DEF Passes, Rebalance, Evict, Restart, SigTerm, CloseChannels,
       WorkersDone, GroupClose
<1>15. CASE Produce \/ UNCHANGED vars
  BY <1>13, <1>15 DEF Produce, vars
<1> QED
  BY <1>5, <1>6, <1>7, <1>8, <1>9, <1>10, <1>11, <1>12, <1>14, <1>15, StepsOf

----------------------------------------------------------------------------
LEMMA ConsumerInvariant == Spec => []ConsumerInv
<1>1. Init => ConsumerInv
  <2> SUFFICES ASSUME Init PROVE ConsumerInv
    OBVIOUS
  <2>1. TypeInv
    BY ConsumerTypeInit
  <2>2. CloseInv /\ StartInv
    BY DEF Init, CloseInv, StartInv
  <2>3. CommittedAccounted /\ MarkedAccounted
    BY DEF Init, CommittedAccounted, MarkedAccounted
  <2>4. ASSUME NEW p \in Pods PROVE NoBatches(p) /\ SeenInv(p) /\ NoGap(p) /\ OrderInv(p)
    <3>1. /\ buffer[p] = <<>> /\ flights[p] = EmptyBag /\ seen[p] = {} /\ done[p] = {}
          /\ marked[p] = 0
          /\ \A w \in WorkerIds : chans[p][w] = <<>> /\ busy[p][w] = 0
      BY DEF Init
    <3>2. NoBatches(p)
      BY <3>1, NoBag DEF NoBatches
    <3>3. SeenInv(p)
      BY <3>1, NoMessages DEF SeenInv, Pipe
    <3>4. NoGap(p) /\ OrderInv(p)
      BY <3>1 DEF NoGap, OrderInv
    <3> QED BY <3>2, <3>3, <3>4
  <2> QED BY <2>1, <2>2, <2>3, <2>4 DEF ConsumerInv, PlainInv, TypeInv
<1>2. ConsumerInv /\ [Next]_vars => ConsumerInv'
  BY TypeInvStep, CloseInvStep, FloorRises, AccountedStep, PlainStep DEF ConsumerInv, TypeInv, Accounted
<1> QED BY <1>1, <1>2, PTL DEF Spec

(***************************************************************************)
(* The consumer of pkg/broker keeps its types, for any number of pods,     *)
(* workers, messages and faults: no channel exceeds BufferPerWorker        *)
(* (dispatcher.go) and no buffer reaches Size (batcher.go, Add).           *)
(***************************************************************************)
THEOREM ConsumerTypeCorrect == Spec => []TypeOK
<1>1. ConsumerInv => TypeOK
  BY DEF ConsumerInv
<1> QED BY <1>1, ConsumerInvariant, PTL

(***************************************************************************)
(* ConsumeClaim of consumer.go marks a message once it is queued and       *)
(* commits the marks on a ticker: whatever is committed was handled, is    *)
(* held by a running pod, was dropped by a stopped batcher, was held by a  *)
(* process that ended, or lies before the newest offset at which a claim   *)
(* of a group without a committed offset started (Offsets.Initial, which   *)
(* config.go leaves at its default).                                       *)
(***************************************************************************)
THEOREM CommitsAccounted == Spec => []CommittedAccounted
<1>1. ConsumerInv => CommittedAccounted
  BY DEF ConsumerInv
<1> QED BY <1>1, ConsumerInvariant, PTL

(***************************************************************************)
(* The dispatcher shards by key (dispatcher.go): a pod handles the         *)
(* messages of a key in the order of their offsets, redeliveries after a   *)
(* rebalance included, for any keys, shards and channels.                  *)
(***************************************************************************)
THEOREM KeysInOrder == Spec => []OrderedPerKey
<1>1. ConsumerInv => OrderedPerKey
  <2> SUFFICES ASSUME ConsumerInv, kind = "plain", NEW p \in Pods, NEW o \in done[p],
                      NEW e \in seen[p], KeyOf[e] = KeyOf[o], e < o
               PROVE  e \in done[p]
    BY DEF OrderedPerKey
  <2>1. ShardIndex(e) = ShardIndex(o) /\ ShardIndex(e) \in WorkerIds
    BY ConsumerAssumption DEF ShardIndex, ConsumerInv, TypeOK
  <2> QED BY <2>1 DEF ConsumerInv, PlainInv, OrderInv
<1> QED BY <1>1, ConsumerInvariant, PTL

(***************************************************************************)
(* With a plain handler Close of consumer.go returns when every message    *)
(* that the pod was given has been handled, however far its claim and its  *)
(* workers were.                                                           *)
(***************************************************************************)
THEOREM ClosesDrained == Spec => []CloseDrains
<1>1. ConsumerInv => CloseDrains
  <2> SUFFICES ASSUME ConsumerInv, kind = "plain", NEW p \in Pods, stage[p] = "closed",
                      NEW e \in seen[p]
               PROVE  e \in done[p]
    BY DEF CloseDrains
  <2>1. ShardIndex(e) \in WorkerIds
    BY ConsumerAssumption DEF ShardIndex, ConsumerInv, TypeOK
  <2>2. Pipe(p, ShardIndex(e)) = {}
    BY <2>1, NoMessages DEF ConsumerInv, CloseInv, Pipe
  <2> QED BY <2>2 DEF ConsumerInv, PlainInv, SeenInv
<1> QED BY <1>1, ConsumerInvariant, PTL

============================================================================
