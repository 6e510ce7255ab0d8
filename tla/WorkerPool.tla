----------------------------- MODULE WorkerPool -----------------------------
(***************************************************************************)
(* The worker pool of pkg/async/worker.go with the callers of Submit and   *)
(* TrySubmit (HTTP handlers, among them audit.Log of pkg/audit/audit.go).  *)
(* The tasks channel is modelled the way Go's channels and select work: a  *)
(* sender that finds the buffer full waits in a FIFO, cancelling the       *)
(* context wakes it, a send on a closed channel panics, and a select with  *)
(* several ready cases takes any of them.                                  *)
(***************************************************************************)
EXTENDS Naturals, Sequences

CONSTANTS Callers,    \* one call of Submit or TrySubmit each; names its task
          PoolWorkers,
          QueueSize,  \* capacity of the channel
          NoTask

ASSUME PoolAssumption ==
    /\ QueueSize \in Nat \ {0}
    /\ PoolWorkers # {}
    /\ NoTask \notin Callers

VARIABLES queue,     \* the channel's buffer
          sendq,     \* callers blocked in Submit's select, in arrival order
          shutdown,  \* how far Shutdown is: see ShutdownPc
          call,      \* caller -> what became of its call
          wpc,       \* worker -> "recv", "run", "exited"
          wtask,     \* worker -> the task it runs
          wlive,     \* worker -> was the pool's context live when it started?
          result     \* caller -> outcome of its task

poolVars == <<queue, sendq, shutdown, call, wpc, wtask, wlive, result>>

ShutdownPc == {"no", "cancelled", "closed", "done"}

Cancelled == shutdown # "no"
Closed    == shutdown \in {"closed", "done"}

PoolTypeOK ==
    /\ queue \in Seq(Callers) /\ Len(queue) <= QueueSize
    /\ sendq \in Seq(Callers)
    /\ shutdown \in ShutdownPc
    /\ call \in [Callers -> {"idle", "blocked", "accepted", "refused",
                             "panicked"}]
    /\ wpc \in [PoolWorkers -> {"recv", "run", "exited"}]
    /\ wtask \in [PoolWorkers -> Callers \cup {NoTask}]
    /\ wlive \in [PoolWorkers -> BOOLEAN]
    /\ result \in [Callers -> {"none", "ok", "failed"}]

\* NewWorkerPool.
PoolInit ==
    /\ queue = <<>>
    /\ sendq = <<>>
    /\ shutdown = "no"
    /\ call = [c \in Callers |-> "idle"]
    /\ wpc = [w \in PoolWorkers |-> "recv"]
    /\ wtask = [w \in PoolWorkers |-> NoTask]
    /\ wlive = [w \in PoolWorkers |-> FALSE]
    /\ result = [c \in Callers |-> "none"]

----------------------------------------------------------------------------
HasRoom == ~Closed /\ Len(queue) < QueueSize

\* The send case of both selects: buffered, or a panic on the closed channel.
Send(c) ==
    /\ call[c] = "idle"
    /\ \/ /\ HasRoom
          /\ queue' = Append(queue, c)
          /\ call' = [call EXCEPT ![c] = "accepted"]
       \/ /\ Closed
          /\ call' = [call EXCEPT ![c] = "panicked"]
          /\ UNCHANGED queue
    /\ UNCHANGED <<sendq, shutdown, wpc, wtask, wlive, result>>

\* The ctx.Done() case of Submit, and the default case of TrySubmit.
Refuse(c) ==
    /\ call[c] = "idle"
    /\ Cancelled \/ (~HasRoom /\ ~Closed)
    /\ call' = [call EXCEPT ![c] = "refused"]
    /\ UNCHANGED <<queue, sendq, shutdown, wpc, wtask, wlive, result>>

\* Submit with no case ready.
Block(c) ==
    /\ call[c] = "idle"
    /\ ~HasRoom
    /\ ~Cancelled
    /\ call' = [call EXCEPT ![c] = "blocked"]
    /\ sendq' = Append(sendq, c)
    /\ UNCHANGED <<queue, shutdown, wpc, wtask, wlive, result>>

----------------------------------------------------------------------------
\* Mutant of ReceiveTask: a worker throws away what it receives once the context
\* is cancelled.
ReceiveUnlessCancelled(w) ==
    /\ wpc[w] = "recv"
    /\ queue # <<>>
    /\ queue' = Tail(queue)
    /\ IF Cancelled THEN UNCHANGED <<wpc, wtask, wlive>>
       ELSE /\ wpc' = [wpc EXCEPT ![w] = "run"]
            /\ wtask' = [wtask EXCEPT ![w] = Head(queue)]
            /\ wlive' = [wlive EXCEPT ![w] = TRUE]
    /\ UNCHANGED <<sendq, shutdown, call, result>>

\* A worker takes the oldest task; the longest-blocked sender gets the slot.
ReceiveTask(w) ==
    /\ wpc[w] = "recv"
    /\ queue # <<>>
    /\ IF sendq = <<>>
       THEN /\ queue' = Tail(queue)
            /\ UNCHANGED <<sendq, call>>
       ELSE /\ queue' = Append(Tail(queue), Head(sendq))
            /\ sendq' = Tail(sendq)
            /\ call' = [call EXCEPT ![Head(sendq)] = "accepted"]
    /\ wpc' = [wpc EXCEPT ![w] = "run"]
    /\ wtask' = [wtask EXCEPT ![w] = Head(queue)]
    /\ wlive' = [wlive EXCEPT ![w] = ~Cancelled]
    /\ UNCHANGED <<shutdown, result>>

\* Mutant of Finish: the recover stands outside the loop, so a task that
\* panics ends its worker.
FinishRecoverOutside(w, outcome) ==
    /\ wpc[w] = "run"
    /\ outcome = "ok" => wlive[w]
    /\ wpc' = [wpc EXCEPT ![w] = IF outcome = "ok" THEN "recv" ELSE "exited"]
    /\ wtask' = [wtask EXCEPT ![w] = NoTask]
    /\ result' = [result EXCEPT ![wtask[w]] = outcome]
    /\ UNCHANGED <<queue, sendq, shutdown, call, wlive>>

\* The task returns, or panics and is recovered.  A database call under a
\* context that was cancelled before it started can only fail.
Finish(w, outcome) ==
    /\ wpc[w] = "run"
    /\ outcome = "ok" => wlive[w]
    /\ wpc' = [wpc EXCEPT ![w] = "recv"]
    /\ wtask' = [wtask EXCEPT ![w] = NoTask]
    /\ result' = [result EXCEPT ![wtask[w]] = outcome]
    /\ UNCHANGED <<queue, sendq, shutdown, call, wlive>>

\* range over the closed and drained channel ends; wg.Done.
Exit(w) ==
    /\ wpc[w] = "recv"
    /\ Closed
    /\ queue = <<>>
    /\ wpc' = [wpc EXCEPT ![w] = "exited"]
    /\ UNCHANGED <<queue, sendq, shutdown, call, wtask, wlive, result>>

----------------------------------------------------------------------------
\* Shutdown, first line: the cancelled context wakes every blocked Submit.
Cancel ==
    /\ shutdown = "no"
    /\ shutdown' = "cancelled"
    /\ call' = [c \in Callers |-> IF call[c] = "blocked" THEN "refused"
                                                         ELSE call[c]]
    /\ sendq' = <<>>
    /\ UNCHANGED <<queue, wpc, wtask, wlive, result>>

\* Mutant of Close: wg.Wait without closing the channel.
CloseForgotten ==
    /\ shutdown = "cancelled"
    /\ UNCHANGED poolVars

\* Shutdown, second line.
Close ==
    /\ shutdown = "cancelled"
    /\ shutdown' = "closed"
    /\ UNCHANGED <<queue, sendq, call, wpc, wtask, wlive, result>>

\* wg.Wait returns.
Wait ==
    /\ shutdown = "closed"
    /\ \A w \in PoolWorkers : wpc[w] = "exited"
    /\ shutdown' = "done"
    /\ UNCHANGED <<queue, sendq, call, wpc, wtask, wlive, result>>

----------------------------------------------------------------------------
Call(c) == Send(c) \/ Refuse(c) \/ Block(c)

PoolWorkerStep(w) ==
    ReceiveTask(w) \/ Exit(w) \/ \E outcome \in {"ok", "failed"} : Finish(w, outcome)

PoolNext ==
    \/ \E c \in Callers : Call(c)
    \/ \E w \in PoolWorkers : PoolWorkerStep(w)
    \/ Cancel \/ Close \/ Wait

PoolSpec == PoolInit /\ [][PoolNext]_poolVars

\* Workers and a started Shutdown are scheduled and every task returns;
\* nothing says that anybody calls Submit or Shutdown.
PoolFairSpec ==
    /\ PoolSpec
    /\ \A w \in PoolWorkers : WF_poolVars(PoolWorkerStep(w))
    /\ WF_poolVars(Close) /\ WF_poolVars(Wait)

----------------------------------------------------------------------------
Queued(c)   == \E k \in DOMAIN queue : queue[k] = c
Running(c)  == \E w \in PoolWorkers : wtask[w] = c
Finished(c) == result[c] # "none"

\* A task is in the pool exactly when its Submit returned true, and in one
\* place only: no task is lost, duplicated or run for a caller that was told
\* no, whatever the order of blocking, cancelling and closing.
AcceptedOnce ==
    /\ \A c \in Callers :
         /\ call[c] = "accepted" <=> Queued(c) \/ Running(c) \/ Finished(c)
         /\ ~(Queued(c) /\ Running(c))
         /\ ~(Finished(c) /\ (Queued(c) \/ Running(c)))
    /\ \A j, k \in DOMAIN queue : queue[j] = queue[k] => j = k
    /\ \A v, w \in PoolWorkers : wtask[v] = wtask[w] /\ wtask[v] # NoTask => v = w

\* When Shutdown has returned, every task that was ever accepted has run, also
\* those accepted between cancel and close.
Drained ==
    shutdown = "done" => \A c \in Callers : call[c] = "accepted" => Finished(c)

\* A blocked Submit returns: a slot becomes free, or Shutdown wakes it.
BlockedReturns ==
    \A c \in Callers : call[c] = "blocked" ~> call[c] # "blocked"

\* Shutdown returns.
ShutdownReturns == shutdown = "cancelled" ~> shutdown = "done"

============================================================================
