----------------------------- MODULE Scheduler -----------------------------
(***************************************************************************)
(* The job scheduler of pkg/scheduler/scheduler.go for one job.  Every pod *)
(* has a Scheduler with its own cron: a goroutine that calls Start, which  *)
(* returns when its context is done, and perhaps one that calls Stop.  An  *)
(* execution is one call of execute on one pod, and takes the distributed  *)
(* lock for the job's name.  Pods reach a slot of the schedule at any time *)
(* relative to each other: their clocks are not synchronised.              *)
(***************************************************************************)
EXTENDS Naturals

CONSTANTS Pods,
          Execs,
          NoOne,
          PodOf,      \* execution -> its pod
          Timeout,    \* Job.Timeout
          Slack,      \* the 30 seconds that execute adds for the lock's TTL
          MaxLag,     \* longest time Acquire takes to report the lock
          JobGrace    \* how long the job goes on after its context's deadline

ASSUME SchedulerAssumption ==
    /\ Timeout \in Nat \ {0}
    /\ Slack \in Nat
    /\ JobGrace \in Nat
    /\ MaxLag \in Nat
    /\ NoOne \notin Execs
    /\ PodOf \in [Execs -> Pods]

VARIABLES owner, ttl, lpc, timer,  \* the lock: see DistLock
          ctxDone,  \* pod -> the context given to Start is done
          cron,     \* pod -> Scheduler.cron
          start,    \* pod -> the call of Start
          stop,     \* pod -> the call of Stop
          begun,    \* executions that have not come to Acquire yet
          left      \* history: executions whose key Redis did not give back,
                    \* because a reply of Acquire or a Release was lost

keyVars == <<owner, ttl, lpc, timer>>
podVars == <<ctxDone, cron, start, stop>>
vars == <<keyVars, podVars, begun, left>>

\* Mutant of LockTTL: the TTL is the job's timeout.
LockTTLNoSlack == Timeout

\* distlock.Config{TTL: job.Timeout + 30*time.Second}
LockTTL == Timeout + Slack

\* execute acquires with no retry; the job runs under a context with deadline
\* Timeout that starts when Acquire has returned.
Lock == INSTANCE DistLock WITH
    Clients      <- Execs,
    TTL          <- LockTTL,
    RetryTimeout <- 0,
    HoldLimit    <- Timeout + JobGrace

TypeOK ==
    /\ Lock!TypeOK
    /\ ctxDone \in [Pods -> BOOLEAN]
    /\ cron \in [Pods -> {"nil", "made", "running", "stopped"}]
    /\ start \in [Pods -> {"before", "starting", "blocked", "stopping",
                           "returned", "error", "killed"}]
    /\ stop \in [Pods -> {"none", "waiting", "done"}]
    /\ begun \subseteq Execs
    /\ left \subseteq Execs

Init ==
    /\ Lock!Init
    /\ ctxDone = [p \in Pods |-> FALSE]
    /\ cron = [p \in Pods |-> "nil"]
    /\ start = [p \in Pods |-> "before"]
    /\ stop = [p \in Pods |-> "none"]
    /\ begun = {}
    /\ left = {}

On(p) == {e \in Execs : PodOf[e] = p}

\* No call of execute is under way: what the context of cron.Stop waits for.
Quiet(p) == \A e \in On(p) : lpc[e] \in {"idle", "over"} /\ e \notin begun

----------------------------------------------------------------------------
(* Start and Stop.                                                         *)

\* Start makes the cron and adds the jobs; a schedule that cannot be parsed
\* is an error.
Start(p) ==
    /\ start[p] = "before"
    /\ cron' = [cron EXCEPT ![p] = "made"]
    /\ \E next \in {"starting", "error"} : start' = [start EXCEPT ![p] = next]
    /\ UNCHANGED <<keyVars, ctxDone, stop, begun, left>>

\* s.cron.Start(), after the mutex was given back.
CronStart(p) ==
    /\ start[p] = "starting"
    /\ cron' = [cron EXCEPT ![p] = "running"]
    /\ start' = [start EXCEPT ![p] = "blocked"]
    /\ UNCHANGED <<keyVars, ctxDone, stop, begun, left>>

CancelContext(p) ==
    /\ ~ctxDone[p]
    /\ ctxDone' = [ctxDone EXCEPT ![p] = TRUE]
    /\ UNCHANGED <<keyVars, cron, start, stop, begun, left>>

\* Mutant of ContextDone: only Stop ends Start.
ContextIgnored(p) ==
    /\ start[p] = "blocked" /\ ctxDone[p] /\ cron[p] = "stopped"
    /\ start' = [start EXCEPT ![p] = "stopping"]
    /\ UNCHANGED <<keyVars, ctxDone, cron, stop, begun, left>>

\* The context is done: no more executions are fired ...
ContextDone(p) ==
    /\ start[p] = "blocked" /\ ctxDone[p]
    /\ cron' = [cron EXCEPT ![p] = "stopped"]
    /\ start' = [start EXCEPT ![p] = "stopping"]
    /\ UNCHANGED <<keyVars, ctxDone, stop, begun, left>>

\* Mutant of StartReturns: the context of cron.Stop is not waited for.
StartReturnsAtOnce(p) ==
    /\ start[p] = "stopping"
    /\ start' = [start EXCEPT ![p] = "returned"]
    /\ UNCHANGED <<keyVars, ctxDone, cron, stop, begun, left>>

\* ... and Start returns when the last one has ended.
StartReturns(p) ==
    /\ start[p] = "stopping" /\ Quiet(p)
    /\ start' = [start EXCEPT ![p] = "returned"]
    /\ UNCHANGED <<keyVars, ctxDone, cron, stop, begun, left>>

\* Stop, at any time.  It reads s.cron without the mutex, so it may see nil;
\* and a cron that was made but not started is not stopped.
Stop(p) ==
    /\ stop[p] = "none" /\ start[p] # "killed"
    /\ \/ stop' = [stop EXCEPT ![p] = "done"] /\ UNCHANGED cron
       \/ /\ cron[p] # "nil"
          /\ stop' = [stop EXCEPT ![p] = "waiting"]
          /\ cron' = [cron EXCEPT ![p] = IF @ = "running" THEN "stopped" ELSE @]
    /\ UNCHANGED <<keyVars, ctxDone, start, begun, left>>

StopReturns(p) ==
    /\ stop[p] = "waiting" /\ start[p] # "killed" /\ Quiet(p)
    /\ stop' = [stop EXCEPT ![p] = "done"]
    /\ UNCHANGED <<keyVars, ctxDone, cron, start, begun, left>>

\* The pod dies.
Kill(p) ==
    /\ start[p] \notin {"before", "killed"}
    /\ start' = [start EXCEPT ![p] = "killed"]
    /\ cron' = [cron EXCEPT ![p] = "stopped"]
    /\ Lock!Crash(On(p))
    /\ begun' = begun \ On(p)
    /\ UNCHANGED <<ctxDone, stop, left>>

----------------------------------------------------------------------------
(* execute.                                                                *)

\* cron calls execute ...
Fire(e) ==
    /\ cron[PodOf[e]] = "running"
    /\ lpc[e] = "idle" /\ e \notin begun
    /\ begun' = begun \cup {e}
    /\ UNCHANGED <<keyVars, podVars, left>>

\* ... and Acquire reaches Redis, perhaps after Stop: the lock is free, or another
\* execution holds it and this one is skipped; or Acquire fails, as it does under
\* a context that is done.
Acquire(e) ==
    /\ e \in begun
    /\ \/ ~ctxDone[PodOf[e]] /\ (Lock!Grant(e) \/ Lock!Occupied(e))
       \/ Lock!GiveUp(e)
    /\ begun' = begun \ {e}
    /\ UNCHANGED <<podVars, left>>

\* Acquire returns the lock: job.Fn starts.
StartJob(e) == Lock!Acquired(e) /\ UNCHANGED <<podVars, begun, left>>

\* Acquire returns an error after all: execute returns.
LockFailed(e) ==
    /\ Lock!ReplyLost(e)
    /\ left' = left \cup {e}
    /\ UNCHANGED <<podVars, begun>>

\* job.Fn returns, fails or panics; the deferred Release comes next.
JobDone(e) == Lock!WorkDone(e) /\ UNCHANGED <<podVars, begun, left>>

\* Mutant of ReleaseLock: Release under the context that may be done.
ReleaseUnderContext(e, ok) ==
    /\ Lock!Release(e, ok /\ ~ctxDone[PodOf[e]])
    /\ left' = IF ok THEN left ELSE left \cup {e}
    /\ UNCHANGED <<podVars, begun>>

\* Release has a context of its own.
ReleaseLock(e, ok) ==
    /\ Lock!Release(e, ok)
    /\ left' = IF ok THEN left ELSE left \cup {e}
    /\ UNCHANGED <<podVars, begun>>

Tick == Lock!Tick /\ UNCHANGED <<podVars, begun, left>>

ExecStep(e) ==
    \/ Acquire(e) \/ StartJob(e) \/ LockFailed(e) \/ JobDone(e)
    \/ \E ok \in BOOLEAN : ReleaseLock(e, ok)

StartStep(p) == CronStart(p) \/ ContextDone(p) \/ StartReturns(p)

Next ==
    \/ Tick
    \/ \E e \in Execs : Fire(e) \/ ExecStep(e)
    \/ \E p \in Pods :
          \/ Start(p) \/ StartStep(p) \/ CancelContext(p)
          \/ Stop(p) \/ StopReturns(p) \/ Kill(p)

Spec == Init /\ [][Next]_vars

\* Redis answers or fails, jobs return when their context is done, and the
\* goroutines of Start and Stop are scheduled.
FairSpec ==
    /\ Spec
    /\ \A e \in Execs : WF_vars(ExecStep(e))
    /\ \A p \in Pods : WF_vars(StartStep(p)) /\ WF_vars(StopReturns(p))

----------------------------------------------------------------------------
\* Jobs that return within JobGrace of their context's deadline leave the TTL
\* its slack.
Obedient == MaxLag + JobGrace < Slack

\* What the comment on Scheduler says: only one instance across all pods runs
\* the job.  True of obedient jobs, whatever replies, releases and pods do.
OneInstance ==
    \A e, f \in Execs : lpc[e] = "held" /\ lpc[f] = "held" => e = f

\* While the job runs, its lock cannot expire under it.
LockOutlivesJob == \A e \in Execs : lpc[e] = "held" => owner = e /\ ttl > 0

\* Once Start has returned no execution of the pod is under way and none will
\* be, also when a Stop overtook Start or came between its steps.
StartDrains == \A p \in Pods : start[p] = "returned" => Quiet(p)

\* A pod that stops in good order leaves no lock behind for the others to wait
\* for, unless Redis lost a reply or a Release: jobs that the shutdown
\* interrupts release too.
NoLockLeft ==
    \A p \in Pods : start[p] = "returned" => (owner \in On(p) => owner \in left)

\* A Start whose context is done comes to its end.
StartEnds ==
    \A p \in Pods : start[p] = "blocked" /\ ctxDone[p] ~> start[p] # "blocked"
                                                      /\ start[p] # "stopping"

============================================================================
