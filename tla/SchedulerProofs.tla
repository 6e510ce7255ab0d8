-------------------------- MODULE SchedulerProofs --------------------------
(***************************************************************************)
(* The scheduler's executions are clients of the lock, so what is proved   *)
(* about the lock holds for them: a job that respects its context runs on  *)
(* one pod at a time, and its lock does not expire under it.               *)
(***************************************************************************)
EXTENDS Scheduler, TLAPS

LockP == INSTANCE DistLockProofs WITH
    Clients      <- Execs,
    TTL          <- LockTTL,
    RetryTimeout <- 0,
    HoldLimit    <- Timeout + JobGrace

\* The assumptions and the timing of the lock hold for the scheduler's
\* constants.
LEMMA LockAssumed == LockP!LockAssumption
BY SchedulerAssumption DEF LockP!LockAssumption, LockTTL

LEMMA Timing == Obedient => LockP!SafeTiming
BY SchedulerAssumption DEF Obedient, LockP!SafeTiming, LockTTL

\* Every step of an execution is a step of a client of the lock.
LEMMA LockStep == [Next]_vars => [LockP!Next]_LockP!lockVars
<1>1. Lock!Tick => LockP!Next
  BY DEF Lock!Tick, LockP!Tick, LockP!Next
<1>2. ASSUME NEW e \in Execs, Lock!Grant(e) \/ Lock!Occupied(e) \/ Lock!GiveUp(e)
      PROVE  LockP!Next
  <2>1. LockP!Grant(e) \/ LockP!Occupied(e) \/ LockP!GiveUp(e)
    BY <1>2 DEF Lock!Grant, Lock!Occupied, Lock!GiveUp, Lock!Enter,
                LockP!Grant, LockP!Occupied, LockP!GiveUp, LockP!Enter
  <2> QED BY <2>1 DEF LockP!Next, LockP!ClientStep
<1>3. ASSUME NEW e \in Execs,
             Lock!Acquired(e) \/ Lock!ReplyLost(e) \/ Lock!WorkDone(e)
      PROVE  LockP!Next
  <2>1. LockP!Acquired(e) \/ LockP!ReplyLost(e) \/ LockP!WorkDone(e)
    BY <1>3 DEF Lock!Acquired, Lock!ReplyLost, Lock!WorkDone, Lock!Enter,
                LockP!Acquired, LockP!ReplyLost, LockP!WorkDone, LockP!Enter
  <2> QED BY <2>1 DEF LockP!Next, LockP!ClientStep
<1>4. ASSUME NEW e \in Execs, NEW ok \in BOOLEAN, Lock!Release(e, ok)
      PROVE  LockP!Next
  <2>1. LockP!Release(e, ok)
    BY <1>4 DEF Lock!Release, LockP!Release, Lock!Enter, LockP!Enter
  <2> QED BY <2>1 DEF LockP!Next, LockP!ClientStep
<1>5. ASSUME NEW p \in Pods, Lock!Crash(On(p)) PROVE LockP!Next
  <2>1. LockP!Crash(On(p)) /\ On(p) \in SUBSET Execs
    BY <1>5 DEF Lock!Crash, LockP!Crash, On
  <2> QED BY <2>1 DEF LockP!Next
<1>6. UNCHANGED keyVars => UNCHANGED LockP!lockVars
  BY DEF keyVars, LockP!lockVars
<1>7. ASSUME NEW p \in Pods,
             \/ Start(p) \/ StartStep(p) \/ CancelContext(p)
             \/ Stop(p) \/ StopReturns(p)
      PROVE  UNCHANGED LockP!lockVars
  BY <1>6, <1>7 DEF Start, StartStep, CronStart, ContextDone, StartReturns,
                    CancelContext, Stop, StopReturns
<1>8. ASSUME NEW e \in Execs, ExecStep(e) PROVE LockP!Next
  BY <1>2, <1>3, <1>4, <1>8
     DEF ExecStep, Acquire, StartJob, LockFailed, JobDone, ReleaseLock
<1>9. UNCHANGED vars \/ (\E e \in Execs : Fire(e)) => UNCHANGED LockP!lockVars
  BY <1>6 DEF vars, Fire
<1> QED BY <1>1, <1>5, <1>7, <1>8, <1>9 DEF Next, Tick, Kill

LEMMA InvStep ==
    ASSUME Obedient, LockP!LockInv, [Next]_vars
    PROVE  LockP!LockInv'
<1>1. LockP!SafeTiming /\ [LockP!Next]_LockP!lockVars
  BY LockStep, Timing
<1> QED BY <1>1, LockAssumed, LockP!LockInvStep

\* A job that respects its context (Obedient) runs on one pod at a time, and
\* its lock outlives it, for any number of pods and slots, any timeout, and
\* whatever replies, releases and crashes do.
THEOREM JobRunsAlone ==
    ASSUME Obedient
    PROVE  Spec => [](OneInstance /\ LockOutlivesJob)
<1>1. Init => LockP!LockInv
  BY LockAssumed
     DEF Init, Lock!Init, LockP!LockInv, LockP!TypeOK, LockP!KeyInv, LockP!GrantInv,
         LockP!HoldInv, LockP!Phase, LockP!LockAssumption
<1>2. LockP!LockInv /\ [Next]_vars => LockP!LockInv'
  BY InvStep
<1>3. LockP!LockInv => OneInstance /\ LockOutlivesJob
  BY DEF LockP!LockInv, LockP!TypeOK, LockP!HoldInv, OneInstance, LockOutlivesJob
<1> QED BY <1>1, <1>2, <1>3, PTL DEF Spec

----------------------------------------------------------------------------
(* The shutdown of a pod.  Its invariant is about Start, the cron and who  *)
(* may still own the key; it does not depend on the timing.                *)

LEMMA SchedulerTypeStep == TypeOK /\ [Next]_vars => TypeOK'
<1> SUFFICES ASSUME TypeOK, [Next]_vars PROVE TypeOK'
  OBVIOUS
<1>1. LockP!TypeOK'
  BY LockStep, LockAssumed, LockP!TypeStep DEF TypeOK, Lock!TypeOK, LockP!TypeOK,
     Lock!Phase, LockP!Phase
<1>2. Lock!TypeOK'
  BY <1>1 DEF Lock!TypeOK, LockP!TypeOK, Lock!Phase, LockP!Phase
<1>3. ASSUME NEW e \in Execs, Fire(e) \/ ExecStep(e)
      PROVE  /\ UNCHANGED podVars
             /\ begun' \subseteq begun \cup {e} /\ left' \subseteq left \cup {e}
  BY <1>3 DEF Fire, ExecStep, Acquire, StartJob, LockFailed, JobDone, ReleaseLock
<1>4. ASSUME NEW p \in Pods,
             \/ Start(p) \/ StartStep(p) \/ CancelContext(p)
             \/ Stop(p) \/ StopReturns(p) \/ Kill(p)
      PROVE  TypeOK'
  <2>1. CASE Start(p) \/ StartStep(p)
    BY <1>2, <2>1 DEF TypeOK, Start, StartStep, CronStart, ContextDone, StartReturns
  <2>2. CASE CancelContext(p) \/ Stop(p)
    BY <1>2, <2>2 DEF TypeOK, CancelContext, Stop
  <2>3. CASE StopReturns(p) \/ Kill(p)
    BY <1>2, <2>3 DEF TypeOK, StopReturns, Kill
  <2> QED BY <1>4, <2>1, <2>2, <2>3
<1>5. CASE Tick \/ UNCHANGED vars
  BY <1>2, <1>5 DEF TypeOK, Tick, vars, podVars
<1> QED BY <1>2, <1>3, <1>4, <1>5 DEF Next, TypeOK, podVars

\* Once Start stops, its cron fires no more.
CronInv ==
    \A p \in Pods : start[p] \in {"stopping", "returned"} => cron[p] = "stopped"

\* Whoever owns the key is still under way or has a reason not to have
\* released it.
OwnerInv ==
    \A e \in Execs : owner = e =>
        \/ lpc[e] \in {"granted", "held", "releasing"}
        \/ lpc[e] = "over" /\ (e \in left \/ start[PodOf[e]] = "killed")

StopInv == TypeOK /\ CronInv /\ StartDrains /\ OwnerInv

\* Of the steps of an execution: they need a cron that runs, or an execution
\* under way, so they are not steps of a pod whose Start has returned.
LEMMA ExecInvStep ==
    ASSUME StopInv, NEW e \in Execs, Fire(e) \/ ExecStep(e)
    PROVE  CronInv' /\ StartDrains' /\ OwnerInv'
<1> USE SchedulerAssumption DEF StopInv, TypeOK, Lock!TypeOK, CronInv, StartDrains,
    OwnerInv, Quiet, On, podVars, Lock!Enter, Lock!Phase
<1>1. CASE Fire(e)
  BY <1>1 DEF Fire, keyVars
<1>2. CASE StartJob(e) \/ JobDone(e)
  BY <1>2 DEF StartJob, JobDone, Lock!Acquired, Lock!WorkDone
<1>3. CASE LockFailed(e)
  BY <1>3 DEF LockFailed, Lock!ReplyLost
<1>4. ASSUME NEW ok \in BOOLEAN, ReleaseLock(e, ok)
      PROVE  CronInv' /\ StartDrains' /\ OwnerInv'
  BY <1>4 DEF ReleaseLock, Lock!Release
<1>5. CASE Acquire(e)
  BY <1>5 DEF Acquire, Lock!Grant, Lock!Occupied, Lock!GiveUp
<1> QED BY <1>1, <1>2, <1>3, <1>4, <1>5 DEF ExecStep

\* Of the steps of Start, Stop and the death of a pod.
LEMMA PodInvStep ==
    ASSUME StopInv, NEW p \in Pods,
           \/ Start(p) \/ StartStep(p) \/ CancelContext(p)
           \/ Stop(p) \/ StopReturns(p) \/ Kill(p)
    PROVE  CronInv' /\ StartDrains' /\ OwnerInv'
<1> USE SchedulerAssumption DEF StopInv, TypeOK, Lock!TypeOK, CronInv, StartDrains,
    OwnerInv, Quiet, On, keyVars, Lock!Phase
<1>1. CASE Start(p) \/ CronStart(p)
  BY <1>1 DEF Start, CronStart
<1>2. CASE ContextDone(p) \/ StartReturns(p)
  BY <1>2 DEF ContextDone, StartReturns
<1>3. CASE CancelContext(p) \/ Stop(p) \/ StopReturns(p)
  BY <1>3 DEF CancelContext, Stop, StopReturns
<1>4. CASE Kill(p)
  BY <1>4 DEF Kill, Lock!Crash
<1> QED BY <1>1, <1>2, <1>3, <1>4 DEF StartStep

LEMMA StopInvariant == Spec => []StopInv
<1>1. Init => StopInv
  BY LockAssumed DEF Init, StopInv, TypeOK, CronInv, StartDrains, OwnerInv,
     Lock!Init, Lock!TypeOK, Lock!Phase, LockP!LockAssumption
<1>2. ASSUME StopInv, [Next]_vars PROVE StopInv'
  <2>1. TypeOK'
    BY <1>2, SchedulerTypeStep DEF StopInv
  <2>2. CASE Tick
    BY <1>2, <2>1, <2>2, SchedulerAssumption DEF Tick, Lock!Tick, StopInv, TypeOK, Lock!TypeOK,
       CronInv, StartDrains, OwnerInv, Quiet, On, podVars, Lock!Phase
  <2>3. CASE UNCHANGED vars
    BY <1>2, <2>1, <2>3 DEF vars, keyVars, podVars, StopInv, CronInv,
       StartDrains, OwnerInv, Quiet, On
  <2> QED BY <1>2, <2>1, <2>2, <2>3, ExecInvStep, PodInvStep DEF Next, StopInv
<1> QED BY <1>1, <1>2, PTL DEF Spec

\* When Start of scheduler.go has returned, no execution of its pod is under
\* way and none will be: for any number of pods and executions, however Start,
\* Stop, the context and the jobs interleave.
THEOREM StartWaits == Spec => []StartDrains
<1>1. StopInv => StartDrains
  BY DEF StopInv
<1> QED BY <1>1, StopInvariant, PTL

\* A pod whose Start has returned owns no lock, unless Redis lost a reply of
\* Acquire or a Release (scheduler.go, execute and Start): for any number of
\* pods and any timing.
THEOREM LocksGivenBack == Spec => []NoLockLeft
<1>1. StopInv => NoLockLeft
  BY SchedulerAssumption DEF StopInv, StartDrains, OwnerInv, NoLockLeft, Quiet, On
<1> QED BY <1>1, StopInvariant, PTL

============================================================================
