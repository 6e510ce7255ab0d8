--------------------------- MODULE DistLockProofs ---------------------------
(***************************************************************************)
(* Proofs about the distributed lock: with a TTL that outlives the slowest *)
(* reply and the longest work, the lock excludes, for any number of        *)
(* clients; and for every timing only the owner takes a live key away.     *)
(***************************************************************************)
EXTENDS DistLock, TLAPS

\* The key is set exactly while it has time left.
KeyInv == owner = NoOne <=> ttl = 0

\* A client that was granted the lock owns the key, and the key has time left
\* for the rest of the reply's lag and the work after it.
GrantInv ==
    \A c \in Clients : lpc[c] = "granted" =>
        /\ owner = c
        /\ ttl >= TTL - MaxLag + timer[c]

\* A client that works under the lock owns the key and ends before it expires.
HoldInv ==
    \A c \in Clients : lpc[c] = "held" => owner = c /\ timer[c] < ttl

LockInv == TypeOK /\ KeyInv /\ GrantInv /\ HoldInv

LEMMA TypeInit == Init => TypeOK
BY LockAssumption DEF Init, TypeOK, Phase

LEMMA TypeStep == TypeOK /\ [Next]_lockVars => TypeOK'
<1> SUFFICES ASSUME TypeOK, [Next]_lockVars PROVE TypeOK'
  OBVIOUS
<1> USE LockAssumption DEF TypeOK, Enter, Phase
<1>1. CASE Tick
  BY <1>1 DEF Tick
<1>2. ASSUME NEW c \in Clients, Grant(c) PROVE TypeOK'
  BY <1>2 DEF Grant
<1>3. ASSUME NEW c \in Clients, Occupied(c) PROVE TypeOK'
  BY <1>3 DEF Occupied
<1>4. ASSUME NEW c \in Clients,
             \/ TimedOut(c) \/ GiveUp(c) \/ ReplyLost(c) \/ WorkDone(c)
             \/ Acquired(c)
      PROVE  TypeOK'
  BY <1>4 DEF TimedOut, GiveUp, ReplyLost, WorkDone, Acquired
<1>5. ASSUME NEW c \in Clients, Extend(c) PROVE TypeOK'
  BY <1>5 DEF Extend
<1>6. ASSUME NEW c \in Clients, NEW ok \in BOOLEAN, Release(c, ok) PROVE TypeOK'
  BY <1>6 DEF Release
<1>7. ASSUME NEW S \in SUBSET Clients, Crash(S) PROVE TypeOK'
  BY <1>7 DEF Crash
<1>8. CASE UNCHANGED lockVars
  BY <1>8 DEF lockVars
<1> QED BY <1>1, <1>2, <1>3, <1>4, <1>5, <1>6, <1>7, <1>8 DEF Next, ClientStep

\* Type correctness of the lock, for every timing.
THEOREM LockTypeCorrect == Spec => []TypeOK
BY TypeInit, TypeStep, PTL DEF Spec

\* The invariant is inductive for timings in which the TTL is long enough.
LEMMA LockInvStep ==
    ASSUME SafeTiming, LockInv, [Next]_lockVars
    PROVE  LockInv'
<1>1. TypeOK'
  BY TypeStep DEF LockInv
<1> USE <1>1, LockAssumption DEF SafeTiming, LockInv, TypeOK, KeyInv, GrantInv, HoldInv
<1>2. CASE Tick
  BY <1>2 DEF Tick
<1>3. ASSUME NEW c \in Clients, Grant(c) PROVE LockInv'
  BY <1>3 DEF Grant, Enter
<1>4. ASSUME NEW c \in Clients, Occupied(c) PROVE LockInv'
  BY <1>4 DEF Occupied, Enter
<1>5. ASSUME NEW c \in Clients,
             \/ TimedOut(c) \/ GiveUp(c) \/ ReplyLost(c) \/ WorkDone(c)
      PROVE  LockInv'
  BY <1>5 DEF TimedOut, GiveUp, ReplyLost, WorkDone, Enter
<1>6. ASSUME NEW c \in Clients, Acquired(c) PROVE LockInv'
  BY <1>6 DEF Acquired, Enter
<1>7. ASSUME NEW c \in Clients, Extend(c) PROVE LockInv'
  BY <1>7 DEF Extend, Enter
<1>8. ASSUME NEW c \in Clients, NEW ok \in BOOLEAN, Release(c, ok) PROVE LockInv'
  BY <1>8 DEF Release, Enter
<1>9. ASSUME NEW S \in SUBSET Clients, Crash(S) PROVE LockInv'
  BY <1>9 DEF Crash
<1>10. CASE UNCHANGED lockVars
  BY <1>10 DEF lockVars
<1> QED BY <1>2, <1>3, <1>4, <1>5, <1>6, <1>7, <1>8, <1>9, <1>10
        DEF Next, ClientStep

\* With MaxLag + HoldLimit < TTL at most one client works under the lock, for
\* any number of clients and whatever replies, releases and crashes do.
THEOREM LockExcludes ==
    ASSUME SafeTiming
    PROVE  Spec => []MutualExclusion
<1>1. Init => LockInv
  BY TypeInit DEF Init, LockInv, KeyInv, GrantInv, HoldInv
<1>2. LockInv /\ [Next]_lockVars => LockInv'
  BY LockInvStep
<1>3. LockInv => MutualExclusion
  BY DEF LockInv, HoldInv, MutualExclusion
<1> QED BY <1>1, <1>2, <1>3, PTL DEF Spec

\* For every timing, also an unsafe one: a live key is taken away by its
\* owner's Release only.
THEOREM OwnerReleases == Spec => OnlyOwnerReleases
<1> DEFINE Inv == TypeOK /\ KeyInv
<1>1. Init => Inv
  BY TypeInit DEF Init, KeyInv
<1>2. ASSUME Inv, [Next]_lockVars PROVE KeyInv' /\ [TakenByOwner]_lockVars
  <2> USE LockAssumption DEF TypeOK, KeyInv, TakenByOwner
  <2>1. CASE Tick
    BY <1>2, <2>1 DEF Tick
  <2>2. ASSUME NEW c \in Clients, NEW ok \in BOOLEAN, Release(c, ok)
        PROVE  KeyInv' /\ TakenByOwner
    BY <1>2, <2>2 DEF Release
  <2>3. ASSUME NEW c \in Clients, Grant(c) \/ Extend(c)
        PROVE  KeyInv' /\ TakenByOwner
    BY <1>2, <2>3 DEF Grant, Extend
  <2>4. CASE UNCHANGED <<owner, ttl>>
    BY <1>2, <2>4
  <2> QED BY <1>2, <2>1, <2>2, <2>3, <2>4
          DEF Next, ClientStep, Occupied, TimedOut, GiveUp, Acquired, ReplyLost,
              WorkDone, Crash, lockVars
<1>3. Inv /\ [Next]_lockVars => Inv' /\ [TakenByOwner]_lockVars
  BY <1>2, TypeStep
<1> HIDE DEF Inv
<1> QED BY <1>1, <1>3, PTL DEF Spec, OnlyOwnerReleases

============================================================================
