------------------------------ MODULE DistLock ------------------------------
(***************************************************************************)
(* The Redis lock of pkg/distlock/distlock.go on one key.  A client is one *)
(* call of Acquire with what its caller does with the lock; its identity   *)
(* is the random UUID that Acquire draws.  Time is discrete and counted    *)
(* down by timers: the key's TTL in Redis, and the time each client still  *)
(* has for its current phase.                                              *)
(***************************************************************************)
EXTENDS Integers

CONSTANTS Clients,
          NoOne,
          TTL,           \* Config.TTL
          RetryTimeout,  \* Config.RetryTimeout (0: try once)
          MaxLag,        \* longest time from SET NX in Redis to Acquire's return
          HoldLimit      \* longest time a client works before it releases or extends

ASSUME LockAssumption ==
    /\ NoOne \notin Clients
    /\ TTL \in Nat \ {0}
    /\ RetryTimeout \in Nat
    /\ MaxLag \in Nat
    /\ HoldLimit \in Nat

VARIABLES owner,  \* value of the key
          ttl,    \* time until Redis expires it
          lpc,    \* client -> phase
          timer   \* client -> time left in the phase

lockVars == <<owner, ttl, lpc, timer>>

\* "granted": SET NX was applied, the reply is on its way.
Phase == {"idle", "waiting", "granted", "held", "releasing", "over"}

TypeOK ==
    /\ owner \in Clients \cup {NoOne}
    /\ ttl \in 0..TTL
    /\ lpc \in [Clients -> Phase]
    /\ timer \in [Clients -> Nat]

Init ==
    /\ owner = NoOne
    /\ ttl = 0
    /\ lpc = [c \in Clients |-> "idle"]
    /\ timer = [c \in Clients |-> 0]

Enter(c, phase, time) ==
    /\ lpc' = [lpc EXCEPT ![c] = phase]
    /\ timer' = [timer EXCEPT ![c] = time]

\* Mutant of Grant: SET without NX.
GrantWithoutNX(c) ==
    /\ lpc[c] \in {"idle", "waiting"}
    /\ owner' = c
    /\ ttl' = TTL
    /\ Enter(c, "granted", MaxLag)

\* tryAcquire finds no key: SET key value NX PX ttl.
Grant(c) ==
    /\ lpc[c] \in {"idle", "waiting"}
    /\ owner = NoOne
    /\ owner' = c
    /\ ttl' = TTL
    /\ Enter(c, "granted", MaxLag)

\* The first tryAcquire finds the key set: fail, or enter the retry loop,
\* where later attempts that find it set change nothing.
Occupied(c) ==
    /\ lpc[c] = "idle"
    /\ owner # NoOne
    /\ IF RetryTimeout = 0 THEN Enter(c, "over", 0)
                           ELSE Enter(c, "waiting", RetryTimeout)
    /\ UNCHANGED <<owner, ttl>>

\* A tick of the retry loop after its deadline.
TimedOut(c) ==
    /\ lpc[c] = "waiting"
    /\ timer[c] = 0
    /\ Enter(c, "over", 0)
    /\ UNCHANGED <<owner, ttl>>

\* The caller's context is cancelled, or a SET NX fails on its way to Redis.
GiveUp(c) ==
    /\ lpc[c] \in {"idle", "waiting"}
    /\ Enter(c, "over", 0)
    /\ UNCHANGED <<owner, ttl>>

\* Acquire returns the lock.
Acquired(c) ==
    /\ lpc[c] = "granted"
    /\ Enter(c, "held", HoldLimit)
    /\ UNCHANGED <<owner, ttl>>

\* Acquire returns an error although SET NX was applied: the reply was lost, or
\* the client library repeated the command and found the key set, which sends a
\* caller that retries into its loop for what is left of RetryTimeout.  Nobody
\* releases the key: it is left to its TTL.
ReplyLost(c) ==
    /\ lpc[c] = "granted"
    /\ \/ Enter(c, "over", 0)
       \/ \E time \in 1..RetryTimeout : Enter(c, "waiting", time)
    /\ UNCHANGED <<owner, ttl>>

\* Extend: only the owner resets the TTL; for another client it is an error.
\* The next period starts when the reply arrives.
Extend(c) ==
    /\ lpc[c] = "held"
    /\ owner = c
    /\ ttl' = TTL
    /\ Enter(c, "held", MaxLag + HoldLimit)
    /\ UNCHANGED owner

\* The work under the lock ends, normally or with a panic.
WorkDone(c) ==
    /\ lpc[c] = "held"
    /\ Enter(c, "releasing", 0)
    /\ UNCHANGED <<owner, ttl>>

\* Mutant of Release: DEL without the ownership check.
ReleaseUnchecked(c, ok) ==
    /\ lpc[c] = "releasing"
    /\ IF ok THEN owner' = NoOne /\ ttl' = 0 ELSE UNCHANGED <<owner, ttl>>
    /\ Enter(c, "over", 0)

\* Release: the script deletes the key if it still has the client's value.
\* It may arrive late, or (not ok) never.
Release(c, ok) ==
    /\ lpc[c] = "releasing"
    /\ IF ok /\ owner = c THEN owner' = NoOne /\ ttl' = 0
                          ELSE UNCHANGED <<owner, ttl>>
    /\ Enter(c, "over", 0)

\* The process of the clients S dies.
Crash(S) ==
    /\ lpc' = [c \in Clients |->
                 IF c \in S /\ lpc[c] # "idle" THEN "over" ELSE lpc[c]]
    /\ timer' = [c \in Clients |-> IF c \in S THEN 0 ELSE timer[c]]
    /\ UNCHANGED <<owner, ttl>>

\* Mutant of Tick: keys do not expire (SET NX without PX).
TickNoExpiry ==
    /\ \A c \in Clients :
          lpc[c] \in {"waiting", "granted", "held"} => timer[c] > 0
    /\ timer' = [c \in Clients |-> IF timer[c] > 0 THEN timer[c] - 1 ELSE 0]
    /\ UNCHANGED <<owner, ttl, lpc>>

\* One unit of time passes; Redis expires the key.  Phases with a limit do not
\* outlast it.
Tick ==
    /\ \A c \in Clients :
          lpc[c] \in {"waiting", "granted", "held"} => timer[c] > 0
    /\ timer' = [c \in Clients |-> IF timer[c] > 0 THEN timer[c] - 1 ELSE 0]
    /\ ttl' = IF ttl > 0 THEN ttl - 1 ELSE 0
    /\ owner' = IF ttl <= 1 THEN NoOne ELSE owner
    /\ UNCHANGED lpc

ClientStep(c) ==
    \/ Grant(c) \/ Occupied(c) \/ TimedOut(c) \/ GiveUp(c) \/ Acquired(c)
    \/ ReplyLost(c) \/ Extend(c) \/ WorkDone(c)
    \/ \E ok \in BOOLEAN : Release(c, ok)

Next ==
    \/ Tick
    \/ \E c \in Clients : ClientStep(c)
    \/ \E S \in SUBSET Clients : Crash(S)

Spec == Init /\ [][Next]_lockVars

\* Time passes, replies come or fail, retry loops see their deadline, and work
\* under the lock ends.
FairSpec ==
    /\ Spec
    /\ WF_lockVars(Tick)
    /\ \A c \in Clients : /\ WF_lockVars(TimedOut(c))
                          /\ WF_lockVars(Acquired(c) \/ ReplyLost(c))
                          /\ WF_lockVars(WorkDone(c))

----------------------------------------------------------------------------
\* The TTL outlives the slowest reply and the longest work.
SafeTiming == MaxLag + HoldLimit < TTL

\* At most one client works under the lock, with late replies, lost replies,
\* late releases and crashes (for timings that satisfy SafeTiming).
MutualExclusion ==
    \A c, d \in Clients : lpc[c] = "held" /\ lpc[d] = "held" => c = d

\* The key changes hands only at its expiry or by its owner's Release.
TakenByOwner ==
    \A c \in Clients : owner = c /\ owner' # c => lpc[c] = "releasing" \/ ttl = 1

\* A key that has not expired is only ever taken away by its owner's Release,
\* never by the late Release of a client whose lock expired.
OnlyOwnerReleases == [][TakenByOwner]_lockVars

\* Whoever leaves the key behind (a crash, a lost reply, a failed Release), it
\* becomes free again.
KeyFreed == \A c \in Clients : owner = c ~> owner # c

============================================================================
