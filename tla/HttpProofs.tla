----------------------------- MODULE HttpProofs -----------------------------
(***************************************************************************)
(* The token cache and the circuit breaker of the HTTP client, for any     *)
(* finite number of calls and any thresholds, retries and lifetimes.       *)
(***************************************************************************)
EXTENDS HttpClient, FiniteSetTheorems, TLAPS

USE HttpAssumption
USE DEF tokenVars, breakerVars, callVars, Ends

Labels == {"idle", "token", "fetching", "admit", "sending", "backoff", "response"}
             \cup Ends

\* The token cache: the mutex is held by the call that fetches, and by no other.
TokenInv ==
    /\ now \in Nat /\ cached \in Nat
    /\ pc \in [Calls -> Labels]
    /\ NoNeedlessFetch

LEMMA TokenStepKeeps == TokenInv /\ [Next]_vars => TokenInv'
<1> SUFFICES ASSUME TokenInv, [Next]_vars PROVE TokenInv'
  OBVIOUS
<1> USE DEF TokenInv, NoNeedlessFetch, Labels
<1>1. CASE Tick
  BY <1>1 DEF Tick, Usable
<1>2. CASE IntervalElapsed \/ TimeoutElapsed
  BY <1>2 DEF IntervalElapsed, TimeoutElapsed, Usable
<1>3. ASSUME NEW c \in Calls, Start(c) PROVE TokenInv'
  BY <1>3 DEF Start, doRequest, Usable
<1>4. ASSUME NEW c \in Calls, LockToken(c) PROVE TokenInv'
  BY <1>4 DEF LockToken, Usable
<1>5. ASSUME NEW c \in Calls, FetchFailed(c) \/ \E life \in Lifetimes : Fetched(c, life)
      PROVE  TokenInv'
  <2>1. /\ pc[c] = "fetching" /\ pc' = [pc EXCEPT ![c] = "admit"]
        /\ now' = now /\ cached' \in Nat
    BY <1>5 DEF FetchFailed, Fetched
  <2>2. \A b \in Calls : pc'[b] # "fetching"
    BY <2>1
  <2> QED BY <2>1, <2>2
<1>6. ASSUME NEW c \in Calls, SendStep(c) PROVE TokenInv'
  <2>1. /\ UNCHANGED <<now, lock, cached>>
        /\ \E label \in Labels \ {"fetching"} : pc' = [pc EXCEPT ![c] = label]
    BY <1>6 DEF SendStep, Admit, Answered, AttemptFailed, Retry, Cancelled, Decode, Leave,
         DecodeJSON, decodeError
  <2> QED BY <2>1 DEF Usable
<1>7. CASE UNCHANGED vars
  BY <1>7 DEF vars, Usable
<1> QED
  BY <1>1, <1>2, <1>3, <1>4, <1>5, <1>6, <1>7 DEF Next, TokenStep

(***************************************************************************)
(* clientCredentials.Token (token.go): however many calls find the token   *)
(* expired, one of them fetches at a time, and only while no cached token  *)
(* is usable.                                                              *)
(***************************************************************************)
THEOREM TokenFetchedOnce == Spec => []NoNeedlessFetch
<1>1. Init => TokenInv
  BY DEF Init, TokenInv, Labels, NoNeedlessFetch
<1>2. TokenInv => NoNeedlessFetch
  BY DEF TokenInv
<1> QED BY <1>1, <1>2, TokenStepKeeps, PTL DEF Spec

----------------------------------------------------------------------------
\* The calls under way that the present generation has let in.
LetIn == {c \in Calls : InFlight(c) /\ gen[c] = breaker.gen}

\* Generations only grow, so no call is under way that a later one let in.
BreakerInv ==
    /\ breaker \in [state : {"closed", "open", "half-open"}, gen : Nat,
                    requests : Nat, successes : Nat, streak : Nat]
    /\ pc \in [Calls -> Labels]
    /\ gen \in [Calls -> Nat]
    /\ \A c \in Calls : InFlight(c) => gen[c] <= breaker.gen
    /\ breaker.state = "half-open" =>
          /\ breaker.requests <= MaxRequests
          /\ breaker.requests = breaker.successes + Cardinality(LetIn)

LEMMA LetInFinite == IsFiniteSet(LetIn) /\ Cardinality(LetIn) \in Nat
BY FS_Subset, FS_CardinalityType DEF LetIn

\* A step that leaves the breaker and the calls under way alone.
LEMMA SameKeeps ==
    ASSUME BreakerInv, breaker' = breaker, gen' \in [Calls -> Nat],
           pc' \in [Calls -> Labels],
           \A c \in Calls : /\ InFlight(c)' = InFlight(c)
                            /\ InFlight(c) => gen'[c] = gen[c]
    PROVE  BreakerInv'
<1>1. LetIn' = LetIn
  BY DEF LetIn
<1> QED BY <1>1 DEF BreakerInv

\* A new generation: nobody has been let in by it yet.
LEMMA NewGenerationKeeps ==
    ASSUME BreakerInv, NEW s \in {"closed", "open", "half-open"},
           breaker' = NewGeneration(s), gen' \in [Calls -> Nat],
           pc' \in [Calls -> Labels],
           \A c \in Calls : InFlight(c)' => InFlight(c) /\ gen'[c] = gen[c]
    PROVE  BreakerInv'
<1>1. /\ breaker'.gen = breaker.gen + 1 /\ breaker.gen \in Nat
      /\ breaker'.requests = 0 /\ breaker'.successes = 0
      /\ breaker' \in [state : {"closed", "open", "half-open"}, gen : Nat,
                       requests : Nat, successes : Nat, streak : Nat]
  BY DEF NewGeneration, BreakerInv
<1>2. \A c \in Calls : InFlight(c)' => gen'[c] \in Nat /\ gen'[c] <= breaker.gen
  BY DEF BreakerInv
<1>3. LetIn' = {}
  BY <1>1, <1>2 DEF LetIn
<1>4. Cardinality(LetIn') = 0
  BY <1>3, FS_EmptySet
<1> QED BY <1>1, <1>2, <1>4 DEF BreakerInv

LEMMA AdmitKeeps ==
    ASSUME BreakerInv, NEW c \in Calls, Admit(c) PROVE BreakerInv'
<1>1. CASE Refuses
  BY <1>1, SameKeeps DEF Admit, BreakerInv, Labels, InFlight
<1>2. CASE ~Refuses
  <2>1. /\ pc[c] = "admit" /\ pc' = [pc EXCEPT ![c] = "sending"]
        /\ breaker' = [breaker EXCEPT !.requests = @ + 1]
        /\ gen' = [gen EXCEPT ![c] = breaker.gen]
    BY <1>2 DEF Admit
  <2>2. LetIn' = LetIn \cup {c} /\ c \notin LetIn
    BY <2>1 DEF LetIn, InFlight, BreakerInv
  <2>3. Cardinality(LetIn') = Cardinality(LetIn) + 1
    BY <2>2, LetInFinite, FS_AddElement
  <2>4. breaker.state = "half-open" => breaker.requests < MaxRequests
    BY <1>2 DEF Refuses, BreakerInv
  <2>5. \A b \in Calls : InFlight(b)' => gen'[b] <= breaker.gen
    BY <2>1 DEF InFlight, BreakerInv
  <2> QED BY <2>1, <2>3, <2>4, <2>5, LetInFinite DEF BreakerInv, Labels
<1> QED BY <1>1, <1>2

\* A call leaves and reports: it is counted, or belongs to an older generation.
LEMMA LeaveKeeps ==
    ASSUME BreakerInv, NEW c \in Calls, InFlight(c), NEW ok \in BOOLEAN,
           NEW end \in {"response", "failed"}, Report(c, ok), Leave(c, end)
    PROVE  BreakerInv'
<1>1. /\ pc' = [pc EXCEPT ![c] = end] /\ gen' = [gen EXCEPT ![c] = 0]
      /\ pc' \in [Calls -> Labels] /\ gen' \in [Calls -> Nat]
  BY DEF Leave, BreakerInv, Labels
<1>2. \A b \in Calls : /\ InFlight(b)' <=> InFlight(b) /\ b # c
                       /\ b # c => gen'[b] = gen[b]
  BY <1>1 DEF InFlight, BreakerInv
<1>3. ASSUME breaker'.gen = breaker.gen
      PROVE  LetIn' = LetIn \ {c} /\ \A b \in Calls : InFlight(b)' => gen'[b] <= breaker'.gen
  BY <1>2, <1>3 DEF LetIn, BreakerInv
<1>4. CASE gen[c] # breaker.gen
  <2>1. breaker' = breaker /\ LetIn' = LetIn
    BY <1>3, <1>4 DEF Report, LetIn
  <2> QED BY <1>1, <1>3, <2>1 DEF BreakerInv
<1>5. CASE gen[c] = breaker.gen /\ \E s \in {"closed", "open", "half-open"} : breaker' = NewGeneration(s)
  BY <1>1, <1>2, <1>5, NewGenerationKeeps
<1>6. CASE /\ gen[c] = breaker.gen
           /\ ~\E s \in {"closed", "open", "half-open"} : breaker' = NewGeneration(s)
  <2>1. breaker' = Counted(ok)
    BY <1>6 DEF Report
  <2>2. CASE breaker.state = "half-open"
    <3>1. breaker' = [breaker EXCEPT !.successes = @ + 1]
      BY <1>6, <2>1, <2>2 DEF Counted
    <3>2. c \in LetIn /\ LetIn' = LetIn \ {c}
      BY <1>3, <1>6, <3>1 DEF LetIn, BreakerInv
    <3>3. Cardinality(LetIn') = Cardinality(LetIn) - 1
      BY <3>2, LetInFinite, FS_RemoveElement
    <3> QED BY <1>1, <1>3, <3>1, <3>3, LetInFinite DEF BreakerInv
  <2>3. CASE breaker.state # "half-open"
    <3>1. /\ breaker' \in [state : {"closed", "open", "half-open"}, gen : Nat,
                          requests : Nat, successes : Nat, streak : Nat]
          /\ breaker'.state # "half-open" /\ breaker'.gen = breaker.gen
      <4>1. \/ breaker' = breaker
            \/ breaker' = [breaker EXCEPT !.successes = @ + 1, !.streak = 0]
            \/ breaker' = [breaker EXCEPT !.streak = @ + 1]
        <5>1. CASE breaker.state = "closed" /\ ok
          BY <2>1, <5>1 DEF Counted
        <5>2. CASE breaker.state = "closed" /\ ~ok
          <6>1. breaker' = IF breaker.streak + 1 >= FailureThreshold
                           THEN NewGeneration("open")
                           ELSE [breaker EXCEPT !.streak = @ + 1]
            BY <2>1, <5>2 DEF Counted
          <6> QED BY <1>6, <6>1
        <5>3. CASE breaker.state # "closed"
          <6>1. Counted(ok) = breaker
            BY <2>3, <5>3, ZenonT(60) DEF Counted
          <6> QED BY <2>1, <6>1
        <5> QED BY <5>1, <5>2, <5>3
      <4>2. breaker \in [state : {"closed", "open", "half-open"}, gen : Nat,
                         requests : Nat, successes : Nat, streak : Nat]
        BY DEF BreakerInv
      <4>3. CASE breaker' = breaker
        BY <2>3, <4>2, <4>3
      <4>4. CASE breaker' = [breaker EXCEPT !.successes = @ + 1, !.streak = 0]
        <5> DEFINE b == [breaker EXCEPT !.successes = @ + 1]
        <5>1. /\ b \in [state : {"closed", "open", "half-open"}, gen : Nat,
                        requests : Nat, successes : Nat, streak : Nat]
              /\ b.state # "half-open" /\ b.gen = breaker.gen
          BY <2>3, <4>2
        <5>2. breaker' = [b EXCEPT !.streak = 0]
          BY <4>2, <4>4
        <5> HIDE DEF b
        <5> QED BY <5>1, <5>2
      <4>5. CASE breaker' = [breaker EXCEPT !.streak = @ + 1]
        BY <2>3, <4>2, <4>5
      <4> QED BY <4>1, <4>3, <4>4, <4>5
    <3> QED BY <1>1, <1>3, <3>1 DEF BreakerInv
  <2> QED BY <2>2, <2>3
<1> QED BY <1>4, <1>5, <1>6

LEMMA BreakerStep == BreakerInv /\ [Next]_vars => BreakerInv'
<1> SUFFICES ASSUME BreakerInv, [Next]_vars PROVE BreakerInv'
  OBVIOUS
<1>1. CASE Tick \/ UNCHANGED vars
  BY <1>1, SameKeeps DEF Tick, vars, BreakerInv, InFlight
<1>2. CASE IntervalElapsed \/ TimeoutElapsed
  BY <1>2, NewGenerationKeeps DEF IntervalElapsed, TimeoutElapsed, BreakerInv, InFlight
<1>3. ASSUME NEW c \in Calls, Start(c) \/ TokenStep(c) \/ Decode(c) PROVE BreakerInv'
  <2>1. /\ UNCHANGED <<breaker, gen>> /\ pc[c] \notin {"sending", "backoff"}
        /\ \E label \in Labels \ {"sending", "backoff"} : pc' = [pc EXCEPT ![c] = label]
    BY <1>3 DEF Start, doRequest, TokenStep, LockToken, FetchFailed, Fetched, Decode,
         DecodeJSON, decodeError, Labels
  <2> QED BY <2>1, SameKeeps DEF BreakerInv, InFlight
<1>4. ASSUME NEW c \in Calls, Admit(c) PROVE BreakerInv'
  BY <1>4, AdmitKeeps
<1>5. ASSUME NEW c \in Calls, Answered(c) PROVE BreakerInv'
  BY <1>5, LeaveKeeps DEF Answered, InFlight
<1>6. ASSUME NEW c \in Calls, AttemptFailed(c) PROVE BreakerInv'
  <2>1. CASE attempt[c] < MaxRetries
    BY <1>6, <2>1, SameKeeps DEF AttemptFailed, BreakerInv, InFlight, Labels
  <2>2. CASE ~(attempt[c] < MaxRetries)
    BY <1>6, <2>2, LeaveKeeps DEF AttemptFailed, InFlight
  <2> QED BY <2>1, <2>2
<1>7. ASSUME NEW c \in Calls, Retry(c) PROVE BreakerInv'
  BY <1>7, SameKeeps DEF Retry, BreakerInv, InFlight, Labels
<1>8. ASSUME NEW c \in Calls, Cancelled(c) PROVE BreakerInv'
  BY <1>8, LeaveKeeps DEF Cancelled
<1> QED
  BY <1>1, <1>2, <1>3, <1>4, <1>5, <1>6, <1>7, <1>8 DEF Next, SendStep

(***************************************************************************)
(* The circuit breaker around doRequest: a half-open breaker that is full  *)
(* waits for calls that are under way and will report, however calls are   *)
(* cancelled, retried or overtaken by a change of its state.               *)
(***************************************************************************)
THEOREM BreakerAccounts == Spec => []HalfOpenAccounted
<1>1. Init => BreakerInv
  BY DEF Init, BreakerInv, Labels, InFlight
<1>2. BreakerInv => HalfOpenAccounted
  BY DEF BreakerInv, HalfOpenAccounted, LetIn
<1> QED BY <1>1, <1>2, BreakerStep, PTL DEF Spec

=============================================================================
