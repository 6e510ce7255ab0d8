----------------------------- MODULE HttpClient -----------------------------
(***************************************************************************)
(* Calls of external services: the client of pkg/httpclient (client.go,    *)
(* service.go), its OAuth2 token cache (token.go), the retry loop of       *)
(* pkg/retry and the circuit breaker of pkg/circuitbreaker, shared by all  *)
(* calls.  A call resolves its token once, asks the breaker, and then      *)
(* makes its attempts; a token that cannot be had is left out and the call *)
(* goes on without.  gobreaker is external and modelled by what the        *)
(* wrapper relies on: a generation of counts per period, results of an     *)
(* older generation ignored.  A token is the time at which it expires; an  *)
(* answer is abstracted to how the code treats its status.                 *)
(***************************************************************************)
EXTENDS Naturals, FiniteSets

CONSTANTS Calls, NoCall,
          MaxRetries,        \* retry.Config
          FailureThreshold,  \* circuitbreaker.Config
          MaxRequests,       \* circuitbreaker.Config: calls let in half-open
          ExpiryBuffer,      \* the 30 s of clientCredentials.Token
          Lifetimes,         \* expires_in of the token endpoint
          MaxTime,           \* bound: ticks of the clock
          MaxPeriods         \* bound: breaker periods that elapse

ASSUME HttpAssumption ==
    /\ IsFiniteSet(Calls) /\ NoCall \notin Calls
    /\ MaxRetries \in Nat /\ ExpiryBuffer \in Nat /\ MaxTime \in Nat
    /\ MaxPeriods \in Nat /\ Lifetimes \subseteq Nat
    /\ FailureThreshold \in Nat \ {0} /\ MaxRequests \in Nat \ {0}

VARIABLES now,       \* the clock
          lock,      \* clientCredentials.mu: the call that holds it
          cached,    \* clientCredentials: expiry of the token (0: none)
          breaker,   \* state, generation and counts of the circuit breaker
          elapsed,   \* breaker periods so far
          pc,        \* call -> where it is, and how it ended
          attempt,   \* call -> attempt of the retry loop
          gen        \* call -> generation in which the breaker let it in

tokenVars   == <<lock, cached>>
breakerVars == <<breaker, elapsed>>
callVars    == <<pc, attempt, gen>>
vars == <<now, lock, cached, breaker, elapsed, pc, attempt, gen>>

InFlight(c) == pc[c] \in {"sending", "backoff"}

\* How a call ends: with a result, with an error, or with ErrCircuitOpen.
Ends == {"ok", "failed", "refused"}

TypeOK ==
    /\ now \in 0..MaxTime
    /\ lock \in Calls \cup {NoCall}
    /\ cached \in Nat
    /\ breaker \in [state : {"closed", "open", "half-open"}, gen : Nat,
                    requests : Nat, successes : Nat, streak : 0..FailureThreshold]
    /\ elapsed \in 0..MaxPeriods
    /\ pc \in [Calls -> {"idle", "token", "fetching", "admit", "sending",
                         "backoff", "response"} \cup Ends]
    /\ attempt \in [Calls -> 0..MaxRetries]
    /\ gen \in [Calls -> Nat]

\* New and NewClientCredentials.
Init ==
    /\ now = 0
    /\ lock = NoCall /\ cached = 0
    /\ breaker = [state |-> "closed", gen |-> 0, requests |-> 0,
                  successes |-> 0, streak |-> 0]
    /\ elapsed = 0
    /\ pc = [c \in Calls |-> "idle"]
    /\ attempt = [c \in Calls |-> 0]
    /\ gen = [c \in Calls |-> 0]

Tick ==
    /\ now < MaxTime
    /\ now' = now + 1
    /\ UNCHANGED <<tokenVars, breakerVars, callVars>>

----------------------------------------------------------------------------
\* The request is built; a body that cannot be encoded ends the call.
doRequest == {"token", "failed"}

\* Get, Post, ... of the client, Do and DoVoid of a service.
Start(c) ==
    /\ pc[c] = "idle"
    /\ \E next \in doRequest : pc' = [pc EXCEPT ![c] = next]
    /\ UNCHANGED <<now, tokenVars, breakerVars, attempt, gen>>

Usable == cached # 0 /\ now + ExpiryBuffer < cached

\* Mutant of LockToken: the cache is read without waiting for the mutex.
LockTokenUnguarded(c) ==
    /\ pc[c] = "token"
    /\ IF Usable
       THEN pc' = [pc EXCEPT ![c] = "admit"] /\ UNCHANGED lock
       ELSE pc' = [pc EXCEPT ![c] = "fetching"] /\ lock' = c
    /\ UNCHANGED <<now, cached, breakerVars, attempt, gen>>

\* setHeaders asks the token source, which locks: a usable token is taken from
\* the cache, otherwise one is fetched with the lock held.
LockToken(c) ==
    /\ pc[c] = "token"
    /\ lock = NoCall
    /\ IF Usable
       THEN pc' = [pc EXCEPT ![c] = "admit"] /\ UNCHANGED lock
       ELSE pc' = [pc EXCEPT ![c] = "fetching"] /\ lock' = c
    /\ UNCHANGED <<now, cached, breakerVars, attempt, gen>>

\* fetchToken succeeds: the token is cached, whatever its lifetime.
Fetched(c, life) ==
    /\ pc[c] = "fetching"
    /\ cached' = now + life
    /\ lock' = NoCall
    /\ pc' = [pc EXCEPT ![c] = "admit"]
    /\ UNCHANGED <<now, breakerVars, attempt, gen>>

\* Mutant of FetchFailed: the lock is kept on the error path.
FetchFailedLocked(c) ==
    /\ pc[c] = "fetching"
    /\ pc' = [pc EXCEPT ![c] = "admit"]
    /\ UNCHANGED <<now, tokenVars, breakerVars, attempt, gen>>

\* fetchToken fails: the call goes on without a token.
FetchFailed(c) ==
    /\ pc[c] = "fetching"
    /\ lock' = NoCall
    /\ pc' = [pc EXCEPT ![c] = "admit"]
    /\ UNCHANGED <<now, cached, breakerVars, attempt, gen>>

----------------------------------------------------------------------------
\* A new generation of the breaker in the given state, with fresh counts.
NewGeneration(state) ==
    [state |-> state, gen |-> breaker.gen + 1, requests |-> 0, successes |-> 0,
     streak |-> 0]

\* The Interval of the closed state ends: the counts are cleared.
IntervalElapsed ==
    /\ elapsed < MaxPeriods
    /\ breaker.state = "closed"
    /\ breaker' = NewGeneration("closed")
    /\ elapsed' = elapsed + 1
    /\ UNCHANGED <<now, tokenVars, callVars>>

\* The Timeout of the open state ends.
TimeoutElapsed ==
    /\ breaker.state = "open"
    /\ breaker' = NewGeneration("half-open")
    /\ UNCHANGED <<now, tokenVars, elapsed, callVars>>

Refuses ==
    \/ breaker.state = "open"
    \/ breaker.state = "half-open" /\ breaker.requests >= MaxRequests

\* Execute lets the call in and counts it, or mapError turns the refusal into
\* ErrCircuitOpen.
Admit(c) ==
    /\ pc[c] = "admit"
    /\ IF Refuses
       THEN /\ pc' = [pc EXCEPT ![c] = "refused"]
            /\ UNCHANGED <<breaker, gen>>
       ELSE /\ pc' = [pc EXCEPT ![c] = "sending"]
            /\ breaker' = [breaker EXCEPT !.requests = @ + 1]
            /\ gen' = [gen EXCEPT ![c] = breaker.gen]
    /\ UNCHANGED <<now, tokenVars, elapsed, attempt>>

\* What the breaker does with the outcome of an admitted call.
Counted(ok) ==
    CASE ok /\ breaker.state = "closed" ->
             [breaker EXCEPT !.successes = @ + 1, !.streak = 0]
      [] ok /\ breaker.state = "half-open" ->
             IF breaker.successes + 1 >= MaxRequests THEN NewGeneration("closed")
             ELSE [breaker EXCEPT !.successes = @ + 1]
      [] ~ok /\ breaker.state = "closed" ->
             IF breaker.streak + 1 >= FailureThreshold THEN NewGeneration("open")
             ELSE [breaker EXCEPT !.streak = @ + 1]
      [] ~ok /\ breaker.state = "half-open" -> NewGeneration("open")
      [] OTHER -> breaker

\* Results of calls let in by an older generation are ignored.
Report(c, ok) == breaker' = IF gen[c] = breaker.gen THEN Counted(ok) ELSE breaker

\* The call leaves the retry loop.
Leave(c, end) ==
    /\ pc' = [pc EXCEPT ![c] = end]
    /\ attempt' = [attempt EXCEPT ![c] = 0]
    /\ gen' = [gen EXCEPT ![c] = 0]
    /\ UNCHANGED <<now, tokenVars, elapsed>>

----------------------------------------------------------------------------
\* doOnce gets an answer that the retry loop takes: below 400, or a client
\* error other than 429; without retries also 5xx and 429.
Answered(c) ==
    /\ pc[c] = "sending"
    /\ Report(c, TRUE)
    /\ Leave(c, "response")

\* A network error, 5xx or 429, retried unless the attempts are used up.
AttemptFailed(c) ==
    /\ pc[c] = "sending"
    /\ IF attempt[c] < MaxRetries
       THEN /\ pc' = [pc EXCEPT ![c] = "backoff"]
            /\ UNCHANGED <<now, tokenVars, breakerVars, attempt, gen>>
       ELSE Report(c, FALSE) /\ Leave(c, "failed")

\* CalculateDelay has passed.
Retry(c) ==
    /\ pc[c] = "backoff"
    /\ pc' = [pc EXCEPT ![c] = "sending"]
    /\ attempt' = [attempt EXCEPT ![c] = @ + 1]
    /\ UNCHANGED <<now, tokenVars, breakerVars, gen>>

\* Mutant of Cancelled: the breaker is not told.
CancelledSilently(c) ==
    /\ InFlight(c)
    /\ UNCHANGED breaker
    /\ Leave(c, "failed")

\* The caller's context ends, or the client's timeout does: not retryable.
Cancelled(c) ==
    /\ InFlight(c)
    /\ Report(c, FALSE)
    /\ Leave(c, "failed")

\* What becomes of the response: a plain call is decoded by DecodeJSON; a
\* service's, from status 400 on, is an error of the service.
DecodeJSON  == {"ok", "failed"}
decodeError == {"failed"}

Decode(c) ==
    /\ pc[c] = "response"
    /\ \E end \in DecodeJSON \cup decodeError : pc' = [pc EXCEPT ![c] = end]
    /\ UNCHANGED <<now, tokenVars, breakerVars, attempt, gen>>

----------------------------------------------------------------------------
TokenStep(c) ==
    LockToken(c) \/ FetchFailed(c) \/ \E life \in Lifetimes : Fetched(c, life)

SendStep(c) ==
    \/ Admit(c) \/ Answered(c) \/ AttemptFailed(c) \/ Retry(c) \/ Cancelled(c)
    \/ Decode(c)

Next ==
    \/ Tick \/ IntervalElapsed \/ TimeoutElapsed
    \/ \E c \in Calls : Start(c) \/ TokenStep(c) \/ SendStep(c)

Spec == Init /\ [][Next]_vars

\* Requests end (the clients have timeouts), the mutex is handed on to every
\* waiter, and time passes.
FairSpec ==
    /\ Spec
    /\ WF_vars(TimeoutElapsed)
    /\ \A c \in Calls : /\ SF_vars(LockToken(c))
                        /\ WF_vars(TokenStep(c)) /\ WF_vars(SendStep(c))

----------------------------------------------------------------------------
\* A token is fetched only while none is usable: calls that waited for the
\* mutex take the token another one has fetched.
NoNeedlessFetch == \A c \in Calls : pc[c] = "fetching" => lock = c /\ ~Usable

\* Every call that a half-open breaker has let in either is still under way or
\* has been counted, so a half-open breaker that refuses everybody is waiting
\* for somebody.
HalfOpenAccounted ==
    breaker.state = "half-open" =>
        /\ breaker.requests <= MaxRequests
        /\ breaker.requests =
             breaker.successes
               + Cardinality({c \in Calls : InFlight(c) /\ gen[c] = breaker.gen})

\* Every call ends, whatever the token endpoint, the service and the other
\* calls do.
CallsEnd == \A c \in Calls : pc[c] # "idle" ~> pc[c] \in Ends

============================================================================
