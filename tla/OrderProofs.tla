---------------------------- MODULE OrderProofs ----------------------------
(***************************************************************************)
(* The order module for any number of orders, requests, copies and         *)
(* workers: an order and its event exist together, what is told has been   *)
(* committed, and what the idempotent handlers guarantee of a message.     *)
(***************************************************************************)
EXTENDS OrderService, FiniteSetTheorems, SequenceTheorems, TLAPS

Statuses == {"none", "pending", "cancelled"}

\* A request in the transaction of Create, and after its commit.
Creating == {"insert", "outbox", "commit"}
Created  == {"dropCache", "notify"}

StateType ==
    /\ orders \in [Orders -> [status : Statuses, version : Nat]]
    /\ cache \in [Orders -> Statuses]
    /\ pc \in [Requests -> {"idle", "load", "update", "lookup", "read", "fill"}
                             \cup Creating \cup Created]
    /\ op \in [Requests -> {"none", "create", "cancel", "get"}]
    /\ target \in [Requests -> Orders \cup {NoOrder}]
    /\ seen \in [Requests -> Statuses]
    /\ state \in [Events -> {"absent", "open", "confirmed", "abandoned"}]
    /\ \A r \in Requests : pc[r] # "idle" => target[r] \in Orders

\* Rows have a version from the insert on, which Cancel does not pass.
VersionInv == \A o \in Orders : orders[o].status # "none" => orders[o].version > 0

\* Where Create is, and that only Create gets past UpdateStatus: an order that
\* is being created has no row yet, one that was created has.
CreateInv ==
    \A r \in Requests :
        /\ op[r] = "create" <=> pc[r] \in Creating \cup Created
        /\ pc[r] \in Creating => orders[target[r]].status = "none"
        /\ pc[r] \in Created => orders[target[r]].status # "none"
        /\ pc[r] = "update" => orders[target[r]].status # "none"

\* Ids are new: no two requests create the same order.
UniqueInv ==
    \A q, r \in Requests :
        op[q] = "create" /\ op[r] = "create" /\ target[q] = target[r] => q = r

OrderInv ==
    /\ StateType /\ VersionInv /\ CreateInv /\ UniqueInv /\ OrderEventTogether

USE OrderAssumption
USE DEF Statuses, Creating, Created, StateType

LEMMA OrderInit == Init => OrderInv
BY DEF Init, Channel!Init, OrderInv, VersionInv, CreateInv, UniqueInv,
       OrderEventTogether, Events, Topics

USE DEF OrderInv, VersionInv, CreateInv, UniqueInv, channelVars, handlerVars

\* Steps that only move a request on.
LEMMA StartKeeps ==
    ASSUME OrderInv, NEW r \in Requests, Start(r) PROVE OrderInv'
<1>1. PICK o \in Orders, which \in {"create", "get", "cancel"},
           label \in {"insert", "lookup", "load"} :
        /\ Begin(r, which, o, label)
        /\ which = "create" <=> label = "insert"
        /\ which = "create" =>
              /\ orders[o].status = "none"
              /\ \A q \in Requests : target[q] = o => op[q] # "create"
  BY DEF Start, StartCreate, StartGet, StartCancel
<1>2. /\ pc' = [pc EXCEPT ![r] = label] /\ op' = [op EXCEPT ![r] = which]
      /\ target' = [target EXCEPT ![r] = o]
      /\ UNCHANGED <<orders, cache, seen, state, copies>>
  BY <1>1 DEF Begin
<1>3. StateType'
  BY <1>1, <1>2
<1>4. OrderEventTogether' /\ VersionInv'
  BY <1>2 DEF OrderEventTogether
<1>5. CreateInv'
  BY <1>1, <1>2
<1>6. UniqueInv'
  BY <1>1, <1>2
<1> QED BY <1>3, <1>4, <1>5, <1>6

LEMMA AnswerKeeps ==
    ASSUME OrderInv, NEW r \in Requests, Answer(r),
           UNCHANGED <<orders, cache, channelVars>>
    PROVE  OrderInv'
<1>1. StateType'
  BY DEF Answer
<1>2. OrderEventTogether' /\ VersionInv'
  BY DEF OrderEventTogether
<1>3. CreateInv' /\ UniqueInv'
  BY DEF Answer
<1> QED BY <1>1, <1>2, <1>3

\* A request goes on to a place whose part of the invariant holds.
LEMMA GoToKeeps ==
    ASSUME OrderInv, NEW r \in Requests, NEW label, GoTo(r, label),
           UNCHANGED <<orders, cache, channelVars>>,
           \/ pc[r] \in {"insert", "outbox"} /\ label \in {"outbox", "commit"}
           \/ pc[r] = "dropCache" /\ label = "notify"
           \/ /\ pc[r] = "load" /\ label = "update"
              /\ orders[target[r]].status # "none"
           \/ pc[r] = "lookup" /\ label = "read"
    PROVE  OrderInv'
<1>1. StateType'
  BY DEF GoTo
<1>2. OrderEventTogether' /\ VersionInv'
  BY DEF OrderEventTogether
<1>3. CreateInv' /\ UniqueInv'
  BY DEF GoTo
<1> QED BY <1>1, <1>2, <1>3

\* A commit makes the row and its event visible; by CreateInv it is a Create's.
LEMMA CommitKeeps ==
    ASSUME OrderInv, NEW r \in Requests, Commit(r) PROVE OrderInv'
<1>1. CASE Answer(r) /\ UNCHANGED <<orders, channelVars>>
  BY <1>1, AnswerKeeps DEF Commit
<1>2. CASE MakeVisible(r) /\ (GoTo(r, "dropCache") \/ Answer(r))
  <2> DEFINE o == target[r]
  <2>1. /\ pc[r] = "commit" /\ op[r] = "create" /\ o \in Orders
        /\ orders[o].status = "none" /\ cache' = cache
    BY DEF Commit
  <2>2. /\ orders' = [orders EXCEPT ![o] = [status |-> "pending", version |-> 1]]
        /\ state' = [state EXCEPT ![<<"created", o>>] = "open"]
    BY <1>2, <2>1 DEF MakeVisible, RowAfter, InitialVersion, EventOf, Channel!Commit
  <2>3. \A q \in Requests \ {r} : pc'[q] = pc[q] /\ op'[q] = op[q]
                                 /\ target'[q] = target[q] /\ seen'[q] = seen[q]
    BY <1>2 DEF GoTo, Answer
  <2>4. \/ pc'[r] = "dropCache" /\ op'[r] = op[r] /\ target'[r] = target[r]
        \/ pc'[r] = "idle" /\ op'[r] = "none"
    BY <1>2 DEF GoTo, Answer
  <2>5. StateType'
    <3>1. /\ orders' \in [Orders -> [status : Statuses, version : Nat]]
          /\ cache' \in [Orders -> Statuses]
      BY <2>1, <2>2
    <3>2. state' \in [Events -> {"absent", "open", "confirmed", "abandoned"}]
      BY <2>2
    <3>3. /\ pc' \in [Requests -> {"idle", "load", "update", "lookup", "read", "fill"}
                                      \cup Creating \cup Created]
          /\ op' \in [Requests -> {"none", "create", "cancel", "get"}]
          /\ target' \in [Requests -> Orders \cup {NoOrder}]
          /\ seen' \in [Requests -> Statuses]
      <4>1. CASE Answer(r)
        BY <4>1 DEF Answer
      <4>2. CASE GoTo(r, "dropCache")
        BY <4>2 DEF GoTo
      <4> QED BY <4>1, <4>2, <1>2
    <3>4. \A q \in Requests : pc'[q] # "idle" => target'[q] \in Orders
      BY <2>1, <2>3, <2>4
    <3> QED BY <3>1, <3>2, <3>3, <3>4
  <2>6. OrderEventTogether' /\ VersionInv'
    <3>1. VersionInv'
      BY <2>1, <2>2
    <3>2. \A p \in Orders : /\ <<"created", p>> \in Events /\ <<"cancelled", p>> \in Events
                            /\ <<"cancelled", p>> # <<"created", o>>
                            /\ <<"created", p>> = <<"created", o>> <=> p = o
      BY DEF Events, Topics
    <3>3. \A p \in Orders :
             /\ state'[<<"created", p>>] = IF p = o THEN "open" ELSE state[<<"created", p>>]
             /\ state'[<<"cancelled", p>>] = state[<<"cancelled", p>>]
      BY <2>2, <3>2
    <3>4. \A p \in Orders : orders'[p].status = IF p = o THEN "pending" ELSE orders[p].status
      BY <2>1, <2>2
    <3>5. \A p \in Orders :
             /\ orders[p].status = "none" <=> state[<<"created", p>>] = "absent"
             /\ orders[p].status = "cancelled" <=> state[<<"cancelled", p>>] # "absent"
      BY DEF OrderEventTogether
    <3>6. ASSUME NEW p \in Orders
          PROVE  /\ orders'[p].status = "none" <=> state'[<<"created", p>>] = "absent"
                 /\ orders'[p].status = "cancelled" <=> state'[<<"cancelled", p>>] # "absent"
      <4> HIDE DEF o, OrderInv, StateType
      <4>1. CASE p = o
        BY <4>1, <2>1, <3>3, <3>4, <3>5
      <4>2. CASE p # o
        BY <4>2, <3>3, <3>4, <3>5
      <4> QED BY <4>1, <4>2
    <3>7. OrderEventTogether'
      BY <3>6 DEF OrderEventTogether
    <3> QED BY <3>1, <3>7
  <2>7. UniqueInv'
    BY <2>3, <2>4
  <2>8. CreateInv'
    <3> SUFFICES ASSUME NEW q \in Requests
                 PROVE  /\ op'[q] = "create" <=> pc'[q] \in Creating \cup Created
                        /\ pc'[q] \in Creating => orders'[target'[q]].status = "none"
                        /\ pc'[q] \in Created \cup {"update"} =>
                              orders'[target'[q]].status # "none"
      OBVIOUS
    <3>1. CASE q = r
      BY <3>1, <2>1, <2>2, <2>4
    <3>2. CASE q # r
      <4>1. op[q] = "create" => target[q] # o
        BY <3>2, <2>1
      <4> QED BY <3>2, <4>1, <2>1, <2>2, <2>3
    <3> QED BY <3>1, <3>2
  <2> QED BY <2>5, <2>6, <2>7, <2>8
<1> QED BY <1>1, <1>2 DEF Commit

LEMMA DropCacheKeeps ==
    ASSUME OrderInv, NEW r \in Requests, DropCache(r) PROVE OrderInv'
<1>1. /\ pc[r] = "dropCache" /\ op[r] = "create" /\ target[r] \in Orders
      /\ UNCHANGED <<orders, state>> /\ GoTo(r, "notify")
  BY DEF DropCache
<1>2. cache' \in [Orders -> Statuses]
  BY <1>1 DEF DropCache, CacheDelete
<1>3. StateType'
  BY <1>1, <1>2 DEF GoTo
<1>4. OrderEventTogether' /\ VersionInv'
  BY <1>1 DEF OrderEventTogether
<1>5. CreateInv' /\ UniqueInv'
  BY <1>1 DEF GoTo
<1> QED BY <1>2, <1>3, <1>4, <1>5

LEMMA FillKeeps ==
    ASSUME OrderInv, NEW r \in Requests, Fill(r) PROVE OrderInv'
<1>1. /\ pc[r] = "fill" /\ target[r] \in Orders
      /\ UNCHANGED <<orders, state>> /\ Answer(r)
  BY DEF Fill
<1>2. cache' \in [Orders -> Statuses]
  BY <1>1 DEF Fill, CacheSet
<1>3. StateType'
  BY <1>1, <1>2 DEF Answer
<1>4. OrderEventTogether' /\ VersionInv'
  BY <1>1 DEF OrderEventTogether
<1>5. CreateInv' /\ UniqueInv'
  BY <1>1 DEF Answer
<1> QED BY <1>2, <1>3, <1>4, <1>5

LEMMA ReadKeeps ==
    ASSUME OrderInv, NEW r \in Requests, Read(r) PROVE OrderInv'
<1>1. CASE Answer(r)
  BY <1>1, AnswerKeeps DEF Read
<1>2. CASE ~Answer(r)
  <2>1. /\ pc[r] = "read" /\ orders[target[r]].status # "none"
        /\ pc' = [pc EXCEPT ![r] = "fill"]
        /\ seen' = [seen EXCEPT ![r] = orders[target[r]].status]
        /\ UNCHANGED <<op, target, orders, cache, state>>
    BY <1>2 DEF Read, StatusOf
  <2>2. StateType'
    BY <2>1
  <2>3. OrderEventTogether' /\ VersionInv'
    BY <2>1 DEF OrderEventTogether
  <2>4. CreateInv' /\ UniqueInv'
    BY <2>1
  <2> QED BY <2>2, <2>3, <2>4
<1> QED BY <1>1, <1>2

LEMMA ContinueKeeps ==
    ASSUME OrderInv, NEW r \in Requests, Continue(r) PROVE OrderInv'
<1>1. CASE InsertOrder(r)
  BY <1>1, AnswerKeeps, GoToKeeps DEF InsertOrder
<1>2. CASE LoadOrder(r)
  BY <1>2, AnswerKeeps, GoToKeeps DEF LoadOrder, Cancellable
<1>3. CASE UpdateStatus(r)
  <2>1. Answer(r)
    BY <1>3 DEF UpdateStatus, CancelVersion
  <2> QED BY <1>3, <2>1, AnswerKeeps DEF UpdateStatus
<1>4. CASE WriteEvent(r)
  BY <1>4, AnswerKeeps, GoToKeeps DEF WriteEvent
<1>5. CASE Notify(r)
  BY <1>5, AnswerKeeps DEF Notify
<1>6. CASE Lookup(r)
  BY <1>6, AnswerKeeps, GoToKeeps DEF Lookup
<1> QED
  BY <1>1, <1>2, <1>3, <1>4, <1>5, <1>6, CommitKeeps, DropCacheKeeps, ReadKeeps,
     FillKeeps DEF Continue

\* The relay moves events between states that are not "absent".
LEMMA RelayKeeps ==
    ASSUME OrderInv, NEW e \in Events, Relay(e) \/ Settle(e) PROVE OrderInv'
<1>1. /\ UNCHANGED <<orders, cache, requestVars>> /\ state[e] # "absent"
      /\ \E s \in {state[e], "confirmed", "abandoned"} : state' = [state EXCEPT ![e] = s]
  <2>1. CASE Relay(e)
    BY <2>1 DEF Relay, Channel!Deliver
  <2>2. CASE Settle(e)
    BY <2>2 DEF Settle, Channel!Confirm, Channel!Abandon
  <2> QED BY <2>1, <2>2
<1>2. /\ state' \in [Events -> {"absent", "open", "confirmed", "abandoned"}]
      /\ \A f \in Events : state'[f] = "absent" <=> state[f] = "absent"
  BY <1>1
<1>3. \A p \in Orders : <<"created", p>> \in Events /\ <<"cancelled", p>> \in Events
  BY DEF Events, Topics
<1>4. OrderEventTogether'
  BY <1>1, <1>2, <1>3 DEF OrderEventTogether
<1> QED BY <1>1, <1>2, <1>4 DEF requestVars

\* Steps of the consumer, and stutters.
LEMMA OthersKeep ==
    ASSUME OrderInv, UNCHANGED <<orders, cache, requestVars, channelVars>> PROVE OrderInv'
BY DEF requestVars, OrderEventTogether

LEMMA OrderStep == OrderInv /\ [Next]_vars => OrderInv'
<1> SUFFICES ASSUME OrderInv, [Next]_vars PROVE OrderInv'
  OBVIOUS
<1>1. CASE \E r \in Requests : Start(r) \/ Continue(r)
  BY <1>1, StartKeeps, ContinueKeeps
<1>2. CASE \E r \in Requests : Kill(r)
  BY <1>2, AnswerKeeps DEF Kill
<1>3. ASSUME NEW o \in Orders, Expire(o) PROVE OrderInv'
  <2>1. cache' \in [Orders -> Statuses]
    BY <1>3 DEF Expire
  <2> QED BY <1>3, <2>1 DEF Expire, requestVars, OrderEventTogether
<1>4. CASE \E e \in Events : Relay(e) \/ Settle(e)
  BY <1>4, RelayKeeps
<1>5. CASE \E w \in Workers : HandlerReturns(w) \/ \E B \in Deliveries : Receive(w, B)
  BY <1>5, OthersKeep DEF HandlerReturns, Receive
<1>6. CASE Cleanup \/ \E m \in InLog : Lose(m)
  BY <1>6, OthersKeep DEF Cleanup, Lose
<1>7. CASE UNCHANGED vars
  BY <1>7, OthersKeep DEF vars
<1> QED
  BY <1>1, <1>2, <1>3, <1>4, <1>5, <1>6, <1>7 DEF Next

LEMMA OrderInvariant == Spec => []OrderInv
<1> HIDE DEF OrderInv
<1> QED BY OrderInit, OrderStep, PTL DEF Spec

(***************************************************************************)
(* Create and Cancel of modules/order/service.go, for any number of        *)
(* concurrent requests and any failure between their statements: order and *)
(* event exist together.                                                   *)
(***************************************************************************)
THEOREM OrderWithEvent == Spec => []OrderEventTogether
<1>1. OrderInv => OrderEventTogether
  OBVIOUS
<1> HIDE DEF OrderInv
<1> QED BY <1>1, OrderInvariant, PTL

\* The invalidation, the confirmation and the answer of modules/order follow
\* the commit, whatever fails: they are never about an order that is not there.
THEOREM AnswersDurable == Spec => []ToldDurable
<1>1. OrderInv => ToldDurable
  BY DEF ToldDurable
<1> HIDE DEF OrderInv
<1> QED BY <1>1, OrderInvariant, PTL

----------------------------------------------------------------------------
(* The idempotent handlers.                                                *)

\* A message that was delivered has a row, or had one, or has failed; a message
\* without a row that was not cleaned up has not been handled.
HandledInv ==
    /\ processed \subseteq Msgs /\ done \subseteq Msgs
    /\ faulty \subseteq Msgs /\ cleaned \subseteq Msgs /\ mixed \subseteq Msgs
    /\ batch \in [Workers -> SUBSET Msgs]
    /\ deliveries \in [Msgs -> Nat] /\ runs \in [Msgs -> Nat]
    /\ \A m \in processed : deliveries[m] > 0
    /\ \A m \in Msgs \ (cleaned \cup mixed) :
          runs[m] <= 1 /\ (m \notin processed => runs[m] = 0)
    /\ \A m \in Msgs : deliveries[m] > 0 =>
          m \in done \/ m \in faulty \/ m \in mixed \/ \E w \in Workers : m \in batch[w]

LEMMA HandledInit == Init => HandledInv
BY DEF Init, Handler!IdempotencyInit, HandledInv

\* What the consumer delivers is a sequence of messages.
LEMMA DeliveriesAreSeqs == Deliveries \subseteq Seq(Msgs)
<1> SUFFICES ASSUME NEW n \in 1..MaxBatch, NEW B \in [1..n -> InLog] PROVE B \in Seq(Msgs)
  BY DEF Deliveries
<1>1. n \in Nat /\ B \in [1..n -> Msgs]
  BY DEF InLog
<1> QED BY <1>1, SeqDef

\* IdempotentHandler has FiniteSets by itself.
LEMMA SameCardinality == \A S : Handler!Cardinality(S) = Cardinality(S)
BY DEF Handler!Cardinality, Cardinality

LEMMA Positions ==
    ASSUME NEW n \in Nat PROVE IsFiniteSet(1..n) /\ Cardinality(1..n) = n
<1>1. 1 \in Int /\ n \in Int
  OBVIOUS
<1>2. IsFiniteSet(1..n) /\ Cardinality(1..n) = IF 1 > n THEN 0 ELSE n - 1 + 1
  BY <1>1, FS_Interval
<1> QED BY <1>2

\* How often a message is in a batch.
LEMMA TimesFacts ==
    ASSUME NEW B \in Seq(Msgs), NEW m \in Msgs
    PROVE  /\ Handler!Times(m, B) \in Nat
           /\ Handler!Times(m, B) > 0 <=> m \in Handler!Range(B)
<1> DEFINE P == {i \in DOMAIN B : B[i] = m}
<1>1. DOMAIN B = 1..Len(B) /\ Len(B) \in Nat
  BY LenProperties
<1>2. IsFiniteSet(1..Len(B))
  BY <1>1, Positions
<1>3. P \in SUBSET (1..Len(B))
  BY <1>1
<1>4. IsFiniteSet(P)
  BY <1>2, <1>3, FS_Subset
<1>5. Cardinality(P) \in Nat
  BY <1>4, FS_CardinalityType
<1>6. Cardinality(P) = 0 <=> P = {}
  BY <1>4, FS_EmptySet
<1>7. P = {} <=> m \notin Handler!Range(B)
  BY DEF Handler!Range
<1> HIDE DEF P
<1>8. Cardinality(P) > 0 <=> m \in Handler!Range(B)
  BY <1>5, <1>6, <1>7
<1>9. Handler!Times(m, B) = Cardinality(P)
  BY SameCardinality DEF Handler!Times, P
<1> QED BY <1>5, <1>8, <1>9

\* When every row is new, every message of the batch is new and is in it once.
LEMMA NewBatch ==
    ASSUME NEW B \in Seq(Msgs), Handler!RowsAffected(B) = Len(B)
    PROVE  /\ Handler!Range(B) \cap processed = {}
           /\ Handler!WithId(B) = Handler!Range(B)
           /\ \A m \in Handler!Range(B) : Handler!Times(m, B) = 1
<1> DEFINE S == 1..Len(B)
           T == Handler!Range(B)
           N == T \ processed
<1>1. DOMAIN B = S /\ Len(B) \in Nat /\ B \in [S -> T]
  <2>1. DOMAIN B = S /\ Len(B) \in Nat /\ B \in [S -> Msgs]
    BY LenProperties
  <2> QED BY <2>1 DEF Handler!Range
<1>2. IsFiniteSet(S) /\ Cardinality(S) = Len(B)
  BY <1>1, Positions
<1>3. B \in Surjection(S, T)
  BY <1>1 DEF Surjection, Handler!Range
<1>4. /\ IsFiniteSet(T) /\ Cardinality(T) <= Len(B)
      /\ Cardinality(T) = Len(B) => B \in Injection(S, T)
  <2> HIDE DEF S, T
  <2> QED BY <1>2, <1>3, FS_Surjection
<1>5. Cardinality(N) = Len(B)
  BY SameCardinality DEF Handler!RowsAffected
<1>6. Cardinality(N) <= Cardinality(T) /\ (Cardinality(T) = Cardinality(N) => T = N)
  <2>1. N \in SUBSET T
    OBVIOUS
  <2> HIDE DEF T, N
  <2> QED BY <1>4, <2>1, FS_Subset
<1>7. Cardinality(T) \in Nat
  BY <1>4, FS_CardinalityType
<1>8. Cardinality(T) = Len(B)
  <2> HIDE DEF T, N
  <2> QED BY <1>1, <1>4, <1>5, <1>6, <1>7
<1>9. T = N /\ B \in Injection(S, T)
  BY <1>4, <1>5, <1>6, <1>8
<1>10. T \cap processed = {}
  BY <1>9
<1>11. Handler!WithId(B) = T
  BY <1>1 DEF Handler!WithId, Handler!Range
<1>12. ASSUME NEW m \in T PROVE Handler!Times(m, B) = 1
  <2>1. PICK i \in S : B[i] = m
    BY <1>1, <1>12 DEF Handler!Range
  <2>2. \A j \in S : B[j] = m => j = i
    BY <1>9, <2>1 DEF Injection, IsInjective
  <2>3. {j \in DOMAIN B : B[j] = m} = {i}
    BY <1>1, <2>1, <2>2
  <2>4. Handler!Times(m, B) = Cardinality({i})
    BY <2>3, SameCardinality DEF Handler!Times
  <2> QED BY <2>4, FS_Singleton
<1> QED BY <1>10, <1>11, <1>12

\* When no row is new, every message of the batch has one.
LEMMA KnownBatch ==
    ASSUME NEW B \in Seq(Msgs), Handler!RowsAffected(B) = 0
    PROVE  Handler!Range(B) \subseteq processed /\ Handler!WithId(B) = {}
<1> DEFINE S == 1..Len(B)
           T == Handler!Range(B)
<1>1. DOMAIN B = S /\ Len(B) \in Nat /\ B \in [S -> Msgs]
  BY LenProperties
<1>2. B \in Surjection(S, T) /\ IsFiniteSet(S)
  BY <1>1, Positions DEF Surjection, Handler!Range
<1>3. IsFiniteSet(T)
  <2> HIDE DEF S, T
  <2> QED BY <1>2, FS_Surjection
<1>4. T \ processed \in SUBSET T
  OBVIOUS
<1>5. IsFiniteSet(T \ processed)
  <2> HIDE DEF T
  <2> QED BY <1>3, <1>4, FS_Subset
<1>6. T \ processed = {}
  <2>1. Cardinality(T \ processed) = 0
    BY SameCardinality DEF Handler!RowsAffected
  <2> HIDE DEF T
  <2> QED BY <1>5, <2>1, FS_EmptySet
<1>7. Handler!WithId(B) = {}
  BY DEF Handler!WithId
<1> QED BY <1>6, <1>7

\* RowsAffected is at most the length of the batch.
LEMMA RowsBound ==
    ASSUME NEW B \in Seq(Msgs)
    PROVE  /\ Len(B) \in Nat
           /\ Handler!RowsAffected(B) \in 0..Len(B)
<1> DEFINE S == 1..Len(B)
           T == Handler!Range(B)
<1>1. DOMAIN B = S /\ Len(B) \in Nat /\ B \in [S -> Msgs]
  BY LenProperties
<1>2. B \in Surjection(S, T) /\ IsFiniteSet(S) /\ Cardinality(S) = Len(B)
  BY <1>1, Positions DEF Surjection, Handler!Range
<1>3. IsFiniteSet(T) /\ Cardinality(T) <= Len(B)
  <2> HIDE DEF S, T
  <2> QED BY <1>2, FS_Surjection
<1>4. T \ processed \in SUBSET T
  OBVIOUS
<1>5. IsFiniteSet(T \ processed) /\ Cardinality(T \ processed) <= Cardinality(T)
  <2> HIDE DEF T
  <2> QED BY <1>3, <1>4, FS_Subset
<1>6. Cardinality(T \ processed) \in Nat /\ Cardinality(T) \in Nat
  <2> HIDE DEF T
  <2> QED BY <1>3, <1>5, FS_CardinalityType
<1>7. Cardinality(T \ processed) \in 0..Len(B)
  <2> HIDE DEF T
  <2> QED BY <1>1, <1>3, <1>5, <1>6
<1>8. Handler!RowsAffected(B) = Cardinality(T \ processed)
  BY SameCardinality DEF Handler!RowsAffected
<1> QED BY <1>1, <1>7, <1>8

LEMMA DeliveredFacts ==
    ASSUME HandledInv, NEW w \in Workers, NEW B \in Seq(Msgs), Handler!Delivered(w, B)
    PROVE  /\ batch[w] = {}
           /\ Handler!Range(B) \subseteq Msgs
           /\ deliveries' \in [Msgs -> Nat]
           /\ \A m \in Msgs : deliveries'[m] > 0 <=> deliveries[m] > 0 \/ m \in Handler!Range(B)
<1>1. batch[w] = {} /\ deliveries' = [m \in Msgs |-> deliveries[m] + Handler!Times(m, B)]
  BY DEF Handler!Delivered
<1>2. Handler!Range(B) \subseteq Msgs
  <2>1. DOMAIN B = 1..Len(B) /\ B \in [1..Len(B) -> Msgs]
    BY LenProperties
  <2> QED BY <2>1 DEF Handler!Range
<1>3. deliveries \in [Msgs -> Nat]
  BY DEF HandledInv
<1>4. deliveries' \in [Msgs -> Nat]
  BY <1>1, <1>3, TimesFacts
<1>5. ASSUME NEW m \in Msgs
      PROVE  deliveries'[m] > 0 <=> deliveries[m] > 0 \/ m \in Handler!Range(B)
  <2>1. deliveries'[m] = deliveries[m] + Handler!Times(m, B) /\ deliveries[m] \in Nat
    BY <1>1, <1>3
  <2>2. /\ Handler!Times(m, B) \in Nat
        /\ Handler!Times(m, B) > 0 <=> m \in Handler!Range(B)
    BY TimesFacts
  <2> QED BY <2>1, <2>2
<1> QED BY <1>1, <1>2, <1>4, <1>5

\* The keys are inserted: none, all or some of the rows are new.
LEMMA InsertKeeps ==
    ASSUME HandledInv, NEW w \in Workers, NEW B \in Seq(Msgs), Handler!InsertKeys(w, B)
    PROVE  HandledInv'
<1> DEFINE N == Handler!Range(B)
           I == Handler!WithId(B)
<1>0. Handler!Delivered(w, B)
  BY DEF Handler!InsertKeys
<1>1. /\ processed' = processed \cup N /\ UNCHANGED <<done, faulty, cleaned>>
      /\ batch' = [batch EXCEPT ![w] = I]
      /\ runs' = [m \in Msgs |-> runs[m] + (IF m \in I THEN Handler!Times(m, B) ELSE 0)]
      /\ mixed' = IF Handler!RowsAffected(B) \in 1..(Len(B) - 1) THEN mixed \cup N ELSE mixed
  BY DEF Handler!InsertKeys
<1>2. /\ batch[w] = {} /\ N \subseteq Msgs /\ deliveries' \in [Msgs -> Nat]
      /\ \A m \in Msgs : deliveries'[m] > 0 <=> deliveries[m] > 0 \/ m \in N
  BY <1>0, DeliveredFacts
<1>3. I \subseteq N
  <2>1. Handler!RowsAffected(B) \in 0..Len(B) /\ Len(B) \in Nat
    BY RowsBound
  <2>2. DOMAIN B = 1..Len(B)
    BY LenProperties
  <2> QED BY <2>1, <2>2 DEF Handler!WithId, Handler!Range
<1>4. \A m \in Msgs : Handler!Times(m, B) \in Nat
  BY TimesFacts
<1>5. Handler!RowsAffected(B) = Len(B) => /\ N \cap processed = {} /\ I = N
                                          /\ \A m \in N : Handler!Times(m, B) = 1
  BY NewBatch
<1>6. Handler!RowsAffected(B) = 0 => N \subseteq processed /\ I = {}
  BY KnownBatch
<1>7. \/ Handler!RowsAffected(B) = Len(B) \/ Handler!RowsAffected(B) = 0
      \/ mixed' = mixed \cup N
  BY <1>1, RowsBound
<1> HIDE DEF N, I
<1>8. /\ processed \subseteq Msgs /\ done \subseteq Msgs /\ faulty \subseteq Msgs
      /\ cleaned \subseteq Msgs /\ mixed \subseteq Msgs /\ batch \in [Workers -> SUBSET Msgs]
      /\ deliveries \in [Msgs -> Nat] /\ runs \in [Msgs -> Nat]
      /\ \A m \in processed : deliveries[m] > 0
  BY DEF HandledInv
<1>9. /\ processed' \subseteq Msgs /\ mixed' \subseteq Msgs /\ mixed \subseteq mixed'
      /\ batch' \in [Workers -> SUBSET Msgs] /\ runs' \in [Msgs -> Nat]
  <2>1. processed' \subseteq Msgs /\ mixed' \subseteq Msgs /\ mixed \subseteq mixed'
    BY <1>1, <1>2, <1>8
  <2>2. batch' \in [Workers -> SUBSET Msgs]
    BY <1>1, <1>2, <1>3, <1>8
  <2>3. runs' \in [Msgs -> Nat]
    <3>1. \A m \in Msgs : runs[m] + (IF m \in I THEN Handler!Times(m, B) ELSE 0) \in Nat
      <4> TAKE m \in Msgs
      <4>1. runs[m] \in Nat /\ Handler!Times(m, B) \in Nat
        BY <1>4, <1>8
      <4> QED BY <4>1
    <3> QED BY <1>1, <3>1
  <2> QED BY <2>1, <2>2, <2>3
<1>10. \A m \in processed' : deliveries'[m] > 0
  BY <1>1, <1>2, <1>8
<1>11. batch'[w] = I /\ \A v \in Workers \ {w} : batch'[v] = batch[v]
  BY <1>1, <1>8
<1>12. ASSUME NEW m \in Msgs \ (cleaned' \cup mixed')
       PROVE  runs'[m] <= 1 /\ (m \notin processed' => runs'[m] = 0)
  <2>1. m \in Msgs \ (cleaned \cup mixed)
    BY <1>1, <1>9
  <2>2. runs[m] \in Nat /\ runs[m] <= 1 /\ (m \notin processed => runs[m] = 0)
    BY <1>8, <2>1 DEF HandledInv
  <2>3. runs'[m] = runs[m] + (IF m \in I THEN Handler!Times(m, B) ELSE 0)
    BY <1>1
  <2>4. CASE m \in I
    <3>1. Handler!RowsAffected(B) = Len(B) \/ Handler!RowsAffected(B) = 0
      BY <1>3, <1>7, <1>12, <2>4
    <3>2. runs[m] = 0 /\ Handler!Times(m, B) = 1 /\ m \in processed'
      BY <1>1, <1>3, <1>5, <1>6, <2>2, <2>4, <3>1
    <3> QED BY <2>3, <2>4, <3>2
  <2>5. CASE m \notin I
    BY <1>1, <2>2, <2>3, <2>5
  <2> QED BY <2>4, <2>5
<1>13. ASSUME NEW m \in Msgs, deliveries'[m] > 0
       PROVE  m \in done' \/ m \in faulty' \/ m \in mixed' \/ \E v \in Workers : m \in batch'[v]
  <2>1. CASE deliveries[m] > 0
    <3>1. m \in done \/ m \in faulty \/ m \in mixed \/ \E v \in Workers : m \in batch[v]
      BY <2>1 DEF HandledInv
    <3> QED BY <1>1, <1>2, <1>9, <1>11, <3>1
  <2>2. CASE ~(deliveries[m] > 0)
    <3>1. m \in N /\ m \notin processed
      BY <1>2, <1>8, <1>13, <2>2
    <3> QED BY <1>5, <1>6, <1>7, <1>11, <3>1
  <2> QED BY <2>1, <2>2
<1> QED BY <1>1, <1>2, <1>8, <1>9, <1>10, <1>12, <1>13 DEF HandledInv

LEMMA ReceiveKeeps ==
    ASSUME HandledInv, NEW w \in Workers, NEW B \in Seq(Msgs), Receive(w, B)
    PROVE  HandledInv'
<1>1. CASE Handler!InsertKeys(w, B)
  BY <1>1, InsertKeeps
<1>2. CASE Handler!InsertFails(w, B)
  <2>1. Handler!Delivered(w, B)
    BY <1>2 DEF Handler!InsertFails
  <2> QED BY <1>2, <2>1, DeliveredFacts DEF Handler!InsertFails, HandledInv
<1>3. CASE Handler!QueryFails(w, B)
  <2>1. Handler!Delivered(w, B)
    BY <1>3 DEF Handler!QueryFails
  <2> QED BY <1>3, <2>1, DeliveredFacts DEF Handler!QueryFails, HandledInv
<1> QED BY <1>1, <1>2, <1>3 DEF Receive

LEMMA ReturnKeeps ==
    ASSUME HandledInv, NEW w \in Workers, HandlerReturns(w) PROVE HandledInv'
<1>1. /\ batch' = [batch EXCEPT ![w] = {}]
      /\ done' \cup faulty' = done \cup faulty \cup batch[w]
      /\ UNCHANGED <<processed, deliveries, runs, cleaned, mixed>>
  BY DEF HandlerReturns, Handler!HandlerReturns
<1>2. \A v \in Workers \ {w} : batch'[v] = batch[v]
  BY <1>1 DEF HandledInv
<1>3. \A m \in Msgs : deliveries'[m] > 0 =>
         m \in done' \/ m \in faulty' \/ m \in mixed' \/ \E v \in Workers : m \in batch'[v]
  BY <1>1, <1>2 DEF HandledInv
<1> QED BY <1>1, <1>3 DEF HandledInv

LEMMA HandledStep == HandledInv /\ [Next]_vars => HandledInv'
<1> SUFFICES ASSUME HandledInv, [Next]_vars PROVE HandledInv'
  OBVIOUS
<1>1. ASSUME UNCHANGED <<processed, batch, deliveries, runs, done, faulty, cleaned, mixed>>
      PROVE  HandledInv'
  BY <1>1 DEF HandledInv
<1>2. CASE \E r \in Requests : Start(r)
  BY <1>1, <1>2 DEF Start, StartCreate, StartGet, StartCancel, Begin
<1>3. CASE \E r \in Requests : Continue(r) \/ Kill(r)
  BY <1>1, <1>3 DEF Continue, InsertOrder, LoadOrder, UpdateStatus, WriteEvent, Commit,
       DropCache, Notify, Lookup, Read, Fill, Kill
<1>4. CASE (\E o \in Orders : Expire(o)) \/ (\E e \in Events : Relay(e) \/ Settle(e))
  BY <1>1, <1>4 DEF Expire, Relay, Settle
<1>5. CASE \E w \in Workers : HandlerReturns(w) \/ \E B \in Deliveries : Receive(w, B)
  BY <1>5, DeliveriesAreSeqs, ReturnKeeps, ReceiveKeeps
<1>6. CASE Cleanup
  BY <1>6 DEF Cleanup, Handler!CleanupProcessedEvents, HandledInv
<1>7. CASE \E m \in InLog : Lose(m)
  BY <1>1, <1>7 DEF Lose, Handler!Lose
<1>8. CASE UNCHANGED vars
  BY <1>1, <1>8 DEF vars
<1> QED BY <1>2, <1>3, <1>4, <1>5, <1>6, <1>7, <1>8 DEF Next

LEMMA HandledInvariant == Spec => []HandledInv
BY HandledInit, HandledStep, PTL DEF Spec

(***************************************************************************)
(* IdempotentHandler and IdempotentBatchHandler of pkg/broker, for any     *)
(* number of deliveries and workers and batches of any length: a message   *)
(* is handled at most once, until its row is cleaned up or a batch with it *)
(* holds both new and known or repeated messages.                          *)
(***************************************************************************)
THEOREM MessagesHandledOnce == Spec => []HandledOnce
<1>1. HandledInv => HandledOnce
  BY DEF HandledInv, HandledOnce, Handler!HandledOnce
<1> QED BY <1>1, HandledInvariant, PTL

\* A message that the idempotent handlers skip has been handled, is being
\* handled, has failed, or was in a batch that was new in part
\* (idempotency.go).
THEOREM SkipsHaveCause == Spec => []SkipExplained
<1>1. HandledInv => SkipExplained
  BY DEF HandledInv, SkipExplained, Handler!SkipExplained
<1> QED BY <1>1, HandledInvariant, PTL

=============================================================================
