---------------------------- MODULE OrderService ----------------------------
(***************************************************************************)
(* The order module: modules/order (controller, service, GORM repository)  *)
(* with its transaction, its cache-aside reads (pkg/cache/redis.go) and    *)
(* its events, which go through the outbox and the relay (EventChannel,    *)
(* which Relay implements) to a consumer with an idempotent handler.       *)
(* Requests is the set of requests that can be under way at a time, one    *)
(* goroutine each on any pod; a pod may be killed under them.  Prices,     *)
(* items and users are abstracted: an order is its status and version.     *)
(***************************************************************************)
EXTENDS Naturals, FiniteSets

CONSTANTS Orders, NoOrder, Requests, Workers,
          MaxCopies,        \* bound: copies of one event in the broker's log
          MaxDeliveries, MaxRedelivered, MaxBatch

ASSUME OrderAssumption == NoOrder \notin Orders /\ MaxCopies \in Nat

VARIABLES orders,   \* the orders table: committed rows
          cache,    \* Redis: status cached under cacheKey(id)
          pc,       \* request -> where it is ("idle": none under way)
          op,       \* request -> operation
          target,   \* request -> order
          seen,     \* request -> status that repo.GetByID returned
          state, copies,                                      \* EventChannel
          kind, processed, batch, deliveries, runs,       \* IdempotentHandler
          done, faulty, cleaned, mixed, lost

requestVars == <<pc, op, target, seen>>
channelVars == <<state, copies>>
handlerVars == <<kind, processed, batch, deliveries, runs, done, faulty, cleaned,
                 mixed, lost>>
vars == <<orders, cache, requestVars, channelVars, handlerVars>>

Topics == {"created", "cancelled"}
Events == Topics \X Orders

\* A message of the log is a copy of an event: copies have offsets of their
\* own, so the idempotency key does not recognise them.
Msgs == Events \X (1..MaxCopies)

Channel == INSTANCE EventChannel
Handler == INSTANCE IdempotentHandler

TypeOK ==
    /\ orders \in [Orders -> [status : {"none", "pending", "cancelled"},
                              version : Nat]]
    /\ cache \in [Orders -> {"none", "pending", "cancelled"}]
    /\ pc \in [Requests -> {"idle", "insert", "load", "update", "outbox",
                            "commit", "dropCache", "notify", "lookup", "read",
                            "fill"}]
    /\ op \in [Requests -> {"none", "create", "cancel", "get"}]
    /\ target \in [Requests -> Orders \cup {NoOrder}]
    /\ seen \in [Requests -> {"none", "pending", "cancelled"}]
    /\ state \in [Events -> {"absent", "open", "confirmed", "abandoned"}]
    /\ copies \in [Events -> 0..MaxCopies]
    /\ Handler!IdempotencyTypeOK

Init ==
    /\ orders = [o \in Orders |-> [status |-> "none", version |-> 0]]
    /\ cache = [o \in Orders |-> "none"]
    /\ pc = [r \in Requests |-> "idle"]
    /\ op = [r \in Requests |-> "none"]
    /\ target = [r \in Requests |-> NoOrder]
    /\ seen = [r \in Requests |-> "none"]
    /\ Channel!Init
    /\ Handler!IdempotencyInit

GoTo(r, label) == pc' = [pc EXCEPT ![r] = label] /\ UNCHANGED <<op, target, seen>>

\* The request is answered, with a result or with an error.
Answer(r) ==
    /\ pc' = [pc EXCEPT ![r] = "idle"]
    /\ op' = [op EXCEPT ![r] = "none"]
    /\ target' = [target EXCEPT ![r] = NoOrder]
    /\ seen' = [seen EXCEPT ![r] = "none"]

----------------------------------------------------------------------------
(* The controller parses the request and calls the service; what does not  *)
(* parse or bind is refused and has no effect.                             *)

Begin(r, which, o, label) ==
    /\ pc[r] = "idle"
    /\ pc' = [pc EXCEPT ![r] = label]
    /\ op' = [op EXCEPT ![r] = which]
    /\ target' = [target EXCEPT ![r] = o]
    /\ UNCHANGED <<orders, cache, seen, channelVars, handlerVars>>

\* The id is a new UUID.
StartCreate(r, o) ==
    /\ orders[o].status = "none"
    /\ \A q \in Requests : target[q] = o => op[q] # "create"
    /\ Begin(r, "create", o, "insert")

StartGet(r, o)    == Begin(r, "get", o, "lookup")
StartCancel(r, o) == Begin(r, "cancel", o, "load")

----------------------------------------------------------------------------
(* Create and Cancel: one transaction each.  Its writes become visible     *)
(* together when it commits; until then they are implied by pc.            *)

\* repo.Create inside the transaction, or an error and a rollback.
InsertOrder(r) ==
    /\ pc[r] = "insert"
    /\ GoTo(r, "outbox") \/ Answer(r)
    /\ UNCHANGED <<orders, cache, channelVars, handlerVars>>

Cancellable(status) == status \in {"pending", "confirmed"}

\* Cancel reads the order: not found and ErrNotCancellable end it.
LoadOrder(r) ==
    /\ pc[r] = "load"
    /\ IF Cancellable(orders[target[r]].status) THEN GoTo(r, "update")
                                                ELSE Answer(r)
    /\ UNCHANGED <<orders, cache, channelVars, handlerVars>>

\* A row is inserted with the column's default: Version is zero in the struct.
InitialVersion == 1

\* The version that Cancel passes to UpdateStatus.
CancelVersion == 0

\* The transaction of another request holds the row's lock.
RowLocked(o, r) ==
    \E q \in Requests \ {r} : /\ op[q] = "cancel" /\ target[q] = o
                              /\ pc[q] \in {"outbox", "commit"}

\* UpdateStatus: WHERE version = ?; no row is ErrStaleVersion, and a rollback.
UpdateStatus(r) ==
    /\ pc[r] = "update"
    /\ ~RowLocked(target[r], r)
    /\ IF orders[target[r]].version = CancelVersion THEN GoTo(r, "outbox")
                                                    ELSE Answer(r)
    /\ UNCHANGED <<orders, cache, channelVars, handlerVars>>

EventOf(r) == <<IF op[r] = "create" THEN "created" ELSE "cancelled", target[r]>>

\* Mutant of WriteEvent: the event is sent past the transaction.
WriteEventDirectly(r) ==
    /\ pc[r] = "outbox"
    /\ GoTo(r, "commit")
    /\ Channel!Commit(EventOf(r))
    /\ UNCHANGED <<orders, cache, handlerVars>>

\* WriteOutbox in the same transaction, or an error and a rollback.
WriteEvent(r) ==
    /\ pc[r] = "outbox"
    /\ GoTo(r, "commit") \/ Answer(r)
    /\ UNCHANGED <<orders, cache, channelVars, handlerVars>>

\* The row after the transaction of r.
RowAfter(r) ==
    IF op[r] = "create" THEN [status |-> "pending", version |-> InitialVersion]
    ELSE [status |-> "cancelled", version |-> orders[target[r]].version + 1]

\* The database makes the row and the event visible.
MakeVisible(r) ==
    /\ orders' = [orders EXCEPT ![target[r]] = RowAfter(r)]
    /\ Channel!Commit(EventOf(r))

\* Mutant of Commit: the error of tx.Commit is dropped.
CommitUnchecked(r) ==
    /\ pc[r] = "commit"
    /\ MakeVisible(r) \/ UNCHANGED <<orders, channelVars>>
    /\ GoTo(r, "dropCache")
    /\ UNCHANGED <<cache, handlerVars>>

\* WithTransaction commits.  When Commit returns an error, the transaction has
\* been rolled back or, if only the answer was lost, has not.
Commit(r) ==
    /\ pc[r] = "commit"
    /\ \/ MakeVisible(r) /\ (GoTo(r, "dropCache") \/ Answer(r))
       \/ Answer(r) /\ UNCHANGED <<orders, channelVars>>
    /\ UNCHANGED <<cache, handlerVars>>

\* The cache client: an entry is set or deleted, or an error is returned.
CacheSet(o, status) == cache' = [cache EXCEPT ![o] = status] \/ UNCHANGED cache
CacheDelete(o)      == cache' = [cache EXCEPT ![o] = "none"] \/ UNCHANGED cache
CacheHit(o)         == cache[o] # "none"

\* The entry is deleted, which may fail and is only logged; Cancel is answered.
DropCache(r) ==
    /\ pc[r] = "dropCache"
    /\ CacheDelete(target[r])
    /\ IF op[r] = "create" THEN GoTo(r, "notify") ELSE Answer(r)
    /\ UNCHANGED <<orders, channelVars, handlerVars>>

\* workers.Submit, whose result is not looked at; Create is answered.
Notify(r) ==
    /\ pc[r] = "notify"
    /\ Answer(r)
    /\ UNCHANGED <<orders, cache, channelVars, handlerVars>>

----------------------------------------------------------------------------
(* GetByID: cache-aside.                                                   *)

\* GetJSON: a hit is the answer; a miss and an error lead to the database.
Lookup(r) ==
    /\ pc[r] = "lookup"
    /\ GoTo(r, "read") \/ (CacheHit(target[r]) /\ Answer(r))
    /\ UNCHANGED <<orders, cache, channelVars, handlerVars>>

\* repo.GetByID: the committed row, "none" when there is none.
StatusOf(o) == orders[o].status

\* The row is what will be answered and cached; an error ends the request.
Read(r) ==
    /\ pc[r] = "read"
    /\ \/ /\ StatusOf(target[r]) # "none"
          /\ pc' = [pc EXCEPT ![r] = "fill"]
          /\ seen' = [seen EXCEPT ![r] = StatusOf(target[r])]
          /\ UNCHANGED <<op, target>>
       \/ Answer(r)
    /\ UNCHANGED <<orders, cache, channelVars, handlerVars>>

\* SetJSON with cacheTTL, whose failure is only logged.
Fill(r) ==
    /\ pc[r] = "fill"
    /\ CacheSet(target[r], seen[r])
    /\ Answer(r)
    /\ UNCHANGED <<orders, channelVars, handlerVars>>

----------------------------------------------------------------------------
\* cacheTTL has passed for an entry.
Expire(o) ==
    /\ CacheHit(o)
    /\ cache' = [cache EXCEPT ![o] = "none"]
    /\ UNCHANGED <<orders, requestVars, channelVars, handlerVars>>

\* The pod is killed: an open transaction is rolled back.
Kill(r) ==
    /\ pc[r] # "idle"
    /\ Answer(r)
    /\ UNCHANGED <<orders, cache, channelVars, handlerVars>>

\* The relay's side of the channel: it delivers copies, and confirms or
\* abandons.
Relay(e) ==
    /\ copies[e] < MaxCopies
    /\ Channel!Deliver(e)
    /\ UNCHANGED <<orders, cache, requestVars, handlerVars>>

Settle(e) ==
    /\ state[e] = "open"
    /\ Channel!Confirm(e) \/ Channel!Abandon(e)
    /\ UNCHANGED <<orders, cache, requestVars, handlerVars>>

InLog == {m \in Msgs : m[2] <= copies[m[1]]}

\* What the consumer may hand to a worker: messages of the log, a message more
\* than once when it was redelivered before the batch was flushed.
Deliveries == UNION {[1..n -> InLog] : n \in 1..MaxBatch}

\* The consumer delivers the messages B to worker w.
Receive(w, B) ==
    /\ \/ Handler!InsertKeys(w, B) \/ Handler!InsertFails(w, B)
       \/ Handler!QueryFails(w, B)
    /\ UNCHANGED <<orders, cache, requestVars, channelVars>>

\* The consumer never delivers m.
Lose(m) ==
    /\ Handler!Lose(m)
    /\ UNCHANGED <<orders, cache, requestVars, channelVars>>

HandlerReturns(w) ==
    /\ Handler!HandlerReturns(w)
    /\ UNCHANGED <<orders, cache, requestVars, channelVars>>

Cleanup ==
    /\ \E M \in SUBSET processed : Handler!CleanupProcessedEvents(M)
    /\ UNCHANGED <<orders, cache, requestVars, channelVars>>

----------------------------------------------------------------------------
Start(r) == \E o \in Orders : StartCreate(r, o) \/ StartGet(r, o)
                              \/ StartCancel(r, o)

Continue(r) ==
    \/ InsertOrder(r) \/ LoadOrder(r) \/ UpdateStatus(r) \/ WriteEvent(r)
    \/ Commit(r) \/ DropCache(r) \/ Notify(r) \/ Lookup(r) \/ Read(r) \/ Fill(r)

Next ==
    \/ \E r \in Requests : Start(r) \/ Continue(r) \/ Kill(r)
    \/ \E o \in Orders : Expire(o)
    \/ \E e \in Events : Relay(e) \/ Settle(e)
    \/ \E w \in Workers : HandlerReturns(w) \/ \E B \in Deliveries : Receive(w, B)
    \/ \E m \in InLog : Lose(m)
    \/ Cleanup

Spec == Init /\ [][Next]_vars

\* The relay settles every event (Relay's Settles), handlers return, and a
\* message of the log is delivered or lost (Consumer's Consumed): Lose stays
\* enabled until one of the two has happened, so its fairness asks for either.
FairSpec ==
    /\ Spec
    /\ \A e \in Events : WF_vars(Settle(e))
    /\ \A m \in Msgs : WF_vars(m \in InLog /\ Lose(m))
    /\ \A w \in Workers : WF_vars(HandlerReturns(w))

----------------------------------------------------------------------------
\* An order and the event that announces it, and a cancellation and its event,
\* exist together or not at all, whatever fails or is killed on the way.
OrderEventTogether ==
    \A o \in Orders :
        /\ orders[o].status = "none" <=> state[<<"created", o>>] = "absent"
        /\ orders[o].status = "cancelled" <=> state[<<"cancelled", o>>] # "absent"

\* Invalidation, confirmation and the client's answer follow the commit: they
\* are never about an order that is not there.
ToldDurable ==
    \A r \in Requests : pc[r] \in {"dropCache", "notify"} =>
        orders[target[r]].status # "none"

\* See IdempotentHandler.
HandledOnce   == Handler!HandledOnce
SkipExplained == Handler!SkipExplained

\* A committed order is announced: the handler succeeds with its event, unless
\* the relay abandons the event, every copy in the log is lost by the consumer,
\* or a copy met an error (which is logged) or was in a batch that was new in
\* part.
OrderAnnounced ==
    \A o \in Orders :
        orders[o].status # "none" ~>
            \/ state[<<"created", o>>] = "abandoned"
            \/ \E n \in 1..MaxCopies : <<<<"created", o>>, n>> \in done \cup faulty \cup mixed
            \/ /\ copies[<<"created", o>>] > 0
               /\ \A n \in 1..copies[<<"created", o>>] : <<<<"created", o>>, n>> \in lost

=============================================================================
