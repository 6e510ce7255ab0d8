------------------------- MODULE IdempotentHandler -------------------------
(***************************************************************************)
(* IdempotentHandler, IdempotentBatchHandler and CleanupProcessedEvents of *)
(* pkg/broker/idempotency.go.  A delivery hands a worker of the consumer   *)
(* one message or a batch, in which a message may be more than once; the   *)
(* wrapper inserts the keys into processed_events and calls the handler    *)
(* with the messages whose row it takes for new.  The consumer logs errors *)
(* and goes on, delivers again what was not committed when a pod died or   *)
(* lost its partition, and loses what Consumer calls abandoned or skipped. *)
(***************************************************************************)
EXTENDS Naturals, FiniteSets, Sequences, Functions

CONSTANTS Msgs,             \* messages, by topic, partition and offset
          Workers,
          MaxDeliveries,    \* bound: deliveries of one message
          MaxRedelivered,   \* bound: messages delivered more than once
          MaxBatch          \* bound: messages of one delivery

VARIABLES kind,        \* "single": IdempotentHandler, "batch": the other
          processed,   \* processed_events: keys with a row
          batch,       \* worker -> messages its handler is running with
          deliveries,  \* message -> deliveries so far
          runs,        \* message -> times it was handed to the handler
          done,        \* messages with which the handler has succeeded
          faulty,      \* messages of which a delivery failed or was killed
          cleaned,     \* messages whose row has been cleaned up
          mixed,       \* messages of batches that were new in part
          lost         \* messages that the consumer will not deliver

ivars == <<kind, processed, batch, deliveries, runs, done, faulty, cleaned,
           mixed, lost>>

IdempotencyTypeOK ==
    /\ kind \in {"single", "batch"}
    /\ processed \subseteq Msgs /\ done \subseteq Msgs
    /\ faulty \subseteq Msgs /\ cleaned \subseteq Msgs
    /\ mixed \subseteq Msgs /\ lost \subseteq Msgs
    /\ batch \in [Workers -> SUBSET Msgs]
    /\ deliveries \in [Msgs -> 0..MaxDeliveries]
    /\ runs \in [Msgs -> 0..MaxDeliveries]

IdempotencyInit ==
    /\ kind \in {"single", "batch"}
    /\ processed = {} /\ done = {} /\ faulty = {} /\ cleaned = {}
    /\ mixed = {} /\ lost = {}
    /\ batch = [w \in Workers |-> {}]
    /\ deliveries = [m \in Msgs |-> 0]
    /\ runs = [m \in Msgs |-> 0]

\* How often m is in the sequence B.
Times(m, B) == Cardinality({i \in DOMAIN B : B[i] = m})

\* The consumer gives worker w the messages B, which are in the log.
Delivered(w, B) ==
    /\ batch[w] = {}
    /\ B # <<>> /\ Len(B) <= IF kind = "single" THEN 1 ELSE MaxBatch
    /\ Range(B) \cap lost = {}
    /\ \A m \in Range(B) : deliveries[m] + Times(m, B) <= MaxDeliveries
    /\ deliveries' = [m \in Msgs |-> deliveries[m] + Times(m, B)]
    /\ Cardinality({m \in Msgs : deliveries'[m] > 1}) <= MaxRedelivered

\* Rows that INSERT ... ON CONFLICT DO NOTHING writes for B: RowsAffected.
RowsAffected(B) == Cardinality(Range(B) \ processed)

\* GORM scans the returned ids into the elements of the slice by position: the
\* first RowsAffected elements get one, whichever keys were in conflict.
WithId(B) == {B[i] : i \in 1..RowsAffected(B)}

\* Mutant of InsertKeys: the wrapper looks first and inserts when the handler
\* has returned.
InsertKeysLate(w, B) ==
    LET new == Range(B) \ processed IN
    /\ Delivered(w, B)
    /\ processed' = processed \cup (Range(B) \cap done)
    /\ batch' = [batch EXCEPT ![w] = new]
    /\ runs' = [m \in Msgs |-> runs[m] + (IF m \in new THEN 1 ELSE 0)]
    /\ UNCHANGED <<kind, done, faulty, cleaned, mixed, lost>>

\* The handler is called with the messages whose key got an id: with all of B
\* when every row is new, and not at all when none is.
InsertKeys(w, B) ==
    /\ Delivered(w, B)
    /\ processed' = processed \cup Range(B)
    /\ batch' = [batch EXCEPT ![w] = WithId(B)]
    /\ runs' = [m \in Msgs |-> runs[m] + (IF m \in WithId(B) THEN Times(m, B) ELSE 0)]
    /\ mixed' = IF RowsAffected(B) \in 1..(Len(B) - 1) THEN mixed \cup Range(B)
                                                      ELSE mixed
    /\ UNCHANGED <<kind, done, faulty, cleaned, lost>>

\* Mutant of InsertFails: the error is taken for a conflict.
InsertFailsSilently(w, B) ==
    /\ Delivered(w, B)
    /\ UNCHANGED <<kind, processed, batch, runs, done, faulty, cleaned, mixed, lost>>

\* The insert fails: the handler is not called and the error is returned.
InsertFails(w, B) ==
    /\ Delivered(w, B)
    /\ faulty' = faulty \cup Range(B)
    /\ UNCHANGED <<kind, processed, batch, runs, done, cleaned, mixed, lost>>

\* The batch wrapper queries the keys unless every row was new, and the query
\* fails: the rows stay and the handler is not called.
QueryFails(w, B) ==
    /\ kind = "batch"
    /\ Delivered(w, B)
    /\ RowsAffected(B) # Len(B)
    /\ processed' = processed \cup Range(B)
    /\ faulty' = faulty \cup Range(B)
    /\ UNCHANGED <<kind, batch, runs, done, cleaned, mixed, lost>>

\* The consumer loses m before it gets here (Consumer's abandoned and skipped).
Lose(m) ==
    /\ deliveries[m] = 0
    /\ m \notin lost
    /\ lost' = lost \cup {m}
    /\ UNCHANGED <<kind, processed, batch, deliveries, runs, done, faulty, cleaned, mixed>>

\* The handler returns, with an error or without, or its pod is killed.
HandlerReturns(w) ==
    /\ batch[w] # {}
    /\ \/ done' = done \cup batch[w] /\ UNCHANGED faulty
       \/ faulty' = faulty \cup batch[w] /\ UNCHANGED done
    /\ batch' = [batch EXCEPT ![w] = {}]
    /\ UNCHANGED <<kind, processed, deliveries, runs, cleaned, mixed, lost>>

\* Rows older than the retention period are deleted.
CleanupProcessedEvents(M) ==
    /\ M # {} /\ M \subseteq processed
    /\ processed' = processed \ M
    /\ cleaned' = cleaned \cup M
    /\ UNCHANGED <<kind, batch, deliveries, runs, done, faulty, mixed, lost>>

----------------------------------------------------------------------------
\* The handler gets a message at most once, however often and on however many
\* workers it is delivered, until its row is cleaned up or it is in a batch of
\* which some rows are new and some are not.
HandledOnce == \A m \in Msgs \ (cleaned \cup mixed) : runs[m] <= 1

\* A message is skipped for good only after the handler has succeeded with it,
\* is running with it, or a delivery of it has failed (the row is written
\* before the handler runs, so that case loses the message), or after a batch
\* of which some rows were new and some were not.
SkipExplained ==
    \A m \in Msgs : deliveries[m] > 0 =>
        \/ m \in done \cup faulty \cup mixed
        \/ \E w \in Workers : m \in batch[w]

============================================================================
