---------------------------- MODULE OutboxTable ----------------------------
(***************************************************************************)
(* The outbox_entries table of pkg/broker/outbox.go, as the transactions   *)
(* of pkg/database/transaction.go write it.  The database draws a row's id *)
(* when the row is inserted and shows the row when the transaction         *)
(* commits, so ids become visible out of order and a rollback leaves a     *)
(* gap.  Topic, key, payload and headers are carried along unchanged by    *)
(* the code and are abstracted into the id.                                *)
(***************************************************************************)
EXTENDS Naturals

CONSTANTS MaxEntries,         \* bound: rows ever inserted
          DefaultMaxRetries   \* outbox.go: failed rounds before a row is failed

ASSUME OutboxAssumption ==
    /\ MaxEntries \in Nat
    /\ DefaultMaxRetries \in Nat \ {0}

VARIABLES outbox,   \* id -> row
          nextId    \* the autoIncrement sequence

outboxVars == <<outbox, nextId>>

Ids == 1..MaxEntries

\* "none": no row (never inserted, or rolled back); "staged": inserted by a
\* transaction that is still open.  backoff: next_retry_at is in the future.
Status == {"none", "staged", "pending", "published", "failed"}

Row == [status : Status, retryCount : Nat, backoff : BOOLEAN]

OutboxTypeOK ==
    /\ outbox \in [Ids -> Row]
    /\ nextId \in 1..(MaxEntries + 1)

OutboxInit ==
    /\ outbox = [i \in Ids |-> [status |-> "none", retryCount |-> 0,
                                backoff |-> FALSE]]
    /\ nextId = 1

\* The rows that the rest of the system can see.
Visible(i) == outbox[i].status \in {"pending", "published", "failed"}

\* WriteOutbox inside an open transaction.  A key that ValidateKey refuses,
\* or a failed INSERT, leaves the table alone and makes the caller roll back.
WriteOutbox ==
    /\ nextId \in Ids
    /\ outbox' = [outbox EXCEPT ![nextId].status = "staged"]
    /\ nextId' = nextId + 1

\* The transaction that staged row i commits.
CommitEntry(i) ==
    /\ outbox[i].status = "staged"
    /\ outbox' = [outbox EXCEPT ![i].status = "pending"]
    /\ UNCHANGED nextId

\* The transaction that staged row i fails, panics or loses its connection.
RollbackEntry(i) ==
    /\ outbox[i].status = "staged"
    /\ outbox' = [outbox EXCEPT ![i].status = "none"]
    /\ UNCHANGED nextId

============================================================================
