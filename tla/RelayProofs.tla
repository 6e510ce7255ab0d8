---------------------------- MODULE RelayProofs ----------------------------
(***************************************************************************)
(* Proofs about the outbox relay: type correctness, the two delivery       *)
(* guarantees for any number of relays, and the implementation of the      *)
(* abstract event channel.                                                 *)
(***************************************************************************)
EXTENDS Relay, TLAPS

\* publishWithRetry is running.
Busy == {"attempt", "backoff", "published", "rejected", "retry"}

\* A relay in publishWithRetry has an entry, and there is an attempt left
\* behind every backoff.
LoopInv ==
    \A r \in Relays : /\ rpc[r] \in Busy => cur[r] \in Ids
                      /\ rpc[r] = "backoff" => attempt[r] < PublishRetries

\* The sequence has not reached an id that has a row.
FreshIds == \A i \in Ids : i >= nextId => outbox[i].status = "none"

\* Whatever a relay has polled stays visible: rows are never deleted.
ClaimsVisible ==
    \A r \in Relays : /\ \A i \in batch[r] : Visible(i)
                      /\ cur[r] \in Ids => Visible(cur[r])

\* Behind every acknowledgement there is a message.
AckedDelivered ==
    \A r \in Relays : rpc[r] = "published" => copies[cur[r]] > 0

TypeInv == TypeOK /\ LoopInv

\* The inductive invariant under which every step is a step of the channel.
RelayInv == TypeInv /\ FreshIds /\ ClaimsVisible /\ AckedDelivered

----------------------------------------------------------------------------
LEMMA TypeInvInit == Init => TypeInv
BY OutboxAssumption, RelayAssumption
   DEF Init, OutboxInit, RelayInit, TypeInv, TypeOK, OutboxTypeOK, LoopInv, Busy,
       Row, Status, Pc, Ids

\* The three updates of a row end a round with the row's type intact.
LEMMA TypeInvEndRound ==
    ASSUME TypeInv, NEW r \in Relays, NEW ok \in BOOLEAN, NEW row \in Row,
           rpc[r] \in Busy, EndRound(r, ok, row),
           excuses' \in [Ids -> Nat], rounds' \in [Ids -> Nat],
           rejected' \in [Ids -> BOOLEAN]
    PROVE  TypeInv'
<1>1. TypeOK'
  <2>1. cur[r] \in Ids
    BY DEF TypeInv, LoopInv
  <2>2. outbox' \in [Ids -> Row]
    BY <2>1 DEF TypeInv, TypeOK, OutboxTypeOK, EndRound
  <2>3. faults' \in 0..MaxFaults
    BY RelayAssumption DEF TypeInv, TypeOK, EndRound
  <2> QED BY <2>2, <2>3, RelayAssumption
          DEF TypeInv, TypeOK, OutboxTypeOK, EndRound, Pc
<1>2. LoopInv'
  BY DEF TypeInv, TypeOK, EndRound, LoopInv, Busy
<1> QED BY <1>1, <1>2 DEF TypeInv

\* Updates of the columns of a row.
LEMMA StatusUpdateType ==
    ASSUME NEW row \in Row, NEW s \in Status
    PROVE  [row EXCEPT !.status = s] \in Row
BY DEF Row

LEMMA RetryUpdateType ==
    ASSUME NEW row \in Row, NEW n \in Nat
    PROVE  [row EXCEPT !.retryCount = n + 1, !.backoff = TRUE] \in Row
<1>1. n + 1 \in Nat
  OBVIOUS
<1> QED BY <1>1 DEF Row

LEMMA RetriedType ==
    ASSUME TypeInv, NEW r \in Relays, cur[r] \in Ids
    PROVE  Retried(r) \in Row
<1>1. outbox[cur[r]] \in Row /\ snap[r][cur[r]] \in Nat
  BY DEF TypeInv, TypeOK, OutboxTypeOK
<1>2. [outbox[cur[r]] EXCEPT !.status = "failed"] \in Row
  BY <1>1, StatusUpdateType DEF Status
<1>3. [outbox[cur[r]] EXCEPT !.retryCount = snap[r][cur[r]] + 1,
                             !.backoff = TRUE] \in Row
  BY <1>1, RetryUpdateType
<1> QED BY <1>2, <1>3 DEF Retried

LEMMA TypeInvStep ==
    ASSUME TypeInv, [Next]_vars
    PROVE  TypeInv'
<1> USE OutboxAssumption, RelayAssumption
<1>1. CASE WriterNext
  <2> USE <1>1 DEF TypeInv, TypeOK, OutboxTypeOK, LoopInv, relayVars
  <2>1. CASE WriteOutbox
    <3>1. nextId \in Ids /\ nextId' \in 1..(MaxEntries + 1)
      BY <2>1 DEF WriteOutbox, Ids
    <3>2. outbox' \in [Ids -> Row]
      BY <2>1, <3>1, StatusUpdateType DEF WriteOutbox, Status
    <3> QED BY <3>1, <3>2 DEF WriterNext
  <2>2. ASSUME NEW i \in Ids, CommitEntry(i) PROVE TypeInv'
    BY <2>2 DEF WriterNext, CommitEntry, Row, Status, Ids
  <2>3. ASSUME NEW i \in Ids, RollbackEntry(i) PROVE TypeInv'
    <3>1. outbox' \in [Ids -> Row]
      BY <2>3 DEF RollbackEntry, Row, Status, Ids
    <3> QED BY <2>3, <3>1 DEF WriterNext, RollbackEntry
  <2> QED BY <2>1, <2>2, <2>3 DEF WriterNext
<1>2. CASE RetryFailed
  BY <1>2 DEF RetryFailed, TypeInv, TypeOK, OutboxTypeOK, LoopInv, relayLocal,
              Row, Status
<1>3. ASSUME NEW i \in Ids, BackoffElapsed(i) PROVE TypeInv'
  BY <1>3 DEF BackoffElapsed, TypeInv, TypeOK, OutboxTypeOK, LoopInv, relayVars,
              Row, Status
<1>4. ASSUME NEW r \in Relays, RelayStep(r) PROVE TypeInv'
  <2> USE DEF TypeInv, LoopInv, Busy, history, outboxVars
  <2>1. CASE Poll(r)
    <3>1. Pollable \in SUBSET Ids
      BY DEF Pollable
    <3>2. [i \in Ids |-> IF i \in Pollable THEN outbox[i].retryCount ELSE 0]
             \in [Ids -> Nat]
      BY DEF TypeOK, OutboxTypeOK, Row
    <3>3. TypeOK'
      BY <2>1, <3>1, <3>2 DEF Poll, TypeOK, OutboxTypeOK, Pc
    <3> QED BY <2>1, <3>3 DEF Poll, TypeOK
  <2>2. CASE PollDone(r)
    BY <2>2 DEF PollDone, TypeOK, OutboxTypeOK, Pc
  <2>3. ASSUME NEW i \in Ids, TakeEntry(r, i) PROVE TypeInv'
    BY <2>3 DEF TakeEntry, TypeOK, OutboxTypeOK, Pc
  <2>4. CASE PublishOk(r)
    BY <2>4 DEF PublishOk, TypeOK, OutboxTypeOK, Pc
  <2>5. ASSUME NEW permanent \in BOOLEAN, PublishErr(r, permanent)
        PROVE  TypeInv'
    BY <2>5 DEF PublishErr, AfterError, TypeOK, OutboxTypeOK, Pc
  <2>6. ASSUME NEW resend \in BOOLEAN, PublishAckLost(r, resend)
        PROVE  TypeInv'
    BY <2>6 DEF PublishAckLost, AfterError, TypeOK, OutboxTypeOK, Pc
  <2>7. CASE NextAttempt(r)
    BY <2>7 DEF NextAttempt, TypeOK, OutboxTypeOK, Pc
  <2>8. CASE Interrupted(r)
    BY <2>8 DEF Interrupted, TypeOK, OutboxTypeOK, Pc
  <2>9. ASSUME NEW ok \in BOOLEAN, MarkPublished(r, ok) PROVE TypeInv'
    <3>1. [outbox[cur[r]] EXCEPT !.status = "published"] \in Row
      BY <2>9, StatusUpdateType DEF MarkPublished, TypeOK, OutboxTypeOK, Status
    <3>2. excuses' \in [Ids -> Nat] /\ rejected' \in [Ids -> BOOLEAN]
      BY <2>9 DEF MarkPublished, TypeOK
    <3> HIDE DEF TypeInv
    <3> QED BY <2>9, <3>1, <3>2, TypeInvEndRound
            DEF MarkPublished, TypeInv, TypeOK
  <2>10. ASSUME NEW ok \in BOOLEAN, MarkFailed(r, ok) PROVE TypeInv'
    <3>1. [outbox[cur[r]] EXCEPT !.status = "failed"] \in Row
      BY <2>10, StatusUpdateType DEF MarkFailed, TypeOK, OutboxTypeOK, Status
    <3>2. excuses' \in [Ids -> Nat] /\ rejected' \in [Ids -> BOOLEAN]
      BY <2>10 DEF MarkFailed, TypeOK
    <3> HIDE DEF TypeInv
    <3> QED BY <2>10, <3>1, <3>2, TypeInvEndRound
            DEF MarkFailed, TypeInv, TypeOK
  <2>11. ASSUME NEW ok \in BOOLEAN, ScheduleRetry(r, ok) PROVE TypeInv'
    <3>1. cur[r] \in Ids /\ Retried(r) \in Row
      BY <2>11, RetriedType DEF ScheduleRetry
    <3>2. rounds' \in [Ids -> Nat]
      BY <2>11, <3>1 DEF ScheduleRetry, TypeOK
    <3>3. excuses' \in [Ids -> Nat] /\ rejected' \in [Ids -> BOOLEAN]
      BY <2>11 DEF ScheduleRetry, TypeOK
    <3> HIDE DEF TypeInv
    <3> QED BY <2>11, <3>1, <3>2, <3>3, TypeInvEndRound DEF ScheduleRetry
  <2>12. CASE Stop(r)
    BY <2>12 DEF Stop, TypeOK, OutboxTypeOK, Pc
  <2> QED BY <1>4, <2>1, <2>2, <2>3, <2>4, <2>5, <2>6, <2>7, <2>8, <2>9,
             <2>10, <2>11, <2>12 DEF RelayStep
<1>5. ASSUME NEW r \in Relays, Cancel(r) PROVE TypeInv'
  BY <1>5 DEF Cancel, TypeInv, TypeOK, OutboxTypeOK, LoopInv, history, outboxVars
<1>6. ASSUME NEW r \in Relays, Kill(r) PROVE TypeInv'
  BY <1>6 DEF Kill, TypeInv, TypeOK, OutboxTypeOK, LoopInv, Busy, Pc, outboxVars
<1>7. ASSUME NEW r \in Relays, Restart(r) PROVE TypeInv'
  BY <1>7 DEF Restart, TypeInv, TypeOK, OutboxTypeOK, LoopInv, Busy, Pc, history,
              outboxVars
<1>8. CASE UNCHANGED vars
  BY <1>8 DEF vars, TypeInv, TypeOK, OutboxTypeOK, LoopInv
<1> QED BY <1>1, <1>2, <1>3, <1>4, <1>5, <1>6, <1>7, <1>8 DEF Next, RelayNext

\* Type correctness of the relay and the table, for any number of relays,
\* rows, attempts and faults.
THEOREM TypeCorrect == Spec => []TypeOK
<1>1. TypeInv => TypeOK
  BY DEF TypeInv
<1> QED BY <1>1, TypeInvInit, TypeInvStep, PTL DEF Spec

----------------------------------------------------------------------------
\* The channel, with the mapping of Relay written out.
LEMMA ChannelStateAt ==
    ASSUME NEW i \in Ids
    PROVE  /\ ChannelState[i] = ChannelOf(outbox[i].status)
           /\ ChannelState[i] # "absent" <=> Visible(i)
BY DEF ChannelState, ChannelOf, Visible

\* An update of one row changes one abstract state.
LEMMA ChannelUpdate ==
    ASSUME TypeInv, NEW i \in Ids, NEW row \in Row,
           outbox' = [outbox EXCEPT ![i] = row]
    PROVE  ChannelState' = [ChannelState EXCEPT ![i] = ChannelOf(row.status)]
BY DEF TypeInv, TypeOK, OutboxTypeOK, ChannelState

\* An update that keeps the status changes none.
LEMMA ChannelSame ==
    ASSUME \A i \in Ids : ChannelOf(outbox[i].status)' = ChannelOf(outbox[i].status)
    PROVE  ChannelState' = ChannelState
BY DEF ChannelState

LEMMA ChannelInit == Init => Channel!Init
BY DEF Init, OutboxInit, RelayInit, Channel!Init, ChannelState, ChannelOf

\* The steps that leave every status and the broker alone.
LEMMA ChannelStutter ==
    ASSUME UNCHANGED <<outbox, copies>>
    PROVE  UNCHANGED Channel!cvars
<1>1. ChannelState' = ChannelState
  BY ChannelSame
<1> QED BY <1>1 DEF Channel!cvars

LEMMA ChannelWriterStep ==
    ASSUME RelayInv, WriterNext
    PROVE  [Channel!Next]_Channel!cvars
<1>1. copies' = copies
  BY DEF WriterNext, relayVars
<1> USE DEF RelayInv
<1>2. CASE WriteOutbox
  <2>1. nextId \in Ids /\ outbox[nextId].status = "none"
    BY <1>2 DEF WriteOutbox, FreshIds, Ids, TypeInv, TypeOK, OutboxTypeOK
  <2>2. \A i \in Ids : ChannelOf(outbox[i].status)' = ChannelOf(outbox[i].status)
    BY <1>2, <2>1 DEF WriteOutbox, ChannelOf, TypeInv, TypeOK, OutboxTypeOK, Row
  <2> QED BY <1>1, <2>2, ChannelSame DEF Channel!cvars
<1>3. ASSUME NEW i \in Ids, CommitEntry(i) PROVE Channel!Next
  <2>1. outbox[i] \in Row
    BY DEF TypeInv, TypeOK, OutboxTypeOK
  <2> DEFINE row == [outbox[i] EXCEPT !.status = "pending"]
  <2>2. row \in Row /\ row.status = "pending"
    BY <2>1 DEF Row, Status
  <2>3. outbox' = [outbox EXCEPT ![i] = row]
    BY <1>3 DEF CommitEntry
  <2> HIDE DEF row
  <2>4. ChannelState' = [ChannelState EXCEPT ![i] = "open"]
    BY <2>2, <2>3, ChannelUpdate DEF ChannelOf
  <2>5. ChannelState[i] = "absent"
    BY <1>3, ChannelStateAt DEF CommitEntry, ChannelOf
  <2>6. Channel!Commit(i)
    BY <1>1, <2>4, <2>5 DEF Channel!Commit
  <2> QED BY <2>6 DEF Channel!Next
<1>4. ASSUME NEW i \in Ids, RollbackEntry(i) PROVE UNCHANGED Channel!cvars
  <2>1. \A j \in Ids : ChannelOf(outbox[j].status)' = ChannelOf(outbox[j].status)
    BY <1>4 DEF RollbackEntry, ChannelOf, TypeInv, TypeOK, OutboxTypeOK, Row
  <2> QED BY <1>1, <2>1, ChannelSame DEF Channel!cvars
<1> QED BY <1>2, <1>3, <1>4 DEF WriterNext

\* A failed row may be marked failed again, and RetryFailed finds nothing to
\* do when there is none.
LEMMA ChannelResetStep ==
    ASSUME RelayInv, RetryFailed
    PROVE  Channel!Reopen
<1> DEFINE reset == [status |-> "pending", retryCount |-> 0, backoff |-> FALSE]
<1>1. \A i \in Ids : outbox'[i] = IF outbox[i].status = "failed" THEN reset
                                                               ELSE outbox[i]
  BY DEF RetryFailed
<1>2. \A i \in Ids : ChannelOf(outbox'[i].status) =
                     IF ChannelState[i] = "abandoned" THEN "open"
                                                      ELSE ChannelState[i]
  BY <1>1, ChannelStateAt DEF ChannelOf
<1>3. ChannelState' = [i \in Ids |-> IF ChannelState[i] = "abandoned" THEN "open"
                                     ELSE ChannelState[i]]
  BY <1>2 DEF ChannelState
<1> QED BY <1>3 DEF Channel!Reopen, RetryFailed

\* What the three updates do to the entry in hand.
LEMMA ChannelEndRound ==
    ASSUME RelayInv, NEW r \in Relays, NEW ok \in BOOLEAN, NEW row \in Row,
           rpc[r] \in Busy, EndRound(r, ok, row),
           \/ row.status = outbox[cur[r]].status
           \/ row.status = "failed"
           \/ row.status = "published" /\ copies[cur[r]] > 0
    PROVE  [Channel!Next]_Channel!cvars
<1> DEFINE i == cur[r]
<1>1. i \in Ids /\ Visible(i) /\ copies' = copies
  BY DEF RelayInv, TypeInv, LoopInv, ClaimsVisible, EndRound
<1>2. CASE ~ok
  BY <1>1, <1>2, ChannelStutter DEF EndRound
<1>3. CASE ok
  <2>1. ChannelState' = [ChannelState EXCEPT ![i] = ChannelOf(row.status)]
    BY <1>1, <1>3, ChannelUpdate DEF EndRound, RelayInv
  <2>2. ChannelState[i] # "absent" /\ ChannelState \in [Ids -> {ChannelState[j] : j \in Ids}]
    BY <1>1, ChannelStateAt DEF ChannelState
  <2>3. CASE row.status = outbox[i].status
    <3>1. ChannelState' = ChannelState
      BY <2>1, <2>2, <2>3, <1>1, ChannelStateAt
    <3> QED BY <1>1, <3>1 DEF Channel!cvars
  <2>4. CASE row.status = "failed"
    <3>1. Channel!Abandon(i)
      BY <1>1, <2>1, <2>2, <2>4 DEF Channel!Abandon, ChannelOf
    <3> QED BY <1>1, <3>1 DEF Channel!Next
  <2>5. CASE row.status = "published" /\ copies[i] > 0
    <3>1. Channel!Confirm(i)
      BY <1>1, <2>1, <2>2, <2>5 DEF Channel!Confirm, ChannelOf
    <3> QED BY <1>1, <3>1 DEF Channel!Next
  <2> QED BY <2>3, <2>4, <2>5
<1> QED BY <1>2, <1>3

\* An append to the log is a delivery of the entry in hand.
LEMMA ChannelDeliver ==
    ASSUME RelayInv, NEW r \in Relays, rpc[r] = "attempt", outbox' = outbox,
           copies' = [copies EXCEPT ![cur[r]] = @ + 1]
    PROVE  Channel!Next
<1>1. cur[r] \in Ids /\ ChannelState[cur[r]] # "absent"
  BY ChannelStateAt DEF RelayInv, TypeInv, LoopInv, Busy, ClaimsVisible
<1>2. ChannelState' = ChannelState
  BY ChannelSame
<1>3. Channel!Deliver(cur[r])
  BY <1>1, <1>2 DEF Channel!Deliver
<1> QED BY <1>1, <1>3 DEF Channel!Next

LEMMA ChannelStep ==
    ASSUME RelayInv, [Next]_vars
    PROVE  [Channel!Next]_Channel!cvars
<1>1. CASE WriterNext
  BY <1>1, ChannelWriterStep
<1>2. CASE RetryFailed
  BY <1>2, ChannelResetStep DEF Channel!Next
<1>3. ASSUME NEW i \in Ids, BackoffElapsed(i) PROVE UNCHANGED Channel!cvars
  <2>1. \A j \in Ids : ChannelOf(outbox[j].status)' = ChannelOf(outbox[j].status)
    BY <1>3 DEF BackoffElapsed, ChannelOf, RelayInv, TypeInv, TypeOK, OutboxTypeOK,
                Row
  <2> QED BY <1>3, <2>1, ChannelSame DEF BackoffElapsed, relayVars, Channel!cvars
<1>4. ASSUME NEW r \in Relays, RelayStep(r) PROVE [Channel!Next]_Channel!cvars
  <2>1. CASE PublishOk(r)
    BY <2>1, ChannelDeliver DEF PublishOk, outboxVars
  <2>2. ASSUME NEW resend \in BOOLEAN, PublishAckLost(r, resend)
        PROVE  Channel!Next
    BY <2>2, ChannelDeliver DEF PublishAckLost, outboxVars
  <2>3. ASSUME NEW ok \in BOOLEAN, MarkPublished(r, ok)
        PROVE  [Channel!Next]_Channel!cvars
    <3> DEFINE row == [outbox[cur[r]] EXCEPT !.status = "published"]
    <3>1. cur[r] \in Ids /\ copies[cur[r]] > 0
      BY <2>3 DEF MarkPublished, RelayInv, TypeInv, LoopInv, Busy, AckedDelivered
    <3>2. outbox[cur[r]] \in Row
      BY <3>1 DEF RelayInv, TypeInv, TypeOK, OutboxTypeOK
    <3>3. row \in Row /\ row.status = "published"
      BY <3>2, StatusUpdateType DEF Row, Status
    <3> HIDE DEF row
    <3> QED BY <2>3, <3>1, <3>3, ChannelEndRound DEF MarkPublished, Busy, row
  <2>4. ASSUME NEW ok \in BOOLEAN, MarkFailed(r, ok)
        PROVE  [Channel!Next]_Channel!cvars
    <3> DEFINE row == [outbox[cur[r]] EXCEPT !.status = "failed"]
    <3>1. cur[r] \in Ids
      BY <2>4 DEF MarkFailed, RelayInv, TypeInv, LoopInv, Busy
    <3>2. outbox[cur[r]] \in Row
      BY <3>1 DEF RelayInv, TypeInv, TypeOK, OutboxTypeOK
    <3>3. row \in Row /\ row.status = "failed"
      BY <3>2, StatusUpdateType DEF Row, Status
    <3> HIDE DEF row
    <3> QED BY <2>4, <3>1, <3>3, ChannelEndRound DEF MarkFailed, Busy, row
  <2>5. ASSUME NEW ok \in BOOLEAN, ScheduleRetry(r, ok)
        PROVE  [Channel!Next]_Channel!cvars
    <3>1. cur[r] \in Ids
      BY <2>5 DEF ScheduleRetry, RelayInv, TypeInv, LoopInv, Busy
    <3>2. Retried(r) \in Row
      BY <3>1, RetriedType DEF RelayInv
    <3>3. \/ Retried(r).status = outbox[cur[r]].status
          \/ Retried(r).status = "failed"
      BY <3>1 DEF Retried, RelayInv, TypeInv, TypeOK, OutboxTypeOK, Row
    <3> QED BY <2>5, <3>1, <3>2, <3>3, ChannelEndRound DEF ScheduleRetry, Busy
  <2>6. CASE UNCHANGED <<outbox, copies>>
    BY <2>6, ChannelStutter
  <2>7. QED
    BY <1>4, <2>1, <2>2, <2>3, <2>4, <2>5, <2>6
       DEF RelayStep, Poll, PollDone, TakeEntry, PublishErr, NextAttempt,
           Interrupted, Stop, outboxVars
<1>5. ASSUME NEW r \in Relays, Cancel(r) \/ Kill(r) \/ Restart(r)
      PROVE  UNCHANGED Channel!cvars
  BY <1>5, ChannelStutter DEF Cancel, Kill, Restart, outboxVars
<1>6. CASE UNCHANGED vars
  BY <1>6, ChannelStutter DEF vars
<1> QED BY <1>1, <1>2, <1>3, <1>4, <1>5, <1>6 DEF Next, RelayNext

\* No step hides a committed row or removes a message from the broker.
LEMMA Monotone ==
    ASSUME RelayInv, [Next]_vars, NEW i \in Ids
    PROVE  /\ Visible(i) => Visible(i)'
           /\ copies[i] > 0 => copies'[i] > 0
<1>1. [Channel!Next]_Channel!cvars /\ copies \in [Ids -> Nat]
  BY ChannelStep DEF RelayInv, TypeInv, TypeOK
<1>2. copies[i] > 0 => copies'[i] > 0
  BY <1>1 DEF Channel!Next, Channel!cvars, Channel!Commit, Channel!Deliver,
              Channel!Confirm, Channel!Abandon, Channel!Reopen
<1>3. ChannelState = [j \in Ids |-> ChannelState[j]]
  BY DEF ChannelState
<1>4. ChannelState[i] # "absent" => ChannelState'[i] # "absent"
  BY <1>1, <1>3
     DEF Channel!Next, Channel!cvars, Channel!Commit, Channel!Deliver,
         Channel!Confirm, Channel!Abandon, Channel!Reopen
<1>5. ChannelState'[i] # "absent" <=> Visible(i)'
  BY DEF ChannelState, ChannelOf, Visible
<1> QED BY <1>2, <1>4, <1>5, ChannelStateAt

----------------------------------------------------------------------------
LEMMA RelayInvInit == Init => RelayInv
BY TypeInvInit
   DEF Init, OutboxInit, RelayInit, RelayInv, FreshIds, ClaimsVisible,
       AckedDelivered, Ids

\* A step of Next by what it does to the table and to the relays.
LEMMA NextCases ==
    ASSUME [Next]_vars
    PROVE  \/ WriterNext
           \/ RetryFailed
           \/ \E i \in Ids : BackoffElapsed(i)
           \/ \E r \in Relays : \E ok \in BOOLEAN :
                 rpc[r] \in Busy /\ \E row : EndRound(r, ok, row)
           \/ \E r \in Relays :
                 \/ Poll(r) \/ PollDone(r) \/ \E i \in Ids : TakeEntry(r, i)
                 \/ PublishOk(r)
                 \/ \E permanent \in BOOLEAN : PublishErr(r, permanent)
                 \/ \E resend \in BOOLEAN : PublishAckLost(r, resend)
                 \/ NextAttempt(r) \/ Interrupted(r) \/ Stop(r)
                 \/ Cancel(r) \/ Kill(r) \/ Restart(r)
           \/ UNCHANGED vars
<1>1. ASSUME NEW r \in Relays, NEW ok \in BOOLEAN,
             MarkPublished(r, ok) \/ MarkFailed(r, ok) \/ ScheduleRetry(r, ok)
      PROVE  rpc[r] \in Busy /\ \E row : EndRound(r, ok, row)
  BY <1>1, Zenon DEF MarkPublished, MarkFailed, ScheduleRetry, Busy
<1> QED BY <1>1, Zenon DEF Next, RelayNext, RelayStep

LEMMA FreshStep ==
    ASSUME RelayInv, [Next]_vars
    PROVE  FreshIds'
<1> USE DEF RelayInv, FreshIds, TypeInv, TypeOK, OutboxTypeOK
<1>1. CASE WriterNext
  <2>1. CASE WriteOutbox
    BY <2>1 DEF WriteOutbox, Ids
  <2>2. CASE \E i \in Ids : CommitEntry(i) \/ RollbackEntry(i)
    BY <2>2 DEF CommitEntry, RollbackEntry, Row
  <2> QED BY <1>1, <2>1, <2>2 DEF WriterNext
<1>2. ASSUME NEW r \in Relays, NEW ok \in BOOLEAN, NEW row,
             rpc[r] \in Busy, EndRound(r, ok, row)
      PROVE  FreshIds'
  <2>1. cur[r] \in Ids /\ ~(cur[r] >= nextId)
    BY <1>2 DEF LoopInv, ClaimsVisible, Visible
  <2> QED BY <1>2, <2>1 DEF EndRound
<1>3. CASE RetryFailed
  BY <1>3 DEF RetryFailed
<1>4. CASE \E i \in Ids : BackoffElapsed(i)
  BY <1>4 DEF BackoffElapsed, Row
<1>5. CASE UNCHANGED outboxVars
  BY <1>5 DEF outboxVars
<1>6. ASSUME NEW r \in Relays,
             \/ Poll(r) \/ PollDone(r) \/ \E i \in Ids : TakeEntry(r, i)
             \/ PublishOk(r)
             \/ \E permanent \in BOOLEAN : PublishErr(r, permanent)
             \/ \E resend \in BOOLEAN : PublishAckLost(r, resend)
             \/ NextAttempt(r) \/ Interrupted(r) \/ Stop(r)
             \/ Cancel(r) \/ Kill(r) \/ Restart(r)
      PROVE  UNCHANGED outboxVars
  BY <1>6, Zenon
     DEF Poll, PollDone, TakeEntry, PublishOk, PublishErr, PublishAckLost,
         NextAttempt, Interrupted, Stop, Cancel, Kill, Restart
<1>7. CASE UNCHANGED vars
  BY <1>5, <1>7 DEF vars, outboxVars
<1> HIDE DEF RelayInv, FreshIds, TypeInv, TypeOK, OutboxTypeOK
<1> QED
  BY <1>1, <1>2, <1>3, <1>4, <1>5, <1>6, <1>7, NextCases, Zenon

\* Entries enter a batch from the table, and cur from the batch.
LEMMA ClaimsStep ==
    ASSUME RelayInv, [Next]_vars
    PROVE  ClaimsVisible'
<1> DEFINE Origin(s) ==
             /\ \A i \in batch'[s] : i \in Ids /\ (i \in batch[s] \/ Visible(i))
             /\ cur'[s] \in Ids => cur'[s] = cur[s] \/ cur'[s] \in batch[s]
<1>1. ASSUME NEW s \in Relays PROVE Origin(s)
  <2> USE DEF RelayInv, TypeInv, TypeOK, Ids
  <2>1. ASSUME NEW r \in Relays, Poll(r) PROVE Origin(s)
    BY <2>1 DEF Poll, Pollable, Due, Visible
  <2>2. ASSUME NEW r \in Relays, NEW i \in Ids, TakeEntry(r, i) PROVE Origin(s)
    BY <2>2 DEF TakeEntry
  <2>3. ASSUME NEW r \in Relays, PollDone(r) \/ Kill(r) PROVE Origin(s)
    <3>1. /\ batch' = [batch EXCEPT ![r] = {}]
          /\ cur' = cur \/ cur' = [cur EXCEPT ![r] = 0]
      BY <2>3 DEF PollDone, Kill
    <3> QED BY <3>1
  <2>4. ASSUME NEW r \in Relays, NEW ok \in BOOLEAN, NEW row, EndRound(r, ok, row)
        PROVE  Origin(s)
    BY <2>4 DEF EndRound
  <2>5. CASE UNCHANGED <<batch, cur>>
    BY <2>5
  <2>6. CASE \/ WriterNext \/ RetryFailed \/ UNCHANGED vars
             \/ \E i \in Ids : BackoffElapsed(i)
    BY <2>5, <2>6 DEF WriterNext, RetryFailed, BackoffElapsed, vars, relayVars,
                      relayLocal
  <2>7. ASSUME NEW r \in Relays,
               \/ PublishOk(r)
               \/ \E permanent \in BOOLEAN : PublishErr(r, permanent)
               \/ \E resend \in BOOLEAN : PublishAckLost(r, resend)
               \/ NextAttempt(r) \/ Interrupted(r) \/ Stop(r)
               \/ Cancel(r) \/ Restart(r)
        PROVE  Origin(s)
    BY <2>5, <2>7 DEF PublishOk, PublishErr, PublishAckLost, NextAttempt,
                      Interrupted, Stop, Cancel, Restart
  <2> HIDE DEF RelayInv, TypeInv, TypeOK, Ids
  <2> QED
    BY <2>1, <2>2, <2>3, <2>4, <2>6, <2>7, NextCases, Zenon
<1> QED BY <1>1, Monotone DEF RelayInv, ClaimsVisible

LEMMA AckedStep ==
    ASSUME RelayInv, [Next]_vars
    PROVE  AckedDelivered'
<1> DEFINE Origin(s) == \/ PublishOk(s)
                        \/ rpc[s] = "published" /\ cur'[s] = cur[s]
<1>1. ASSUME NEW s \in Relays, rpc'[s] = "published" PROVE Origin(s)
  <2> USE DEF RelayInv, TypeInv, TypeOK
  <2>1. ASSUME NEW r \in Relays, NEW ok \in BOOLEAN, NEW row, EndRound(r, ok, row)
        PROVE  Origin(s)
    BY <1>1, <2>1 DEF EndRound
  <2>2. ASSUME NEW r \in Relays,
               \/ Poll(r) \/ PollDone(r) \/ \E i \in Ids : TakeEntry(r, i)
               \/ PublishOk(r)
        PROVE  Origin(s)
    BY <1>1, <2>2 DEF Poll, PollDone, TakeEntry, PublishOk
  <2>3. ASSUME NEW r \in Relays,
               \/ \E permanent \in BOOLEAN : PublishErr(r, permanent)
               \/ \E resend \in BOOLEAN : PublishAckLost(r, resend)
        PROVE  Origin(s)
    BY <1>1, <2>3 DEF PublishErr, PublishAckLost, AfterError
  <2>4. ASSUME NEW r \in Relays,
               NextAttempt(r) \/ Interrupted(r) \/ Stop(r) \/ Cancel(r)
               \/ Kill(r) \/ Restart(r)
        PROVE  Origin(s)
    BY <1>1, <2>4 DEF NextAttempt, Interrupted, Stop, Cancel, Kill, Restart
  <2>5. CASE \/ WriterNext \/ RetryFailed \/ UNCHANGED vars
             \/ \E i \in Ids : BackoffElapsed(i)
    BY <1>1, <2>5 DEF WriterNext, RetryFailed, BackoffElapsed, vars, relayVars,
                      relayLocal
  <2> HIDE DEF RelayInv, TypeInv, TypeOK
  <2> QED BY <2>1, <2>2, <2>3, <2>4, <2>5, NextCases, Zenon
<1>2. ASSUME NEW s \in Relays, rpc'[s] = "published"
      PROVE  copies'[cur'[s]] > 0
  <2>1. CASE PublishOk(s)
    BY <2>1 DEF PublishOk, RelayInv, TypeInv, TypeOK, LoopInv, Busy
  <2>2. CASE rpc[s] = "published" /\ cur'[s] = cur[s]
    BY <2>2, Monotone DEF RelayInv, TypeInv, LoopInv, Busy, AckedDelivered
  <2> QED BY <1>1, <1>2, <2>1, <2>2
<1> QED BY <1>2 DEF AckedDelivered

LEMMA RelayInvStep ==
    ASSUME RelayInv, [Next]_vars
    PROVE  RelayInv'
BY TypeInvStep, FreshStep, ClaimsStep, AckedStep DEF RelayInv

THEOREM RelayInvariant == Spec => []RelayInv
BY RelayInvInit, RelayInvStep, PTL DEF Spec

\* Any number of relays on a table they never lock implement the at-least-once
\* channel: an event appears with its commit, is delivered only then, and is
\* confirmed only after a delivery.
THEOREM RelayImplementsChannel == Spec => ImplementsChannel
<1>1. ImplementsChannel <=> Channel!Init /\ [][Channel!Next]_Channel!cvars
  BY DEF ImplementsChannel, Channel!Spec
<1> QED BY <1>1, ChannelInit, ChannelStep, RelayInvariant, PTL DEF Spec

----------------------------------------------------------------------------
\* The two guarantees are facts about the channel, so they follow from the
\* implementation and not from the relay's control.
Guarantees ==
    \A i \in Ids : /\ ChannelState[i] = "confirmed" => copies[i] > 0
                   /\ copies[i] > 0 => ChannelState[i] # "absent"

LEMMA GuaranteesMean == Guarantees <=> PublishedDelivered /\ OnlyCommittedDelivered
<1>1. \A i \in Ids : ChannelState[i] = "confirmed" <=> outbox[i].status = "published"
  BY DEF ChannelState, ChannelOf
<1> QED BY <1>1, ChannelStateAt
        DEF Guarantees, PublishedDelivered, OnlyCommittedDelivered

LEMMA GuaranteesStep ==
    ASSUME RelayInv, Guarantees, [Next]_vars
    PROVE  Guarantees'
<1>1. /\ [Channel!Next]_Channel!cvars
      /\ copies \in [Ids -> Nat]
      /\ ChannelState = [j \in Ids |-> ChannelState[j]]
  BY ChannelStep DEF RelayInv, TypeInv, TypeOK, ChannelState
<1> USE <1>1 DEF Guarantees
<1>2. ASSUME NEW e \in Ids, Channel!Commit(e) PROVE Guarantees'
  BY <1>2 DEF Channel!Commit
<1>3. ASSUME NEW e \in Ids, Channel!Deliver(e) PROVE Guarantees'
  BY <1>3 DEF Channel!Deliver
<1>4. ASSUME NEW e \in Ids, Channel!Confirm(e) PROVE Guarantees'
  BY <1>4 DEF Channel!Confirm
<1>5. ASSUME NEW e \in Ids, Channel!Abandon(e) PROVE Guarantees'
  BY <1>5 DEF Channel!Abandon
<1>6. CASE Channel!Reopen
  BY <1>6 DEF Channel!Reopen
<1>7. CASE UNCHANGED Channel!cvars
  BY <1>7 DEF Channel!cvars
<1> QED BY <1>2, <1>3, <1>4, <1>5, <1>6, <1>7 DEF Channel!Next

\* Whatever relays with stale copies, kills and failed updates do, a row is
\* marked published only if the broker has the message, and the broker only
\* has messages of committed transactions.
THEOREM DeliveryGuarantees == Spec => [](PublishedDelivered /\ OnlyCommittedDelivered)
<1>1. Init => Guarantees
  BY DEF Init, OutboxInit, RelayInit, Guarantees, ChannelState, ChannelOf
<1>2. RelayInv /\ Guarantees /\ [Next]_vars => Guarantees'
  BY GuaranteesStep
<1>3. Spec => []Guarantees
  BY <1>1, <1>2, RelayInvariant, PTL DEF Spec
<1> QED BY <1>3, GuaranteesMean, PTL

----------------------------------------------------------------------------
(* One relay.  Nobody else changes the rows it has polled, so its copies   *)
(* of them are as good as the table.                                       *)

SingleRelay == \A r, s \in Relays : r = s

\* The entries a relay has polled and not settled.
Claimed(r) == batch[r] \cup (IF rpc[r] \in Busy THEN {cur[r]} ELSE {})

\* Claimed rows are pending, and the one in hand is not claimed twice.
ClaimsPending ==
    \A r \in Relays : /\ \A i \in Claimed(r) : outbox[i].status = "pending"
                      /\ rpc[r] \in Busy => cur[r] \notin batch[r]

\* Every failed round that the retry counts know of has taken place.
RoundsCounted ==
    /\ \A i \in Ids : outbox[i].retryCount <= rounds[i]
    /\ \A r \in Relays : \A i \in Claimed(r) : snap[r][i] <= rounds[i]

SingleInv ==
    RelayInv /\ ClaimsPending /\ RoundsCounted /\ DuplicatesExplained /\ FailedExplained

LEMMA SingleInit == Init => SingleInv
BY RelayInvInit, OutboxAssumption
   DEF Init, OutboxInit, RelayInit, SingleInv, ClaimsPending, RoundsCounted, Claimed,
       Busy, DuplicatesExplained, FailedExplained, Acked

StaysPublished ==
    \A i \in Ids : outbox[i].status = "published" => outbox'[i].status = "published"

\* What a step changes in the table and in the history of the rows.
LEMMA SingleWriterStep ==
    ASSUME SingleInv, WriterNext PROVE SingleInv' /\ StaysPublished
<1>1. RelayInv'
  BY RelayInvStep DEF SingleInv, Next
<1> USE DEF SingleInv, RelayInv, TypeInv, TypeOK, OutboxTypeOK, LoopInv, FreshIds
<1>2. /\ \A i \in Ids : \/ outbox'[i] = outbox[i]
                          \/ /\ outbox[i].status \in {"none", "staged"}
                             /\ outbox'[i].status \in {"none", "staged", "pending"}
                             /\ outbox'[i].retryCount = outbox[i].retryCount
      /\ UNCHANGED relayVars
  <2>1. CASE WriteOutbox
    BY <2>1 DEF WriterNext, WriteOutbox, Row
  <2>2. CASE \E i \in Ids : CommitEntry(i) \/ RollbackEntry(i)
    BY <2>2 DEF WriterNext, CommitEntry, RollbackEntry, Row
  <2> QED BY <2>1, <2>2 DEF WriterNext
<1>3. ClaimsPending'
  <2>1. \A r \in Relays : Claimed(r)' = Claimed(r) /\ Claimed(r) \subseteq Ids
    BY <1>2 DEF relayVars, Claimed
  <2> QED BY <1>2, <2>1 DEF ClaimsPending, relayVars
<1>4. RoundsCounted'
  BY <1>2 DEF RoundsCounted, relayVars, Claimed
<1>5. DuplicatesExplained' /\ FailedExplained' /\ StaysPublished
  <2>1. \A i \in Ids : Acked(i)' = Acked(i)
    BY <1>2 DEF relayVars, Acked
  <2> QED BY <1>2, <2>1 DEF DuplicatesExplained, FailedExplained, StaysPublished, relayVars
<1> QED BY <1>1, <1>3, <1>4, <1>5

LEMMA SingleTableStep ==
    ASSUME SingleInv, RetryFailed \/ \E i \in Ids : BackoffElapsed(i)
    PROVE  SingleInv' /\ StaysPublished
<1>1. RelayInv'
  BY RelayInvStep DEF SingleInv, Next, RelayNext
<1> USE DEF SingleInv, RelayInv, TypeInv, TypeOK, OutboxTypeOK, LoopInv
<1>2. /\ \A r \in Relays : Claimed(r)' = Claimed(r) /\ Claimed(r) \subseteq Ids
      /\ \A i \in Ids : Acked(i)' = Acked(i)
  BY DEF RetryFailed, BackoffElapsed, relayVars, relayLocal, Claimed, Acked
<1>3. CASE RetryFailed
  <2>1. ClaimsPending'
    BY <1>2, <1>3 DEF RetryFailed, relayLocal, ClaimsPending
  <2>2. RoundsCounted'
    BY <1>2, <1>3 DEF RetryFailed, relayLocal, ClaimsPending, RoundsCounted
  <2>3. DuplicatesExplained' /\ FailedExplained' /\ StaysPublished
    BY <1>2, <1>3 DEF RetryFailed, DuplicatesExplained, FailedExplained, StaysPublished
  <2> QED BY <1>1, <2>1, <2>2, <2>3
<1>4. CASE \E i \in Ids : BackoffElapsed(i)
  <2>1. /\ \A i \in Ids : /\ outbox'[i].status = outbox[i].status
                           /\ outbox'[i].retryCount = outbox[i].retryCount
        /\ UNCHANGED relayVars
    BY <1>4 DEF BackoffElapsed, Row
  <2>2. ClaimsPending' /\ RoundsCounted'
    BY <1>2, <2>1 DEF relayVars, ClaimsPending, RoundsCounted
  <2>3. DuplicatesExplained' /\ FailedExplained' /\ StaysPublished
    BY <1>2, <2>1 DEF relayVars, DuplicatesExplained, FailedExplained, StaysPublished
  <2> QED BY <1>1, <2>2, <2>3
<1> QED BY <1>3, <1>4

\* The relay reads the table and works on its batch.
LEMMA SingleLoopStep ==
    ASSUME SingleRelay, SingleInv, NEW r \in Relays,
           \/ Poll(r) \/ PollDone(r) \/ \E i \in Ids : TakeEntry(r, i)
           \/ \E permanent \in BOOLEAN : PublishErr(r, permanent)
           \/ NextAttempt(r) \/ Interrupted(r) \/ Stop(r)
           \/ Cancel(r) \/ Restart(r)
    PROVE  SingleInv' /\ StaysPublished
<1>1. RelayInv'
  BY RelayInvStep DEF SingleInv, Next, RelayNext, RelayStep
<1> USE DEF SingleInv, RelayInv, TypeInv, TypeOK, OutboxTypeOK, LoopInv, Busy
<1>2. UNCHANGED <<outbox, copies, excuses, rounds, rejected>>
  BY DEF Poll, PollDone, TakeEntry, PublishErr, NextAttempt, Interrupted, Stop,
         Cancel, Restart, outboxVars, history
<1> DEFINE Local ==
             /\ \A i \in Claimed(r)' :
                   i \in Claimed(r) \/ (i \in Ids /\ outbox[i].status = "pending")
             /\ rpc'[r] \in Busy => cur'[r] \notin batch'[r]
             /\ \A i \in Claimed(r)' : snap'[r][i] <= rounds[i]
             /\ (rpc'[r] = "published") = (rpc[r] = "published")
             /\ rpc[r] = "published" => cur'[r] = cur[r]
<1>3. Local
  <2> USE DEF Claimed, ClaimsPending, RoundsCounted
  <2>1. CASE Poll(r)
    BY <2>1 DEF Poll, Pollable, Due
  <2>2. CASE PollDone(r)
    BY <2>2 DEF PollDone
  <2>3. ASSUME NEW i \in Ids, TakeEntry(r, i) PROVE Local
    BY <2>3 DEF TakeEntry
  <2>4. ASSUME NEW permanent \in BOOLEAN, PublishErr(r, permanent) PROVE Local
    BY <2>4 DEF PublishErr, AfterError
  <2>5. CASE NextAttempt(r) \/ Interrupted(r)
    BY <2>5 DEF NextAttempt, Interrupted
  <2>6. CASE Stop(r) \/ Cancel(r) \/ Restart(r)
    BY <2>6 DEF Stop, Cancel, Restart
  <2> QED BY <2>1, <2>2, <2>3, <2>4, <2>5, <2>6
<1>4. \A i \in Ids : Acked(i)' = Acked(i)
  BY <1>3 DEF Acked, SingleRelay
<1>5. ClaimsPending' /\ RoundsCounted'
  BY <1>2, <1>3 DEF ClaimsPending, RoundsCounted, SingleRelay
<1> QED BY <1>1, <1>2, <1>4, <1>5 DEF DuplicatesExplained, FailedExplained, StaysPublished

\* The broker appends the message.
LEMMA SinglePublishStep ==
    ASSUME SingleRelay, SingleInv, NEW r \in Relays,
           PublishOk(r) \/ \E resend \in BOOLEAN : PublishAckLost(r, resend)
    PROVE  SingleInv' /\ StaysPublished
<1>1. RelayInv'
  BY RelayInvStep DEF SingleInv, Next, RelayNext, RelayStep
<1> USE DEF SingleInv, RelayInv, TypeInv, TypeOK, OutboxTypeOK, LoopInv, Busy
<1>2. /\ UNCHANGED <<outbox, batch, snap, cur, rounds, rejected>>
      /\ rpc[r] = "attempt" /\ rpc' = [rpc EXCEPT ![r] = rpc'[r]]
      /\ rpc'[r] \in Busy \/ rpc'[r] = "attempt"
      /\ copies' = [copies EXCEPT ![cur[r]] = @ + 1]
      /\ \/ rpc'[r] = "published" /\ excuses' = excuses
         \/ rpc'[r] # "published" /\ excuses' = [excuses EXCEPT ![cur[r]] = @ + 1]
  BY DEF PublishOk, PublishAckLost, AfterError, outboxVars, history
<1>3. Claimed(r)' = Claimed(r) /\ cur[r] \in Claimed(r) /\ cur[r] \in Ids
  BY <1>2 DEF Claimed
<1>4. ClaimsPending' /\ RoundsCounted'
  BY <1>2, <1>3 DEF ClaimsPending, RoundsCounted, SingleRelay
<1>5. DuplicatesExplained'
  <2>1. \A i \in Ids : ~Acked(i) /\ (Acked(i)' <=> i = cur[r] /\ rpc'[r] = "published")
    BY <1>2 DEF Acked, SingleRelay
  <2>2. outbox[cur[r]].status = "pending"
    BY <1>3 DEF ClaimsPending
  <2> QED BY <1>2, <1>3, <2>1, <2>2 DEF DuplicatesExplained
<1> QED BY <1>1, <1>2, <1>4, <1>5 DEF FailedExplained, StaysPublished

LEMMA SingleKillStep ==
    ASSUME SingleRelay, SingleInv, NEW r \in Relays, Kill(r)
    PROVE  SingleInv' /\ StaysPublished
<1>1. RelayInv'
  BY RelayInvStep DEF SingleInv, Next, RelayNext
<1> USE DEF SingleInv, RelayInv, TypeInv, TypeOK, OutboxTypeOK, LoopInv, Busy
<1>2. Claimed(r)' = {} /\ rpc'[r] \notin Busy
  BY DEF Kill, Claimed
<1>3. ClaimsPending' /\ RoundsCounted'
  BY <1>2 DEF ClaimsPending, RoundsCounted, SingleRelay, Kill, outboxVars
<1>4. DuplicatesExplained'
  <2>1. \A i \in Ids : ~Acked(i)' /\ (Acked(i) => rpc[r] = "published" /\ cur[r] = i)
    BY <1>2 DEF Acked, SingleRelay
  <2> QED BY <2>1 DEF DuplicatesExplained, Kill, outboxVars
<1> QED BY <1>1, <1>3, <1>4 DEF FailedExplained, StaysPublished, Kill, outboxVars

\* A round ends with one of the three updates of the row, or with none.
LEMMA SingleRoundStep ==
    ASSUME SingleRelay, SingleInv, NEW r \in Relays, NEW ok \in BOOLEAN,
           MarkPublished(r, ok) \/ MarkFailed(r, ok) \/ ScheduleRetry(r, ok)
    PROVE  SingleInv' /\ StaysPublished
<1>1. RelayInv'
  BY RelayInvStep DEF SingleInv, Next, RelayNext, RelayStep
<1> USE DEF SingleInv, RelayInv, TypeInv, TypeOK, OutboxTypeOK, LoopInv, Busy
<1> DEFINE i == cur[r]
<1>2. /\ i \in Ids /\ i \notin batch[r] /\ outbox[i].status = "pending"
      /\ snap[r][i] <= rounds[i] /\ outbox[i] \in Row /\ snap[r][i] \in Nat
  BY DEF MarkPublished, MarkFailed, ScheduleRetry, ClaimsPending, RoundsCounted, Claimed
<1>3. /\ rpc' = [rpc EXCEPT ![r] = "next"] /\ UNCHANGED <<batch, snap, copies>>
      /\ \A j \in Ids : j # i => outbox'[j] = outbox[j]
  BY <1>2 DEF MarkPublished, MarkFailed, ScheduleRetry, EndRound
<1>4. /\ rounds' = rounds \/ rounds' = [rounds EXCEPT ![i] = @ + 1]
      /\ \A j \in Ids : j # i => excuses'[j] = excuses[j] /\ rejected'[j] = rejected[j]
  BY <1>2 DEF MarkPublished, MarkFailed, ScheduleRetry
<1>5. /\ outbox'[i].retryCount <= rounds'[i]
      /\ outbox'[i].status = "failed" => rejected'[i] \/ rounds'[i] >= DefaultMaxRetries
      /\ copies[i] <= excuses'[i] + IF outbox'[i].status = "published" THEN 1 ELSE 0
  <2>1. outbox[i].retryCount <= rounds[i] /\ rounds[i] \in Nat
        /\ copies[i] <= excuses[i] + IF rpc[r] = "published" THEN 1 ELSE 0
    BY <1>2 DEF RoundsCounted, DuplicatesExplained, Acked, SingleRelay
  <2>2. CASE MarkPublished(r, ok)
    BY <1>2, <2>1, <2>2 DEF MarkPublished, EndRound, Row
  <2>3. CASE MarkFailed(r, ok)
    BY <1>2, <2>1, <2>3 DEF MarkFailed, EndRound, Row
  <2>4. CASE ScheduleRetry(r, ok)
    BY <1>2, <2>1, <2>4, OutboxAssumption DEF ScheduleRetry, EndRound, Retried, Row
  <2> QED BY <2>2, <2>3, <2>4
<1> HIDE DEF i
<1>6. Claimed(r)' = batch[r]
  BY <1>3 DEF Claimed
<1>7. ClaimsPending'
  BY <1>2, <1>3, <1>6 DEF ClaimsPending, SingleRelay, Claimed
<1>8. RoundsCounted'
  <2>1. \A j \in Ids : outbox'[j].retryCount <= rounds'[j]
    BY <1>2, <1>3, <1>4, <1>5 DEF RoundsCounted
  <2>2. \A s \in Relays : \A j \in Claimed(s)' : snap'[s][j] <= rounds'[j]
    BY <1>2, <1>3, <1>4, <1>6 DEF RoundsCounted, SingleRelay, Claimed
  <2> QED BY <2>1, <2>2 DEF RoundsCounted
<1>9. DuplicatesExplained' /\ FailedExplained' /\ StaysPublished
  <2>1. \A j \in Ids : ~Acked(j)' /\ (j # i => ~Acked(j))
    BY <1>3 DEF Acked, SingleRelay, i
  <2> QED BY <1>2, <1>3, <1>4, <1>5, <2>1
          DEF DuplicatesExplained, FailedExplained, StaysPublished
<1> QED BY <1>1, <1>7, <1>8, <1>9

LEMMA SingleStep ==
    ASSUME SingleRelay, SingleInv, [Next]_vars
    PROVE  SingleInv' /\ StaysPublished
<1>1. CASE UNCHANGED vars
  BY <1>1, RelayInvStep
     DEF vars, SingleInv, ClaimsPending, RoundsCounted, DuplicatesExplained,
         FailedExplained, StaysPublished, Claimed, Acked
<1>2. ASSUME NEW r \in Relays, RelayStep(r) PROVE SingleInv' /\ StaysPublished
  BY <1>2, SingleLoopStep, SinglePublishStep, SingleRoundStep DEF RelayStep
<1> QED BY <1>1, <1>2, SingleWriterStep, SingleTableStep, SingleLoopStep, SingleKillStep
        DEF Next, RelayNext

LEMMA SingleInvariant ==
    ASSUME SingleRelay
    PROVE  Spec => []SingleInv
<1>1. SingleInv /\ [Next]_vars => SingleInv'
  BY SingleStep
<1> QED BY <1>1, SingleInit, PTL DEF Spec

\* With one relay (relay.go, publishWithRetry and markPublished), every copy of
\* a message after the first has a lost acknowledgement, a failed update or a
\* kill of its own behind it, for any number of rows, attempts and faults.
THEOREM DuplicatesHaveCause ==
    ASSUME SingleRelay
    PROVE  Spec => []DuplicatesExplained
<1>1. SingleInv => DuplicatesExplained
  BY DEF SingleInv
<1> QED BY <1>1, SingleInvariant, PTL

\* With one relay, scheduleRetry and markFailed give a row up only after the
\* broker refused it for good or after DefaultMaxRetries rounds that failed.
THEOREM FailuresHaveCause ==
    ASSUME SingleRelay
    PROVE  Spec => []FailedExplained
<1>1. SingleInv => FailedExplained
  BY DEF SingleInv
<1> QED BY <1>1, SingleInvariant, PTL

\* With one relay, the updates of relay.go, which name only the row's id, never
\* change a row that is published.
THEOREM PublishedStays ==
    ASSUME SingleRelay
    PROVE  Spec => PublishedIsFinal
<1>1. SingleInv /\ [Next]_vars => [StaysPublished]_vars
  BY SingleStep
<1>2. PublishedIsFinal <=> [][StaysPublished]_vars
  BY DEF PublishedIsFinal, StaysPublished
<1> QED BY <1>1, <1>2, SingleInvariant, PTL DEF Spec

============================================================================
