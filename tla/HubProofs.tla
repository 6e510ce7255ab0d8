------------------------------ MODULE HubProofs ------------------------------
(***************************************************************************)
(* What the hub of pkg/ws guarantees for any number of connections, IDs,   *)
(* rooms and messages: no goroutine that does not recover from a panic     *)
(* meets a closed channel, and the two records of rooms agree.  Two facts  *)
(* make the invariant inductive: only the hub's loop closes a channel, as  *)
(* readPump ends, and an entry of Hub.clients is a client whose readPump   *)
(* has not ended, filed under its own ID.                                  *)
(***************************************************************************)
EXTENDS Hub, TLAPS

\* readPump has been started and has not ended.
Reading(c) == reader[c] \in {"reading", "posting", "leaving"}

EntryInv ==
    \A i \in Ids : clients[i] # NoClient =>
                      id[clients[i]] = i /\ Reading(clients[i])

ClosedInv == \A c \in Clients : sendClosed[c] => reader[c] = "done"

ConnInv == \A c \in Clients : reader[c] # "none" => conn[c] \in {"open", "closed"}

HubInv == TypeOK /\ EntryInv /\ ClosedInv /\ ConnInv /\ RoomsAgree

\* Queued fills buffers up to their capacity and no further.
LEMMA QueuedType ==
    ASSUME TypeOK, NEW targets
    PROVE  Queued(targets) \in [Clients -> 0..SendBuffer]
BY HubAssumption DEF Queued, TypeOK

LEMMA InitInv == Init => HubInv
BY HubAssumption
   DEF Init, HubInv, TypeOK, EntryInv, ClosedInv, ConnInv, RoomsAgree, Reading

LEMMA TypeStep ==
    ASSUME HubInv, [Next]_vars
    PROVE  TypeOK'
<1> TypeOK
  BY DEF HubInv
<1> USE HubAssumption DEF hubVars, pumpVars, chanVars
<1>1. ASSUME NEW c \in Clients, Upgrade(c) \/ Disconnect(c)
      PROVE  TypeOK'
  BY <1>1 DEF Upgrade, Disconnect, TypeOK
<1>2. ASSUME NEW c \in Clients, Register(c)
      PROVE  TypeOK'
  <2>1. id[c] \in Ids
    BY DEF TypeOK
  <2>2. clients' \in [Ids -> Clients \cup {NoClient}]
    BY <1>2, <2>1 DEF Register, TypeOK
  <2>3. /\ conn' \in [Clients -> {"new", "upgraded", "open", "closed"}]
        /\ reader' \in [Clients -> {"none", "reading", "posting", "leaving", "done"}]
        /\ writer' \in [Clients -> {"none", "running", "done"}]
    BY <1>2 DEF Register, TypeOK
  <2> QED BY <1>2, <2>2, <2>3 DEF Register, TypeOK
<1>3. ASSUME NEW c \in Clients, Unregister(c)
      PROVE  TypeOK'
  <2>1. id[c] \in Ids
    BY DEF TypeOK
  <2>2. clients' \in [Ids -> Clients \cup {NoClient}]
    BY <1>3, <2>1 DEF Unregister, TypeOK
  <2>3. sendClosed' \in [Clients -> BOOLEAN]
    BY <1>3 DEF Unregister, TypeOK
  <2>4. rooms' \in [Rooms -> SUBSET Clients]
    <3>1. rooms \in [Rooms -> SUBSET Clients]
      BY DEF TypeOK
    <3>2. rooms' = rooms \/ rooms' = RoomsWithout(c)
      BY <1>3 DEF Unregister
    <3> QED BY <3>1, <3>2 DEF RoomsWithout
  <2>5. /\ conn' \in [Clients -> {"new", "upgraded", "open", "closed"}]
        /\ reader' \in [Clients -> {"none", "reading", "posting", "leaving", "done"}]
    BY <1>3 DEF Unregister, TypeOK
  <2> QED BY <1>3, <2>2, <2>3, <2>4, <2>5 DEF Unregister, TypeOK
<1>4. ASSUME NEW known \in BOOLEAN, Route(known)
      PROVE  TypeOK'
  <2>1. /\ incoming # <<>>
        /\ incoming' = Tail(incoming)
    BY <1>4 DEF Route
  <2>2. /\ Head(incoming) \in Clients
        /\ incoming' \in Seq(Clients) /\ Len(incoming') <= IncomingBuffer
    BY <2>1 DEF TypeOK
  <2>3. handlers' \in [Clients -> Nat]
    BY <1>4, <2>2 DEF Route, TypeOK
  <2> QED BY <1>4, <2>2, <2>3 DEF Route, TypeOK
<1>5. ASSUME NEW c \in Clients, NEW valid \in BOOLEAN, ReadMessage(c, valid)
      PROVE  TypeOK'
  BY <1>5, QueuedType DEF ReadMessage, TypeOK
<1>6. ASSUME NEW c \in Clients, Post(c)
      PROVE  TypeOK'
  <2>1. /\ Len(incoming) < IncomingBuffer
        /\ incoming' = Append(incoming, c)
    BY <1>6 DEF Post
  <2>2. incoming' \in Seq(Clients) /\ Len(incoming') <= IncomingBuffer
    BY <2>1 DEF TypeOK
  <2> QED BY <1>6, <2>2 DEF Post, TypeOK
<1>7. ASSUME NEW c \in Clients, ReadError(c)
      PROVE  TypeOK'
  BY <1>7 DEF ReadError, TypeOK
<1>8. ASSUME NEW c \in Clients, WritePump(c)
      PROVE  TypeOK'
  <2>1. send' \in [Clients -> 0..SendBuffer]
    <3>1. send \in [Clients -> 0..SendBuffer]
      BY DEF TypeOK
    <3>2. CASE Write(c)
      BY <3>1, <3>2 DEF Write
    <3>3. CASE WriteClose(c) \/ PingError(c)
      BY <3>1, <3>3 DEF WriteClose, PingError
    <3> QED BY <1>8, <3>2, <3>3 DEF WritePump
  <2>2. /\ conn' \in [Clients -> {"new", "upgraded", "open", "closed"}]
        /\ writer' \in [Clients -> {"none", "running", "done"}]
    BY <1>8 DEF WritePump, Write, WriteClose, PingError, TypeOK
  <2> QED
    BY <1>8, <2>1, <2>2 DEF WritePump, Write, WriteClose, PingError, TypeOK
<1>9. ASSUME NEW c \in Clients, NEW r \in Rooms, JoinRoom(c, r) \/ LeaveRoom(c, r)
      PROVE  TypeOK'
  <2>1. rooms' \in [Rooms -> SUBSET Clients] /\ joined' \in [Clients -> SUBSET Rooms]
    <3>1. rooms \in [Rooms -> SUBSET Clients] /\ joined \in [Clients -> SUBSET Rooms]
      BY DEF TypeOK
    <3>2. CASE JoinRoom(c, r)
      BY <3>1, <3>2 DEF JoinRoom
    <3>3. CASE LeaveRoom(c, r)
      BY <3>1, <3>3 DEF LeaveRoom
    <3> QED BY <1>9, <3>2, <3>3
  <2> QED BY <1>9, <2>1 DEF JoinRoom, LeaveRoom, TypeOK
<1>10. ASSUME NEW c \in Clients, Reply(c) \/ HandlerDone(c)
       PROVE  TypeOK'
  <2>1. handlers' \in [Clients -> Nat]
    <3>1. handlers \in [Clients -> Nat] /\ handlers[c] > 0
      BY <1>10 DEF Reply, HandlerDone, HandlerOf, TypeOK
    <3>2. handlers' = handlers \/ handlers' = [handlers EXCEPT ![c] = @ - 1]
      BY <1>10 DEF Reply, HandlerDone
    <3> QED BY <3>1, <3>2
  <2>2. send' \in [Clients -> 0..SendBuffer]
    BY <1>10, QueuedType DEF Reply, HandlerDone, TypeOK
  <2> QED BY <1>10, <2>1, <2>2 DEF Reply, HandlerDone, TypeOK
<1>11. ASSUME NEW targets, SendAll(targets)
       PROVE  TypeOK'
  BY <1>11, QueuedType DEF SendAll, TypeOK
<1>12. ASSUME NEW i \in Ids, SendTo(i)
       PROVE  TypeOK'
  BY <1>12 DEF SendTo, TypeOK
<1>13. ASSUME NEW c \in Clients, SendFound(c)
       PROVE  TypeOK'
  <2>1. send' \in [Clients -> 0..SendBuffer] /\ found' \subseteq Clients
    BY <1>13, QueuedType DEF SendFound, TypeOK
  <2> QED BY <1>13, <2>1 DEF SendFound, TypeOK
<1>14. CASE UNCHANGED vars
  BY <1>14 DEF vars, TypeOK
<1> QED
  BY <1>1, <1>2, <1>3, <1>4, <1>5, <1>6, <1>7, <1>8, <1>9, <1>10, <1>11, <1>12,
     <1>13, <1>14
     DEF Next, HubStep, Application, ReadPump, Handler, Broadcast,
         BroadcastToRoom, BroadcastToRoomExcept

\* A step that leaves the map, the rooms, the pumps and the closed channels
\* alone keeps the invariant, whatever it queues.
LEMMA QuietStep ==
    ASSUME HubInv,
           clients' = clients, rooms' = rooms, joined' = joined, conn' = conn,
           reader' = reader, sendClosed' = sendClosed, id' = id
    PROVE  EntryInv' /\ ClosedInv' /\ ConnInv' /\ RoomsAgree'
BY DEF HubInv, EntryInv, ClosedInv, ConnInv, RoomsAgree, Reading

LEMMA InvStep ==
    ASSUME HubInv, [Next]_vars
    PROVE  HubInv'
<1> TypeOK /\ TypeOK'
  BY TypeStep DEF HubInv
<1> DEFINE Rest == EntryInv' /\ ClosedInv' /\ ConnInv' /\ RoomsAgree'
<1> USE DEF hubVars, pumpVars, chanVars
<1>1. ASSUME NEW c \in Clients, Upgrade(c) \/ Disconnect(c)
      PROVE  Rest
  <2>1. CASE Upgrade(c)
    BY <2>1 DEF Upgrade, HubInv, TypeOK, EntryInv, ClosedInv, ConnInv, RoomsAgree, Reading
  <2>2. CASE Disconnect(c)
    BY <2>2 DEF Disconnect, HubInv, TypeOK, EntryInv, ClosedInv, ConnInv, RoomsAgree, Reading
  <2> QED BY <1>1, <2>1, <2>2
<1>2. ASSUME NEW c \in Clients, Register(c)
      PROVE  Rest
  <2>1. reader[c] = "none" /\ ~sendClosed[c]
    BY <1>2 DEF Register, HubInv, TypeOK, ConnInv, ClosedInv
  <2>2. EntryInv'
    BY <1>2, HubAssumption DEF Register, HubInv, TypeOK, EntryInv, Reading
  <2> QED
    BY <1>2, <2>1, <2>2 DEF Register, HubInv, TypeOK, ClosedInv, ConnInv, RoomsAgree
<1>3. ASSUME NEW c \in Clients, Unregister(c)
      PROVE  Rest
  <2>1. reader[c] = "leaving" /\ id[c] \in Ids /\ id' = id /\ joined' = joined
    BY <1>3 DEF Unregister, TypeOK
  <2>2. reader' = [reader EXCEPT ![c] = "done"]
    BY <1>3 DEF Unregister
  <2>3. EntryInv'
    <3>1. clients'[id[c]] = NoClient
      BY <1>3, <2>1 DEF Unregister, TypeOK
    <3>2. ASSUME NEW i \in Ids, clients'[i] # NoClient
          PROVE  id[clients'[i]] = i /\ clients'[i] # c /\ Reading(clients'[i])
      <4>1. clients'[i] = clients[i] /\ i # id[c]
        BY <1>3, <2>1, <3>1, <3>2 DEF Unregister, TypeOK
      <4> QED BY <3>2, <4>1 DEF HubInv, EntryInv
    <3> QED BY <2>1, <2>2, <3>2 DEF EntryInv, Reading, TypeOK
  <2>4. ClosedInv' /\ ConnInv'
    BY <1>3 DEF Unregister, HubInv, TypeOK, ClosedInv, ConnInv
  <2>5. RoomsAgree'
    BY <1>3 DEF Unregister, RoomsWithout, HubInv, TypeOK, RoomsAgree
  <2> QED BY <2>3, <2>4, <2>5
<1>4. ASSUME NEW c \in Clients, ReadPump(c)
      PROVE  Rest
  <2>1. reader[c] # "none" /\ Reading(c)
    BY <1>4 DEF ReadPump, Post, ReadError, ReadMessage, Reading
  <2>2. /\ reader' = [reader EXCEPT ![c] = reader'[c]]
        /\ Reading(c)' /\ reader'[c] # "none"
        /\ clients' = clients /\ rooms' = rooms /\ joined' = joined
        /\ conn' = conn /\ sendClosed' = sendClosed /\ id' = id
    BY <1>4 DEF ReadPump, Post, ReadError, ReadMessage, Reading, TypeOK
  <2>3. ASSUME NEW d \in Clients
        PROVE  /\ Reading(d) => reader'[d] \in {"reading", "posting", "leaving"}
               /\ d # c => reader'[d] = reader[d]
    BY <2>2 DEF Reading, TypeOK
  <2>4. EntryInv'
    <3>1. \A i \in Ids : clients[i] # NoClient => clients[i] \in Clients
      BY DEF TypeOK
    <3>2. ASSUME NEW i \in Ids, clients[i] # NoClient
          PROVE  /\ id[clients[i]] = i
                 /\ reader'[clients[i]] \in {"reading", "posting", "leaving"}
      <4>1. id[clients[i]] = i /\ Reading(clients[i])
        BY <3>2 DEF HubInv, EntryInv
      <4>2. clients[i] \in Clients
        BY <3>1, <3>2
      <4> QED BY <2>3, <4>1, <4>2
    <3> QED BY <2>2, <3>2 DEF EntryInv, Reading
  <2>5. ClosedInv' /\ ConnInv'
    BY <2>1, <2>2, <2>3 DEF HubInv, ClosedInv, ConnInv, Reading
  <2>6. RoomsAgree'
    BY <2>2 DEF HubInv, RoomsAgree
  <2> QED BY <2>4, <2>5, <2>6
<1>5. ASSUME NEW c \in Clients, WritePump(c)
      PROVE  Rest
  <2>1. /\ clients' = clients /\ rooms' = rooms /\ joined' = joined
        /\ reader' = reader /\ sendClosed' = sendClosed /\ id' = id
    BY <1>5 DEF WritePump, Write, WriteClose, PingError
  <2>2. \A d \in Clients : conn'[d] = conn[d] \/ conn'[d] = "closed"
    BY <1>5 DEF WritePump, Write, WriteClose, PingError, TypeOK
  <2> QED
    BY <2>1, <2>2 DEF HubInv, EntryInv, ClosedInv, ConnInv, RoomsAgree, Reading
<1>6. ASSUME NEW c \in Clients, NEW r \in Rooms, JoinRoom(c, r) \/ LeaveRoom(c, r)
      PROVE  Rest
  <2>1. RoomsAgree'
    <3>1. CASE JoinRoom(c, r)
      BY <3>1 DEF JoinRoom, HubInv, TypeOK, RoomsAgree
    <3>2. CASE LeaveRoom(c, r)
      BY <3>2 DEF LeaveRoom, HubInv, TypeOK, RoomsAgree
    <3> QED BY <1>6, <3>1, <3>2
  <2> QED
    BY <1>6, <2>1
       DEF JoinRoom, LeaveRoom, HubInv, EntryInv, ClosedInv, ConnInv, Reading
<1>7. ASSUME NEW c \in Clients, Reply(c) \/ HandlerDone(c)
      PROVE  Rest
  BY <1>7, QuietStep DEF Reply, HandlerDone
<1>8. ASSUME Application \/ \E known \in BOOLEAN : Route(known)
      PROVE  Rest
  BY <1>8, QuietStep
     DEF Application, Broadcast, BroadcastToRoom, BroadcastToRoomExcept, SendAll,
         SendTo, SendFound, Route
<1>9. ASSUME UNCHANGED vars
      PROVE  Rest
  BY <1>9, QuietStep DEF vars
<1>10. Rest
  BY <1>1, <1>2, <1>3, <1>4, <1>5, <1>6, <1>7, <1>8, <1>9
     DEF Next, HubStep, Handler
<1> QED BY <1>10 DEF HubInv

LEMMA HubInvariant == Spec => []HubInv
<1>1. HubInv /\ [Next]_vars => HubInv'
  BY InvStep
<1> QED BY <1>1, InitInv, PTL DEF Spec

\* However many connections share an ID and unregister each other's entries,
\* a Broadcast finds only open channels, and readPump's own Send and the close
\* in the hub's loop (hub.go) find theirs open.
THEOREM HubSafe == Spec => [](TypeOK /\ RegisteredOpen /\ ReaderSafe)
<1>1. HubInv => TypeOK /\ RegisteredOpen /\ ReaderSafe
  <2> SUFFICES ASSUME HubInv
               PROVE  RegisteredOpen /\ ReaderSafe
    BY DEF HubInv
  <2>1. \A i \in Ids : clients[i] # NoClient => clients[i] \in Clients
    BY DEF HubInv, TypeOK
  <2>2. ReaderSafe
    BY DEF HubInv, ClosedInv, ReaderSafe
  <2> QED BY <2>1, <2>2 DEF HubInv, EntryInv, ReaderSafe, RegisteredOpen, Reading
<1> QED BY <1>1, HubInvariant, PTL

\* The hub's rooms and each client's own record of them agree after any joins,
\* leaves and unregisterings (hub.go, JoinRoom, LeaveRoom and run).
THEOREM RoomRecordsAgree == Spec => []RoomsAgree
<1>1. HubInv => RoomsAgree
  BY DEF HubInv
<1> QED BY <1>1, HubInvariant, PTL

==============================================================================
