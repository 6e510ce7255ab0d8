-------------------------------- MODULE Hub --------------------------------
(***************************************************************************)
(* The WebSocket hub of pkg/ws: the event loop and the calls of hub.go,    *)
(* the pumps of client.go and the upgrade of handler.go.  A client is one  *)
(* connection; connections may share an ID (two tabs of one user, or no    *)
(* AuthFunc).  A send on a closed channel panics.  Message handlers and    *)
(* HTTP handlers recover from a panic; the hub's loop and the pumps do     *)
(* not, so there it ends the process.  What is sent is abstracted to the   *)
(* number of messages in a client's send buffer; a message that cannot be  *)
(* marshalled is not sent and is left out, and so are metadata and the     *)
(* table of handlers, which no step here depends on.                       *)
(***************************************************************************)
EXTENDS Naturals, Sequences

CONSTANTS Clients, NoClient, Rooms,
          Ids,         \* what AuthFunc returns
          SendBuffer,  \* capacity of client.send
          IncomingBuffer, \* capacity of hub.incoming
          MaxMessages  \* bound: messages read from all connections

ASSUME HubAssumption ==
    /\ NoClient \notin Clients
    /\ SendBuffer \in Nat \ {0}
    /\ IncomingBuffer \in Nat \ {0}
    /\ MaxMessages \in Nat

VARIABLES clients,    \* Hub.clients: ID -> client
          rooms,      \* Hub.rooms: room -> members ({}: no entry)
          joined,     \* client -> Client.rooms
          incoming,   \* Hub.incoming
          conn,       \* client -> "new", "upgraded", "open", "closed"
          reader,     \* client -> where readPump is
          writer,     \* client -> where writePump is
          send,       \* client -> messages in client.send
          sendClosed, \* client -> client.send is closed
          handlers,   \* client -> message handlers running for it
          found,      \* clients that a SendTo has looked up
          received,   \* messages read so far
          id          \* Client.ID

hubVars  == <<clients, rooms, joined, incoming>>
pumpVars == <<conn, reader, writer>>
chanVars == <<send, sendClosed>>
vars == <<clients, rooms, joined, incoming, conn, reader, writer, send,
          sendClosed, handlers, found,
                   received, id>>

TypeOK ==
    /\ clients \in [Ids -> Clients \cup {NoClient}]
    /\ rooms \in [Rooms -> SUBSET Clients]
    /\ joined \in [Clients -> SUBSET Rooms]
    /\ incoming \in Seq(Clients) /\ Len(incoming) <= IncomingBuffer
    /\ conn \in [Clients -> {"new", "upgraded", "open", "closed"}]
    /\ reader \in [Clients -> {"none", "reading", "posting", "leaving", "done"}]
    /\ writer \in [Clients -> {"none", "running", "done"}]
    /\ send \in [Clients -> 0..SendBuffer]
    /\ sendClosed \in [Clients -> BOOLEAN]
    /\ handlers \in [Clients -> Nat]
    /\ found \subseteq Clients
    /\ received \in 0..MaxMessages
    /\ id \in [Clients -> Ids]

\* NewHub, and the ID that each connection will be given.
Init ==
    /\ clients = [i \in Ids |-> NoClient]
    /\ rooms = [r \in Rooms |-> {}]
    /\ joined = [c \in Clients |-> {}]
    /\ incoming = <<>>
    /\ conn = [c \in Clients |-> "new"]
    /\ reader = [c \in Clients |-> "none"]
    /\ writer = [c \in Clients |-> "none"]
    /\ send = [c \in Clients |-> 0]
    /\ sendClosed = [c \in Clients |-> FALSE]
    /\ handlers = [c \in Clients |-> 0]
    /\ found = {}
    /\ received = 0
    /\ id \in [Clients -> Ids]

----------------------------------------------------------------------------
\* UpgradeHandler has upgraded the connection and waits in hub.register.
Upgrade(c) ==
    /\ conn[c] = "new"
    /\ conn' = [conn EXCEPT ![c] = "upgraded"]
    /\ UNCHANGED <<hubVars, reader, writer, chanVars, handlers, found,
                   received, id>>

\* The hub's loop takes the client, replacing an entry with the same ID; the
\* pumps start.
Register(c) ==
    /\ conn[c] = "upgraded"
    /\ clients' = [clients EXCEPT ![id[c]] = c]
    /\ conn' = [conn EXCEPT ![c] = "open"]
    /\ reader' = [reader EXCEPT ![c] = "reading"]
    /\ writer' = [writer EXCEPT ![c] = "running"]
    /\ UNCHANGED <<rooms, joined, incoming, chanVars, handlers, found,
                   received, id>>

\* The rooms after c has left all the rooms it knows of.
RoomsWithout(c) ==
    [r \in Rooms |-> IF r \in joined[c] THEN rooms[r] \ {c} ELSE rooms[r]]

\* Mutant of Unregister: it closes the channel of the client it finds under
\* the ID.
UnregisterFound(c) ==
    /\ reader[c] = "leaving"
    /\ IF clients[id[c]] # NoClient
       THEN /\ clients' = [clients EXCEPT ![id[c]] = NoClient]
            /\ sendClosed' = [sendClosed EXCEPT ![clients[id[c]]] = TRUE]
            /\ rooms' = RoomsWithout(c)
       ELSE UNCHANGED <<clients, sendClosed, rooms>>
    /\ reader' = [reader EXCEPT ![c] = "done"]
    /\ conn' = [conn EXCEPT ![c] = "closed"]
    /\ UNCHANGED <<joined, incoming, writer, send, handlers, found,
                   received, id>>

\* The hub's loop takes the client from hub.unregister.  The entry under its
\* ID may be another client's; without an entry nothing happens.  readPump
\* then closes the connection and ends.
Unregister(c) ==
    /\ reader[c] = "leaving"
    /\ IF clients[id[c]] # NoClient
       THEN /\ clients' = [clients EXCEPT ![id[c]] = NoClient]
            /\ sendClosed' = [sendClosed EXCEPT ![c] = TRUE]
            /\ rooms' = RoomsWithout(c)
       ELSE UNCHANGED <<clients, sendClosed, rooms>>
    /\ reader' = [reader EXCEPT ![c] = "done"]
    /\ conn' = [conn EXCEPT ![c] = "closed"]
    /\ UNCHANGED <<joined, incoming, writer, send, handlers, found,
                   received, id>>

\* The hub's loop takes a message and starts its handler.  A message without
\* a handler is dropped.
Route(known) ==
    /\ incoming # <<>>
    /\ incoming' = Tail(incoming)
    /\ handlers' = IF known THEN [handlers EXCEPT ![Head(incoming)] = @ + 1]
                            ELSE handlers
    /\ UNCHANGED <<clients, rooms, joined, pumpVars, chanVars, found,
                   received, id>>

----------------------------------------------------------------------------
\* The peer goes away, or misses its pong deadline.
Disconnect(c) ==
    /\ conn[c] = "open"
    /\ conn' = [conn EXCEPT ![c] = "closed"]
    /\ UNCHANGED <<hubVars, reader, writer, chanVars, handlers, found,
                   received, id>>

\* A queued message, dropped when the buffer is full.
Queued(targets) ==
    [c \in Clients |-> IF c \in targets /\ send[c] < SendBuffer
                       THEN send[c] + 1 ELSE send[c]]

\* readPump reads a message: a valid one goes to the hub, an invalid one is
\* answered with an error.  ReaderSafe says that this Send finds the channel
\* open.
ReadMessage(c, valid) ==
    /\ reader[c] = "reading"
    /\ conn[c] = "open"
    /\ received < MaxMessages
    /\ received' = received + 1
    /\ reader' = [reader EXCEPT ![c] = IF valid THEN "posting" ELSE @]
    /\ send' = IF valid \/ sendClosed[c] THEN send ELSE Queued({c})
    /\ UNCHANGED <<hubVars, conn, writer, sendClosed, handlers, found, id>>

\* hub.incoming takes the message; while it is full readPump waits.
Post(c) ==
    /\ reader[c] = "posting"
    /\ Len(incoming) < IncomingBuffer
    /\ incoming' = Append(incoming, c)
    /\ reader' = [reader EXCEPT ![c] = "reading"]
    /\ UNCHANGED <<clients, rooms, joined, conn, writer, chanVars, handlers,
                   found, received, id>>

\* ReadMessage fails; readPump's defer waits in hub.unregister.
ReadError(c) ==
    /\ reader[c] = "reading"
    /\ conn[c] = "closed"
    /\ reader' = [reader EXCEPT ![c] = "leaving"]
    /\ UNCHANGED <<hubVars, conn, writer, chanVars, handlers, found,
                   received, id>>

\* writePump writes a message; a write to a closed connection ends it.
Write(c) ==
    /\ writer[c] = "running"
    /\ send[c] > 0
    /\ send' = [send EXCEPT ![c] = @ - 1]
    /\ writer' = [writer EXCEPT ![c] = IF conn[c] = "open" THEN @ ELSE "done"]
    /\ UNCHANGED <<hubVars, conn, reader, sendClosed, handlers, found,
                   received, id>>

\* writePump finds the channel closed and drained, says goodbye and ends.
WriteClose(c) ==
    /\ writer[c] = "running"
    /\ send[c] = 0
    /\ sendClosed[c]
    /\ writer' = [writer EXCEPT ![c] = "done"]
    /\ conn' = [conn EXCEPT ![c] = "closed"]
    /\ UNCHANGED <<hubVars, reader, chanVars, handlers, found,
                   received, id>>

\* Mutant of PingError: a failed ping is ignored.
PingIgnored(c) == FALSE /\ UNCHANGED vars

\* A ping to a closed connection fails and ends writePump.
PingError(c) ==
    /\ writer[c] = "running"
    /\ conn[c] = "closed"
    /\ writer' = [writer EXCEPT ![c] = "done"]
    /\ UNCHANGED <<hubVars, conn, reader, chanVars, handlers, found,
                   received, id>>

----------------------------------------------------------------------------
\* A message handler of c is at work: it may call the hub any number of times.
HandlerOf(c) == handlers[c] > 0

JoinRoom(c, r) ==
    /\ HandlerOf(c)
    /\ rooms' = [rooms EXCEPT ![r] = @ \cup {c}]
    /\ joined' = [joined EXCEPT ![c] = @ \cup {r}]
    /\ UNCHANGED <<clients, incoming, pumpVars, chanVars, handlers, found,
                   received, id>>

\* Mutant of LeaveRoom: the client's own set is forgotten.
LeaveRoomHalf(c, r) ==
    /\ HandlerOf(c)
    /\ rooms' = [rooms EXCEPT ![r] = @ \ {c}]
    /\ UNCHANGED <<clients, joined, incoming, pumpVars, chanVars, handlers,
                   found, received, id>>

LeaveRoom(c, r) ==
    /\ HandlerOf(c)
    /\ rooms' = [rooms EXCEPT ![r] = @ \ {c}]
    /\ joined' = [joined EXCEPT ![c] = @ \ {r}]
    /\ UNCHANGED <<clients, incoming, pumpVars, chanVars, handlers, found,
                   received, id>>

\* The handler answers its client.  If the channel is closed the handler
\* panics and is recovered.
Reply(c) ==
    /\ HandlerOf(c)
    /\ send' = IF sendClosed[c] THEN send ELSE Queued({c})
    /\ handlers' = IF sendClosed[c] THEN [handlers EXCEPT ![c] = @ - 1]
                                    ELSE handlers
    /\ UNCHANGED <<hubVars, pumpVars, sendClosed, found, received, id>>

\* The handler returns.
HandlerDone(c) ==
    /\ HandlerOf(c)
    /\ handlers' = [handlers EXCEPT ![c] = @ - 1]
    /\ UNCHANGED <<hubVars, pumpVars, chanVars, found, received, id>>

\* Calls from anywhere in the application.  A closed channel among the
\* targets stops the loop over the map after any part of the others.
SendAll(targets) ==
    /\ \E reached \in SUBSET {c \in targets : ~sendClosed[c]} :
          /\ (\A c \in targets : ~sendClosed[c]) => reached = targets
          /\ send' = Queued(reached)
    /\ UNCHANGED <<hubVars, pumpVars, sendClosed, handlers, found,
                   received, id>>

Broadcast == SendAll({clients[i] : i \in Ids} \ {NoClient})

BroadcastToRoom(r) == SendAll(rooms[r])

BroadcastToRoomExcept(r, i) == SendAll({c \in rooms[r] : id[c] # i})

\* SendTo looks the client up and lets go of the lock.  Lookups of the same
\* client by several callers are one member of found.
SendTo(i) ==
    /\ clients[i] # NoClient
    /\ found' = found \cup {clients[i]}
    /\ UNCHANGED <<hubVars, pumpVars, chanVars, handlers, received, id>>

\* ... and sends, which panics in the caller if c has gone in between.
SendFound(c) ==
    /\ c \in found
    /\ found' = found \ {c}
    /\ send' = IF sendClosed[c] THEN send ELSE Queued({c})
    /\ UNCHANGED <<hubVars, pumpVars, sendClosed, handlers, received, id>>

----------------------------------------------------------------------------
HubStep ==
    \/ \E c \in Clients : Register(c) \/ Unregister(c)
    \/ \E known \in BOOLEAN : Route(known)

ReadPump(c) ==
    Post(c) \/ ReadError(c) \/ \E valid \in BOOLEAN : ReadMessage(c, valid)

WritePump(c) == Write(c) \/ WriteClose(c) \/ PingError(c)

Handler(c) ==
    \/ Reply(c) \/ HandlerDone(c)
    \/ \E r \in Rooms : JoinRoom(c, r) \/ LeaveRoom(c, r)

Application ==
    \/ Broadcast
    \/ \E r \in Rooms :
          BroadcastToRoom(r) \/ \E i \in Ids : BroadcastToRoomExcept(r, i)
    \/ \E i \in Ids : SendTo(i)
    \/ \E c \in Clients : SendFound(c)

Next ==
    \/ HubStep \/ Application
    \/ \E c \in Clients :
          Upgrade(c) \/ Disconnect(c) \/ ReadPump(c) \/ WritePump(c) \/ Handler(c)

Spec == Init /\ [][Next]_vars

\* The loop's select is fair between its channels; the pumps are scheduled,
\* and pings are sent.  Nothing is assumed of handlers, callers and peers.
FairSpec ==
    /\ Spec
    /\ WF_vars(\E known \in BOOLEAN : Route(known))
    /\ \A c \in Clients :
          /\ WF_vars(Unregister(c)) /\ WF_vars(Post(c)) /\ WF_vars(ReadError(c))
          /\ WF_vars(PingError(c))

----------------------------------------------------------------------------
\* Every client a Broadcast can find has an open channel, also when
\* connections share an ID and unregister each other's entries.
RegisteredOpen ==
    \A i \in Ids : clients[i] # NoClient => ~sendClosed[clients[i]]

\* No unrecovered goroutine meets a closed channel: readPump's own Send and
\* the close in the hub's loop find the channel open.
ReaderSafe ==
    \A c \in Clients : reader[c] \in {"reading", "posting", "leaving"} =>
                          ~sendClosed[c]

\* The two records of who is in which room agree: Hub.rooms never has a
\* member that does not know it, and a connected client is in every room it
\* has joined.
RoomsAgree ==
    \A c \in Clients, r \in Rooms :
        /\ c \in rooms[r] => r \in joined[c]
        /\ r \in joined[c] /\ ~sendClosed[c] => c \in rooms[r]

\* A connection that is closed gives up both its goroutines, also when the
\* hub has no entry for it any more and never closes its channel.
PumpsEnd ==
    \A c \in Clients :
        conn[c] = "closed" ~> reader[c] = "done" /\ writer[c] = "done"

============================================================================
