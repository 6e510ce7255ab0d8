\* Two connections, of one user or of two.
CONSTANTS
    c1 = c1
    c2 = c2
    u = u
    v = v
    NoClient = NoClient
    Clients <- TwoClients
    Ids <- TwoIds
    Rooms = {lobby}
    SendBuffer = 1
    IncomingBuffer = 1
    MaxMessages = 2
SPECIFICATION FairSpec
INVARIANTS ReaderSafe RoomsAgree
PROPERTY PumpsEnd
