SPECIFICATION Spec
CONSTANTS
    Fds = {f1, f2, f3}
    ListenFd = listenfd
    NoFd = NoFd
    Clients = {c1, c2, c3}
    NoClient = NoClient
    Workers = {w1, w2}
    MAX_FD = 2
    MaxRequests = 1
    BufferSize = 1
    ReplySize = 1
    MaxPieces = 1
    MaxAsks = 1
    BusyHeartbeat = TRUE
    ComposeMayFail = TRUE
    PlainReplies = TRUE
SYMMETRY ConnSymmetry
INVARIANTS TypeOK NoEmptyHands NoneForgotten ObjectOwnsDescriptor OneHolder CountExact
PROPERTY WorkerAlone
\* A client need not send anything, so the server may wait for ever.
CHECK_DEADLOCK FALSE
