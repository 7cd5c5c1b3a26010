SPECIFICATION Spec
CONSTANTS
    Fds = {f1, f2, f3}
    ListenFd = listenfd
    NoFd = NoFd
    Clients = {c1, c2}
    NoClient = NoClient
    Workers = {w1, w2}
    MAX_FD = 2
    MaxRequests = 2
    BufferSize = 2
    ReplySize = 2
    MaxPieces = 2
    MaxAsks = 1
    BusyHeartbeat = FALSE
    ComposeMayFail = TRUE
    PlainReplies = FALSE
SYMMETRY ConnSymmetry
INVARIANT
    EveryUserCounted
\* A client need not send anything, so the server may wait for ever.
CHECK_DEADLOCK FALSE
