SPECIFICATION Spec
CONSTANTS
    Fds = {f1, f2}
    ListenFd = listenfd
    NoFd = NoFd
    Clients = {c1, c2}
    NoClient = NoClient
    Workers = {w1, w2}
    MAX_FD = 1
    MaxRequests = 2
    BufferSize = 2
    ReplySize = 2
    MaxPieces = 2
    MaxAsks = 1
    BusyHeartbeat = TRUE
    ComposeMayFail = FALSE
    PlainReplies = FALSE
SYMMETRY ConnSymmetry
INVARIANT
    OneThreadPerConnection
\* A client need not send anything, so the server may wait for ever.
CHECK_DEADLOCK FALSE
