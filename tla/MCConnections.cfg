SPECIFICATION FairSpec
CONSTANTS
    Fds = {f1, f2, f3}
    ListenFd = listenfd
    NoFd = NoFd
    Clients = {c1, c2}
    NoClient = NoClient
    Workers = {w1, w2}
    MAX_FD = 2
    MaxRequests = 2
    BufferSize = 2
    ReplySize = 2
    MaxPieces = 2
    MaxAsks = 1
    BusyHeartbeat = FALSE
    ComposeMayFail = FALSE
    PlainReplies = FALSE
INVARIANTS RightReply NobodyCrossed
PROPERTY RequestAnswered
\* A client need not send anything, so the server may wait for ever.
CHECK_DEADLOCK FALSE
