SPECIFICATION HeartbeatSpec
CONSTANTS
    Fds = {f1, f2}
    Events = {e1, e2, e3, e4}
    NoEvent = NoEvent
    Width = 8
    Lease = 3
    Garbage = {9}
    Steps = 4
SYMMETRY HeartbeatSymmetry
VIEW HeartbeatView
INVARIANT HasHeartbeat
