SPECIFICATION HeartbeatSpec
CONSTANTS
    Fds = {f1, f2}
    Events = {e1, e2, e3, e4}
    NoEvent = NoEvent
    Width = 5
    Lease = 2
    Garbage <- SomeGarbage
    Steps = 3
SYMMETRY HeartbeatSymmetry
VIEW HeartbeatView
INVARIANTS HeartbeatTypeOK SoundUntilWild
PROPERTIES TickExact TickClosesTheIdle
\* After a write before the heap the program may crash.
CHECK_DEADLOCK FALSE
