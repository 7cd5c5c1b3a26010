SPECIFICATION ServerFairSpec
CONSTANTS
    Writer = writer
    Main = main
    NoBody = nobody
    NoFile = nofile
    MaxLines = 4
    QueueSize = 2
    CreateMayFail = FALSE
    MaxMessages = 2
    MaxDays = 1
    MaxInterrupts = 1
PROPERTY StopEnds
\* After the alarm and the interrupts, or with a mutex never unlocked, all stop.
CHECK_DEADLOCK FALSE
