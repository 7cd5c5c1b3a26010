SPECIFICATION ServerFairSpec
CONSTANTS
    Writer = writer
    Main = main
    NoBody = nobody
    NoFile = nofile
    MaxLines = 4
    QueueSize = 2
    CreateMayFail = TRUE
    MaxMessages = 6
    MaxDays = 2
    MaxInterrupts = 2
INVARIANTS ServerTypeOK InOrder FilesKept OneTick
PROPERTIES LinesAreWritten SignalsAreHeard
\* After the alarm and the interrupts, or with a mutex never unlocked, all stop.
CHECK_DEADLOCK FALSE
