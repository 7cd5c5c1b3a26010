SPECIFICATION Spec
CONSTANTS
    Requests <- MCRequests
    NoBoundary = "none"
    READ_BUFFER_SIZE = 22
INVARIANTS TypeOK VerdictOfBytes FitsIsRead FormOfBody
\* Who sends no more than a part waits for the heartbeat.
CHECK_DEADLOCK FALSE
