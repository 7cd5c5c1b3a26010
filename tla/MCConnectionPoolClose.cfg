SPECIFICATION FairSpec
CONSTANTS
    Workers = {w1, w2}
    Closer = closer
    Nobody = nobody
    Conns = {m1}
    NoConn = NoConn
    Width = 8
PROPERTY DestructorEnds
\* The process ends when the destructor has; before, it may hang.
CHECK_DEADLOCK FALSE
