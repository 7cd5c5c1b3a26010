SPECIFICATION PostFairSpec
CONSTANTS
    Workers = {w1, w2, w3}
    Closer = closer
    Nobody = nobody
    Conns = {m1}
    NoConn = NoConn
    Width = 8
    Names = {n1}
    NoName = NoName
    Times = {t1}
    NoFile = NoFile
PROPERTY WaitersAreServed
\* The process ends when the destructor has; before, it may hang.
CHECK_DEADLOCK FALSE
