SPECIFICATION Spec
CONSTANTS
    Workers = {w1, w2}
    Closer = closer
    Nobody = nobody
    Conns = {m1}
    NoConn = NoConn
    Width = 8
SYMMETRY PoolSymmetry
INVARIANT FreeIsInRange
\* The process ends when the destructor has; before, it may hang.
CHECK_DEADLOCK FALSE
