SPECIFICATION PostSpec
CONSTANTS
    Workers = {w1, w2, w3}
    Closer = closer
    Nobody = nobody
    Conns = {m1, m2}
    NoConn = NoConn
    Width = 8
    Names = {n1}
    NoName = NoName
    Times = {t1, t2}
    NoFile = NoFile
SYMMETRY Symmetry
INVARIANTS PostTypeOK OneUser CountsSettle QueueSound CopiesBounded RowsHaveImages
PROPERTY ConnectionsInTurn
\* The process ends when the destructor has; before, it may hang.
CHECK_DEADLOCK FALSE
