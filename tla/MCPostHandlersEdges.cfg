SPECIFICATION PostFairSpec
CONSTANTS
    Workers = {w1, w2}
    Closer = closer
    Nobody = nobody
    Conns = {m1, m2}
    NoConn = NoConn
    Width = 8
    Names = {n1, n2}
    NoName = NoName
    Times = {t1, t2}
    NoFile = NoFile
INVARIANTS NoDuplicates NamesDoNotRepeat FoundIsThere
\* The process ends when the destructor has; before, it may hang.
CHECK_DEADLOCK FALSE
