-------------------------- MODULE MCConnectionPool --------------------------
EXTENDS ConnectionPool, TLC

PoolSymmetry == Permutations(Workers) \cup Permutations(Conns)
=============================================================================
