---------------------------- MODULE MCBlockQueue ----------------------------
EXTENDS BlockQueue, TLC

QueueSymmetry == Permutations(Values) \cup Permutations(Consumers)
=============================================================================
