--------------------------- MODULE MCThreadPool ---------------------------
(* ThreadPool for TLC.  Workers and requests are interchangeable; symmetry   *)
(* is used only by the run that checks no liveness.                          *)
EXTENDS ThreadPool, TLC

PoolSymmetry == Permutations(Workers) \cup Permutations(Requests)
=============================================================================
