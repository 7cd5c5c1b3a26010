--------------------------- MODULE MCConnections ---------------------------
(* Connections for TLC.  Clients, descriptors and workers are each           *)
(* interchangeable; runs with a liveness property use no symmetry.           *)
EXTENDS Connections, TLC

ConnSymmetry ==
    Permutations(Clients) \cup Permutations(Fds) \cup Permutations(Workers)
=============================================================================
