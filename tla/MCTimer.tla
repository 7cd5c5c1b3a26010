------------------------------ MODULE MCTimer ------------------------------
EXTENDS Timer, TLC

(* Events differ in nothing but their names. *)
EventSymmetry == Permutations(Events)
=============================================================================
