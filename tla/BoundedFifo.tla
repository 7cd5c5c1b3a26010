---------------------------- MODULE BoundedFifo ----------------------------
(***************************************************************************)
(* What a BlockQueue promises to the threads that use it: one queue of at   *)
(* most Capacity values; taking one gives the taker the oldest.             *)
(***************************************************************************)
EXTENDS Naturals, Sequences

CONSTANTS Values, Consumers, Capacity

VARIABLES
    queue,      \* the values, oldest first
    taken       \* taken[c]: the last value consumer c took

Insert(v) ==
    /\ Len(queue) < Capacity
    /\ queue' = Append(queue, v)
    /\ UNCHANGED taken

Remove(c) ==
    /\ queue # <<>>
    /\ taken' = [taken EXCEPT ![c] = Head(queue)]
    /\ queue' = Tail(queue)

Empty == queue' = <<>> /\ UNCHANGED taken

Next ==
    \/ \E v \in Values : Insert(v)
    \/ \E c \in Consumers : Remove(c)
    \/ Empty

Spec == queue = <<>> /\ [][Next]_<<queue, taken>>
=============================================================================
