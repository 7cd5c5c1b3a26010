----------------------------- MODULE Deadlines -----------------------------
(***************************************************************************)
(* What the timer of timer/Timer.h promises to who respects it: a set of    *)
(* pending events, each with the time it expires at.  Ticking removes       *)
(* exactly the expired ones, extending one changes no other, and an event   *)
(* that is not pending is inserted.  Timer implements it with a binary heap *)
(* whose events know their own positions.                                   *)
(***************************************************************************)
EXTENDS Integers

CONSTANTS Events, Width, Lease

VARIABLES pending, time, now

Ticks(n) == (now + n) % Width

Init == pending = {} /\ time = [e \in Events |-> 0] /\ now = 0

Add(e) ==
    /\ e \notin pending
    /\ pending' = pending \cup {e}
    /\ time' = [time EXCEPT ![e] = now]
    /\ UNCHANGED now

Delete(e) ==
    /\ e \in pending
    /\ pending' = pending \ {e}
    /\ UNCHANGED <<time, now>>

Extend(e) ==
    /\ pending' = pending \cup {e}
    /\ time' = [time EXCEPT ![e] = Ticks(Lease)]
    /\ UNCHANGED now

Tick ==
    /\ pending' = {e \in pending : time[e] > now}
    /\ UNCHANGED <<time, now>>

Pass == now' = Ticks(1) /\ UNCHANGED <<pending, time>>

Next ==
    \/ \E e \in Events : Add(e) \/ Delete(e) \/ Extend(e)
    \/ Tick
    \/ Pass

Spec == Init /\ [][Next]_<<pending, time, now>>
=============================================================================
