---------------------------- MODULE MCHeartbeat ----------------------------
EXTENDS Heartbeat, TLC

HeartbeatSymmetry == Permutations(Events) \cup Permutations(Fds)

(* A _pos nobody initialised: before the heap, in it, behind it. *)
SomeGarbage == {-1, 0, 1, 9}

(* States that differ only in what nobody reads again are one: the fields of *)
(* an event nothing refers to, and how long a closed connection was idle.    *)
Referenced == Pending \cup {event[f] : f \in Fds}
Live(field, default) == [e \in Events |-> IF e \in Referenced THEN field[e] ELSE default]
HeartbeatView ==
    <<heap, Live(pos, 0), Live(time, 0), Live(target, CHOOSE f \in Fds : TRUE), now,
      open, event, [f \in Fds |-> IF f \in open THEN idle[f] ELSE 0],
      wild>>
=============================================================================
