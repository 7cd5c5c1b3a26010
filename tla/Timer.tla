------------------------------- MODULE Timer -------------------------------
(***************************************************************************)
(* The timer of timer/Timer.cpp: a binary heap of events ordered by _time,   *)
(* in which every event knows its own position, _pos.  The operators on a   *)
(* timer t = [heap, pos] are the member functions; heap positions count     *)
(* from 0 as in the code, and the clock and every _time are uint32_t         *)
(* milliseconds, here units of TIMESLOT modulo Width.                        *)
(*                                                                          *)
(* The specification below uses the timer the way its header describes.      *)
(* How main.cpp uses it is Heartbeat.                                        *)
(***************************************************************************)
EXTENDS Integers, Sequences, SequencesExt

CONSTANTS
    Events,      \* the Event objects
    Width,       \* 2^32, the range of uint32_t
    Lease        \* what extendTime is given: TIMESLOT * 3

ASSUME TimerAssumption == Width \in Nat \ {0} /\ Lease \in 0..(Width - 1)

VARIABLES
    heap,        \* _heap
    pos,         \* pos[e]: e->_pos
    time,        \* time[e]: e->_time
    now          \* CLOCK_MONOTONIC as a uint32_t

timerVars == <<heap, pos, time, now>>

Timers == [heap : Seq(Events), pos : [Events -> Nat]]
This == [heap |-> heap, pos |-> pos]

Size(t) == Len(t.heap)
At(t, i) == t.heap[i + 1]
Parent(i) == (i - 1) \div 2
InHeap(t) == {At(t, i) : i \in 0..(Size(t) - 1)}

(* Store e in position i and tell e where it is. *)
Put(t, i, e) ==
    [heap |-> [t.heap EXCEPT ![i + 1] = e], pos |-> [t.pos EXCEPT ![e] = i]]
Exchange(t, i, j) == Put(Put(t, i, At(t, j)), j, At(t, i))

(* A timer, and a position in it. *)
Places == {x \in Timers \X Nat : x[2] < Size(x[1])}

PercolateUp(t, tm, hole) ==
    LET up[x \in Places] ==
            LET u == x[1]  i == x[2] IN
            IF i > 0 /\ tm[At(u, Parent(i))] > tm[At(u, i)]
            THEN up[<<Exchange(u, i, Parent(i)), Parent(i)>>]
            ELSE Put(u, i, At(u, i))
    IN  up[<<t, hole>>]

(* Mutated: only the left child is looked at. *)
LeftChild(t, tm, i) == 2 * i + 1

(* The smaller child of i; the left one when they are equal. *)
LeastChild(t, tm, i) ==
    IF 2 * i + 2 < Size(t) /\ tm[At(t, 2 * i + 2)] < tm[At(t, 2 * i + 1)]
    THEN 2 * i + 2 ELSE 2 * i + 1

PercolateDown(t, tm, hole) ==
    LET down[x \in Places] ==
            LET u == x[1]  i == x[2]  child == LeastChild(u, tm, i) IN
            IF 2 * i + 1 < Size(u) /\ tm[At(u, child)] < tm[At(u, i)]
            THEN down[<<Exchange(u, i, child), child>>]
            ELSE u
    IN  down[<<t, hole>>]

(* Up when it is less than its parent, down otherwise. *)
Settle(t, tm, i) ==
    IF i > 0 /\ tm[At(t, Parent(i))] > tm[At(t, i)]
    THEN PercolateUp(t, tm, i)
    ELSE PercolateDown(t, tm, i)

AddTimer(t, tm, e) ==
    PercolateUp([heap |-> Append(t.heap, e), pos |-> [t.pos EXCEPT ![e] = Size(t)]],
                tm, Size(t))

DropLast(t) == [t EXCEPT !.heap = Front(@)]

(* The last event takes the place of the one _pos names, whichever that is.  *)
(* (When _pos names the last, the code still compares the slot just popped   *)
(* with its parent; the order of the heap makes that test fail.)             *)
DelTimer(t, tm, e) ==
    LET i == t.pos[e]  last == Size(t) - 1 IN
    IF i >= Size(t) THEN t
    ELSE IF i = last THEN DropLast(Put(t, i, At(t, last)))
    ELSE Settle(DropLast(Put(t, i, At(t, last))), tm, i)

(* Mutated: the new root stays where it is. *)
PopTimerUnsettled(t, tm) ==
    IF t.heap = <<>> THEN t
    ELSE DropLast(Put(t, 0, At(t, Size(t) - 1)))

PopTimer(t, tm) ==
    IF t.heap = <<>> THEN t
    ELSE LET u == DropLast(Put(t, 0, At(t, Size(t) - 1))) IN
         IF u.heap = <<>> THEN u ELSE PercolateDown(u, tm, 0)

(* Whatever is in position _pos is overwritten; a position behind the heap   *)
(* is taken to mean that e is not in it.                                     *)
AdjustTimer(t, tm, e) ==
    IF t.pos[e] > Size(t) - 1
    THEN AddTimer(t, tm, e)
    ELSE Settle([t EXCEPT !.heap[t.pos[e] + 1] = e], tm, t.pos[e])

(* Mutated: an event that expires at this very moment is left in the heap. *)
RunTickLate(t, tm, cur) ==
    LET run[u \in Timers] ==
            IF u.heap # <<>> /\ tm[At(u, 0)] < cur THEN run[PopTimer(u, tm)] ELSE u
    IN  run[t]

(* tick(): pop while the root has expired.  The callbacks do not touch the   *)
(* timer; the events called back are those that are gone.                    *)
RunTick(t, tm, cur) ==
    LET run[u \in Timers] ==
            IF u.heap # <<>> /\ tm[At(u, 0)] <= cur THEN run[PopTimer(u, tm)] ELSE u
    IN  run[t]
-----------------------------------------------------------------------------
Becomes(t) == heap' = t.heap /\ pos' = t.pos

(* Mutated: a clock that does not wrap. *)
TicksOn(n) == now + n

Ticks(n) == (now + n) % Width

Init ==
    /\ heap = <<>>
    /\ pos = [e \in Events |-> 0]
    /\ time = [e \in Events |-> 0]
    /\ now = 0

Pending == InHeap(This)

(* new Event, updateTime() and addTimer(). *)
Add(e) ==
    /\ e \notin Pending
    /\ time' = [time EXCEPT ![e] = now]
    /\ Becomes(AddTimer(This, time', e))
    /\ UNCHANGED now

Delete(e) ==
    /\ e \in Pending
    /\ Becomes(DelTimer(This, time, e))
    /\ UNCHANGED <<time, now>>

(* The caller extends what is pending, or what _pos shows is not. *)
Extend(e) ==
    /\ e \in Pending \/ pos[e] >= Len(heap)
    /\ time' = [time EXCEPT ![e] = Ticks(Lease)]
    /\ Becomes(AdjustTimer(This, time', e))
    /\ UNCHANGED now

Tick ==
    /\ Becomes(RunTick(This, time, now))
    /\ UNCHANGED <<time, now>>

Pass == now' = Ticks(1) /\ UNCHANGED <<heap, pos, time>>

Next ==
    \/ \E e \in Events : Add(e) \/ Delete(e) \/ Extend(e)
    \/ Tick
    \/ Pass

Spec == Init /\ [][Next]_timerVars
-----------------------------------------------------------------------------
(* The variables have their types. *)
TypeOK ==
    /\ heap \in Seq(Events)
    /\ pos \in [Events -> Nat]
    /\ time \in [Events -> 0..(Width - 1)]
    /\ now \in 0..(Width - 1)

(* Every event in the heap knows where it is: delTimer and extendTime, which *)
(* find an event by its _pos alone, then hit the event they are given.  No   *)
(* event is in the heap twice.                                               *)
PosConsistent == \A i \in 0..(Len(heap) - 1) : pos[At(This, i)] = i

(* The order of the heap, on which tick() relies when it stops at the first  *)
(* event that has not expired.                                               *)
HeapOrder ==
    \A i \in 1..(Len(heap) - 1) : time[At(This, Parent(i))] <= time[At(This, i)]

(* Together they are what every member function needs and keeps. *)
HeapSound == PosConsistent /\ HeapOrder

(* A timer that is used the way Timer.h describes is a set of deadlines.     *)
Promise == INSTANCE Deadlines WITH pending <- Pending
ImplementsDeadlines == Promise!Spec

(* Timer.cpp:121-122: extendTime sets the event to expire the given time     *)
(* from now, so it has not expired yet.                                      *)
ExtendsForward == [][\A e \in Events : Extend(e) => time'[e] >= now']_timerVars
=============================================================================
