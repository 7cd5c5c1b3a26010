----------------------------- MODULE Heartbeat -----------------------------
(***************************************************************************)
(* The heartbeats of the connections: how main.cpp and http_conn.cpp use    *)
(* the timer of timer/Timer.cpp.  Every connection has an Event, _event,    *)
(* whose callback is close_conn of its object; main extends it when data    *)
(* flows, deletes it when it closes the connection, and ticks at every      *)
(* SIGALRM.  Which handler runs when is Connections; here an open           *)
(* connection may be in any of them, and each is what it does to the timer. *)
(*                                                                          *)
(* The code does not use the timer the way Timer.h describes: an event that *)
(* was deleted is extended, a new one is extended before it was added, with *)
(* a _pos nobody initialised, and closed connections leave theirs behind.   *)
(* When that _pos is negative, the code writes before the heap: what follows *)
(* is undefined, and the model ends there, with wild.                        *)
(***************************************************************************)
EXTENDS Timer

CONSTANTS
    Fds,          \* the objects, user[fd]
    NoEvent,      \* the _event of an object never used
    Garbage,      \* what an uninitialised _pos, an int, may be
    Steps         \* bound: units of time a connection is watched to be idle

ASSUME HeartbeatAssumption ==
    /\ Garbage \subseteq Int /\ Garbage # {}
    /\ Fds # {}
    /\ NoEvent \notin Events
    /\ Steps \in Nat /\ Steps > Lease

VARIABLES
    open,         \* the objects whose _sockfd is not -1
    event,        \* event[f]: user[f]._event
    target,       \* target[e]: the object e's callback closes
    idle,         \* idle[f]: how long no data has flowed on f, up to Steps
    wild          \* a write has landed before _heap: the rest is undefined

connVars == <<open, event, target, idle, wild>>
vars == <<timerVars, connVars>>

HeartbeatInit ==
    /\ Init
    /\ open = {}
    /\ event = [f \in Fds |-> NoEvent]
    /\ target = [e \in Events |-> CHOOSE f \in Fds : TRUE]
    /\ idle = [f \in Fds |-> 0]
    /\ wild = FALSE

(* No write has landed before the heap, and this step makes none. *)
Defined == ~wild /\ UNCHANGED wild

(* The events nothing refers to once f lets go of its own. *)
Unreferenced(f) == Events \ (Pending \cup {event[g] : g \in Fds \ {f}} \cup {event[f]})

(* new Event in init(): expires now, closes f, and is in no known position. *)
FreshTimer(e, p) == [heap |-> heap, pos |-> [pos EXCEPT ![e] = p]]

(* Mutated: without setCallBack. *)
NewEventKeepsCallBack(f, e) ==
    /\ e \in Unreferenced(f)
    /\ event' = [event EXCEPT ![f] = e]
    /\ UNCHANGED target

NewEvent(f, e) ==
    /\ e \in Unreferenced(f)
    /\ event' = [event EXCEPT ![f] = e]
    /\ target' = [target EXCEPT ![e] = f]

(* Mutated: a lease from when it was to expire. *)
RenewedFromOld(e) == time' = [time EXCEPT ![e] = (time[e] + Lease) % Width]

(* extendTime: the event expires a lease from now, and is adjusted. *)
Extended(t, tm, e) == Becomes(AdjustTimer(t, tm, e))
Renewed(e) == time' = [time EXCEPT ![e] = Ticks(Lease)]
DataFlowed(f) == idle' = [idle EXCEPT ![f] = 0]

(* A connection is accepted: init(), addTimer() and extendTime(). *)
AcceptConnection(f, e) ==
    /\ Defined
    /\ f \notin open
    /\ NewEvent(f, e)
    /\ Renewed(e)
    /\ LET added == AddTimer(This, [time EXCEPT ![e] = now], e) IN
       Extended(added, time', e)
    /\ open' = open \cup {f}
    /\ DataFlowed(f)
    /\ UNCHANGED now

(* close_conn() by the EPOLLRDHUP branch, or by a worker whose process_write *)
(* failed: the event stays.                                                  *)
CloseOnly(f) ==
    /\ Defined
    /\ f \in open
    /\ open' = open \ {f}
    /\ UNCHANGED <<timerVars, event, target, idle>>

(* read() succeeds, or write() has more to send. *)
KeepReading(f) ==
    /\ Defined
    /\ f \in open
    /\ Renewed(event[f])
    /\ Extended(This, time', event[f])
    /\ DataFlowed(f)
    /\ UNCHANGED <<now, open, event, target>>

(* read() fails: delTimer() and close_conn(). *)
ReadFails(f) ==
    /\ Defined
    /\ f \in open
    /\ Becomes(DelTimer(This, time, event[f]))
    /\ open' = open \ {f}
    /\ UNCHANGED <<time, now, event, target, idle>>

(* write() has finished a keep-alive reply, or had nothing to send: init()   *)
(* replaces the event, and main extends the new one.                         *)
WriteKeepsAlive(f, e) ==
    /\ Defined
    /\ f \in open
    /\ NewEvent(f, e)
    /\ Renewed(e)
    /\ \E p \in Garbage \cap Nat : Extended(FreshTimer(e, p), time', e)
    /\ DataFlowed(f)
    /\ UNCHANGED <<now, open>>

(* The same with a negative _pos, which is not behind the heap: adjustTimer   *)
(* assigns to _heap[_pos].                                                   *)
WritesBeforeHeap(f, e) ==
    /\ ~wild /\ f \in open
    /\ NewEvent(f, e)
    /\ Renewed(e)
    /\ \E p \in Garbage : p < 0
    /\ wild' = TRUE
    /\ DataFlowed(f)
    /\ UNCHANGED <<heap, pos, now, open>>

(* write() returns false: delTimer(), close_conn(), and extendTime() for all *)
(* that.                                                                     *)
WriteCloses(f) ==
    /\ Defined
    /\ f \in open
    /\ Renewed(event[f])
    /\ Extended(DelTimer(This, time, event[f]), time', event[f])
    /\ open' = open \ {f}
    /\ UNCHANGED <<now, event, target, idle>>

(* SIGALRM: tick() calls close_conn() of the target of every expired event. *)
Fired(t) == Pending \ InHeap(t)

TickTimer ==
    /\ Defined
    /\ LET t == RunTick(This, time, now) IN
       /\ Becomes(t)
       /\ open' = open \ {target[e] : e \in Fired(t)}
    /\ UNCHANGED <<time, now, event, target, idle>>

PassTime ==
    /\ Defined
    /\ now' = Ticks(1)
    /\ idle' = [f \in Fds |-> IF f \in open /\ idle[f] < Steps THEN idle[f] + 1 ELSE idle[f]]
    /\ UNCHANGED <<heap, pos, time, open, event, target>>

HeartbeatNext ==
    \/ \E f \in Fds :
          \/ CloseOnly(f) \/ KeepReading(f) \/ ReadFails(f) \/ WriteCloses(f)
          \/ \E e \in Events :
                AcceptConnection(f, e) \/ WriteKeepsAlive(f, e) \/ WritesBeforeHeap(f, e)
    \/ TickTimer
    \/ PassTime

HeartbeatSpec == HeartbeatInit /\ [][HeartbeatNext]_vars
-----------------------------------------------------------------------------
(* The variables that are not the timer's have their types, and an open      *)
(* object has an event made to close it.                                     *)
HeartbeatTypeOK ==
    /\ TypeOK
    /\ open \subseteq Fds
    /\ event \in [Fds -> Events \cup {NoEvent}]
    /\ target \in [Events -> Fds]
    /\ idle \in [Fds -> 0..Steps]
    /\ wild \in BOOLEAN
    /\ \A f \in open : event[f] # NoEvent /\ target[event[f]] = f

(* What a tick takes from the heap are the events whose time has come, all    *)
(* of them and no other, although handlers overwrite each other's events.    *)
TickExact ==
    [][TickTimer => Pending' = {e \in Pending : time[e] > now}]_vars

(* Up to the first negative _pos, the heap is in order and its events know    *)
(* their places, although main extends events that it has deleted, that were  *)
(* never added, and whose _pos is whatever the memory held.                   *)
SoundUntilWild == wild \/ HeapSound

(* The event of an open connection, wherever it is, expires a lease after    *)
(* data last flowed, even when init() has replaced it in between.            *)
DueAfterLease ==
    \A f \in open : idle[f] < Steps => time[event[f]] = Ticks(Lease - idle[f])

(* An event of f's earlier days that has expired in the heap: one that a      *)
(* hang-up left there, or that init() replaced.                              *)
LeftBehind(f) == \E e \in Pending \ {event[f]} : target[e] = f /\ time[e] <= now

(* Whom a tick closes: the connection that has been idle for its lease, if    *)
(* its event is in the heap; and no other, but one that has an expired event   *)
(* left behind, and one whose lease reaches past the range of the clock.       *)
TickClosesTheIdle ==
    [][TickTimer =>
         \A f \in open :
            /\ /\ event[f] \in Pending
               /\ idle[f] \in Lease..(Steps - 1) /\ idle[f] - Lease <= now
               => f \notin open'
            /\ f \notin open' =>
                  \/ idle[f] >= Lease
                  \/ LeftBehind(f)
                  \/ now + (Lease - idle[f]) >= Width]_vars

(* timer/定时器的设计.md:35: to every http object belongs a heartbeat timer.     *)
HasHeartbeat == \A f \in open : event[f] \in Pending

(* README.md:24: what the timer closes are connections without data flow for *)
(* the time they are given.                                                  *)
ClosesOnlyIdle ==
    [][TickTimer => \A f \in open \ open' : idle[f] >= Lease]_vars
=============================================================================
