----------------------------- MODULE BlockQueue -----------------------------
(***************************************************************************)
(* BlockQueue<T> (locker/BlockQueue.h): a ring of _maxSize slots guarded by *)
(* _mutex, with the condition variable _cond for who waits for a value.      *)
(*                                                                          *)
(* A member function that locks, works and unlocks is one step.  pop() is    *)
(* more: it keeps _mutex from its test of _size until pthread_cond_wait lets *)
(* go of it.  quit() takes no mutex at all, and writes _exit before it       *)
(* broadcasts.                                                              *)
(***************************************************************************)
EXTENDS Integers, Sequences, FiniteSets

CONSTANTS
    Values,      \* what is pushed
    NoValue,     \* what an item or a slot never assigned holds
    Consumers,   \* the threads that pop
    Nobody,      \* owner of the unlocked mutex
    MaxSize      \* _maxSize

QueueAssumption ==
    /\ MaxSize \in Nat \ {0}
    /\ NoValue \notin Values
    /\ IsFiniteSet(Consumers) /\ Nobody \notin Consumers

VARIABLES
    array,       \* _array
    size,        \* _size
    front,       \* _front: the slot before the oldest value
    back,        \* _back: the slot behind the newest
    exiting,     \* _exit
    mutex,       \* who holds _mutex between steps
    at,          \* at[c]: where consumer c is in pop(), "out" outside it
    timed,       \* the consumers inside the pop() with a timeout
    item,        \* item[c]: the reference parameter of c's pop()
    quitting     \* quit() is between its two statements

ringVars == <<array, size, front, back>>
popVars == <<at, timed, item>>
queueVars == <<ringVars, exiting, mutex, popVars, quitting>>

Init ==
    /\ array = [i \in 0..(MaxSize - 1) |-> NoValue]
    /\ size = 0 /\ front = -1 /\ back = 0
    /\ exiting = FALSE
    /\ mutex = Nobody
    /\ at = [c \in Consumers |-> "out"]
    /\ timed = {}
    /\ item = [c \in Consumers |-> NoValue]
    /\ quitting = FALSE

Slot(i) == i % MaxSize
FrontItem == array[Slot(front + 1)]
BackItem == array[Slot(back + MaxSize - 1)]
Contents == [i \in 1..size |-> array[Slot(front + i)]]

(* broadcast: whoever sleeps wakes up, and will want the mutex back. *)
Woken == [c \in Consumers |-> IF at[c] = "asleep" THEN "awake" ELSE at[c]]
-----------------------------------------------------------------------------
(* Mutated: the size is tested against one slot too many; and nobody is told. *)
PushOneMore(v) ==
    /\ mutex = Nobody /\ size <= MaxSize
    /\ array' = [array EXCEPT ![back] = v]
    /\ back' = Slot(back + 1)
    /\ size' = size + 1
    /\ at' = Woken
    /\ UNCHANGED <<front, exiting, mutex, timed, item, quitting>>

PushSilently(v) ==
    /\ mutex = Nobody /\ size < MaxSize
    /\ array' = [array EXCEPT ![back] = v]
    /\ back' = Slot(back + 1)
    /\ size' = size + 1
    /\ UNCHANGED <<front, exiting, mutex, popVars, quitting>>

(* push() returns true. *)
Push(v) ==
    /\ mutex = Nobody /\ size < MaxSize
    /\ array' = [array EXCEPT ![back] = v]
    /\ back' = Slot(back + 1)
    /\ size' = size + 1
    /\ at' = Woken
    /\ UNCHANGED <<front, exiting, mutex, timed, item, quitting>>

(* push() returns false. *)
PushFull ==
    /\ mutex = Nobody /\ size >= MaxSize
    /\ at' = Woken
    /\ UNCHANGED <<ringVars, exiting, mutex, timed, item, quitting>>

(* Mutated: _back stays. *)
ClearKeepsBack ==
    /\ mutex = Nobody
    /\ size' = 0 /\ front' = -1
    /\ UNCHANGED <<array, back, exiting, mutex, popVars, quitting>>

Clear ==
    /\ mutex = Nobody
    /\ size' = 0 /\ front' = -1 /\ back' = 0
    /\ UNCHANGED <<array, exiting, mutex, popVars, quitting>>

Goto(c, where) == at' = [at EXCEPT ![c] = where]

(* The end of a pop() that returns true. *)
TakeFront(c) ==
    /\ front' = Slot(front + 1)
    /\ item' = [item EXCEPT ![c] = FrontItem]
    /\ size' = size - 1
    /\ mutex' = Nobody
    /\ Goto(c, "out")
    /\ UNCHANGED <<array, back, exiting, timed, quitting>>

(* pop() or pop(timeout) locks and finds a value... *)
PopAtOnce(c) ==
    /\ at[c] = "out" /\ mutex = Nobody
    /\ size > 0
    /\ TakeFront(c)

(* ... or an empty queue, and goes to wait with the mutex still held. *)
PopEmpty(c, withTimeout) ==
    /\ at[c] = "out" /\ mutex = Nobody
    /\ size <= 0
    /\ mutex' = c
    /\ Goto(c, "test")
    /\ timed' = IF withTimeout THEN timed \cup {c} ELSE timed \ {c}
    /\ UNCHANGED <<ringVars, exiting, item, quitting>>

(* pthread_cond_wait: asleep and the mutex free in one step. *)
Sleep(c) ==
    /\ at[c] = "test"
    /\ mutex' = Nobody
    /\ Goto(c, "asleep")
    /\ UNCHANGED <<ringVars, exiting, timed, item, quitting>>

(* A wake-up nobody called for. *)
Spurious(c) ==
    /\ at[c] = "asleep"
    /\ Goto(c, "awake")
    /\ UNCHANGED <<ringVars, exiting, mutex, timed, item, quitting>>

(* pop(), awake with the mutex: _exit is looked at before _size. *)
WakeExit(c) ==
    /\ at[c] = "awake" /\ mutex = Nobody /\ c \notin timed
    /\ exiting
    /\ Goto(c, "out")
    /\ UNCHANGED <<ringVars, exiting, mutex, timed, item, quitting>>

(* Mutated: the value is taken without a look at _size. *)
WakeTakeBlindly(c) ==
    /\ at[c] = "awake" /\ mutex = Nobody
    /\ c \in timed \/ ~exiting
    /\ TakeFront(c)

WakeTake(c) ==
    /\ at[c] = "awake" /\ mutex = Nobody
    /\ c \in timed \/ ~exiting
    /\ size > 0
    /\ TakeFront(c)

WakeEmpty(c) ==
    /\ at[c] = "awake" /\ mutex = Nobody /\ c \notin timed
    /\ ~exiting /\ size <= 0
    /\ mutex' = c
    /\ Goto(c, "test")
    /\ UNCHANGED <<ringVars, exiting, timed, item, quitting>>

(* pop(timeout) returns false: time is up, or another thread was faster. *)
TimedFails(c) ==
    /\ c \in timed /\ mutex = Nobody
    /\ at[c] = "asleep" \/ (at[c] = "awake" /\ size <= 0)
    /\ Goto(c, "out")
    /\ UNCHANGED <<ringVars, exiting, mutex, timed, item, quitting>>

(* quit(), statement by statement. *)
QuitFlag ==
    /\ ~quitting
    /\ exiting' = TRUE
    /\ quitting' = TRUE
    /\ UNCHANGED <<ringVars, mutex, popVars>>

QuitBroadcast ==
    /\ quitting
    /\ quitting' = FALSE
    /\ at' = Woken
    /\ UNCHANGED <<ringVars, exiting, mutex, timed, item>>
-----------------------------------------------------------------------------
(* What moves c once it is inside pop(), whoever else does what. *)
PopStep(c) ==
    \/ Sleep(c) \/ WakeExit(c) \/ WakeTake(c) \/ WakeEmpty(c) \/ TimedFails(c)

Next ==
    \/ \E v \in Values : Push(v)
    \/ PushFull \/ Clear
    \/ \E c \in Consumers :
          \/ PopAtOnce(c) \/ PopEmpty(c, TRUE) \/ PopEmpty(c, FALSE)
          \/ Spurious(c) \/ PopStep(c)
    \/ QuitFlag \/ QuitBroadcast

Spec == Init /\ [][Next]_queueVars

(* Threads that want the mutex get it, and quit() is carried through. *)
FairSpec ==
    /\ Spec
    /\ \A c \in Consumers : SF_queueVars(PopStep(c))
    /\ WF_queueVars(QuitBroadcast)
-----------------------------------------------------------------------------
(* The variables have their types, and the mutex is with who waits in it. *)
TypeOK ==
    /\ array \in [0..(MaxSize - 1) -> Values \cup {NoValue}]
    /\ size \in 0..MaxSize
    /\ front \in -1..(MaxSize - 1) /\ back \in 0..(MaxSize - 1)
    /\ exiting \in BOOLEAN /\ quitting \in BOOLEAN
    /\ mutex \in Consumers \cup {Nobody}
    /\ at \in [Consumers -> {"out", "test", "asleep", "awake"}]
    /\ \A c \in Consumers : at[c] = "test" <=> mutex = c
    /\ timed \subseteq Consumers
    /\ item \in [Consumers -> Values \cup {NoValue}]

(* The two ends of the ring agree with _size, so front() and back() are the  *)
(* oldest and the newest value and every slot between holds one.             *)
RingMatchesSize ==
    /\ back = Slot(front + 1 + size)
    /\ \A i \in 1..size : Contents[i] \in Values
    /\ size > 0 => FrontItem = Contents[1] /\ BackItem = Contents[size]

(* No lost wake-up: while there is a value, nobody sleeps. *)
NobodySleepsOnValues == size > 0 => \A c \in Consumers : at[c] # "asleep"

(* Whatever the interleaving, the ring is one bounded queue and every value   *)
(* goes to one consumer, in order.                                            *)
Fifo == INSTANCE BoundedFifo
    WITH queue <- Contents, taken <- item, Capacity <- MaxSize
ImplementsFifo == Fifo!Spec

(* A consumer in pop() while there is a value does not wait for ever: it gets *)
(* one, or another consumer empties the queue.                                *)
ValuesAreTaken ==
    \A c \in Consumers :
        (size > 0 /\ at[c] # "out") ~> (size = 0 \/ at[c] = "out")
=============================================================================
