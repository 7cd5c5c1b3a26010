--------------------------- MODULE ConnectionPool ---------------------------
(***************************************************************************)
(* The database connections (sql/SqlConnectionPool.cpp): a BlockQueue of    *)
(* MYSQL* that a ConnectionGuard pops from and pushes back to, two counters  *)
(* that follow under a mutex of their own, and a destructor that runs when   *)
(* main has returned, with the detached workers still at work.               *)
(***************************************************************************)
EXTENDS Integers, Sequences, FiniteSets

CONSTANTS
    Workers,       \* threads that create a ConnectionGuard
    Closer,        \* the thread that runs the destructor
    Nobody,        \* owner of a free mutex
    Conns,         \* the MYSQL objects of init()
    NoConn,        \* nullptr
    Width          \* 2^32, the range of unsigned int

ASSUME PoolAssumption ==
    /\ IsFiniteSet(Workers) /\ IsFiniteSet(Conns) /\ Conns # {}
    /\ Closer \notin Workers /\ Nobody \notin Workers \cup {Closer}
    /\ NoConn \notin Conns
    /\ Width \in Nat /\ Width > Cardinality(Conns)

MaxConn == Cardinality(Conns)

VARIABLES
    array, size, front, back, exiting, mutex, at, timed, item, quitting,
    state,         \* state[w]: where worker w is between guard and ~guard
    lock,          \* who holds _lock between steps
    freeConn,      \* _freeConn
    curConn,       \* _curConn
    closer,        \* where the destructor is
    closed         \* the connections mysql_close was called with

queueVars == <<array, size, front, back, exiting, mutex, at, timed, item, quitting>>
vars == <<queueVars, state, lock, freeConn, curConn, closer, closed>>

Queue == INSTANCE BlockQueue
    WITH Values <- Conns, NoValue <- NoConn, Consumers <- Workers \cup {Closer},
         MaxSize <- 2 * MaxConn

(* init(): every connection is pushed and counted free. *)
Init ==
    /\ \E order \in [0..(MaxConn - 1) -> Conns] :
          /\ \A i, j \in DOMAIN order : order[i] = order[j] => i = j
          /\ array = [i \in 0..(2 * MaxConn - 1) |->
                         IF i < MaxConn THEN order[i] ELSE NoConn]
    /\ size = MaxConn /\ front = -1 /\ back = MaxConn
    /\ exiting = FALSE /\ quitting = FALSE
    /\ mutex = Nobody
    /\ at = [c \in Workers \cup {Closer} |-> "out"]
    /\ timed = {}
    /\ item = [c \in Workers \cup {Closer} |-> NoConn]
    /\ state = [w \in Workers |-> "idle"]
    /\ lock = Nobody
    /\ freeConn = MaxConn /\ curConn = 0
    /\ closer = "no"
    /\ closed = {}

(* Mutated: signed counters. *)
CountedSigned(n) == n

Counted(n) == n % Width
Goto(w, s) == state' = [state EXCEPT ![w] = s]
-----------------------------------------------------------------------------
(* getConnection() and releaseConnection(), by a worker. *)

GetConnection(w) ==
    /\ \/ state[w] = "idle" /\ Queue!PopAtOnce(w)
       \/ state[w] = "popping" /\ Queue!WakeTake(w)
    /\ Goto(w, "got")
    /\ UNCHANGED <<lock, freeConn, curConn, closer, closed>>

GetWaits(w) ==
    /\ \/ state[w] = "idle" /\ Queue!PopEmpty(w, FALSE)
       \/ state[w] = "popping" /\ (Queue!Sleep(w) \/ Queue!WakeEmpty(w))
    /\ Goto(w, "popping")
    /\ UNCHANGED <<lock, freeConn, curConn, closer, closed>>

(* Mutated: _curConn forgotten. *)
GetCountsFreeOnly(w) ==
    /\ state[w] = "got" /\ lock = Nobody
    /\ freeConn' = Counted(freeConn - 1)
    /\ Goto(w, "using")
    /\ UNCHANGED <<queueVars, curConn, lock, closer, closed>>

GetCounts(w) ==
    /\ state[w] = "got" /\ lock = Nobody
    /\ freeConn' = Counted(freeConn - 1)
    /\ curConn' = Counted(curConn + 1)
    /\ Goto(w, "using")
    /\ UNCHANGED <<queueVars, lock, closer, closed>>

(* Mutated: a guard that releases twice. *)
ReleaseAgain(w) ==
    /\ state[w] \in {"using", "released"}
    /\ Queue!Push(item[w])
    /\ Goto(w, "released")
    /\ UNCHANGED <<lock, freeConn, curConn, closer, closed>>

Release(w) ==
    /\ state[w] = "using"
    /\ Queue!Push(item[w])
    /\ Goto(w, "released")
    /\ UNCHANGED <<lock, freeConn, curConn, closer, closed>>

ReleaseCounts(w) ==
    /\ state[w] = "released" /\ lock = Nobody
    /\ freeConn' = Counted(freeConn + 1)
    /\ curConn' = Counted(curConn - 1)
    /\ Goto(w, "idle")
    /\ UNCHANGED <<queueVars, lock, closer, closed>>
-----------------------------------------------------------------------------
(* The destructor: with _lock held, it pops until the queue is empty. *)

CloseBegin ==
    /\ closer = "no" /\ lock = Nobody
    /\ lock' = Closer
    /\ closer' = "test"
    /\ UNCHANGED <<queueVars, state, freeConn, curConn, closed>>

CloseTest ==
    /\ closer = "test" /\ mutex = Nobody
    /\ closer' = IF size = 0 THEN "clear" ELSE "pop"
    /\ UNCHANGED <<queueVars, state, lock, freeConn, curConn, closed>>

ClosePop ==
    /\ closer = "pop"
    /\ Queue!PopAtOnce(Closer) \/ Queue!WakeTake(Closer)
    /\ closed' = closed \cup {item'[Closer]}
    /\ closer' = "test"
    /\ UNCHANGED <<state, lock, freeConn, curConn>>

CloseWaits ==
    /\ closer = "pop"
    /\ Queue!PopEmpty(Closer, FALSE) \/ Queue!Sleep(Closer) \/ Queue!WakeEmpty(Closer)
    /\ UNCHANGED <<state, lock, freeConn, curConn, closer, closed>>

(* The counters are reset, and the process ends. *)
CloseClear ==
    /\ closer = "clear"
    /\ Queue!Clear
    /\ freeConn' = 0 /\ curConn' = 0
    /\ lock' = Nobody
    /\ closer' = "gone"
    /\ UNCHANGED <<state, closed>>
-----------------------------------------------------------------------------
WorkerStep(w) ==
    /\ closer # "gone"
    /\ \/ GetConnection(w) \/ GetWaits(w) \/ GetCounts(w)
       \/ Release(w) \/ ReleaseCounts(w)

CloserStep == CloseTest \/ ClosePop \/ CloseWaits \/ CloseClear

SpuriousWake(c) ==
    /\ Queue!Spurious(c)
    /\ UNCHANGED <<state, lock, freeConn, curConn, closer, closed>>

Next ==
    \/ \E w \in Workers : WorkerStep(w)
    \/ CloseBegin \/ CloserStep
    \/ \E c \in Workers \cup {Closer} : SpuriousWake(c)

Spec == Init /\ [][Next]_vars

(* A thread that wants a mutex again and again gets it, and a worker is done *)
(* with its connection at some time; a new guard need never come.             *)
Working(w) == state[w] # "idle" /\ WorkerStep(w)
FairSpec ==
    /\ Spec
    /\ \A w \in Workers : SF_vars(Working(w))
    /\ SF_vars(CloserStep)
-----------------------------------------------------------------------------
Holders == {w \in Workers : state[w] \in {"got", "using"}}
Pooled == {Queue!Contents[i] : i \in 1..size}

(* The variables have their types. *)
TypeOK ==
    /\ Queue!TypeOK
    /\ state \in [Workers -> {"idle", "popping", "got", "using", "released"}]
    /\ lock \in {Nobody, Closer}
    /\ freeConn \in 0..(Width - 1) /\ curConn \in 0..(Width - 1)
    /\ closer \in {"no", "test", "pop", "clear", "gone"}
    /\ closed \subseteq Conns

(* A connection is in the pool, with one worker, or closed: never in two of   *)
(* these places, never in none.  (What a worker releases between the last     *)
(* empty() of the destructor and its clear() is dropped unclosed.)            *)
OneUser ==
    /\ \A v, w \in Holders : item[v] = item[w] => v = w
    /\ Cardinality(Pooled) = size
    /\ LET held == {item[w] : w \in Holders} IN
       /\ closer # "gone" => held \cup Pooled \cup closed = Conns
       /\ held \cap Pooled = {} /\ held \cap closed = {} /\ Pooled \cap closed = {}

(* The counters follow the queue: when no worker is between the two, they are *)
(* the number of free connections and of those in use.                        *)
CountsSettle ==
    closer = "no" /\ (\A w \in Workers : state[w] \notin {"got", "released"})
        => freeConn = size /\ curConn = Cardinality(Holders)

(* SqlConnectionPool.h:28: _freeConn is the number of free connections.      *)
FreeIsInRange == freeConn \in 0..MaxConn

(* SqlConnectionPool.cpp:27: the destructor closes all connections and clears *)
(* the list.                                                                  *)
DestructorEnds == closer = "test" ~> closer = "gone"
=============================================================================
