------------------------- MODULE PostHandlersProofs -------------------------
(***************************************************************************)
(* Theorems about the database connections and the POST handlers, for any    *)
(* number of workers, connections and pictures.  What the queue does is        *)
(* taken from BlockQueueProofs; the pool of ConnectionPool comes first, and     *)
(* what the handlers add to it after that.                                    *)
(***************************************************************************)
EXTENDS PostHandlers, SequenceTheorems, FiniteSetTheorems, TLAPS

QP == INSTANCE BlockQueueProofs
    WITH Values <- Conns, NoValue <- NoConn, Consumers <- Workers \cup {Closer},
         MaxSize <- 2 * MaxConn

LEMMA ConnsFinite == IsFiniteSet(Conns) /\ MaxConn \in Nat \ {0}
  BY PoolAssumption, FS_CardinalityType, FS_EmptySet DEF MaxConn

LEMMA QueueAssumed == QP!QueueAssumption
  <1>1. IsFiniteSet(Workers \cup {Closer})
    BY PoolAssumption, FS_AddElement
  <1>2. 2 * MaxConn \in Nat \ {0}
    BY ConnsFinite
  <1> QED
    BY <1>1, <1>2, PoolAssumption
       DEF QP!QueueAssumption, QP!IsFiniteSet, IsFiniteSet
-----------------------------------------------------------------------------
(* The inductive invariant of the pool: who sleeps or waits in pop(), what is  *)
(* in whose hands, and that nothing is in two places.                         *)
Places ==
    /\ state \in [Workers -> {"idle", "popping", "got", "using", "released"}]
    /\ closer \in {"no", "test", "pop", "clear", "gone"}
    /\ lock \in {Nobody, Closer}
    /\ closed \subseteq Conns
    /\ \A w \in Workers : at[w] # "out" => state[w] = "popping"
    /\ at[Closer] # "out" => closer = "pop"

Distinct == \A i, j \in 1..size : Queue!Contents[i] = Queue!Contents[j] => i = j

Apart ==
    /\ \A w \in Holders : item[w] \in Conns /\ item[w] \notin Pooled /\ item[w] \notin closed
    /\ \A v, w \in Holders : item[v] = item[w] => v = w
    /\ Distinct
    /\ Pooled \cap closed = {}
    /\ closer # "gone" => Conns \subseteq {item[w] : w \in Holders} \cup Pooled \cup closed

PoolInv == QP!QueueInv /\ Places /\ Apart

(* The queue in numbers.                                                       *)
LEMMA ContentsSeq ==
    ASSUME QP!QueueInv
    PROVE  /\ Queue!Contents \in Seq(Conns) /\ Len(Queue!Contents) = size
           /\ size \in Nat /\ Pooled \subseteq Conns
  <1>1. size \in Nat /\ \A i \in 1..size : Queue!Contents[i] \in Conns
    BY ConnsFinite DEF QP!QueueInv, QP!TypeOK, QP!RingInv, QP!Contents, QP!Slot, Queue!Contents, Queue!Slot
  <1>2. DOMAIN Queue!Contents = 1..size /\ Queue!Contents = [i \in 1..size |-> Queue!Contents[i]]
    BY DEF Queue!Contents
  <1>3. Queue!Contents \in [1..size -> Conns]
    BY <1>1, <1>2
  <1> QED
    BY <1>1, <1>3 DEF Pooled
-----------------------------------------------------------------------------
(* What the operations of the queue do, in terms of what is in it.            *)

LEMMA TakeEffect ==
    ASSUME QP!QueueInv, NEW c \in Workers \cup {Closer},
           Queue!PopAtOnce(c) \/ Queue!WakeTake(c)
    PROVE  /\ QP!QueueInv'
           /\ Queue!Contents # <<>> /\ Queue!Contents' = Tail(Queue!Contents)
           /\ item' = [item EXCEPT ![c] = Head(Queue!Contents)]
           /\ at' = [at EXCEPT ![c] = "out"]
           /\ size' = size - 1
  <1>1. mutex = Nobody /\ size > 0 /\ Queue!TakeFront(c)
    BY DEF Queue!PopAtOnce, Queue!WakeTake
  <1>2. QP!TakeFront(c)
    BY <1>1 DEF Queue!TakeFront, Queue!FrontItem, Queue!Slot, Queue!Goto,
       QP!TakeFront, QP!FrontItem, QP!Slot, QP!Goto
  <1>3. /\ QP!QueueInv'
        /\ QP!Contents # <<>> /\ QP!Contents' = Tail(QP!Contents)
        /\ item' = [item EXCEPT ![c] = Head(QP!Contents)]
    BY <1>1, <1>2, QueueAssumed, QP!TakeKeeps
  <1> QED
    BY <1>1, <1>3 DEF Queue!TakeFront, Queue!Goto, Queue!Contents, Queue!Slot,
       QP!Contents, QP!Slot

LEMMA PushEffect ==
    ASSUME QP!QueueInv, NEW v \in Conns, Queue!Push(v)
    PROVE  /\ QP!QueueInv'
           /\ Queue!Contents' = Append(Queue!Contents, v)
           /\ \A c \in Workers \cup {Closer} : at'[c] # "out" => at[c] # "out"
           /\ item' = item
           /\ size' = size + 1
  <1>1. QP!Push(v)
    BY DEF Queue!Push, Queue!Slot, Queue!Woken, QP!Push, QP!Slot, QP!Woken
  <1>2. QP!QueueInv' /\ QP!Contents' = Append(QP!Contents, v)
    BY <1>1, QueueAssumed, QP!PushKeeps
  <1> QED
    BY <1>2 DEF Queue!Push, Queue!Woken, Queue!Contents, Queue!Slot, QP!Contents, QP!Slot

(* The steps of pop() that take nothing.                                      *)
Waits(c) ==
    \/ Queue!PopEmpty(c, FALSE) \/ Queue!Sleep(c) \/ Queue!WakeEmpty(c)
    \/ Queue!Spurious(c)

LEMMA WaitEffect ==
    ASSUME QP!QueueInv, NEW c \in Workers \cup {Closer}, Waits(c)
    PROVE  /\ QP!QueueInv'
           /\ UNCHANGED <<Queue!Contents, size, item>>
           /\ \A d \in Workers \cup {Closer} : d # c => at'[d] = at[d]
           /\ Queue!Spurious(c) => at[c] # "out"
  <1>1. \/ QP!PopEmpty(c, FALSE) \/ QP!Sleep(c) \/ QP!WakeEmpty(c) \/ QP!Spurious(c)
    BY DEF Waits, Queue!PopEmpty, Queue!Sleep, Queue!WakeEmpty, Queue!Spurious,
       Queue!Goto, Queue!ringVars, QP!PopEmpty, QP!Sleep, QP!WakeEmpty, QP!Spurious,
       QP!Goto, QP!ringVars
  <1>2. QP!QueueInv'
    BY <1>1, QueueAssumed, QP!WaitKeeps
  <1>3. UNCHANGED <<array, front, size, item>>
    BY DEF Waits, Queue!PopEmpty, Queue!Sleep, Queue!WakeEmpty, Queue!Spurious,
       Queue!ringVars
  <1>4. /\ \A d \in Workers \cup {Closer} : d # c => at'[d] = at[d]
        /\ Queue!Spurious(c) => at[c] # "out"
    BY DEF Waits, Queue!PopEmpty, Queue!Sleep, Queue!WakeEmpty, Queue!Spurious,
       Queue!Goto, QP!QueueInv, QP!TypeOK
  <1> QED
    BY <1>2, <1>3, <1>4 DEF Queue!Contents, Queue!Slot

LEMMA ClearEffect ==
    ASSUME QP!QueueInv, Queue!Clear
    PROVE  QP!QueueInv' /\ size' = 0 /\ UNCHANGED <<at, item>>
  <1>1. QP!Clear
    BY DEF Queue!Clear, Queue!popVars, QP!Clear, QP!popVars
  <1>2. QP!QueueInv'
    BY <1>1, QueueAssumed, QP!ClearKeeps
  <1> QED
    BY <1>2 DEF Queue!Clear, Queue!popVars

LEMMA SameEffect ==
    ASSUME QP!QueueInv, UNCHANGED queueVars
    PROVE  QP!QueueInv' /\ UNCHANGED <<Queue!Contents, size, item, at>>
  <1>1. UNCHANGED QP!queueVars
    BY DEF queueVars, QP!queueVars, QP!ringVars, QP!popVars
  <1>2. QP!QueueInv'
    BY <1>1, QP!SameQueue
  <1> QED
    BY <1>2 DEF queueVars, Queue!Contents, Queue!Slot
-----------------------------------------------------------------------------
LEMMA PooledAfterTake ==
    ASSUME QP!QueueInv, Distinct, Queue!Contents # <<>>,
           Queue!Contents' = Tail(Queue!Contents), size' = size - 1
    PROVE  /\ Head(Queue!Contents) \in Pooled
           /\ Pooled' = Pooled \ {Head(Queue!Contents)}
           /\ Distinct'
  <1> DEFINE s == Queue!Contents
             t == Queue!Contents'
  <1>1. s \in Seq(Conns) /\ Len(s) = size /\ size \in Nat
    BY ContentsSeq
  <1> HIDE DEF s, t
  <1>3. t \in Seq(Conns) /\ Len(t) = size - 1 /\ \A i \in 1..(size - 1) : t[i] = s[i + 1]
    BY <1>1, HeadTailProperties DEF s, t
  <1>4. size > 0 /\ Head(s) = s[1]
    BY <1>1 DEF s
  <1>5. \A i, j \in 1..size : s[i] = s[j] => i = j
    BY DEF Distinct, s
  <1>6. Distinct'
    <2>1. \A i, j \in 1..(size - 1) : t[i] = t[j] => i = j
      BY <1>1, <1>3, <1>5
    <2> QED
      BY <1>4, <2>1 DEF Distinct, t
  <1>7. Pooled = {s[i] : i \in 1..size} /\ Pooled' = {t[i] : i \in 1..(size - 1)}
    BY <1>4 DEF Pooled, s, t
  <1>8. {t[i] : i \in 1..(size - 1)} = {s[i] : i \in 1..size} \ {s[1]}
    <2>1. ASSUME NEW i \in 1..(size - 1)
          PROVE  t[i] \in {s[j] : j \in 1..size} /\ t[i] # s[1]
      <3>1. i + 1 \in 1..size /\ 1 \in 1..size /\ i + 1 # 1
        BY <1>1
      <3> QED
        BY <1>3, <1>5, <3>1
    <2>2. ASSUME NEW j \in 1..size, s[j] # s[1]
          PROVE  s[j] \in {t[i] : i \in 1..(size - 1)}
      <3>1. j # 1
        BY <2>2
      <3>2. j - 1 \in 1..(size - 1) /\ (j - 1) + 1 = j
        BY <1>1, <3>1
      <3> QED
        BY <1>3, <3>2
    <2> QED
      BY <2>1, <2>2
  <1>9. 1 \in 1..size
    BY <1>1, <1>4
  <1> QED
    BY <1>4, <1>6, <1>7, <1>8, <1>9 DEF s

LEMMA PooledAfterPush ==
    ASSUME QP!QueueInv, Distinct, NEW v \in Conns, v \notin Pooled,
           Queue!Contents' = Append(Queue!Contents, v), size' = size + 1
    PROVE  Pooled' = Pooled \cup {v} /\ Distinct'
  <1> DEFINE s == Queue!Contents
             t == Queue!Contents'
  <1>1. s \in Seq(Conns) /\ Len(s) = size /\ size \in Nat
    BY ContentsSeq
  <1> HIDE DEF s, t
  <1>3. Len(t) = size + 1 /\ t[size + 1] = v /\ \A i \in 1..size : t[i] = s[i]
    BY <1>1, AppendProperties DEF s, t
  <1>5. Pooled = {s[i] : i \in 1..size} /\ Pooled' = {t[i] : i \in 1..(size + 1)}
    BY DEF Pooled, s, t
  <1>6. (\A i, j \in 1..size : s[i] = s[j] => i = j) /\ \A i \in 1..size : s[i] # v
    BY <1>5 DEF Distinct, s
  <1>7. \A i \in 1..(size + 1) : i \in 1..size \/ i = size + 1
    BY <1>1
  <1>8. size + 1 \in 1..(size + 1) /\ \A i \in 1..size : i \in 1..(size + 1)
    BY <1>1
  <1>9. Distinct'
    <2>1. \A i, j \in 1..(size + 1) : t[i] = t[j] => i = j
      BY <1>3, <1>6, <1>7
    <2> QED
      BY <2>1 DEF Distinct, t
  <1>10. Pooled' = Pooled \cup {v}
    BY <1>3, <1>5, <1>7, <1>8
  <1> QED
    BY <1>9, <1>10
-----------------------------------------------------------------------------
LEMMA PoolInit == Init => PoolInv
  <1> SUFFICES ASSUME Init PROVE PoolInv
    OBVIOUS
  <1> DEFINE N == MaxConn
  <1>0. N \in Nat \ {0} /\ IsFiniteSet(Conns) /\ N = Cardinality(Conns)
    BY ConnsFinite DEF MaxConn
  <1>1. PICK order \in [0..(N - 1) -> Conns] :
          /\ \A i, j \in 0..(N - 1) : order[i] = order[j] => i = j
          /\ array = [i \in 0..(2 * N - 1) |-> IF i < N THEN order[i] ELSE NoConn]
    BY DEF Init
  <1>2. size = N /\ front = -1 /\ back = N
    BY DEF Init
  <1> HIDE DEF N
  <1>3. ASSUME NEW i \in 1..N
        PROVE  Queue!Contents[i] = order[i - 1] /\ order[i - 1] \in Conns
    <2>1. -1 + i = i - 1 /\ i - 1 \in 0..(2 * N - 1) /\ i - 1 < N /\ i - 1 \in 0..(N - 1)
          /\ 2 * N \in Nat \ {0}
      BY <1>0
    <2>2. (i - 1) % (2 * N) = i - 1
      BY ONLY <2>1, QP!ModSmall
    <2>3. Queue!Contents[i] = array[(-1 + i) % (2 * N)]
      BY <1>2 DEF Queue!Contents, Queue!Slot, N
    <2> QED
      BY <1>1, <2>1, <2>2, <2>3
  <1>4. QP!QueueInv
    <2>1. array \in QP!Arrays
      BY <1>0, <1>1 DEF QP!Arrays, QP!Items, N
    <2>2. N % (2 * N) = N
      <3>1. N \in 0..(2 * N - 1) /\ 2 * N \in Nat \ {0}
        BY <1>0
      <3> QED
        BY ONLY <3>1, QP!ModSmall
    <2>3. back = QP!Slot(front + 1 + size)
      BY <1>0, <1>2, <2>2 DEF QP!Slot, N
    <2>4. \A i \in 1..size : QP!Contents[i] \in Conns
      BY <1>2, <1>3 DEF Queue!Contents, Queue!Slot, QP!Contents, QP!Slot
    <2>5. size \in 0..(2 * N) /\ front \in -1..(2 * N - 1) /\ back \in 0..(2 * N - 1)
      BY <1>0, <1>2
    <2>6. QP!RingInv
      BY <2>1, <2>3, <2>4, <2>5 DEF QP!RingInv, N
    <2>7. QP!TypeOK
      BY <2>1, <2>5, PoolAssumption DEF Init, QP!TypeOK, QP!Arrays, QP!Items, N
    <2> QED
      BY <2>6, <2>7 DEF Init, QP!QueueInv, QP!NobodySleepsOnValues, QP!TestsEmpty
  <1>5. Places
    BY PoolAssumption DEF Init, Places
  <1>6. Distinct
    <2>1. \A i, j \in 1..N : i - 1 \in 0..(N - 1) /\ (i - 1 = j - 1 => i = j)
      BY <1>0
    <2> QED
      BY <1>1, <1>2, <1>3, <2>1 DEF Distinct
  <1>7. Conns \subseteq Pooled
    <2>1. order \in Injection(0..(N - 1), Conns)
      BY <1>1 DEF Injection, IsInjective
    <2>2. Cardinality(0..(N - 1)) = N
      BY <1>0, FS_Interval
    <2>3. order \in Surjection(0..(N - 1), Conns)
      BY <1>0, <2>1, <2>2, FS_Injection
    <2> SUFFICES ASSUME NEW c \in Conns PROVE c \in Pooled
      OBVIOUS
    <2>4. PICK j \in 0..(N - 1) : order[j] = c
      BY <2>3 DEF Surjection
    <2>5. j + 1 \in 1..N /\ (j + 1) - 1 = j
      BY <1>0
    <2>6. Queue!Contents[j + 1] = c
      BY <1>3, <2>4, <2>5
    <2> QED
      BY <1>2, <2>5, <2>6 DEF Pooled
  <1>8. Holders = {} /\ closed = {}
    BY DEF Init, Holders
  <1> QED
    BY <1>4, <1>5, <1>6, <1>7, <1>8 DEF PoolInv, Apart
-----------------------------------------------------------------------------
LEMMA GetKeeps ==
    ASSUME PoolInv, NEW w \in Workers, GetConnection(w) PROVE PoolInv'
  <1>0. w \in Workers \cup {Closer} /\ w # Closer
    BY PoolAssumption
  <1> DEFINE h == Head(Queue!Contents)
  <1>1. /\ QP!QueueInv'
        /\ Queue!Contents # <<>> /\ Queue!Contents' = Tail(Queue!Contents)
        /\ item' = [item EXCEPT ![w] = h] /\ at' = [at EXCEPT ![w] = "out"]
        /\ size' = size - 1
    BY <1>0, TakeEffect DEF GetConnection, PoolInv
  <1>2. h \in Pooled /\ Pooled' = Pooled \ {h} /\ Distinct' /\ Pooled \subseteq Conns
    BY <1>1, PooledAfterTake, ContentsSeq DEF PoolInv, Apart
  <1> HIDE DEF h
  <1>3. state' = [state EXCEPT ![w] = "got"] /\ UNCHANGED <<lock, closer, closed>>
    BY DEF GetConnection, Goto
  <1>4. state[w] \in {"idle", "popping"}
    BY DEF GetConnection
  <1>5. Holders' = Holders \cup {w} /\ w \notin Holders
    BY <1>3, <1>4 DEF Holders, PoolInv, Places
  <1>6. item'[w] = h /\ \A v \in Holders : item'[v] = item[v]
    BY <1>0, <1>1, <1>5 DEF PoolInv, QP!QueueInv, QP!TypeOK
  <1>7. Places'
    <2>1. /\ at'[w] = "out" /\ state'[w] = "got" /\ at'[Closer] = at[Closer]
          /\ \A v \in Workers : v # w => at'[v] = at[v] /\ state'[v] = state[v]
      BY <1>0, <1>1, <1>3 DEF PoolInv, Places, QP!QueueInv, QP!TypeOK
    <2> QED
      BY <1>3, <2>1 DEF PoolInv, Places
  <1>8. Apart'
    BY <1>2, <1>3, <1>5, <1>6 DEF PoolInv, Apart
  <1> QED
    BY <1>1, <1>7, <1>8 DEF PoolInv

LEMMA ReleaseKeeps ==
    ASSUME PoolInv, NEW w \in Workers, Release(w) PROVE PoolInv'
  <1>1. state[w] = "using" /\ state' = [state EXCEPT ![w] = "released"]
        /\ UNCHANGED <<lock, closer, closed>> /\ Queue!Push(item[w])
    BY DEF Release, Goto
  <1>2. w \in Holders /\ item[w] \in Conns /\ item[w] \notin Pooled /\ item[w] \notin closed
    BY <1>1 DEF Holders, PoolInv, Apart
  <1>3. /\ QP!QueueInv'
        /\ Queue!Contents' = Append(Queue!Contents, item[w])
        /\ \A c \in Workers \cup {Closer} : at'[c] # "out" => at[c] # "out"
        /\ item' = item /\ size' = size + 1
    BY <1>1, <1>2, PushEffect DEF PoolInv
  <1>4. Pooled' = Pooled \cup {item[w]} /\ Distinct'
    BY <1>2, <1>3, PooledAfterPush DEF PoolInv, Apart
  <1>5. Holders' = Holders \ {w}
    BY <1>1 DEF Holders, PoolInv, Places
  <1>6. Places'
    <2>1. /\ state' \in [Workers -> {"idle", "popping", "got", "using", "released"}]
          /\ \A v \in Workers : state[v] = "popping" => state'[v] = "popping"
      BY <1>1 DEF PoolInv, Places
    <2> QED
      BY <1>1, <1>3, <2>1 DEF PoolInv, Places
  <1>7. Apart'
    <2>1. \A v \in Holders' : item[v] # item[w]
      BY <1>2, <1>5 DEF PoolInv, Apart
    <2> QED
      BY <1>1, <1>2, <1>3, <1>4, <1>5, <2>1 DEF PoolInv, Apart
  <1> QED
    BY <1>3, <1>6, <1>7 DEF PoolInv

(* Whatever moves neither a connection nor a holder keeps them apart.          *)
LEMMA ApartSame ==
    ASSUME PoolInv, UNCHANGED <<Queue!Contents, size, closed>>, Holders' = Holders,
           \A w \in Holders : item'[w] = item[w],
           closer # "gone" \/ closer' = closer
    PROVE  Apart'
  <1>1. Pooled' = Pooled /\ Distinct' = Distinct
    BY DEF Pooled, Distinct
  <1> QED
    BY <1>1 DEF PoolInv, Apart

LEMMA WaitsKeeps ==
    ASSUME PoolInv, NEW c \in Workers \cup {Closer}, Waits(c),
           UNCHANGED <<lock, closer, closed>>,
           c = Closer => state' = state /\ (closer = "pop" \/ Queue!Spurious(c)),
           c \in Workers =>
               \/ /\ state[c] \in {"idle", "popping"}
                  /\ state' = [state EXCEPT ![c] = "popping"]
               \/ Queue!Spurious(c) /\ state' = state
    PROVE  PoolInv'
  <1>1. /\ QP!QueueInv'
        /\ UNCHANGED <<Queue!Contents, size, item>>
        /\ \A d \in Workers \cup {Closer} : d # c => at'[d] = at[d]
        /\ Queue!Spurious(c) => at[c] # "out"
    BY WaitEffect DEF PoolInv
  <1>2. Holders' = Holders
    BY DEF Holders, PoolInv, Places
  <1>3. Apart'
    BY <1>1, <1>2, ApartSame
  <1>4. Places'
    BY <1>1, PoolAssumption DEF PoolInv, Places
  <1> QED
    BY <1>1, <1>3, <1>4 DEF PoolInv

(* The counters, and the steps of the destructor that leave the queue alone.   *)
LEMMA QuietKeeps ==
    ASSUME PoolInv, UNCHANGED <<queueVars, closed>>,
           \/ closer' = closer
           \/ closer # "gone" /\ closer \notin {"pop"}
                /\ closer' \in {"test", "pop", "clear"},
           lock' \in {Nobody, Closer},
           \/ state' = state
           \/ \E w \in Workers :
                 \/ state[w] = "got" /\ state' = [state EXCEPT ![w] = "using"]
                 \/ state[w] = "released" /\ state' = [state EXCEPT ![w] = "idle"]
    PROVE  PoolInv'
  <1>1. QP!QueueInv' /\ UNCHANGED <<Queue!Contents, size, item, at>>
    BY SameEffect DEF PoolInv
  <1>2. Holders' = Holders
    BY DEF Holders, PoolInv, Places
  <1>3. Apart'
    BY <1>1, <1>2, ApartSame DEF PoolInv, Places
  <1>4. Places'
    BY <1>1 DEF PoolInv, Places
  <1> QED
    BY <1>1, <1>3, <1>4 DEF PoolInv

LEMMA ClosePopKeeps ==
    ASSUME PoolInv, ClosePop PROVE PoolInv'
  <1>0. Closer \in Workers \cup {Closer} /\ Closer \notin Workers
    BY PoolAssumption
  <1> DEFINE h == Head(Queue!Contents)
  <1>1. /\ QP!QueueInv'
        /\ Queue!Contents # <<>> /\ Queue!Contents' = Tail(Queue!Contents)
        /\ item' = [item EXCEPT ![Closer] = h] /\ at' = [at EXCEPT ![Closer] = "out"]
        /\ size' = size - 1
    BY <1>0, TakeEffect DEF ClosePop, PoolInv
  <1>2. h \in Pooled /\ Pooled' = Pooled \ {h} /\ Distinct' /\ Pooled \subseteq Conns
    BY <1>1, PooledAfterTake, ContentsSeq DEF PoolInv, Apart
  <1> HIDE DEF h
  <1>3. /\ closer = "pop" /\ closer' = "test" /\ UNCHANGED <<state, lock>>
        /\ closed' = closed \cup {item'[Closer]}
    BY DEF ClosePop
  <1>4. Holders' = Holders /\ Holders \subseteq Workers
    BY <1>3 DEF Holders
  <1>5. item'[Closer] = h /\ \A w \in Workers : item'[w] = item[w] /\ at'[w] = at[w]
    BY <1>0, <1>1 DEF PoolInv, QP!QueueInv, QP!TypeOK
  <1>6. at'[Closer] = "out"
    BY <1>0, <1>1 DEF PoolInv, QP!QueueInv, QP!TypeOK
  <1>7. Places'
    BY <1>2, <1>3, <1>5, <1>6 DEF PoolInv, Places
  <1>8. Apart'
    BY <1>2, <1>3, <1>4, <1>5 DEF PoolInv, Apart
  <1> QED
    BY <1>1, <1>7, <1>8 DEF PoolInv

LEMMA CloseClearKeeps ==
    ASSUME PoolInv, CloseClear PROVE PoolInv'
  <1>1. QP!QueueInv' /\ size' = 0 /\ UNCHANGED <<at, item>>
    BY ClearEffect DEF CloseClear, PoolInv
  <1>2. closer' = "gone" /\ lock' = Nobody /\ UNCHANGED <<state, closed>> /\ closer = "clear"
    BY DEF CloseClear
  <1>3. Holders' = Holders /\ Pooled' = {} /\ Distinct'
    BY <1>1, <1>2 DEF Holders, Pooled, Distinct
  <1>4. Places'
    BY <1>1, <1>2 DEF PoolInv, Places
  <1>5. Apart'
    BY <1>1, <1>2, <1>3 DEF PoolInv, Apart
  <1> QED
    BY <1>1, <1>4, <1>5 DEF PoolInv

LEMMA PoolNext == ASSUME PoolInv, [Next]_vars PROVE PoolInv'
  <1>1. ASSUME NEW w \in Workers, GetWaits(w) PROVE PoolInv'
    <2>1. Waits(w) /\ UNCHANGED <<lock, closer, closed>>
          /\ state[w] \in {"idle", "popping"} /\ state' = [state EXCEPT ![w] = "popping"]
      BY <1>1 DEF GetWaits, Waits, Goto
    <2> QED
      BY <2>1, WaitsKeeps, PoolAssumption
  <1>2. ASSUME NEW w \in Workers, GetCounts(w) \/ ReleaseCounts(w) PROVE PoolInv'
    <2>1. /\ UNCHANGED <<queueVars, closed>> /\ closer' = closer /\ lock' = lock
          /\ \/ state[w] = "got" /\ state' = [state EXCEPT ![w] = "using"]
             \/ state[w] = "released" /\ state' = [state EXCEPT ![w] = "idle"]
      BY <1>2 DEF GetCounts, ReleaseCounts, Goto
    <2> QED
      BY <2>1, QuietKeeps DEF PoolInv, Places
  <1>3. CASE CloseBegin \/ CloseTest
    <2>1. /\ UNCHANGED <<queueVars, closed>> /\ state' = state
          /\ closer \in {"no", "test"} /\ closer' \in {"test", "pop", "clear"}
          /\ lock' \in {Nobody, Closer}
      BY <1>3 DEF CloseBegin, CloseTest, PoolInv, Places
    <2> QED
      BY <2>1, QuietKeeps
  <1>4. CASE CloseWaits
    <2>1. Waits(Closer) /\ UNCHANGED <<state, lock, closer, closed>> /\ closer = "pop"
      BY <1>4 DEF CloseWaits, Waits
    <2> QED
      BY <2>1, WaitsKeeps, PoolAssumption
  <1>5. ASSUME NEW c \in Workers \cup {Closer}, SpuriousWake(c) PROVE PoolInv'
    <2>1. Waits(c) /\ Queue!Spurious(c) /\ UNCHANGED <<state, lock, closer, closed>>
      BY <1>5 DEF SpuriousWake, Waits
    <2> QED
      BY <2>1, WaitsKeeps
  <1>6. CASE UNCHANGED vars
    <2>1. UNCHANGED <<queueVars, closed, closer, lock, state>>
      BY <1>6 DEF vars
    <2> QED
      BY <2>1, QuietKeeps DEF PoolInv, Places
  <1> QED
    BY <1>1, <1>2, <1>3, <1>4, <1>5, <1>6, GetKeeps, ReleaseKeeps, ClosePopKeeps,
       CloseClearKeeps
       DEF Next, WorkerStep, CloserStep
-----------------------------------------------------------------------------
(* What the pool's invariant says.                                            *)

LEMMA PoolGivesOneUser == ASSUME PoolInv PROVE OneUser
  <1>1. size \in Nat /\ Pooled \subseteq Conns
    BY ContentsSeq DEF PoolInv
  <1>2. Cardinality(Pooled) = size
    <2> DEFINE f == [i \in 1..size |-> Queue!Contents[i]]
    <2>1. f \in Injection(1..size, Pooled)
      BY DEF Injection, IsInjective, Pooled, PoolInv, Apart, Distinct
    <2>2. f \in Surjection(1..size, Pooled)
      BY DEF Surjection, Pooled
    <2>3. IsFiniteSet(1..size) /\ Cardinality(1..size) = size
      BY <1>1, FS_Interval
    <2> HIDE DEF f
    <2> QED
      BY <2>1, <2>2, <2>3, FS_Surjection
  <1>3. closed \subseteq Conns
    BY DEF PoolInv, Places
  <1> QED
    BY <1>1, <1>2, <1>3 DEF PoolInv, Apart, OneUser

LEMMA PoolGivesSoundQueue == ASSUME PoolInv PROVE QueueSound
  <1>1. QP!RingMatchesSize
    BY QueueAssumed, QP!InvGivesRing DEF PoolInv
  <1>2. QP!NobodySleepsOnValues
    BY DEF PoolInv, QP!QueueInv
  <1> QED
    BY <1>1, <1>2 DEF QueueSound, Queue!RingMatchesSize, Queue!NobodySleepsOnValues,
       Queue!Contents, Queue!Slot, Queue!FrontItem, Queue!BackItem,
       QP!RingMatchesSize, QP!NobodySleepsOnValues, QP!Contents, QP!Slot,
       QP!FrontItem, QP!BackItem

(* Every step of the pool is one of the queue, or leaves the queue alone.     *)
LEMMA StepOfQueue ==
    ASSUME PoolInv, [Next]_vars PROVE [QP!Next]_(QP!queueVars)
  <1> USE DEF QP!Next, QP!PopStep
  <1>1. ASSUME NEW c \in Workers \cup {Closer}, Queue!PopAtOnce(c) \/ Queue!WakeTake(c)
        PROVE  QP!Next
    BY <1>1 DEF Queue!PopAtOnce, Queue!WakeTake, Queue!TakeFront, Queue!FrontItem,
       Queue!Slot, Queue!Goto, QP!PopAtOnce, QP!WakeTake, QP!TakeFront, QP!FrontItem,
       QP!Slot, QP!Goto
  <1>2. ASSUME NEW c \in Workers \cup {Closer}, Waits(c) PROVE QP!Next
    BY <1>2 DEF Waits, Queue!PopEmpty, Queue!Sleep, Queue!WakeEmpty, Queue!Spurious,
       Queue!Goto, Queue!ringVars, QP!PopEmpty, QP!Sleep, QP!WakeEmpty, QP!Spurious,
       QP!Goto, QP!ringVars
  <1>3. ASSUME NEW w \in Workers, Release(w) PROVE QP!Next
    <2>1. item[w] \in Conns
      BY <1>3 DEF Release, Holders, PoolInv, Apart
    <2> QED
      BY <1>3, <2>1 DEF Release, Queue!Push, Queue!Slot, Queue!Woken, QP!Push, QP!Slot,
         QP!Woken
  <1>4. CASE CloseClear
    BY <1>4 DEF CloseClear, Queue!Clear, Queue!popVars, QP!Clear, QP!popVars
  <1>5. ASSUME UNCHANGED queueVars PROVE UNCHANGED QP!queueVars
    BY <1>5 DEF queueVars, QP!queueVars, QP!ringVars, QP!popVars
  <1>6. ASSUME NEW w \in Workers, WorkerStep(w) PROVE [QP!Next]_(QP!queueVars)
    BY <1>1, <1>2, <1>3, <1>5, <1>6
       DEF WorkerStep, GetConnection, GetWaits, GetCounts, ReleaseCounts, Waits
  <1>7. CASE CloseBegin \/ CloserStep
    BY <1>1, <1>2, <1>4, <1>5, <1>7
       DEF CloseBegin, CloserStep, CloseTest, ClosePop, CloseWaits, Waits
  <1>8. CASE \E c \in Workers \cup {Closer} : SpuriousWake(c)
    BY <1>2, <1>8 DEF SpuriousWake, Waits
  <1>9. CASE UNCHANGED vars
    BY <1>5, <1>9 DEF vars
  <1> QED
    BY <1>6, <1>7, <1>8, <1>9 DEF Next

LEMMA StepInTurn ==
    ASSUME PoolInv, [Next]_vars
    PROVE  [Queue!Fifo!Next]_<<Queue!Contents, item>>
  <1>1. QP!Abstract
    BY StepOfQueue, QueueAssumed, QP!QueueNext DEF PoolInv
  <1>2. QP!Contents = Queue!Contents /\ QP!Contents' = Queue!Contents'
    BY DEF QP!Contents, QP!Slot, Queue!Contents, Queue!Slot
  <1> QED
    BY <1>1, <1>2 DEF QP!Abstract, QP!Fifo!Next, QP!Fifo!Insert, QP!Fifo!Remove,
       QP!Fifo!Empty, Queue!Fifo!Next, Queue!Fifo!Insert, Queue!Fifo!Remove,
       Queue!Fifo!Empty
-----------------------------------------------------------------------------
(* A step of the POST handlers is a step of the pool, or none.                *)
LEMMA PostStepOfPool == ASSUME [PostNext]_postVars PROVE [Next]_vars
  <1>1. ASSUME NEW w \in Workers, PostWorker(w) PROVE [Next]_vars
    <2>1. CASE Handler(w)
      BY <2>1 DEF Handler, Parse, Throw, Query, DatabaseFails, MakeName, Insert, Save
    <2>2. CASE ~Handler(w)
      BY <1>1, <2>2 DEF PostWorker, Pool, Begin, End, Next, WorkerStep
    <2> QED
      BY <2>1, <2>2
  <1>2. CASE UNCHANGED postVars
    BY <1>2 DEF postVars
  <1> QED
    BY <1>1, <1>2 DEF PostNext, PostCloser, Pool, Next

(* PostSolver.cpp uses SqlConnectionPool.cpp as ConnectionPool says a worker  *)
(* may: what is true of the pool is true under the handlers.                  *)
THEOREM HandlersUseThePool == PostSpec => Spec
  <1>1. PostInit => Init
    BY DEF PostInit
  <1>2. [PostNext]_postVars => [Next]_vars
    BY PostStepOfPool
  <1> QED
    BY <1>1, <1>2, PTL DEF PostSpec, Spec

LEMMA PoolInvAlways == PostSpec => []PoolInv
  <1>1. Init => PoolInv
    BY PoolInit
  <1>2. PoolInv /\ [Next]_vars => PoolInv'
    BY PoolNext
  <1> QED
    BY <1>1, <1>2, HandlersUseThePool, PTL DEF Spec

(* SqlConnectionPool.cpp:58-77: a connection is in the pool, with one worker  *)
(* or closed, whoever asks for one and whenever the destructor begins.        *)
THEOREM ConnectionsHaveOneUser == PostSpec => []OneUser
  <1>1. PoolInv => OneUser
    BY PoolGivesOneUser
  <1> QED
    BY <1>1, PoolInvAlways, PTL

(* BlockQueue.h under the workers and the destructor: the ring agrees with    *)
(* _size, and nobody sleeps while there is a connection.                      *)
THEOREM QueueStaysSound == PostSpec => []QueueSound
  <1>1. PoolInv => QueueSound
    BY PoolGivesSoundQueue
  <1> QED
    BY <1>1, PoolInvAlways, PTL

(* The connection that has been free longest is the next a worker gets.       *)
THEOREM ConnectionsGoInTurn == PostSpec => ConnectionsInTurn
  <1>1. PoolInv /\ [Next]_vars => [Queue!Fifo!Next]_<<Queue!Contents, item>>
    BY StepInTurn
  <1> QED
    BY <1>1, PoolInvAlways, HandlersUseThePool, PTL DEF Spec, ConnectionsInTurn
-----------------------------------------------------------------------------
(* The handlers: their types, and what is written when.                       *)
Rows == [name : Names, path : Times]
Paths == {rows[i].path : i \in DOMAIN rows}
RowsOf(n) == {i \in DOMAIN rows : rows[i].name = n}
Inserters(n) == {w \in Workers : step[w] \in {"name", "insert"} /\ dzName[w] = n}

JobInv ==
    /\ freeConn \in 0..(Width - 1) /\ curConn \in 0..(Width - 1)
    /\ kind \in [Workers -> Kinds]
    /\ step \in [Workers -> {"parse", "query", "name", "insert", "save", "done"}]
    /\ dzName \in [Workers -> Names \cup {NoName}]
    /\ file \in [Workers -> Times \cup {NoFile}]
    /\ rows \in Seq(Rows)
    /\ images \subseteq Times /\ lost \subseteq Times
    /\ aborted \in BOOLEAN
    /\ \A w \in Workers :
          /\ step[w] # "done" => state[w] = "using" /\ dzName[w] \in Names
          /\ step[w] \in {"insert", "save"} => file[w] \in Times

(* The rows of one name, and the uploads that have not found it and will      *)
(* insert one more, are together no more than the connections.                *)
CopiesInv ==
    \A n \in Names : Cardinality(RowsOf(n)) + Cardinality(Inserters(n)) <= MaxConn

FilesInv ==
    /\ RowsHaveImages
    /\ \A w \in Workers : step[w] = "save" => file[w] \in Paths

PostInv == PoolInv /\ JobInv /\ CopiesInv /\ FilesInv

LEMMA PostInitInv == PostInit => PostInv
  <1> SUFFICES ASSUME PostInit PROVE PostInv
    OBVIOUS
  <1>1. PoolInv
    BY PoolInit DEF PostInit
  <1>2. JobInv
    <2>1. /\ Width \in Nat /\ Width > MaxConn /\ MaxConn \in Nat
      BY PoolAssumption, ConnsFinite DEF MaxConn
    <2>2. freeConn \in 0..(Width - 1) /\ curConn \in 0..(Width - 1)
      BY <2>1 DEF PostInit, Init
    <2>3. file \in [Workers -> Times \cup {NoFile}]
      BY DEF PostInit
    <2>4. rows \in Seq(Rows)
      BY EmptySeq DEF PostInit
    <2> QED
      BY <2>2, <2>3, <2>4 DEF PostInit, JobInv, Kinds
  <1>3. CopiesInv
    <2>1. \A n \in Names : RowsOf(n) = {} /\ Inserters(n) = {}
      BY DEF PostInit, RowsOf, Inserters
    <2> QED
      BY <2>1, FS_EmptySet, ConnsFinite DEF CopiesInv
  <1>4. FilesInv
    BY DEF PostInit, FilesInv, RowsHaveImages
  <1> QED
    BY <1>1, <1>2, <1>3, <1>4 DEF PostInv
-----------------------------------------------------------------------------
(* The table after an insert.                                                 *)
LEMMA RowsAfterInsert ==
    ASSUME JobInv, NEW w \in Workers, Insert(w)
    PROVE  /\ rows' \in Seq(Rows)
           /\ Paths' = Paths \cup {file[w]}
           /\ \A n \in Names : RowsOf(n)' = IF n = dzName[w]
                                            THEN RowsOf(n) \cup {Len(rows) + 1}
                                            ELSE RowsOf(n)
           /\ Len(rows) + 1 \notin DOMAIN rows
  <1> DEFINE r == [name |-> dzName[w], path |-> file[w]]
             k == Len(rows)
  <1>1. rows \in Seq(Rows) /\ r \in Rows /\ k \in Nat /\ rows' = Append(rows, r)
    BY DEF JobInv, Insert, Rows
  <1>2. /\ rows' \in Seq(Rows) /\ Len(rows') = k + 1
        /\ \A i \in 1..k : rows'[i] = rows[i]
        /\ rows'[k + 1] = r
    BY <1>1, AppendProperties
  <1>3. DOMAIN rows = 1..k /\ DOMAIN rows' = 1..(k + 1)
    BY <1>1, <1>2
  <1>4. 1..(k + 1) = 1..k \cup {k + 1} /\ k + 1 \notin 1..k
    BY <1>1
  <1>5. Paths' = Paths \cup {file[w]}
    <2>1. Paths' = {rows'[i].path : i \in 1..k \cup {k + 1}}
      BY <1>3, <1>4 DEF Paths
    <2>2. Paths = {rows[i].path : i \in 1..k}
      BY <1>3 DEF Paths
    <2> QED
      BY <1>2, <2>1, <2>2
  <1>6. ASSUME NEW n \in Names
        PROVE  RowsOf(n)' = IF n = dzName[w] THEN RowsOf(n) \cup {k + 1} ELSE RowsOf(n)
    <2>1. RowsOf(n)' = {i \in 1..k \cup {k + 1} : rows'[i].name = n}
      BY <1>3, <1>4 DEF RowsOf
    <2>2. RowsOf(n) = {i \in 1..k : rows[i].name = n}
      BY <1>3 DEF RowsOf
    <2> QED
      BY <1>2, <2>1, <2>2
  <1> QED
    BY <1>2, <1>3, <1>4, <1>5, <1>6

LEMMA FiniteCounts ==
    ASSUME JobInv
    PROVE  \A n : /\ IsFiniteSet(RowsOf(n)) /\ IsFiniteSet(Inserters(n))
                  /\ Cardinality(RowsOf(n)) \in Nat /\ Cardinality(Inserters(n)) \in Nat
  <1> TAKE n
  <1>1. DOMAIN rows = 1..Len(rows) /\ Len(rows) \in Nat
    BY DEF JobInv
  <1>2. IsFiniteSet(DOMAIN rows)
    BY <1>1, FS_Interval
  <1>3. IsFiniteSet(RowsOf(n))
    BY <1>2, FS_Subset DEF RowsOf
  <1>4. IsFiniteSet(Inserters(n))
    BY PoolAssumption, FS_Subset DEF Inserters
  <1> QED
    BY <1>3, <1>4, FS_CardinalityType

(* Every worker in a handler has a connection of its own.                     *)
LEMMA HoldersCounted ==
    ASSUME PoolInv, NEW T \in SUBSET Holders
    PROVE  IsFiniteSet(T) /\ Cardinality(T) \in Nat /\ Cardinality(T) <= MaxConn
  <1> DEFINE f == [w \in T |-> item[w]]
  <1>1. f \in Injection(T, Conns)
    BY DEF Injection, IsInjective, PoolInv, Apart
  <1> HIDE DEF f
  <1>2. IsFiniteSet(T) /\ Cardinality(T) <= Cardinality(Conns)
    BY <1>1, ConnsFinite, FS_Injection
  <1> QED
    BY <1>2, FS_CardinalityType DEF MaxConn

(* With fewer inserters and the same rows there are no more copies to come.    *)
LEMMA CopiesSame ==
    ASSUME JobInv, CopiesInv, rows' = rows,
           \A n \in Names : Inserters(n)' \subseteq Inserters(n)
    PROVE  CopiesInv'
  <1>1. ASSUME NEW n \in Names
        PROVE  Cardinality(RowsOf(n)') + Cardinality(Inserters(n)') <= MaxConn
    <2>1. RowsOf(n)' = RowsOf(n)
      BY DEF RowsOf
    <2>2. Cardinality(Inserters(n)') <= Cardinality(Inserters(n))
          /\ IsFiniteSet(Inserters(n)')
      BY FiniteCounts, FS_Subset
    <2>3. Cardinality(Inserters(n)') \in Nat
      BY <2>2, FS_CardinalityType
    <2> QED
      BY <2>1, <2>2, <2>3, FiniteCounts, ConnsFinite DEF CopiesInv
  <1> QED
    BY <1>1 DEF CopiesInv

(* With the same table, files and savers, every row has what it had.          *)
LEMMA FilesSame ==
    ASSUME FilesInv, UNCHANGED <<rows, images, lost>>,
           \A w \in Workers :
               /\ step'[w] = "save" <=> step[w] = "save"
               /\ step[w] = "save" => file'[w] = file[w]
    PROVE  FilesInv'
  <1>1. Paths' = Paths
    BY DEF Paths
  <1>2. ASSUME NEW p \in Paths
        PROVE  p \in images' \cup lost' \/ \E w \in Workers : step'[w] = "save" /\ file'[w] = p
    BY DEF FilesInv, RowsHaveImages, Paths
  <1>3. images' \subseteq Paths
    BY DEF FilesInv, RowsHaveImages, Paths
  <1> QED
    BY <1>1, <1>2, <1>3 DEF FilesInv, RowsHaveImages, Paths
-----------------------------------------------------------------------------
(* Steps of the pool beside the handlers.                                     *)
LEMMA CountedInRange ==
    ASSUME NEW n \in Int PROVE Counted(n) \in 0..(Width - 1)
  <1>1. Width \in Nat \ {0}
    BY PoolAssumption, ConnsFinite DEF MaxConn
  <1> QED
    BY <1>1 DEF Counted

LEMMA PoolStepKeepsJobs ==
    ASSUME JobInv, CopiesInv, FilesInv, UNCHANGED handlerVars,
           freeConn' \in 0..(Width - 1), curConn' \in 0..(Width - 1),
           \A w \in Workers : state[w] = "using" => state'[w] = "using"
    PROVE  JobInv' /\ CopiesInv' /\ FilesInv'
  <1>1. JobInv'
    BY DEF JobInv, handlerVars, jobVars, worldVars
  <1>2. CopiesInv'
    BY CopiesSame DEF Inserters, handlerVars, jobVars, worldVars
  <1>3. FilesInv'
    BY FilesSame DEF handlerVars, jobVars, worldVars
  <1> QED
    BY <1>1, <1>2, <1>3

LEMMA PoolStepKeepsPost ==
    ASSUME PostInv, UNCHANGED handlerVars,
           \/ \E w \in Workers : GetConnection(w) \/ GetWaits(w) \/ ReleaseCounts(w)
           \/ CloseBegin \/ CloserStep
           \/ \E c \in Workers \cup {Closer} : SpuriousWake(c)
           \/ UNCHANGED vars
    PROVE  JobInv' /\ CopiesInv' /\ FilesInv'
  <1>0. JobInv /\ CopiesInv /\ FilesInv /\ PoolInv
    BY DEF PostInv
  <1>1. freeConn \in 0..(Width - 1) /\ curConn \in 0..(Width - 1)
        /\ freeConn + 1 \in Int /\ curConn - 1 \in Int /\ 0 \in 0..(Width - 1)
    BY <1>0, PoolAssumption, ConnsFinite DEF JobInv, MaxConn
  <1>2. freeConn' \in {freeConn, Counted(freeConn + 1), 0}
        /\ curConn' \in {curConn, Counted(curConn - 1), 0}
    BY DEF GetConnection, GetWaits, ReleaseCounts, CloseBegin, CloserStep, CloseTest,
       ClosePop, CloseWaits, CloseClear, SpuriousWake, vars
  <1>3. freeConn' \in 0..(Width - 1) /\ curConn' \in 0..(Width - 1)
    BY <1>1, <1>2, CountedInRange
  <1>4. \A w \in Workers : state[w] = "using" => state'[w] = "using"
    BY <1>0 DEF PoolInv, Places, GetConnection, GetWaits, ReleaseCounts, CloseBegin,
       CloserStep, CloseTest, ClosePop, CloseWaits, CloseClear, SpuriousWake, Goto, vars
  <1> QED
    BY <1>0, <1>3, <1>4, PoolStepKeepsJobs
-----------------------------------------------------------------------------
(* Steps of a handler other than its query and its insert.                    *)
LEMMA BeginKeeps ==
    ASSUME PostInv, NEW w \in Workers, Begin(w)
    PROVE  JobInv' /\ CopiesInv' /\ FilesInv'
  <1>0. JobInv /\ CopiesInv /\ FilesInv /\ PoolInv
    BY DEF PostInv
  <1>1. PICK k \in Kinds, n \in Names :
          /\ kind' = [kind EXCEPT ![w] = k] /\ dzName' = [dzName EXCEPT ![w] = n]
          /\ step' = [step EXCEPT ![w] = IF k = "other" THEN "done" ELSE "parse"]
    BY DEF Begin, GoOn
  <1>2. /\ freeConn' = Counted(freeConn - 1) /\ curConn' = Counted(curConn + 1)
        /\ state[w] = "got" /\ state' = [state EXCEPT ![w] = "using"]
        /\ UNCHANGED <<file, rows, images, lost, aborted>>
    BY DEF Begin, GetCounts, Goto, worldVars
  <1>3. freeConn' \in 0..(Width - 1) /\ curConn' \in 0..(Width - 1)
    BY <1>0, <1>2, CountedInRange DEF JobInv
  <1>4. step[w] = "done"
    BY <1>0, <1>2 DEF JobInv
  <1>5. JobInv'
    BY <1>0, <1>1, <1>2, <1>3, <1>4 DEF JobInv, PoolInv, Places
  <1>6. CopiesInv'
    <2>1. \A n2 \in Names : Inserters(n2)' \subseteq Inserters(n2)
      BY <1>0, <1>1 DEF Inserters, JobInv
    <2> QED
      BY <1>0, <1>2, <2>1, CopiesSame
  <1>7. FilesInv'
    <2>1. \A v \in Workers : step'[v] = "save" <=> step[v] = "save"
      BY <1>0, <1>1, <1>4 DEF JobInv
    <2> QED
      BY <1>0, <1>2, <2>1, FilesSame
  <1> QED
    BY <1>5, <1>6, <1>7

LEMMA EndKeeps ==
    ASSUME PostInv, NEW w \in Workers, End(w)
    PROVE  JobInv' /\ CopiesInv' /\ FilesInv'
  <1>0. JobInv /\ CopiesInv /\ FilesInv /\ PoolInv
    BY HandlerAssumption DEF PostInv
  <1>1. /\ step[w] = "done" /\ UNCHANGED <<step, rows, images, lost, aborted>>
        /\ kind' = [kind EXCEPT ![w] = "other"]
        /\ dzName' = [dzName EXCEPT ![w] = NoName]
        /\ file' = [file EXCEPT ![w] = NoFile]
        /\ state' = [state EXCEPT ![w] = "released"]
        /\ UNCHANGED <<freeConn, curConn>>
    BY DEF End, Release, Goto, worldVars
  <1>2. JobInv'
    BY <1>0, <1>1 DEF JobInv, Kinds, PoolInv, Places
  <1>3. CopiesInv'
    <2>1. \A n \in Names : Inserters(n)' \subseteq Inserters(n)
      BY <1>0, <1>1 DEF Inserters, JobInv
    <2> QED
      BY <1>0, <1>1, <2>1, CopiesSame
  <1>4. FilesInv'
    <2>1. \A v \in Workers : step[v] = "save" => file'[v] = file[v]
      BY <1>0, <1>1 DEF JobInv
    <2> QED
      BY <1>0, <1>1, <2>1, FilesSame
  <1> QED
    BY <1>2, <1>3, <1>4

(* What moves a worker and its file, and leaves the world alone.              *)
LEMMA MoveKeeps ==
    ASSUME PostInv, NEW w \in Workers, UNCHANGED <<vars, kind, dzName, worldVars>>,
           aborted' \in BOOLEAN, step[w] # "done",
           NEW s \in {"parse", "query", "name", "insert", "done"},
           step' = [step EXCEPT ![w] = s],
           NEW p \in Times \cup {NoFile}, file' = [file EXCEPT ![w] = p],
           step[w] # "save", s = "insert" => p \in Times,
           s \in {"name", "insert"} => step[w] \in {"name", "insert"}
    PROVE  JobInv' /\ CopiesInv' /\ FilesInv'
  <1>0. JobInv /\ CopiesInv /\ FilesInv
    BY DEF PostInv
  <1>1. JobInv'
    BY <1>0 DEF JobInv, vars, worldVars
  <1>2. CopiesInv'
    <2>1. \A n \in Names : Inserters(n)' \subseteq Inserters(n)
      BY <1>0 DEF Inserters, JobInv
    <2> QED
      BY <1>0, <2>1, CopiesSame DEF worldVars
  <1>3. FilesInv'
    <2>1. step'[w] = s /\ s # "save"
      BY <1>0 DEF JobInv
    <2>2. \A v \in Workers : v # w => step'[v] = step[v] /\ file'[v] = file[v]
      BY <1>0 DEF JobInv
    <2> QED
      BY <1>0, <2>1, <2>2, FilesSame DEF worldVars
  <1> QED
    BY <1>1, <1>2, <1>3

LEMMA SimpleHandlerKeeps ==
    ASSUME PostInv, NEW w \in Workers,
           Parse(w) \/ Throw(w) \/ DatabaseFails(w) \/ MakeName(w)
    PROVE  JobInv' /\ CopiesInv' /\ FilesInv'
  <1>0. JobInv /\ file[w] \in Times \cup {NoFile}
        /\ file = [file EXCEPT ![w] = file[w]] /\ step = [step EXCEPT ![w] = step[w]]
    BY HandlerAssumption DEF PostInv, JobInv
  <1>1. CASE Parse(w)
    <2>1. PICK s \in {"query", "done"} : step' = [step EXCEPT ![w] = s]
      BY <1>1 DEF Parse, GoOn
    <2> QED
      BY <1>0, <1>1, <2>1, MoveKeeps DEF Parse, JobInv
  <1>2. CASE Throw(w)
    BY <1>0, <1>2, MoveKeeps DEF Throw, jobVars, JobInv
  <1>3. CASE DatabaseFails(w)
    BY <1>0, <1>3, MoveKeeps DEF DatabaseFails, GoOn, JobInv
  <1>4. CASE MakeName(w)
    <2>1. PICK t \in Times : file' = [file EXCEPT ![w] = t]
      BY <1>4 DEF MakeName
    <2> QED
      BY <1>0, <1>4, <2>1, MoveKeeps DEF MakeName, GoOn, JobInv
  <1> QED
    BY <1>1, <1>2, <1>3, <1>4

-----------------------------------------------------------------------------
LEMMA LeastIndex ==
    ASSUME NEW T \in SUBSET Nat, T # {} PROVE \E k \in T : \A j \in T : k <= j
  <1> DEFINE R == OpToRel(<, Nat)
  <1>1. IsWellFoundedOn(R, Nat)
    BY NatLessThanWellFounded
  <1> HIDE DEF R
  <1>2. PICK k \in T : \A j \in T : ~ (<<j, k>> \in R)
    BY <1>1, WFMin
  <1>3. \A j \in T : ~ (j < k)
    BY <1>2 DEF R, OpToRel
  <1> QED
    BY <1>3

(* DataBase::query(), where an upload that finds nothing joins the inserters  *)
(* of its name: all of them are workers with a connection.                    *)
LEMMA QueryKeeps ==
    ASSUME PostInv, NEW w \in Workers, Query(w)
    PROVE  JobInv' /\ CopiesInv' /\ FilesInv'
  <1>0. JobInv /\ CopiesInv /\ FilesInv /\ PoolInv
    BY HandlerAssumption DEF PostInv
  <1> DEFINE s == IF kind[w] = "upload" /\ Finds(w) = {} THEN "name" ELSE "done"
             p == IF kind[w] = "search" /\ Finds(w) # {}
                  THEN rows[CHOOSE i \in Finds(w) : \A j \in Finds(w) : i <= j].path
                  ELSE NoFile
  <1>1. /\ step[w] = "query" /\ step' = [step EXCEPT ![w] = s]
        /\ file' = [file EXCEPT ![w] = p]
        /\ UNCHANGED <<vars, kind, dzName, worldVars, aborted>>
    BY DEF Query, GoOn
  <1>2. p \in Times \cup {NoFile}
    <2>1. CASE kind[w] = "search" /\ Finds(w) # {}
      <3> DEFINE i == CHOOSE k \in Finds(w) : \A j \in Finds(w) : k <= j
      <3>1. \E k \in Finds(w) : \A j \in Finds(w) : k <= j
        <4>1. Finds(w) \in SUBSET Nat /\ Finds(w) # {}
          BY <1>0, <2>1 DEF Finds, JobInv
        <4> QED
          BY <4>1, LeastIndex
      <3>2. i \in DOMAIN rows
        BY <3>1 DEF Finds
      <3> HIDE DEF i
      <3>3. rows[i].path \in Times
        <4>1. rows \in Seq(Rows) /\ i \in 1..Len(rows)
          BY <1>0, <3>2 DEF JobInv
        <4>2. rows[i] \in Rows
          BY <4>1, ElementOfSeq
        <4> QED
          BY <4>2 DEF Rows
      <3> QED
        BY <1>0, <2>1, <3>3 DEF i
    <2>2. CASE ~(kind[w] = "search" /\ Finds(w) # {})
      BY <1>0, <2>2
    <2> QED
      BY <2>1, <2>2
  <1> HIDE DEF p
  <1>3. CASE s = "done"
    <2>1. aborted' \in BOOLEAN
      BY <1>0, <1>1 DEF JobInv
    <2> HIDE DEF s
    <2> QED
      BY <1>1, <1>2, <1>3, <2>1, MoveKeeps
  <1>4. CASE s = "name"
    <2>1. Finds(w) = {}
      BY <1>4
    <2> HIDE DEF s
    <2>2. JobInv'
      BY <1>0, <1>1, <1>2, <1>4 DEF JobInv, vars, worldVars
    <2>3. ASSUME NEW n \in Names
          PROVE  Cardinality(RowsOf(n)') + Cardinality(Inserters(n)') <= MaxConn
      <3>0. RowsOf(n)' = RowsOf(n)
        BY <1>1 DEF RowsOf, worldVars
      <3>1. CASE n = dzName[w]
        <4>1. RowsOf(n) = {}
          BY <2>1, <3>1 DEF RowsOf, Finds
        <4>2. Inserters(n)' \subseteq Holders
          BY <2>2, <1>1 DEF Inserters, Holders, JobInv, vars
        <4>3. Cardinality(Inserters(n)') <= MaxConn /\ Cardinality(Inserters(n)') \in Nat
          BY <1>0, <4>2, HoldersCounted
        <4>4. Cardinality(RowsOf(n)') = 0
          BY <3>0, <4>1, FS_EmptySet
        <4> QED
          BY <4>3, <4>4, ConnsFinite
      <3>2. CASE n # dzName[w]
        <4>1. Inserters(n)' = Inserters(n)
          BY <1>0, <1>1, <3>2 DEF Inserters, JobInv
        <4> QED
          BY <1>0, <3>0, <4>1 DEF CopiesInv
      <3> QED
        BY <3>1, <3>2
    <2>4. FilesInv'
      <3>1. step'[w] = "name"
        BY <1>0, <1>1, <1>4 DEF JobInv
      <3>2. \A v \in Workers : v # w => step'[v] = step[v] /\ file'[v] = file[v]
        BY <1>0, <1>1 DEF JobInv
      <3> QED
        BY <1>0, <1>1, <3>1, <3>2, FilesSame DEF worldVars
    <2> QED
      BY <2>2, <2>3, <2>4 DEF CopiesInv
  <1> QED
    BY <1>3, <1>4

(* DataBase::execute(): an inserter less, a row more.                         *)
LEMMA InsertKeeps ==
    ASSUME PostInv, NEW w \in Workers, Insert(w)
    PROVE  JobInv' /\ CopiesInv' /\ FilesInv'
  <1>0. JobInv /\ CopiesInv /\ FilesInv
    BY DEF PostInv
  <1>1. /\ step[w] = "insert" /\ step' = [step EXCEPT ![w] = "save"]
        /\ UNCHANGED <<vars, kind, dzName, file, images, lost, aborted>>
    BY DEF Insert, GoOn
  <1>2. /\ rows' \in Seq(Rows) /\ Paths' = Paths \cup {file[w]}
        /\ \A n \in Names : RowsOf(n)' = IF n = dzName[w]
                                         THEN RowsOf(n) \cup {Len(rows) + 1}
                                         ELSE RowsOf(n)
        /\ Len(rows) + 1 \notin DOMAIN rows
    BY <1>0, RowsAfterInsert
  <1>3. JobInv'
    BY <1>0, <1>1, <1>2 DEF JobInv, vars
  <1>4. ASSUME NEW n \in Names
        PROVE  Cardinality(RowsOf(n)') + Cardinality(Inserters(n)') <= MaxConn
    <2>0. /\ IsFiniteSet(RowsOf(n)) /\ IsFiniteSet(Inserters(n))
          /\ Cardinality(RowsOf(n)) \in Nat /\ Cardinality(Inserters(n)) \in Nat
          /\ Cardinality(RowsOf(n)) + Cardinality(Inserters(n)) <= MaxConn
          /\ MaxConn \in Nat
      BY <1>0, FiniteCounts, ConnsFinite DEF CopiesInv
    <2>1. CASE n = dzName[w]
      <3>1. Inserters(n)' = Inserters(n) \ {w} /\ w \in Inserters(n)
        BY <1>0, <1>1, <2>1 DEF Inserters, JobInv
      <3>2. Cardinality(Inserters(n)') = Cardinality(Inserters(n)) - 1
        BY <2>0, <3>1, FS_RemoveElement
      <3> DEFINE k == Len(rows) + 1
      <3>3. RowsOf(n)' = RowsOf(n) \cup {k} /\ k \notin RowsOf(n)
        BY <1>2, <2>1 DEF RowsOf
      <3> HIDE DEF k
      <3>4. Cardinality(RowsOf(n)') = Cardinality(RowsOf(n)) + 1
        BY <2>0, <3>3, FS_AddElement
      <3> QED
        BY <2>0, <3>2, <3>4
    <2>2. CASE n # dzName[w]
      <3>1. Inserters(n)' = Inserters(n)
        BY <1>0, <1>1, <2>2 DEF Inserters, JobInv
      <3> QED
        BY <1>2, <2>0, <2>2, <3>1
    <2> QED
      BY <2>1, <2>2
  <1>5. FilesInv'
    <2>1. step'[w] = "save" /\ \A v \in Workers : v # w => step'[v] = step[v]
      BY <1>0, <1>1 DEF JobInv
    <2>2. ASSUME NEW q \in Paths'
          PROVE  q \in images' \cup lost' \/ \E v \in Workers : step'[v] = "save" /\ file'[v] = q
      <3>1. CASE q = file[w]
        BY <1>1, <2>1, <3>1
      <3>2. CASE q \in Paths
        <4>1. q \in images \cup lost \/ \E v \in Workers : step[v] = "save" /\ file[v] = q
          BY <1>0, <3>2 DEF FilesInv, RowsHaveImages, Paths
        <4> QED
          BY <1>1, <2>1, <4>1
      <3> QED
        BY <1>2, <3>1, <3>2
    <2>3. images' \subseteq Paths'
      BY <1>0, <1>1, <1>2 DEF FilesInv, RowsHaveImages, Paths
    <2>4. \A v \in Workers : step'[v] = "save" => file'[v] \in Paths'
      BY <1>0, <1>1, <1>2, <2>1 DEF FilesInv
    <2> QED
      BY <2>2, <2>3, <2>4 DEF FilesInv, RowsHaveImages, Paths
  <1> QED
    BY <1>3, <1>4, <1>5 DEF CopiesInv

LEMMA SaveKeeps ==
    ASSUME PostInv, NEW w \in Workers, Save(w)
    PROVE  JobInv' /\ CopiesInv' /\ FilesInv'
  <1>0. JobInv /\ CopiesInv /\ FilesInv
    BY DEF PostInv
  <1>1. /\ step[w] = "save" /\ step' = [step EXCEPT ![w] = "done"]
        /\ \/ images' = images \cup {file[w]} /\ lost' = lost
           \/ lost' = lost \cup {file[w]} /\ images' = images
        /\ UNCHANGED <<vars, kind, dzName, file, rows, aborted>>
    BY DEF Save, GoOn
  <1>2. file[w] \in Times /\ file[w] \in Paths
    BY <1>0, <1>1 DEF JobInv, FilesInv
  <1>3. JobInv'
    BY <1>0, <1>1, <1>2 DEF JobInv, vars
  <1>4. CopiesInv'
    <2>1. \A n \in Names : Inserters(n)' \subseteq Inserters(n)
      BY <1>0, <1>1 DEF Inserters, JobInv
    <2> QED
      BY <1>0, <1>1, <2>1, CopiesSame
  <1>5. FilesInv'
    <2>1. step'[w] = "done" /\ \A v \in Workers : v # w => step'[v] = step[v]
      BY <1>0, <1>1 DEF JobInv
    <2>2. Paths' = Paths
      BY <1>1 DEF Paths
    <2>3. ASSUME NEW q \in Paths
          PROVE  q \in images' \cup lost' \/ \E v \in Workers : step'[v] = "save" /\ file'[v] = q
      <3>1. q \in images \cup lost \/ \E v \in Workers : step[v] = "save" /\ file[v] = q
        BY <1>0 DEF FilesInv, RowsHaveImages, Paths
      <3>2. images \cup lost \cup {file[w]} = images' \cup lost'
        BY <1>1
      <3> QED
        BY <1>1, <2>1, <3>1, <3>2
    <2>4. images' \subseteq Paths
      BY <1>0, <1>1, <1>2 DEF FilesInv, RowsHaveImages, Paths
    <2>5. \A v \in Workers : step'[v] = "save" => file'[v] \in Paths
      BY <1>0, <1>1, <2>1 DEF FilesInv
    <2> QED
      BY <2>2, <2>3, <2>4, <2>5 DEF FilesInv, RowsHaveImages, Paths
  <1> QED
    BY <1>3, <1>4, <1>5
-----------------------------------------------------------------------------
LEMMA PostNextInv == ASSUME PostInv, [PostNext]_postVars PROVE PostInv'
  <1>0. PoolInv'
    BY PostStepOfPool, PoolNext DEF PostInv
  <1> SUFFICES JobInv' /\ CopiesInv' /\ FilesInv'
    BY <1>0 DEF PostInv
  <1>1. ASSUME NEW w \in Workers, PostWorker(w) PROVE JobInv' /\ CopiesInv' /\ FilesInv'
    <2>1. CASE Pool(GetConnection(w)) \/ Pool(GetWaits(w)) \/ Pool(ReleaseCounts(w))
      BY <2>1, PoolStepKeepsPost DEF Pool
    <2>2. CASE Handler(w)
      BY <2>2, SimpleHandlerKeeps, QueryKeeps, InsertKeeps, SaveKeeps DEF Handler
    <2> QED
      BY <1>1, <2>1, <2>2, BeginKeeps, EndKeeps DEF PostWorker
  <1>2. CASE Pool(CloseBegin) \/ PostCloser
             \/ \E c \in Workers \cup {Closer} : Pool(SpuriousWake(c))
    BY <1>2, PoolStepKeepsPost DEF Pool, PostCloser
  <1>3. CASE UNCHANGED postVars
    BY <1>3, PoolStepKeepsPost DEF postVars
  <1> QED
    BY <1>1, <1>2, <1>3 DEF PostNext

LEMMA PostInvAlways == PostSpec => []PostInv
  <1>1. PostInv /\ [PostNext]_postVars => PostInv'
    BY PostNextInv
  <1> QED
    BY <1>1, PostInitInv, PTL DEF PostSpec

(* Types.                                                                     *)
THEOREM PostTypes == PostSpec => []PostTypeOK
  <1>1. ASSUME PostInv PROVE PostTypeOK
    <2>1. Queue!TypeOK
      BY <1>1 DEF PostInv, PoolInv, QP!QueueInv, QP!TypeOK, Queue!TypeOK
    <2>2. TypeOK
      BY <1>1, <2>1 DEF PostInv, PoolInv, JobInv, Places, TypeOK
    <2> QED
      BY <1>1, <2>2 DEF PostInv, JobInv, Rows, PostTypeOK
  <1> QED
    BY <1>1, PostInvAlways, PTL

(* PostSolver.cpp:182-196: the query that finds no row and the insert are     *)
(* made over one connection, so there are no more copies than connections.    *)
THEOREM CopiesAreBounded == PostSpec => []CopiesBounded
  <1>1. ASSUME PostInv PROVE CopiesBounded
    <2>1. \A n \in Names : Cardinality(RowsOf(n)) <= MaxConn
      BY <1>1, FiniteCounts, ConnsFinite DEF PostInv, CopiesInv
    <2> QED
      BY <2>1 DEF CopiesBounded, RowsOf
  <1> QED
    BY <1>1, PostInvAlways, PTL

(* PostSolver.cpp:196-203: every row has its picture, or will, or could not   *)
(* be given one, and no picture is without a row.                             *)
THEOREM RowsKeepImages == PostSpec => []RowsHaveImages
  <1>1. PostInv => RowsHaveImages
    BY DEF PostInv, FilesInv
  <1> QED
    BY <1>1, PostInvAlways, PTL
-----------------------------------------------------------------------------
(* The counters.  Between the queue and the counters a worker is in Got or in *)
(* Released, so the counters are, modulo 2^32, what the queue and the workers  *)
(* add up to; freeConn passes through "minus one" when there are released      *)
(* connections that are taken again before they are counted.                  *)
Got == {w \in Workers : state[w] = "got"}
Using == {w \in Workers : state[w] = "using"}
Released == {w \in Workers : state[w] = "released"}
FreeSum == size + Cardinality(Got) - Cardinality(Released)
CurSum == Cardinality(Using) + Cardinality(Released)

CountsInv ==
    closer = "no" => freeConn = FreeSum % Width /\ curConn = CurSum % Width

LEMMA ModUp ==
    ASSUME NEW W \in Nat \ {0}, NEW x \in Int
    PROVE  ((x % W) + 1) % W = (x + 1) % W
  <1> DEFINE q == x \div W
             r == x % W
  <1>1. q \in Int /\ r \in 0..(W - 1) /\ x = q * W + r
    OBVIOUS
  <1> HIDE DEF q, r
  <1>2. CASE r + 1 < W
    <2>1. r + 1 \in 0..(W - 1) /\ x + 1 = q * W + (r + 1)
      BY <1>1, <1>2
    <2>2. (q * W + (r + 1)) % W = r + 1
      BY ONLY <1>1, <2>1, W \in Nat \ {0}
    <2>3. (r + 1) % W = r + 1
      BY ONLY <2>1, W \in Nat \ {0}
    <2> QED
      BY <2>1, <2>2, <2>3 DEF r
  <1>3. CASE r + 1 = W
    <2>1. q + 1 \in Int /\ 0 \in 0..(W - 1) /\ x + 1 = (q + 1) * W + 0
      BY <1>1, <1>3
    <2>2. ((q + 1) * W + 0) % W = 0
      <3> DEFINE p == q + 1
      <3>1. p \in Int
        BY <2>1
      <3> HIDE DEF p
      <3>2. (p * W + 0) % W = 0
        BY ONLY <3>1, W \in Nat \ {0}
      <3> QED
        BY <3>2 DEF p
    <2>3. W % W = 0
      OBVIOUS
    <2> QED
      BY <1>3, <2>1, <2>2, <2>3 DEF r
  <1> QED
    BY <1>1, <1>2, <1>3

LEMMA ModDown ==
    ASSUME NEW W \in Nat \ {0}, NEW x \in Int
    PROVE  ((x % W) - 1) % W = (x - 1) % W
  <1> DEFINE q == x \div W
             r == x % W
  <1>1. q \in Int /\ r \in 0..(W - 1) /\ x = q * W + r
    OBVIOUS
  <1> HIDE DEF q, r
  <1>2. CASE r > 0
    <2>1. r - 1 \in 0..(W - 1) /\ x - 1 = q * W + (r - 1)
      BY <1>1, <1>2
    <2>2. (q * W + (r - 1)) % W = r - 1
      BY ONLY <1>1, <2>1, W \in Nat \ {0}
    <2>3. (r - 1) % W = r - 1
      BY ONLY <2>1, W \in Nat \ {0}
    <2> QED
      BY <2>1, <2>2, <2>3 DEF r
  <1>3. CASE r = 0
    <2>1. q - 1 \in Int /\ W - 1 \in 0..(W - 1) /\ x - 1 = (q - 1) * W + (W - 1)
      BY <1>1, <1>3
    <2>2. ((q - 1) * W + (W - 1)) % W = W - 1
      <3> DEFINE p == q - 1
      <3>1. p \in Int
        BY <2>1
      <3> HIDE DEF p
      <3>2. (p * W + (W - 1)) % W = W - 1
        BY ONLY <2>1, <3>1, W \in Nat \ {0}
      <3> QED
        BY <3>2 DEF p
    <2>3. (0 - 1) % W = W - 1
      <3>1. (-1 * W + (W - 1)) % W = W - 1 /\ -1 * W + (W - 1) = 0 - 1
        BY ONLY <2>1, W \in Nat \ {0}
      <3> QED
        BY <3>1
    <2> QED
      BY <1>3, <2>1, <2>2, <2>3 DEF r
  <1> QED
    BY <1>1, <1>2, <1>3

LEMMA SetCounts ==
    ASSUME NEW S, S \subseteq Workers, NEW w \in Workers
    PROVE  /\ Cardinality(S) \in Nat
           /\ w \notin S => Cardinality(S \cup {w}) = Cardinality(S) + 1
           /\ w \in S => Cardinality(S \ {w}) = Cardinality(S) - 1
  <1>1. IsFiniteSet(S)
    BY PoolAssumption, FS_Subset
  <1> QED
    BY <1>1, FS_CardinalityType, FS_AddElement, FS_RemoveElement

LEMMA PlaceCounts ==
    /\ Got \subseteq Workers /\ Cardinality(Got) \in Nat
    /\ Using \subseteq Workers /\ Cardinality(Using) \in Nat
    /\ Released \subseteq Workers /\ Cardinality(Released) \in Nat
  <1>1. Got \subseteq Workers /\ Using \subseteq Workers /\ Released \subseteq Workers
    BY DEF Got, Using, Released
  <1>2. ASSUME NEW S, S \subseteq Workers PROVE Cardinality(S) \in Nat
    <2>1. IsFiniteSet(S)
      BY <1>2, PoolAssumption, FS_Subset
    <2> QED
      BY <2>1, FS_CardinalityType
  <1> QED
    BY <1>1, <1>2

LEMMA CountsInit == Init => CountsInv
  <1> SUFFICES ASSUME Init PROVE CountsInv
    OBVIOUS
  <1>1. Cardinality(Got) = 0 /\ Cardinality(Using) = 0 /\ Cardinality(Released) = 0
    <2>1. Got = {} /\ Using = {} /\ Released = {}
      BY DEF Init, Got, Using, Released
    <2>2. Cardinality({}) = 0
      BY FS_EmptySet
    <2> QED
      BY ONLY <2>1, <2>2
  <1>2. MaxConn \in 0..(Width - 1) /\ Width \in Nat \ {0}
    BY PoolAssumption, ConnsFinite DEF MaxConn
  <1>3. FreeSum = MaxConn /\ CurSum = 0
    BY <1>1, <1>2 DEF Init, FreeSum, CurSum
  <1>4. MaxConn % Width = MaxConn /\ 0 % Width = 0
    BY ONLY <1>2
  <1> QED
    BY <1>3, <1>4 DEF Init, CountsInv

LEMMA CountsNext ==
    ASSUME PoolInv, CountsInv, [Next]_vars PROVE CountsInv'
  <1> SUFFICES ASSUME closer' = "no"
               PROVE  freeConn' = FreeSum' % Width /\ curConn' = CurSum' % Width
    BY DEF CountsInv
  <1>0. closer = "no"
    BY DEF Next, WorkerStep, CloserStep, GetConnection, GetWaits, GetCounts, Release,
       ReleaseCounts, CloseBegin, CloseTest, ClosePop, CloseWaits, CloseClear,
       SpuriousWake, vars
  <1>1. freeConn = FreeSum % Width /\ curConn = CurSum % Width
    BY <1>0 DEF CountsInv
  <1>2. /\ Width \in Nat \ {0} /\ FreeSum \in Int /\ CurSum \in Int /\ size \in Nat
        /\ Cardinality(Got) \in Nat /\ Cardinality(Using) \in Nat
        /\ Cardinality(Released) \in Nat
    BY PoolAssumption, ConnsFinite, PlaceCounts, ContentsSeq
       DEF MaxConn, FreeSum, CurSum, PoolInv
  <1>3. ASSUME NEW w \in Workers, GetConnection(w)
        PROVE  FreeSum' = FreeSum /\ CurSum' = CurSum /\ UNCHANGED <<freeConn, curConn>>
    <2>1. size' = size - 1
      BY <1>3 DEF GetConnection, Queue!PopAtOnce, Queue!WakeTake, Queue!TakeFront
    <2>2. PICK s \in {"idle", "popping"} :
            state[w] = s /\ state' = [state EXCEPT ![w] = "got"]
      BY <1>3 DEF GetConnection, Goto
    <2>3. /\ Got' = Got \cup {w} /\ w \notin Got
          /\ Using' = Using /\ Released' = Released
      BY <2>2 DEF Got, Using, Released, PoolInv, Places
    <2>4. Cardinality(Got') = Cardinality(Got) + 1
      BY <2>3, PlaceCounts, SetCounts
    <2> QED
      BY <1>2, <1>3, <2>1, <2>3, <2>4 DEF FreeSum, CurSum, GetConnection
  <1>4. ASSUME NEW w \in Workers, GetCounts(w)
        PROVE  /\ FreeSum' = FreeSum - 1 /\ CurSum' = CurSum + 1
               /\ freeConn' = Counted(freeConn - 1) /\ curConn' = Counted(curConn + 1)
    <2>1. /\ state[w] = "got" /\ state' = [state EXCEPT ![w] = "using"]
          /\ size' = size
      BY <1>4 DEF GetCounts, Goto, queueVars
    <2>2. /\ Got' = Got \ {w} /\ w \in Got
          /\ Using' = Using \cup {w} /\ w \notin Using
          /\ Released' = Released
      BY <2>1 DEF Got, Using, Released, PoolInv, Places
    <2>3. Cardinality(Got') = Cardinality(Got) - 1
      BY <2>2, PlaceCounts, SetCounts
    <2>4. Cardinality(Using') = Cardinality(Using) + 1
      BY <2>2, PlaceCounts, SetCounts
    <2> QED
      BY <1>2, <1>4, <2>1, <2>2, <2>3, <2>4 DEF FreeSum, CurSum, GetCounts
  <1>5. ASSUME NEW w \in Workers, Release(w)
        PROVE  FreeSum' = FreeSum /\ CurSum' = CurSum /\ UNCHANGED <<freeConn, curConn>>
    <2>1. /\ state[w] = "using" /\ state' = [state EXCEPT ![w] = "released"]
          /\ size' = size + 1
      BY <1>5 DEF Release, Goto, Queue!Push
    <2>2. /\ Using' = Using \ {w} /\ w \in Using
          /\ Released' = Released \cup {w} /\ w \notin Released
          /\ Got' = Got
      BY <2>1 DEF Got, Using, Released, PoolInv, Places
    <2>3. Cardinality(Using') = Cardinality(Using) - 1
      BY <2>2, PlaceCounts, SetCounts
    <2>4. Cardinality(Released') = Cardinality(Released) + 1
      BY <2>2, PlaceCounts, SetCounts
    <2> QED
      BY <1>2, <1>5, <2>1, <2>2, <2>3, <2>4 DEF FreeSum, CurSum, Release
  <1>6. ASSUME NEW w \in Workers, ReleaseCounts(w)
        PROVE  /\ FreeSum' = FreeSum + 1 /\ CurSum' = CurSum - 1
               /\ freeConn' = Counted(freeConn + 1) /\ curConn' = Counted(curConn - 1)
    <2>1. /\ state[w] = "released" /\ state' = [state EXCEPT ![w] = "idle"]
          /\ size' = size
      BY <1>6 DEF ReleaseCounts, Goto, queueVars
    <2>2. /\ Released' = Released \ {w} /\ w \in Released
          /\ Got' = Got /\ Using' = Using
      BY <2>1 DEF Got, Using, Released, PoolInv, Places
    <2>3. Cardinality(Released') = Cardinality(Released) - 1
      BY <2>2, PlaceCounts, SetCounts
    <2> QED
      BY <1>2, <1>6, <2>1, <2>2, <2>3 DEF FreeSum, CurSum, ReleaseCounts
  <1>7. ASSUME \/ \E w \in Workers : GetWaits(w)
               \/ \E c \in Workers \cup {Closer} : SpuriousWake(c)
               \/ UNCHANGED vars
        PROVE  FreeSum' = FreeSum /\ CurSum' = CurSum /\ UNCHANGED <<freeConn, curConn>>
    <2>1. UNCHANGED <<size, freeConn, curConn>>
      BY <1>7 DEF GetWaits, SpuriousWake, vars, queueVars, Queue!PopEmpty, Queue!Sleep,
         Queue!WakeEmpty, Queue!Spurious, Queue!ringVars
    <2>2. Got' = Got /\ Using' = Using /\ Released' = Released
      BY <1>7 DEF GetWaits, SpuriousWake, vars, Goto, Got, Using, Released, PoolInv, Places
    <2> QED
      BY <2>1, <2>2 DEF FreeSum, CurSum
  <1>8. CASE CloseBegin \/ CloserStep
    BY <1>0, <1>8 DEF CloseBegin, CloserStep, CloseTest, ClosePop, CloseWaits, CloseClear
  <1>9. ASSUME FreeSum' = FreeSum, CurSum' = CurSum, UNCHANGED <<freeConn, curConn>>
        PROVE  freeConn' = FreeSum' % Width /\ curConn' = CurSum' % Width
    BY <1>1, <1>9
  <1>10. Counted(freeConn - 1) = (FreeSum - 1) % Width
         /\ Counted(freeConn + 1) = (FreeSum + 1) % Width
    BY <1>1, <1>2, ModUp, ModDown DEF Counted
  <1>11. Counted(curConn - 1) = (CurSum - 1) % Width
         /\ Counted(curConn + 1) = (CurSum + 1) % Width
    BY <1>1, <1>2, ModUp, ModDown DEF Counted
  <1>12. ASSUME NEW w \in Workers, WorkerStep(w)
         PROVE  freeConn' = FreeSum' % Width /\ curConn' = CurSum' % Width
    <2>1. CASE GetCounts(w)
      BY <2>1, <1>4, <1>10, <1>11
    <2>2. CASE ReleaseCounts(w)
      BY <2>2, <1>6, <1>10, <1>11
    <2> QED
      BY <1>12, <2>1, <2>2, <1>3, <1>5, <1>7, <1>9 DEF WorkerStep
  <1> QED
    BY <1>7, <1>8, <1>9, <1>12 DEF Next

(* SqlConnectionPool.cpp: _freeConn and _curConn are changed after the queue, *)
(* under another mutex, by unsigned arithmetic: when no worker is in between,  *)
(* they are what they count.                                                  *)
THEOREM CountersSettle == PostSpec => []CountsSettle
  <1>1. ASSUME PoolInv, CountsInv PROVE CountsSettle
    <2> SUFFICES ASSUME closer = "no", \A w \in Workers : state[w] \notin {"got", "released"}
                 PROVE  freeConn = size /\ curConn = Cardinality(Holders)
      BY DEF CountsSettle
    <2>1. Cardinality(Got) = 0 /\ Cardinality(Released) = 0
          /\ Cardinality(Using) = Cardinality(Holders)
      <3>1. Got = {} /\ Released = {} /\ Using = Holders
        BY DEF Holders, Got, Using, Released
      <3>2. Cardinality({}) = 0
        BY FS_EmptySet
      <3> QED
        BY ONLY <3>1, <3>2
    <2>2. Cardinality(Holders) \in Nat /\ Cardinality(Holders) <= MaxConn
      BY <1>1, HoldersCounted
    <2>3. size \in Nat /\ size <= MaxConn
      <3>1. size = Cardinality(Pooled) /\ Pooled \subseteq Conns /\ size \in Nat
        BY <1>1, PoolGivesOneUser, ContentsSeq DEF OneUser, PoolInv
      <3> QED
        BY <3>1, ConnsFinite, FS_Subset DEF MaxConn
    <2>4. MaxConn \in Nat /\ Width \in Nat /\ MaxConn < Width
      BY PoolAssumption, ConnsFinite DEF MaxConn
    <2>5. FreeSum = size /\ CurSum = Cardinality(Holders)
      BY <2>1, <2>2, <2>3 DEF FreeSum, CurSum
    <2>6. \A n \in Nat : n <= MaxConn => n % Width = n
      BY ONLY <2>4
    <2> QED
      BY <1>1, <2>2, <2>3, <2>5, <2>6 DEF CountsInv
  <1>2. PoolInv /\ CountsInv /\ [Next]_vars => CountsInv'
    BY CountsNext
  <1> QED
    BY <1>1, <1>2, CountsInit, PoolInvAlways, HandlersUseThePool, PTL DEF Spec
=============================================================================
