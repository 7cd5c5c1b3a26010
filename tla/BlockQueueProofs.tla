-------------------------- MODULE BlockQueueProofs --------------------------
(***************************************************************************)
(* Theorems about BlockQueue, for every size of the ring and any number of   *)
(* consumers.  The lemmas about steps are also what the users of a queue     *)
(* instantiate.                                                              *)
(***************************************************************************)
EXTENDS BlockQueue, SequenceTheorems, TLAPS

(* The remainders that push() and pop() take: once around at most.           *)
LEMMA ModSmall ==
    ASSUME NEW M \in Nat \ {0}, NEW x \in 0..(M - 1)
    PROVE  x % M = x
  OBVIOUS

LEMMA ModOnce ==
    ASSUME NEW M \in Nat \ {0}, NEW x \in M..(2 * M - 1)
    PROVE  x % M = x - M
  OBVIOUS

LEMMA ModRange ==
    ASSUME NEW M \in Nat \ {0}, NEW x \in 0..(2 * M - 1)
    PROVE  /\ x % M = IF x < M THEN x ELSE x - M
           /\ x % M \in 0..(M - 1)
  <1>1. CASE x < M
    <2>1. x \in 0..(M - 1)
      BY <1>1
    <2> QED
      BY <1>1, <2>1, ModSmall
  <1>2. CASE x >= M
    <2>1. x \in M..(2 * M - 1)
      BY <1>2
    <2>2. x % M = x - M
      BY <2>1, ModOnce
    <2> QED
      BY <1>2, <2>2
  <1> QED
    BY <1>1, <1>2

(* Two positions less than M apart have slots of their own.                   *)
LEMMA SlotsDiffer ==
    ASSUME NEW M \in Nat \ {0}, NEW x \in 0..(2 * M - 1), NEW y \in 0..(2 * M - 1),
           x < y, y < x + M
    PROVE  x % M # y % M
  <1>1. x % M = IF x < M THEN x ELSE x - M
    BY ModRange
  <1>2. y % M = IF y < M THEN y ELSE y - M
    BY ModRange
  <1> QED
    BY <1>1, <1>2

(* Once more around makes no difference.                                      *)
LEMMA ModTurn ==
    ASSUME NEW M \in Nat \ {0}, NEW y \in 0..(2 * M - 1)
    PROVE  (y + M) % M = y % M
  <1>1. CASE y < M
    <2>1. y + M \in M..(2 * M - 1) /\ y \in 0..(M - 1)
      BY <1>1
    <2>2. (y + M) % M = (y + M) - M
      BY ONLY <2>1, M \in Nat \ {0}, ModOnce
    <2>3. y % M = y
      BY ONLY <2>1, M \in Nat \ {0}, ModSmall
    <2> QED
      BY <2>2, <2>3
  <1>2. CASE y >= M
    <2> DEFINE z == y - M
    <2>1. z \in 0..(M - 1) /\ y + M = z + 2 * M /\ y \in M..(2 * M - 1)
      BY <1>2
    <2>2. (z + 2 * M) % M = z
      BY ONLY <2>1, M \in Nat \ {0}
    <2>3. y % M = y - M
      BY ONLY <2>1, M \in Nat \ {0}, ModOnce
    <2> QED
      BY <2>1, <2>2, <2>3
  <1> QED
    BY <1>1, <1>2

(* A remainder taken early changes nothing.                                   *)
LEMMA ModPlus ==
    ASSUME NEW M \in Nat \ {0}, NEW x \in 0..(2 * M - 1), NEW k \in 0..M
    PROVE  ((x % M) + k) % M = (x + k) % M
  <1>0. x % M = IF x < M THEN x ELSE x - M
    BY ModRange
  <1>1. CASE x < M
    BY <1>0, <1>1
  <1>2. CASE x >= M
    <2> DEFINE y == x - M + k
    <2>1. (x % M) + k = y /\ y \in 0..(2 * M - 1) /\ x + k = y + M
      BY <1>0, <1>2
    <2> HIDE DEF y
    <2>2. (y + M) % M = y % M
      BY ONLY <2>1, M \in Nat \ {0}, ModTurn
    <2> QED
      BY <2>1, <2>2
  <1> QED
    BY <1>1, <1>2
-----------------------------------------------------------------------------
(* The n values of a ring a, the oldest in the slot behind f.                 *)
Items == Values \cup {NoValue}
Arrays == [0..(MaxSize - 1) -> Items]
Ring(a, f, n) == [i \in 1..n |-> a[(f + i) % MaxSize]]

LEMMA RingIsSeq ==
    ASSUME MaxSize \in Nat \ {0}, NEW a \in Arrays,
           NEW n \in 0..MaxSize, NEW f \in -1..(MaxSize - 1)
    PROVE  /\ Ring(a, f, n) \in Seq(Items)
           /\ Len(Ring(a, f, n)) = n
  <1>1. ASSUME NEW i \in 1..n PROVE (f + i) % MaxSize \in 0..(MaxSize - 1)
    <2>1. f + i \in 0..(2 * MaxSize - 1)
      OBVIOUS
    <2> QED
      BY ONLY <2>1, MaxSize \in Nat \ {0}, ModRange
  <1>2. Ring(a, f, n) \in [1..n -> Items]
    BY <1>1 DEF Ring, Arrays
  <1>3. n \in Nat
    OBVIOUS
  <1> QED
    BY <1>1, <1>2, <1>3

(* push(): the new value goes behind the others.                              *)
LEMMA RingPush ==
    ASSUME MaxSize \in Nat \ {0}, NEW a \in Arrays,
           NEW n \in 0..(MaxSize - 1), NEW f \in -1..(MaxSize - 1), NEW v \in Items,
           NEW b, b = (f + 1 + n) % MaxSize,
           NEW a2 \in Arrays, a2[b] = v, \A i \in 0..(MaxSize - 1) : i # b => a2[i] = a[i]
    PROVE  /\ b \in 0..(MaxSize - 1)
           /\ (b + 1) % MaxSize = (f + 1 + (n + 1)) % MaxSize
           /\ Ring(a2, f, n + 1) = Append(Ring(a, f, n), v)
  <1>0. f + 1 + n \in 0..(2 * MaxSize - 1) /\ n \in 0..MaxSize /\ n + 1 \in 0..MaxSize /\ 1 \in 0..MaxSize
    OBVIOUS
  <1>1. b \in 0..(MaxSize - 1)
    BY ONLY <1>0, MaxSize \in Nat \ {0}, b = (f + 1 + n) % MaxSize, ModRange
  <1>2. (b + 1) % MaxSize = (f + 1 + (n + 1)) % MaxSize
    <2>1. (((f + 1 + n) % MaxSize) + 1) % MaxSize = (f + 1 + n + 1) % MaxSize
      BY ONLY <1>0, MaxSize \in Nat \ {0}, ModPlus
    <2>2. f + 1 + n + 1 = f + 1 + (n + 1)
      OBVIOUS
    <2> QED
      BY <2>1, <2>2
  <1> DEFINE old == Ring(a, f, n)
             new == Ring(a2, f, n + 1)
  <1>3. a2 \in Arrays
    OBVIOUS
  <1>4. old \in Seq(Items) /\ Len(old) = n
    <2>1. n \in 0..MaxSize
      OBVIOUS
    <2> QED
      BY ONLY <2>1, MaxSize \in Nat \ {0}, a \in Arrays, f \in -1..(MaxSize - 1),
              RingIsSeq
  <1>5. new \in Seq(Items) /\ Len(new) = n + 1
    <2>1. n + 1 \in 0..MaxSize
      OBVIOUS
    <2> QED
      BY ONLY <2>1, <1>3, MaxSize \in Nat \ {0}, f \in -1..(MaxSize - 1), RingIsSeq
  <1>6. ASSUME NEW i \in 1..n PROVE new[i] = old[i]
    <2>1. f + i \in 0..(2 * MaxSize - 1) /\ f + i < f + 1 + n /\ f + 1 + n < f + i + MaxSize
      OBVIOUS
    <2>2. (f + i) % MaxSize # b
      BY ONLY <1>0, <2>1, MaxSize \in Nat \ {0}, b = (f + 1 + n) % MaxSize, SlotsDiffer
    <2>3. (f + i) % MaxSize \in 0..(MaxSize - 1)
      BY ONLY <2>1, MaxSize \in Nat \ {0}, ModRange
    <2>4. new[i] = a2[(f + i) % MaxSize] /\ old[i] = a[(f + i) % MaxSize]
      BY DEF Ring
    <2> QED
      BY <2>2, <2>3, <2>4 DEF Arrays
  <1>7. new[n + 1] = v
    <2>1. new[n + 1] = a2[(f + (n + 1)) % MaxSize] /\ f + (n + 1) = f + 1 + n
      BY DEF Ring
    <2> QED
      BY <1>1, <2>1 DEF Arrays
  <1>8. new = Append(old, v)
    <2> HIDE DEF old, new
    <2>1. /\ Append(old, v) \in Seq(Items) /\ Len(Append(old, v)) = n + 1
          /\ \A i \in 1..n : Append(old, v)[i] = old[i]
          /\ Append(old, v)[n + 1] = v
      BY <1>4, AppendProperties
    <2>2. \A i \in 1..(n + 1) : new[i] = Append(old, v)[i]
      BY <1>6, <1>7, <2>1
    <2> QED
      BY <1>5, <2>1, <2>2, SeqEqual
  <1> QED
    BY <1>1, <1>2, <1>8

(* pop(): the oldest value goes, and the next is in front.                    *)
LEMMA RingPop ==
    ASSUME MaxSize \in Nat \ {0}, NEW a \in Arrays,
           NEW n \in 1..MaxSize, NEW f \in -1..(MaxSize - 1),
           NEW g, g = (f + 1) % MaxSize
    PROVE  /\ g \in 0..(MaxSize - 1)
           /\ (f + 1 + n) % MaxSize = (g + 1 + (n - 1)) % MaxSize
           /\ Ring(a, g, n - 1) = Tail(Ring(a, f, n))
  <1>0. f + 1 \in 0..(2 * MaxSize - 1) /\ n \in 0..MaxSize /\ n - 1 \in 0..MaxSize
    OBVIOUS
  <1>1. g \in 0..(MaxSize - 1)
    BY ONLY <1>0, MaxSize \in Nat \ {0}, g = (f + 1) % MaxSize, ModRange
  <1>2. ASSUME NEW i \in 0..MaxSize PROVE (g + i) % MaxSize = (f + 1 + i) % MaxSize
    BY ONLY <1>0, i \in 0..MaxSize, MaxSize \in Nat \ {0}, g = (f + 1) % MaxSize, ModPlus
  <1>3. (f + 1 + n) % MaxSize = (g + 1 + (n - 1)) % MaxSize
    <2>1. g + 1 + (n - 1) = g + n
      BY <1>1
    <2> QED
      BY <1>0, <1>2, <2>1
  <1> DEFINE old == Ring(a, f, n)
             new == Ring(a, g, n - 1)
  <1>4. old \in Seq(Items) /\ Len(old) = n
    <2>1. n \in 0..MaxSize
      OBVIOUS
    <2>2. \A m \in 0..MaxSize : Ring(a, f, m) \in Seq(Items) /\ Len(Ring(a, f, m)) = m
      BY ONLY MaxSize \in Nat \ {0}, a \in Arrays, f \in -1..(MaxSize - 1), RingIsSeq
    <2> QED
      BY ONLY <2>1, <2>2
  <1>5. new \in Seq(Items) /\ Len(new) = n - 1
    <2>1. g \in -1..(MaxSize - 1)
      BY <1>1
    <2> QED
      BY ONLY <1>0, <2>1, MaxSize \in Nat \ {0}, a \in Arrays, RingIsSeq
  <1>6. old # <<>>
    BY <1>4
  <1>7. new = Tail(old)
    <2>1. ASSUME NEW i \in 1..(n - 1) PROVE new[i] = old[i + 1]
      <3>1. (g + i) % MaxSize = (f + 1 + i) % MaxSize
        <4>1. i \in 0..MaxSize
          OBVIOUS
        <4> QED
          BY ONLY <1>2, <4>1
      <3>2. new[i] = a[(g + i) % MaxSize]
        BY DEF Ring
      <3>3. old[i + 1] = a[(f + (i + 1)) % MaxSize] /\ f + (i + 1) = f + 1 + i
        BY DEF Ring
      <3> QED
        BY <3>1, <3>2, <3>3
    <2> HIDE DEF old, new
    <2>2. /\ Tail(old) \in Seq(Items) /\ Len(Tail(old)) = n - 1
          /\ \A i \in 1..(n - 1) : Tail(old)[i] = old[i + 1]
      BY <1>4, <1>6, HeadTailProperties
    <2> QED
      BY <1>5, <2>1, <2>2, SeqEqual
  <1> QED
    BY <1>1, <1>3, <1>7
-----------------------------------------------------------------------------
(* The inductive invariant.  A consumer that is about to sleep has seen an    *)
(* empty queue and still has the mutex, so it stays empty until it sleeps:    *)
(* without this NobodySleepsOnValues is not inductive.                        *)
RingInv ==
    /\ array \in Arrays
    /\ size \in 0..MaxSize
    /\ front \in -1..(MaxSize - 1) /\ back \in 0..(MaxSize - 1)
    /\ back = Slot(front + 1 + size)
    /\ \A i \in 1..size : Contents[i] \in Values

TestsEmpty == \A c \in Consumers : at[c] = "test" => size = 0

QueueInv == TypeOK /\ RingInv /\ NobodySleepsOnValues /\ TestsEmpty

LEMMA ContentsIsRing == Contents = Ring(array, front, size)
  BY DEF Contents, Ring, Slot

(* The two ends of a ring are its oldest and its newest value.                *)
LEMMA EndsMatch ==
    ASSUME QueueAssumption, RingInv
    PROVE  size > 0 => FrontItem = Contents[1] /\ BackItem = Contents[size]
  <1> SUFFICES ASSUME size > 0
               PROVE  FrontItem = Contents[1] /\ BackItem = Contents[size]
    OBVIOUS
  <1>0. MaxSize \in Nat \ {0} /\ size \in 1..MaxSize /\ front \in -1..(MaxSize - 1)
    BY DEF QueueAssumption, RingInv
  <1>1. FrontItem = Contents[1]
    BY <1>0 DEF FrontItem, Contents
  <1>2. BackItem = Contents[size]
    <2> DEFINE x == front + 1
               w == x % MaxSize
               k == MaxSize - 1
               y == w + (size - 1)
    <2>1. x \in 0..(2 * MaxSize - 1) /\ size \in 0..MaxSize /\ size - 1 \in 0..MaxSize
          /\ k \in 0..MaxSize
      BY <1>0
    <2>2. w \in 0..(MaxSize - 1)
      <3> HIDE DEF x
      <3> QED
        BY ONLY <2>1, <1>0, ModRange
    <2>3. (w + size) % MaxSize = (x + size) % MaxSize
          /\ (w + (size - 1)) % MaxSize = (x + (size - 1)) % MaxSize
      <3> HIDE DEF x
      <3> QED
        BY ONLY <2>1, <1>0, ModPlus
    <2> HIDE DEF w
    <2>4. w + size \in 0..(2 * MaxSize - 1) /\ y \in 0..(2 * MaxSize - 1)
      BY <1>0, <2>2
    <2>5. (((w + size) % MaxSize) + k) % MaxSize = (w + size + k) % MaxSize
      <3> HIDE DEF k
      <3> QED
        BY ONLY <2>1, <2>4, <1>0, ModPlus
    <2>6. w + size + k = y + MaxSize
      BY <1>0, <2>2
    <2>7. (y + MaxSize) % MaxSize = y % MaxSize
      <3> HIDE DEF y
      <3> QED
        BY ONLY <2>4, <1>0, ModTurn
    <2>8. back = (w + size) % MaxSize
      BY <2>3 DEF RingInv, Slot
    <2>9. back + MaxSize - 1 = ((w + size) % MaxSize) + k
      BY <1>0, <2>8 DEF RingInv
    <2>10. x + (size - 1) = front + size
      BY <1>0
    <2>11. BackItem = array[(front + size) % MaxSize]
      BY <2>3, <2>5, <2>6, <2>7, <2>9, <2>10 DEF BackItem, Slot
    <2> QED
      BY <1>0, <2>11 DEF Contents, Slot
  <1> QED
    BY <1>1, <1>2

LEMMA InvGivesRing ==
    ASSUME QueueAssumption, QueueInv PROVE RingMatchesSize
  BY EndsMatch DEF QueueInv, RingInv, RingMatchesSize
-----------------------------------------------------------------------------
(* What the operations do to the ring, and to the queue it stands for.        *)

LEMMA PushRing ==
    ASSUME QueueAssumption, RingInv, NEW v \in Values, size < MaxSize,
           array' = [array EXCEPT ![back] = v], back' = Slot(back + 1),
           size' = size + 1, front' = front
    PROVE  RingInv' /\ Contents' = Append(Contents, v)
  <1>0. /\ MaxSize \in Nat \ {0} /\ array \in Arrays
        /\ size \in 0..(MaxSize - 1) /\ front \in -1..(MaxSize - 1) /\ v \in Items
        /\ back = (front + 1 + size) % MaxSize
    BY DEF QueueAssumption, RingInv, Slot, Items
  <1>1. /\ back \in 0..(MaxSize - 1)
        /\ (back + 1) % MaxSize = (front + 1 + (size + 1)) % MaxSize
        /\ Ring(array', front, size + 1)
             = Append(Ring(array, front, size), v)
    <2>1. /\ array' \in Arrays /\ array'[back] = v
          /\ \A i \in 0..(MaxSize - 1) : i # back => array'[i] = array[i]
      BY <1>0 DEF Arrays, RingInv
    <2> QED
      BY ONLY <1>0, <2>1, RingPush
  <1>2. Contents' = Ring(array', front', size')
    BY DEF Contents, Ring, Slot
  <1>3. Contents' = Append(Contents, v)
    BY <1>1, <1>2, ContentsIsRing
  <1>4. Contents \in Seq(Items) /\ Len(Contents) = size
    <2>1. size \in 0..MaxSize
      BY <1>0
    <2>2. Ring(array, front, size) \in Seq(Items)
          /\ Len(Ring(array, front, size)) = size
      <3> QED
        BY ONLY <1>0, <2>1, RingIsSeq
    <2> QED
      BY <2>2, ContentsIsRing
  <1>5. \A i \in 1..size' : Contents'[i] \in Values
    <2> SUFFICES ASSUME NEW i \in 1..(size + 1) PROVE Contents'[i] \in Values
      OBVIOUS
    <2>1. CASE i = size + 1
      BY <1>0, <1>3, <1>4, <2>1, AppendProperties
    <2>2. CASE i \in 1..size
      <3>1. Contents[i] \in Values
        BY <2>2 DEF RingInv
      <3>2. Append(Contents, v)[i] = Contents[i]
        BY <1>0, <1>4, <2>2, AppendProperties
      <3> QED
        BY <1>3, <3>1, <3>2
    <2> QED
      BY <1>0, <2>1, <2>2
  <1>6. array' \in Arrays
    BY <1>0, <1>1 DEF Arrays
  <1>7. size' \in 0..MaxSize
    BY <1>0
  <1>8. back' = (front + 1 + (size + 1)) % MaxSize
    BY <1>1 DEF Slot
  <1>9. back' \in 0..(MaxSize - 1)
    <2>1. back + 1 \in 0..(2 * MaxSize - 1)
      BY <1>0, <1>1
    <2> QED
      BY ONLY <2>1, <1>0, back' = Slot(back + 1), ModRange DEF Slot
  <1> QED
    BY <1>0, <1>3, <1>5, <1>6, <1>7, <1>8, <1>9 DEF RingInv, Slot

LEMMA PopRing ==
    ASSUME QueueAssumption, RingInv, size > 0,
           front' = Slot(front + 1), size' = size - 1, array' = array, back' = back
    PROVE  /\ RingInv'
           /\ Contents # <<>> /\ Contents' = Tail(Contents)
           /\ FrontItem = Head(Contents) /\ FrontItem \in Values
  <1>0. /\ MaxSize \in Nat \ {0} /\ array \in Arrays
        /\ size \in 1..MaxSize /\ front \in -1..(MaxSize - 1)
        /\ front' = (front + 1) % MaxSize
    BY DEF QueueAssumption, RingInv, Slot, Items
  <1>1. /\ front' \in 0..(MaxSize - 1)
        /\ (front + 1 + size) % MaxSize = (front' + 1 + (size - 1)) % MaxSize
        /\ Ring(array, front', size - 1) = Tail(Ring(array, front, size))
    <2> QED
      BY ONLY <1>0, RingPop
  <1>2. Contents' = Ring(array', front', size')
    BY DEF Contents, Ring, Slot
  <1>3. Contents' = Tail(Contents)
    BY <1>1, <1>2, ContentsIsRing
  <1>4. Contents \in Seq(Items) /\ Len(Contents) = size
    <2>1. size \in 0..MaxSize
      BY <1>0
    <2>2. \A m \in 0..MaxSize : Ring(array, front, m) \in Seq(Items)
                                /\ Len(Ring(array, front, m)) = m
      BY ONLY <1>0, RingIsSeq
    <2> QED
      BY <2>1, <2>2, ContentsIsRing
  <1>5. /\ Contents # <<>>
        /\ FrontItem = Head(Contents) /\ FrontItem \in Values
    <2>1. FrontItem = Contents[1] /\ Contents[1] \in Values
      BY <1>0, EndsMatch DEF RingInv
    <2> QED
      BY <1>0, <1>4, <2>1
  <1>6. \A i \in 1..size' : Contents'[i] \in Values
    <2> SUFFICES ASSUME NEW i \in 1..(size - 1) PROVE Contents'[i] \in Values
      OBVIOUS
    <2>1. Tail(Contents)[i] = Contents[i + 1]
      BY <1>0, <1>4, <1>5, HeadTailProperties
    <2>2. i + 1 \in 1..size
      BY <1>0
    <2> QED
      BY <1>3, <2>1, <2>2 DEF RingInv
  <1>7. size' \in 0..MaxSize /\ front' \in -1..(MaxSize - 1)
    BY <1>0, <1>1
  <1>8. back' = Slot(front' + 1 + size')
    BY <1>1 DEF RingInv, Slot
  <1> QED
    BY <1>3, <1>5, <1>6, <1>7, <1>8 DEF RingInv

LEMMA ClearRing ==
    ASSUME QueueAssumption, RingInv,
           size' = 0, front' = -1, back' = 0, array' = array
    PROVE  RingInv' /\ Contents' = <<>>
  <1>1. MaxSize \in Nat \ {0} /\ 0 \in 0..(MaxSize - 1)
    BY DEF QueueAssumption
  <1>2. 0 % MaxSize = 0
    BY ONLY <1>1, ModSmall
  <1> QED
    BY <1>1, <1>2 DEF RingInv, Contents, Slot

LEMMA SameRing ==
    ASSUME RingInv, UNCHANGED ringVars PROVE RingInv' /\ Contents' = Contents
  BY DEF RingInv, Contents, Slot, ringVars
-----------------------------------------------------------------------------
(* Init and every action keep the invariant, and do to the queue and to the   *)
(* items what one action of BoundedFifo does, or nothing.                     *)
Abstract == [Fifo!Next]_<<Contents, item>>

LEMMA InvInit == ASSUME QueueAssumption, Init PROVE QueueInv /\ Contents = <<>>
  <1>1. MaxSize \in Nat \ {0} /\ 0 \in 0..(MaxSize - 1)
    BY DEF QueueAssumption
  <1>2. 0 % MaxSize = 0
    BY ONLY <1>1, ModSmall
  <1>3. Contents = <<>>
    BY DEF Init, Contents
  <1>4. RingInv
    BY <1>1, <1>2 DEF Init, RingInv, Arrays, Items, Slot
  <1> QED
    BY <1>1, <1>3, <1>4 DEF Init, QueueInv, TypeOK, NobodySleepsOnValues, TestsEmpty,
       QueueAssumption

(* Where consumers may go without a look at the ring.                         *)
LEMMA WokenKeeps ==
    ASSUME QueueInv, at' = Woken
    PROVE  /\ at' \in [Consumers -> {"out", "test", "asleep", "awake"}]
           /\ \A c \in Consumers : at'[c] # "asleep" /\ (at'[c] = "test" <=> at[c] = "test")
  BY DEF QueueInv, TypeOK, Woken

(* Under a free mutex nobody is about to sleep.                               *)
LEMMA FreeMutex ==
    ASSUME QueueAssumption, QueueInv, mutex = Nobody
    PROVE  \A c \in Consumers : at[c] # "test"
  BY DEF QueueAssumption, QueueInv, TypeOK

LEMMA PushKeeps ==
    ASSUME QueueAssumption, QueueInv, NEW v \in Values, Push(v)
    PROVE  QueueInv' /\ Abstract /\ Contents' = Append(Contents, v)
  <1>1. RingInv' /\ Contents' = Append(Contents, v)
    BY PushRing DEF Push, QueueInv
  <1>2. Len(Contents) = size
    BY DEF Contents, QueueInv, TypeOK
  <1>3. Fifo!Insert(v)
    BY <1>1, <1>2 DEF Push, Fifo!Insert
  <1>4. TypeOK'
    BY <1>1, WokenKeeps, FreeMutex DEF QueueInv, TypeOK, RingInv, Arrays, Items, Push
  <1>5. NobodySleepsOnValues' /\ TestsEmpty'
    BY WokenKeeps, FreeMutex DEF NobodySleepsOnValues, TestsEmpty, Push
  <1> QED
    BY <1>1, <1>3, <1>4, <1>5 DEF QueueInv, Abstract, Fifo!Next

LEMMA TakeKeeps ==
    ASSUME QueueAssumption, QueueInv, NEW c \in Consumers,
           mutex = Nobody, size > 0, TakeFront(c)
    PROVE  /\ QueueInv' /\ Abstract
           /\ Contents # <<>> /\ Contents' = Tail(Contents)
           /\ item' = [item EXCEPT ![c] = Head(Contents)]
  <1>1. /\ RingInv' /\ Contents # <<>> /\ Contents' = Tail(Contents)
        /\ FrontItem = Head(Contents) /\ FrontItem \in Values
    BY PopRing DEF TakeFront, QueueInv
  <1>2. Fifo!Remove(c)
    BY <1>1 DEF TakeFront, Fifo!Remove
  <1>3. TypeOK'
    BY <1>1, FreeMutex DEF QueueAssumption, QueueInv, TypeOK, RingInv, Arrays, Items,
       TakeFront, Goto
  <1>4. \A d \in Consumers : at'[d] # "asleep" /\ at'[d] # "test"
    BY FreeMutex DEF QueueInv, TypeOK, NobodySleepsOnValues, TakeFront, Goto
  <1>5. item' = [item EXCEPT ![c] = Head(Contents)]
    BY <1>1 DEF TakeFront
  <1> QED
    BY <1>1, <1>2, <1>3, <1>4, <1>5
       DEF QueueInv, NobodySleepsOnValues, TestsEmpty, Abstract, Fifo!Next

LEMMA ClearKeeps ==
    ASSUME QueueAssumption, QueueInv, Clear PROVE QueueInv' /\ Abstract
  <1>1. RingInv' /\ Contents' = <<>>
    BY ClearRing DEF Clear, QueueInv
  <1>2. TypeOK'
    BY <1>1 DEF QueueInv, TypeOK, RingInv, Arrays, Items, Clear, popVars
  <1>3. NobodySleepsOnValues' /\ TestsEmpty'
    BY FreeMutex DEF NobodySleepsOnValues, TestsEmpty, Clear, popVars
  <1> QED
    BY <1>1, <1>2, <1>3 DEF QueueInv, Abstract, Fifo!Next, Fifo!Empty, Clear, popVars

(* The steps of pop() that leave the ring and the items alone: c goes to      *)
(* sleep, wakes up, gives up, or finds the queue empty.                        *)
LEMMA WaitKeeps ==
    ASSUME QueueAssumption, QueueInv, NEW c \in Consumers,
           \/ PopEmpty(c, TRUE) \/ PopEmpty(c, FALSE) \/ Sleep(c) \/ Spurious(c)
           \/ WakeExit(c) \/ WakeEmpty(c) \/ TimedFails(c)
    PROVE  QueueInv' /\ Abstract
  <1>1. UNCHANGED ringVars /\ item' = item
    BY DEF PopEmpty, Sleep, Spurious, WakeExit, WakeEmpty, TimedFails
  <1>2. RingInv' /\ Contents' = Contents
    BY <1>1, SameRing DEF QueueInv
  <1>3. TypeOK'
    <2>1. CASE PopEmpty(c, TRUE) \/ PopEmpty(c, FALSE)
      BY <2>1, FreeMutex DEF QueueAssumption, QueueInv, TypeOK, PopEmpty, Goto, ringVars
    <2>2. CASE Sleep(c)
      BY <2>2 DEF QueueAssumption, QueueInv, TypeOK, Sleep, Goto, ringVars
    <2>3. CASE Spurious(c)
      BY <2>3 DEF QueueAssumption, QueueInv, TypeOK, Spurious, Goto, ringVars
    <2>4. CASE WakeExit(c)
      BY <2>4 DEF QueueAssumption, QueueInv, TypeOK, WakeExit, Goto, ringVars
    <2>5. CASE WakeEmpty(c)
      BY <2>5, FreeMutex DEF QueueAssumption, QueueInv, TypeOK, WakeEmpty, Goto, ringVars
    <2>6. CASE TimedFails(c)
      BY <2>6, FreeMutex DEF QueueAssumption, QueueInv, TypeOK, TimedFails, Goto, ringVars
    <2> QED
      BY <2>1, <2>2, <2>3, <2>4, <2>5, <2>6
  <1>4. size \in Nat /\ size' = size
    BY <1>1 DEF QueueInv, TypeOK, ringVars
  <1>5. NobodySleepsOnValues'
    BY <1>4 DEF QueueInv, TypeOK, NobodySleepsOnValues, TestsEmpty, Goto,
       PopEmpty, Sleep, Spurious, WakeExit, WakeEmpty, TimedFails
  <1>6. TestsEmpty'
    BY <1>4 DEF QueueInv, TypeOK, TestsEmpty, Goto,
       PopEmpty, Sleep, Spurious, WakeExit, WakeEmpty, TimedFails
  <1> QED
    BY <1>1, <1>2, <1>3, <1>5, <1>6 DEF QueueInv, Abstract

(* push() into a full queue and quit() change the ring as little, and wake    *)
(* consumers at most.                                                         *)
LEMMA WakeKeeps ==
    ASSUME QueueAssumption, QueueInv, PushFull \/ QuitFlag \/ QuitBroadcast
    PROVE  QueueInv' /\ Abstract
  <1>1. UNCHANGED ringVars /\ item' = item /\ mutex' = mutex /\ timed' = timed
    BY DEF PushFull, QuitFlag, QuitBroadcast, popVars
  <1>2. RingInv' /\ Contents' = Contents
    BY <1>1, SameRing DEF QueueInv
  <1>3. at' = Woken \/ at' = at
    BY DEF PushFull, QuitFlag, QuitBroadcast, popVars
  <1>4. exiting' \in BOOLEAN /\ quitting' \in BOOLEAN
    BY DEF QueueInv, TypeOK, PushFull, QuitFlag, QuitBroadcast
  <1>5. TypeOK'
    BY <1>1, <1>3, <1>4, WokenKeeps DEF QueueInv, TypeOK, ringVars
  <1>6. NobodySleepsOnValues' /\ TestsEmpty'
    BY <1>1, <1>3, WokenKeeps
       DEF QueueInv, TypeOK, NobodySleepsOnValues, TestsEmpty, ringVars
  <1> QED
    BY <1>1, <1>2, <1>5, <1>6 DEF QueueInv, Abstract

LEMMA SameQueue ==
    ASSUME QueueInv, UNCHANGED queueVars PROVE QueueInv' /\ Abstract
  BY DEF QueueInv, TypeOK, RingInv, NobodySleepsOnValues, TestsEmpty, Contents, Slot,
     Abstract, queueVars, ringVars, popVars

LEMMA QueueNext ==
    ASSUME QueueAssumption, QueueInv, [Next]_queueVars
    PROVE  QueueInv' /\ Abstract
  <1>1. CASE \E v \in Values : Push(v)
    BY <1>1, PushKeeps
  <1>2. CASE PushFull \/ QuitFlag \/ QuitBroadcast
    BY <1>2, WakeKeeps
  <1>3. CASE Clear
    BY <1>3, ClearKeeps
  <1>4. ASSUME NEW c \in Consumers, PopAtOnce(c) \/ WakeTake(c)
        PROVE  QueueInv' /\ Abstract
    BY <1>4, TakeKeeps DEF PopAtOnce, WakeTake
  <1>5. ASSUME NEW c \in Consumers,
               \/ PopEmpty(c, TRUE) \/ PopEmpty(c, FALSE) \/ Sleep(c) \/ Spurious(c)
               \/ WakeExit(c) \/ WakeEmpty(c) \/ TimedFails(c)
        PROVE  QueueInv' /\ Abstract
    BY <1>5, WaitKeeps
  <1>6. CASE UNCHANGED queueVars
    BY <1>6, SameQueue
  <1> QED
    BY <1>1, <1>2, <1>3, <1>4, <1>5, <1>6 DEF Next, PopStep
-----------------------------------------------------------------------------
LEMMA InvAlways == ASSUME QueueAssumption PROVE Spec => []QueueInv
  <1>1. Init => QueueInv
    BY InvInit
  <1>2. QueueInv /\ [Next]_queueVars => QueueInv'
    BY QueueNext
  <1> QED
    BY <1>1, <1>2, PTL DEF Spec

(* BlockQueue.h: _front, _back and _size always agree, so that front(),       *)
(* back(), push() and pop() see the values that are in the ring.              *)
THEOREM RingAgrees == ASSUME QueueAssumption PROVE Spec => [](TypeOK /\ RingMatchesSize)
  <1>1. QueueInv => TypeOK /\ RingMatchesSize
    BY InvGivesRing DEF QueueInv
  <1> QED
    BY <1>1, InvAlways, PTL

(* BlockQueue.h: push() wakes everybody, and pop() tests _size and goes to    *)
(* sleep under one hold of the mutex: nobody sleeps while there is a value.    *)
THEOREM NobodyOversleeps ==
    ASSUME QueueAssumption PROVE Spec => []NobodySleepsOnValues
  <1>1. QueueInv => NobodySleepsOnValues
    BY DEF QueueInv
  <1> QED
    BY <1>1, InvAlways, PTL

(* BlockQueue implements BoundedFifo: every step inserts one value, gives the *)
(* oldest to one consumer, empties the queue, or does not touch it.           *)
THEOREM QueueIsFifo == ASSUME QueueAssumption PROVE Spec => ImplementsFifo
  <1>1. Init => QueueInv /\ Contents = <<>>
    BY InvInit
  <1>2. QueueInv /\ [Next]_queueVars => [Fifo!Next]_<<Contents, item>>
    BY QueueNext DEF Abstract
  <1> QED
    BY <1>1, <1>2, InvAlways, PTL DEF Spec, ImplementsFifo, Fifo!Spec
=============================================================================
