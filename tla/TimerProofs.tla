---------------------------- MODULE TimerProofs ----------------------------
(***************************************************************************)
(* Proofs about the timer and its use by the connections, for every number  *)
(* of events and of objects, every range of the clock and every lease.       *)
(*                                                                          *)
(* The percolations and tick() are recursive functions.  A lemma says that   *)
(* they exist, since a measure falls at each turn; what they compute is then *)
(* proved by looking at the least measure at which it would fail.            *)
(***************************************************************************)
EXTENDS Heartbeat, SequenceTheorems, WellFoundedInduction, TLAPS

(* Below is the order of the numbers, and a set of them has a least one. *)
Below == OpToRel(<, Nat)

LEMMA LeastOne ==
  ASSUME NEW S \in SUBSET Nat, S # {}
  PROVE  \E n \in S : \A k \in S : n <= k
<1>1. IsWellFoundedOn(Below, Nat)
  BY NatLessThanWellFounded DEF Below
<1>2. PICK n \in S : \A k \in S : ~(<<k, n>> \in Below)
  BY <1>1, WFMin
<1>3. ASSUME NEW k \in S PROVE n <= k
  <2>1. k < n => <<k, n>> \in Below
    BY DEF Below, OpToRel
  <2> QED
    BY <1>2, <2>1
<1> QED
  BY <1>3
-----------------------------------------------------------------------------
(* A function that looks at itself only where a measure is smaller exists:   *)
(* it stops with fin[x] on stop, and goes on with next[x] elsewhere.         *)
SolvesUpTo(D, m, stop, next, fin, g, n) ==
    \A x \in D : m[x] <= n => g[x] = IF x \in stop THEN fin[x] ELSE g[next[x]]

LEMMA SolutionsAgree ==
  ASSUME NEW D, NEW m \in [D -> Nat], NEW stop, NEW next \in [D -> D], NEW fin,
         \A x \in D \ stop : m[next[x]] < m[x],
         NEW g, NEW h, NEW n \in Nat,
         SolvesUpTo(D, m, stop, next, fin, g, n),
         SolvesUpTo(D, m, stop, next, fin, h, n),
         NEW x \in D, m[x] <= n
  PROVE  g[x] = h[x]
<1> DEFINE Bad == {k \in Nat : \E y \in D : m[y] = k /\ k <= n /\ g[y] # h[y]}
<1>1. SUFFICES ASSUME Bad # {} PROVE FALSE
  BY <1>1
<1>2. PICK k \in Bad : \A j \in Bad : k <= j
  BY <1>1, LeastOne
<1>3. PICK y \in D : m[y] = k /\ k <= n /\ g[y] # h[y]
  BY <1>2
<1>4. y \notin stop /\ g[y] = g[next[y]] /\ h[y] = h[next[y]]
  BY <1>3 DEF SolvesUpTo
<1>5. next[y] \in D /\ m[next[y]] \in Nat /\ m[next[y]] < k /\ k \in Nat
  BY <1>3, <1>4
<1>6. m[next[y]] \in Bad
  BY <1>3, <1>4, <1>5
<1> QED
  BY <1>2, <1>5, <1>6

LEMMA SolutionsExist ==
  ASSUME NEW D, NEW m \in [D -> Nat], NEW stop, NEW next \in [D -> D], NEW fin,
         \A x \in D \ stop : m[next[x]] < m[x],
         NEW n \in Nat
  PROVE  \E g : SolvesUpTo(D, m, stop, next, fin, g, n)
<1> DEFINE Bad == {k \in Nat : ~ \E g : SolvesUpTo(D, m, stop, next, fin, g, k)}
<1>1. SUFFICES ASSUME Bad # {} PROVE FALSE
  BY <1>1
<1>2. PICK k \in Bad : \A j \in Bad : k <= j
  BY <1>1, LeastOne
<1>3. CASE k = 0
  <2> DEFINE g == [x \in D |-> fin[x]]
  <2>1. ASSUME NEW x \in D, m[x] <= 0 PROVE x \in stop
    <3>1. m[x] \in Nat /\ (x \notin stop => m[next[x]] \in Nat /\ m[next[x]] < m[x])
      OBVIOUS
    <3> QED
      BY <2>1, <3>1
  <2>2. SolvesUpTo(D, m, stop, next, fin, g, 0)
    BY <2>1 DEF SolvesUpTo
  <2> QED
    BY <1>2, <1>3, <2>2
<1>4. CASE k # 0
  <2>1. k - 1 \in Nat /\ k - 1 \notin Bad
    BY <1>2, <1>4
  <2>2. PICK g : SolvesUpTo(D, m, stop, next, fin, g, k - 1)
    BY <2>1
  <2> DEFINE h == [x \in D |-> IF x \in stop THEN fin[x] ELSE g[next[x]]]
  <2>3. ASSUME NEW x \in D, m[x] <= k
        PROVE  h[x] = IF x \in stop THEN fin[x] ELSE h[next[x]]
    <3>1. CASE x \in stop
      BY <3>1
    <3>2. CASE x \notin stop
      <4>1. next[x] \in D /\ m[next[x]] \in Nat /\ m[x] \in Nat /\ m[next[x]] < m[x]
        BY <3>2
      <4>2. m[next[x]] <= k - 1
        BY <4>1, <2>3, <2>1
      <4>3. g[next[x]] = IF next[x] \in stop THEN fin[next[x]] ELSE g[next[next[x]]]
        BY <2>2, <4>1, <4>2 DEF SolvesUpTo
      <4>4. h[next[x]] = g[next[x]]
        BY <4>1, <4>3
      <4> QED
        BY <3>2, <4>4
    <3> QED
      BY <3>1, <3>2
  <2>4. SolvesUpTo(D, m, stop, next, fin, h, k)
    BY <2>3 DEF SolvesUpTo
  <2> QED
    BY <1>2, <2>4
<1> QED
  BY <1>3, <1>4

Solves(D, stop, next, fin, f) ==
    f = [x \in D |-> IF x \in stop THEN fin[x] ELSE f[next[x]]]

LEMMA Recursion ==
  ASSUME NEW D, NEW m \in [D -> Nat], NEW stop, NEW next \in [D -> D], NEW fin,
         \A x \in D \ stop : m[next[x]] < m[x]
  PROVE  \E f : Solves(D, stop, next, fin, f)
<1> DEFINE G(n) == CHOOSE g : SolvesUpTo(D, m, stop, next, fin, g, n)
           f == [x \in D |-> G(m[x])[x]]
<1>1. \A n \in Nat : SolvesUpTo(D, m, stop, next, fin, G(n), n)
  BY SolutionsExist
<1> HIDE DEF G
<1>2. ASSUME NEW x \in D
      PROVE  f[x] = IF x \in stop THEN fin[x] ELSE f[next[x]]
  <2>1. m[x] \in Nat /\ SolvesUpTo(D, m, stop, next, fin, G(m[x]), m[x])
    BY <1>1
  <2>2. G(m[x])[x] = IF x \in stop THEN fin[x] ELSE G(m[x])[next[x]]
    BY <2>1 DEF SolvesUpTo
  <2>3. CASE x \in stop
    BY <2>2, <2>3
  <2>4. CASE x \notin stop
    <3> DEFINE y == next[x]
    <3>1. y \in D /\ m[y] \in Nat /\ m[y] < m[x]
      BY <2>4
    <3>2. SolvesUpTo(D, m, stop, next, fin, G(m[y]), m[y])
      BY <1>1, <3>1
    <3>3. SolvesUpTo(D, m, stop, next, fin, G(m[x]), m[y])
      <4>1. \A z \in D : m[z] \in Nat
        OBVIOUS
      <4> HIDE DEF y
      <4>2. \A z \in D : m[z] <= m[y] => m[z] <= m[x]
        BY <4>1, <3>1, <2>1
      <4> QED
        BY <2>1, <4>2 DEF SolvesUpTo
    <3>4. G(m[x])[y] = G(m[y])[y]
      <4> HIDE DEF y
      <4> QED
      BY <3>1, <3>2, <3>3, SolutionsAgree
    <3> QED
      BY <2>2, <2>4, <3>1, <3>4
  <2> QED
    BY <2>3, <2>4
<1>3. Solves(D, stop, next, fin, f)
  <2> HIDE DEF f
  <2>1. f = [x \in D |-> f[x]]
    BY DEF f
  <2> QED
    BY <1>2, <2>1 DEF Solves
<1> QED
  BY <1>3
-----------------------------------------------------------------------------
(* The parent of a position, whose children are 2i + 1 and 2i + 2. *)
LEMMA ParentIs ==
  ASSUME NEW i \in Nat, i > 0
  PROVE  /\ Parent(i) \in Nat /\ Parent(i) < i
         /\ i = 2 * Parent(i) + 1 \/ i = 2 * Parent(i) + 2
  BY DEF Parent

LEMMA ChildOf ==
  ASSUME NEW i \in Nat
  PROVE  Parent(2 * i + 1) = i /\ Parent(2 * i + 2) = i
  BY DEF Parent

(* The positions of a timer, and what is in them. *)
Slots(t) == 0..(Size(t) - 1)

LEMMA SlotsHold ==
  ASSUME NEW t \in Timers
  PROVE  /\ Size(t) \in Nat
         /\ t.heap \in Seq(Events) /\ t.pos \in [Events -> Nat]
         /\ \A i \in Slots(t) : At(t, i) \in Events /\ i \in Nat /\ i < Size(t)
         /\ InHeap(t) \in SUBSET Events
  BY DEF Timers, Size, Slots, At, InHeap

LEMMA PutIs ==
  ASSUME NEW t \in Timers, NEW i \in Slots(t), NEW e \in Events
  PROVE  /\ Put(t, i, e) \in Timers
         /\ Size(Put(t, i, e)) = Size(t)
         /\ \A j \in Slots(t) : At(Put(t, i, e), j) = IF j = i THEN e ELSE At(t, j)
         /\ Put(t, i, e).pos = [t.pos EXCEPT ![e] = i]
<1>1. /\ t.heap \in Seq(Events) /\ t.pos \in [Events -> Nat]
      /\ i \in Nat /\ i + 1 \in 1..Len(t.heap) /\ Len(t.heap) \in Nat
  BY DEF Timers, Slots, Size
<1>2. /\ Put(t, i, e).heap = [t.heap EXCEPT ![i + 1] = e]
      /\ Put(t, i, e).pos = [t.pos EXCEPT ![e] = i]
      /\ Put(t, i, e) = [heap |-> [t.heap EXCEPT ![i + 1] = e], pos |-> [t.pos EXCEPT ![e] = i]]
  BY DEF Put
<1>3. /\ [t.heap EXCEPT ![i + 1] = e] \in Seq(Events)
      /\ Len([t.heap EXCEPT ![i + 1] = e]) = Len(t.heap)
      /\ \A k \in 1..Len(t.heap) :
            [t.heap EXCEPT ![i + 1] = e][k] = IF k = i + 1 THEN e ELSE t.heap[k]
  BY <1>1
<1>4. [t.pos EXCEPT ![e] = i] \in [Events -> Nat]
  BY <1>1
<1>5. Put(t, i, e) \in Timers /\ Size(Put(t, i, e)) = Size(t)
  BY <1>2, <1>3, <1>4 DEF Timers, Size
<1>6. ASSUME NEW j \in Slots(t)
      PROVE  At(Put(t, i, e), j) = IF j = i THEN e ELSE At(t, j)
  <2>1. j \in Nat /\ j + 1 \in 1..Len(t.heap) /\ (j + 1 = i + 1 <=> j = i)
    BY <1>1 DEF Slots, Size
  <2> QED
    BY <2>1, <1>2, <1>3 DEF At
<1> QED
  BY <1>2, <1>5, <1>6

(* Every event in the heap knows where it is, and the heap is in order. *)
Consistent(t) == \A i \in Slots(t) : t.pos[At(t, i)] = i
Ordered(t, tm) == \A i \in Slots(t) : i > 0 => tm[At(t, Parent(i))] <= tm[At(t, i)]
Sound(t, tm) == t \in Timers /\ Consistent(t) /\ Ordered(t, tm)

LEMMA ExchangeIs ==
  ASSUME NEW t \in Timers, NEW i \in Slots(t), NEW j \in Slots(t), i # j
  PROVE  /\ Exchange(t, i, j) \in Timers
         /\ Size(Exchange(t, i, j)) = Size(t)
         /\ Slots(Exchange(t, i, j)) = Slots(t)
         /\ InHeap(Exchange(t, i, j)) = InHeap(t)
         /\ \A k \in Slots(t) : At(Exchange(t, i, j), k) =
                IF k = i THEN At(t, j) ELSE IF k = j THEN At(t, i) ELSE At(t, k)
         /\ Consistent(t) => Consistent(Exchange(t, i, j))
<1> DEFINE u == Put(t, i, At(t, j))  v == Exchange(t, i, j)
<1>1. At(t, i) \in Events /\ At(t, j) \in Events
  BY SlotsHold
<1>2. /\ u \in Timers /\ Size(u) = Size(t)
      /\ \A k \in Slots(t) : At(u, k) = IF k = i THEN At(t, j) ELSE At(t, k)
      /\ u.pos = [t.pos EXCEPT ![At(t, j)] = i]
  BY <1>1, PutIs
<1>3. Slots(u) = Slots(t)
  BY <1>2 DEF Slots
<1>4. v = Put(u, j, At(t, i))
  BY DEF Exchange
<1> HIDE DEF u, v
<1>5. /\ v \in Timers /\ Size(v) = Size(t)
      /\ \A k \in Slots(t) : At(v, k) = IF k = j THEN At(t, i) ELSE At(u, k)
      /\ v.pos = [u.pos EXCEPT ![At(t, i)] = j]
  BY <1>1, <1>2, <1>3, <1>4, PutIs
<1>6. Slots(v) = Slots(t)
  BY <1>5 DEF Slots
<1>7. \A k \in Slots(t) : At(v, k) =
          IF k = i THEN At(t, j) ELSE IF k = j THEN At(t, i) ELSE At(t, k)
  BY <1>2, <1>5
<1>8. InHeap(v) = InHeap(t)
  <2>1. InHeap(v) = {At(v, k) : k \in Slots(t)} /\ InHeap(t) = {At(t, k) : k \in Slots(t)}
    BY <1>6 DEF InHeap, Slots
  <2> QED
    BY <2>1, <1>7
<1>9. ASSUME Consistent(t) PROVE Consistent(v)
  <2>1. At(t, i) # At(t, j)
    BY <1>9 DEF Consistent
  <2>2. t.pos \in [Events -> Nat]
    BY SlotsHold
  <2>3. v.pos[At(t, i)] = j /\ v.pos[At(t, j)] = i
        /\ \A e \in Events \ {At(t, i), At(t, j)} : v.pos[e] = t.pos[e]
    BY <2>1, <2>2, <1>1, <1>2, <1>5
  <2>4. ASSUME NEW k \in Slots(t) PROVE v.pos[At(v, k)] = k
    <3>1. CASE k = i
      BY <3>1, <1>7, <2>3
    <3>2. CASE k = j
      BY <3>2, <1>7, <2>3
    <3>3. CASE k # i /\ k # j
      <4>1. At(t, k) \in Events \ {At(t, i), At(t, j)} /\ t.pos[At(t, k)] = k
        BY <3>3, <1>9, SlotsHold DEF Consistent
      <4> QED
        BY <4>1, <3>3, <1>7, <2>3
    <3> QED
      BY <3>1, <3>2, <3>3
  <2> QED
    BY <2>4, <1>6 DEF Consistent
<1> QED
  BY <1>5, <1>6, <1>7, <1>8, <1>9 DEF v
-----------------------------------------------------------------------------
(* percolateUp: one turn of its loop, and the rest.                          *)
GoesUp(t, tm, i) == i > 0 /\ tm[At(t, Parent(i))] > tm[At(t, i)]

LEMMA PlacesAre ==
  ASSUME NEW x \in Places
  PROVE  x[1] \in Timers /\ x[2] \in Slots(x[1]) /\ x[2] \in Nat /\ x = <<x[1], x[2]>>
<1>1. x[1] \in Timers /\ x[2] \in Nat /\ x[2] < Size(x[1]) /\ x = <<x[1], x[2]>>
  BY DEF Places
<1> QED
  BY <1>1, SlotsHold DEF Slots

LEMMA SlotsArePlaces ==
  ASSUME NEW t \in Timers, NEW i \in Slots(t)
  PROVE  <<t, i>> \in Places
<1>1. i \in Nat /\ i < Size(t)
  BY SlotsHold
<1> QED
  BY <1>1 DEF Places

LEMMA UpPlace ==
  ASSUME NEW t \in Timers, NEW i \in Slots(t), i > 0
  PROVE  Parent(i) \in Slots(t) /\ Parent(i) # i /\ Parent(i) \in Nat /\ Parent(i) < i
<1>1. i \in Nat /\ i < Size(t) /\ Size(t) \in Nat
  BY SlotsHold
<1>2. Parent(i) \in Nat /\ Parent(i) < i
  BY <1>1, ParentIs
<1> QED
  BY <1>1, <1>2 DEF Slots

LEMMA UpTurns ==
  ASSUME NEW tm, NEW t \in Timers, NEW h \in Slots(t)
  PROVE  PercolateUp(t, tm, h) =
            IF GoesUp(t, tm, h)
            THEN PercolateUp(Exchange(t, h, Parent(h)), tm, Parent(h))
            ELSE Put(t, h, At(t, h))
<1> DEFINE Up(f) == [x \in Places |->
             IF x[2] > 0 /\ tm[At(x[1], Parent(x[2]))] > tm[At(x[1], x[2])]
             THEN f[<<Exchange(x[1], x[2], Parent(x[2])), Parent(x[2])>>]
             ELSE Put(x[1], x[2], At(x[1], x[2]))]
           stop == {x \in Places : ~GoesUp(x[1], tm, x[2])}
           next == [x \in Places |->
             IF x \in stop THEN x ELSE <<Exchange(x[1], x[2], Parent(x[2])), Parent(x[2])>>]
           fin == [x \in Places |-> Put(x[1], x[2], At(x[1], x[2]))]
           m == [x \in Places |-> x[2]]
           up == CHOOSE f : f = Up(f)
<1>1. ASSUME NEW x \in Places \ stop
      PROVE  /\ <<Exchange(x[1], x[2], Parent(x[2])), Parent(x[2])>> \in Places
             /\ Parent(x[2]) \in Nat /\ Parent(x[2]) < x[2]
  <2>1. x[1] \in Timers /\ x[2] \in Slots(x[1]) /\ x[2] > 0
    BY PlacesAre DEF GoesUp
  <2>2. Parent(x[2]) \in Slots(x[1]) /\ Parent(x[2]) # x[2]
        /\ Parent(x[2]) \in Nat /\ Parent(x[2]) < x[2]
    BY <2>1, UpPlace
  <2>3. Exchange(x[1], x[2], Parent(x[2])) \in Timers
        /\ Slots(Exchange(x[1], x[2], Parent(x[2]))) = Slots(x[1])
    BY <2>1, <2>2, ExchangeIs
  <2> QED
    BY <2>2, <2>3, SlotsArePlaces
<1>2. m \in [Places -> Nat]
  BY PlacesAre
<1>3. next \in [Places -> Places]
  BY <1>1
<1>4. \A x \in Places \ stop : m[next[x]] < m[x]
  BY <1>1
<1>5. \E f : Solves(Places, stop, next, fin, f)
  <2> HIDE DEF m, next, stop, fin
  <2> QED
    BY <1>2, <1>3, <1>4, Recursion
<1>6. ASSUME NEW f
      PROVE  Solves(Places, stop, next, fin, f) => f = Up(f)
  <2>1. [x \in Places |-> IF x \in stop THEN fin[x] ELSE f[next[x]]] = Up(f)
    BY DEF GoesUp
  <2> QED
    BY <2>1 DEF Solves
<1>7. \E f : f = Up(f)
  <2> HIDE DEF Up, stop, fin, next
  <2> QED
    BY <1>5, <1>6
<1>8. up = Up(up)
  <2> HIDE DEF Up
  <2> QED
    BY <1>7
<1>9. \A a, b : PercolateUp(a, tm, b) = up[<<a, b>>]
  BY DEF PercolateUp
<1>10. <<t, h>> \in Places
  BY SlotsArePlaces
<1> HIDE DEF up
<1>11. up[<<t, h>>] = IF GoesUp(t, tm, h)
                      THEN up[<<Exchange(t, h, Parent(h)), Parent(h)>>]
                      ELSE Put(t, h, At(t, h))
  BY <1>8, <1>10 DEF GoesUp
<1> QED
  BY <1>9, <1>11

(* In order but for h and its parent, with the parent before h's children.   *)
RisesFrom(t, tm, h) ==
    \A i \in Slots(t) : i > 0 =>
        /\ i # h => tm[At(t, Parent(i))] <= tm[At(t, i)]
        /\ Parent(i) = h /\ h > 0 => tm[At(t, Parent(h))] <= tm[At(t, i)]

LEMMA TimesOf ==
  ASSUME NEW tm \in [Events -> Nat], NEW t \in Timers
  PROVE  \A i \in Slots(t) : tm[At(t, i)] \in Nat
  BY SlotsHold

LEMMA UpStep ==
  ASSUME NEW tm \in [Events -> Nat], NEW t \in Timers, NEW h \in Slots(t),
         GoesUp(t, tm, h), RisesFrom(t, tm, h)
  PROVE  RisesFrom(Exchange(t, h, Parent(h)), tm, Parent(h))
<1> DEFINE p == Parent(h)
           u == Exchange(t, h, p)
<1>1. h > 0 /\ tm[At(t, p)] > tm[At(t, h)]
  BY DEF GoesUp
<1>2. p \in Slots(t) /\ p # h /\ p \in Nat /\ p < h
  BY <1>1, UpPlace
<1>3. /\ Slots(u) = Slots(t)
      /\ \A k \in Slots(t) : At(u, k) =
            IF k = h THEN At(t, p) ELSE IF k = p THEN At(t, h) ELSE At(t, k)
  BY <1>2, ExchangeIs
<1>4. \A k \in Slots(t) : k > 0 =>
          /\ k # h => tm[At(t, Parent(k))] <= tm[At(t, k)]
          /\ Parent(k) = h => tm[At(t, p)] <= tm[At(t, k)]
  BY <1>1 DEF RisesFrom
<1>5. \A k \in Slots(t) : k > 0 => Parent(k) \in Slots(t) /\ Parent(k) # k /\ Parent(k) < k
                                   /\ k \in Nat /\ Parent(k) \in Nat
  BY UpPlace, SlotsHold
<1>6. \A k \in Slots(t) : tm[At(t, k)] \in Nat
  BY TimesOf
<1>7. h \in Nat
  BY SlotsHold
<1> SUFFICES ASSUME NEW i \in Slots(t), i > 0
             PROVE  /\ i # p => tm[At(u, Parent(i))] <= tm[At(u, i)]
                    /\ Parent(i) = p /\ p > 0 => tm[At(u, Parent(p))] <= tm[At(u, i)]
  BY <1>3 DEF RisesFrom
<1>8. Parent(i) \in Slots(t) /\ Parent(i) # i
  BY <1>5
<1>9. ASSUME i # p PROVE tm[At(u, Parent(i))] <= tm[At(u, i)]
  <2> HIDE DEF p, u
  <2>1. CASE i = h
    <3>1. At(u, Parent(i)) = At(t, h) /\ At(u, i) = At(t, p)
      BY <2>1, <1>2, <1>3 DEF p
    <3> QED
      BY <3>1, <1>1, <1>2, <1>6
  <2>2. CASE i # h /\ Parent(i) = h
    <3>1. At(u, Parent(i)) = At(t, p) /\ At(u, i) = At(t, i)
      BY <2>2, <1>2, <1>3, <1>9
    <3> QED
      BY <3>1, <2>2, <1>4
  <2>3. CASE i # h /\ Parent(i) = p
    <3>1. At(u, Parent(i)) = At(t, h) /\ At(u, i) = At(t, i)
      BY <2>3, <1>2, <1>3, <1>9
    <3>2. tm[At(t, p)] <= tm[At(t, i)]
      BY <2>3, <1>4
    <3> QED
      BY <3>1, <3>2, <1>1, <1>2, <1>6
  <2>4. CASE i # h /\ Parent(i) # h /\ Parent(i) # p
    <3>1. At(u, Parent(i)) = At(t, Parent(i)) /\ At(u, i) = At(t, i)
      BY <2>4, <1>3, <1>8, <1>9
    <3> QED
      BY <3>1, <2>4, <1>4
  <2> QED
    BY <2>1, <2>2, <2>3, <2>4
<1>10. ASSUME Parent(i) = p, p > 0 PROVE tm[At(u, Parent(p))] <= tm[At(u, i)]
  <2> HIDE DEF p, u
  <2>1. Parent(p) \in Slots(t) /\ Parent(p) # p /\ Parent(p) # h
    BY <1>2, <1>5, <1>7, <1>10
  <2>2. At(u, Parent(p)) = At(t, Parent(p))
    BY <2>1, <1>3
  <2>3. tm[At(t, Parent(p))] <= tm[At(t, p)]
    BY <1>2, <1>4, <1>10
  <2>4. CASE i = h
    <3>1. At(u, i) = At(t, p)
      BY <2>4, <1>3
    <3> QED
      BY <3>1, <2>2, <2>3
  <2>5. CASE i # h
    <3>1. At(u, i) = At(t, i) /\ tm[At(t, p)] <= tm[At(t, i)]
      BY <2>5, <1>3, <1>4, <1>8, <1>10
    <3>2. tm[At(t, Parent(p))] \in Nat /\ tm[At(t, p)] \in Nat /\ tm[At(t, i)] \in Nat
      BY <2>1, <1>2, <1>6
    <3> QED
      BY ONLY <3>1, <3>2, <2>2, <2>3
  <2> QED
    BY <2>4, <2>5
<1> QED
  BY <1>9, <1>10

(* What both percolations leave: the same events, sound. *)
Settles(t, tm, r) ==
    Sound(r, tm) /\ Size(r) = Size(t) /\ InHeap(r) = InHeap(t)

LEMMA PutBack ==
  ASSUME NEW t \in Timers, Consistent(t), NEW h \in Slots(t)
  PROVE  Put(t, h, At(t, h)) = t
<1>1. At(t, h) \in Events /\ h \in Nat /\ h < Size(t)
  BY SlotsHold
<1>2. t.heap \in Seq(Events) /\ t.pos \in [Events -> Nat]
  BY SlotsHold
<1>3. t.pos[At(t, h)] = h
  BY DEF Consistent
<1>4. [t.pos EXCEPT ![At(t, h)] = h] = t.pos
  BY <1>1, <1>2, <1>3
<1>5. [t.heap EXCEPT ![h + 1] = At(t, h)] = t.heap
  BY <1>1, <1>2 DEF At, Size
<1>6. t = [heap |-> t.heap, pos |-> t.pos]
  BY DEF Timers
<1> QED
  BY <1>4, <1>5, <1>6 DEF Put

LEMMA UpSettles ==
  ASSUME NEW tm \in [Events -> Nat], NEW t \in Timers, NEW h \in Slots(t),
         Consistent(t), RisesFrom(t, tm, h)
  PROVE  Settles(t, tm, PercolateUp(t, tm, h))
<1> DEFINE Ready(u, i) == i \in Slots(u) /\ Consistent(u) /\ RisesFrom(u, tm, i)
           Bad == {i \in Nat : \E u \in Timers :
                       Ready(u, i) /\ ~Settles(u, tm, PercolateUp(u, tm, i))}
<1>1. h \in Nat
  BY SlotsHold
<1>2. SUFFICES ASSUME Bad # {} PROVE FALSE
  BY <1>1
<1>3. PICK i \in Bad : \A j \in Bad : i <= j
  BY <1>2, LeastOne
<1>4. PICK u \in Timers : Ready(u, i) /\ ~Settles(u, tm, PercolateUp(u, tm, i))
  BY <1>3
<1>5. CASE GoesUp(u, tm, i)
  <2> DEFINE p == Parent(i)  v == Exchange(u, i, p)
  <2>1. i > 0
    BY <1>5 DEF GoesUp
  <2>2. p \in Slots(u) /\ p # i /\ p \in Nat /\ p < i /\ i \in Nat
    BY <2>1, <1>4, UpPlace
  <2>3. v \in Timers /\ Size(v) = Size(u) /\ Slots(v) = Slots(u) /\ InHeap(v) = InHeap(u)
        /\ Consistent(v)
    BY <2>2, <1>4, ExchangeIs
  <2>4. RisesFrom(v, tm, p)
    BY <1>4, <1>5, UpStep
  <2>5. PercolateUp(u, tm, i) = PercolateUp(v, tm, p)
    BY <1>4, <1>5, UpTurns
  <2> HIDE DEF v, p
  <2>6. p \notin Bad
    BY <1>3, <2>2
  <2>7. Settles(v, tm, PercolateUp(v, tm, p))
    BY <2>2, <2>3, <2>4, <2>6
  <2>8. Settles(u, tm, PercolateUp(v, tm, p))
    BY <2>3, <2>7 DEF Settles
  <2> QED
    BY <1>4, <2>5, <2>8
<1>6. CASE ~GoesUp(u, tm, i)
  <2>1. PercolateUp(u, tm, i) = u
    BY <1>4, <1>6, UpTurns, PutBack
  <2>2. \A k \in Slots(u) : tm[At(u, k)] \in Nat
    BY TimesOf
  <2>3. ASSUME NEW k \in Slots(u), k > 0 PROVE tm[At(u, Parent(k))] <= tm[At(u, k)]
    <3>1. CASE k # i
      BY <3>1, <1>4, <2>3 DEF RisesFrom
    <3>2. CASE k = i
      <4>1. Parent(k) \in Slots(u)
        BY <2>3, UpPlace
      <4>2. ~(tm[At(u, Parent(k))] > tm[At(u, k)])
        BY <3>2, <2>3, <1>6 DEF GoesUp
      <4> QED
        BY <4>1, <4>2, <2>2
    <3> QED
      BY <3>1, <3>2
  <2>4. Sound(u, tm)
    BY <1>4, <2>3 DEF Sound, Ordered
  <2> QED
    BY <1>4, <2>1, <2>4 DEF Settles
<1> QED
  BY <1>5, <1>6
-----------------------------------------------------------------------------
(* percolateDown, in the same way.                                           *)
GoesDown(t, tm, i) ==
    2 * i + 1 < Size(t) /\ tm[At(t, LeastChild(t, tm, i))] < tm[At(t, i)]

LEMMA DownPlace ==
  ASSUME NEW tm, NEW t \in Timers, NEW i \in Slots(t), 2 * i + 1 < Size(t)
  PROVE  /\ LeastChild(t, tm, i) \in Slots(t)
         /\ LeastChild(t, tm, i) \in Nat /\ LeastChild(t, tm, i) > i
         /\ Parent(LeastChild(t, tm, i)) = i
<1>1. i \in Nat /\ i < Size(t) /\ Size(t) \in Nat
  BY SlotsHold
<1>2. \/ LeastChild(t, tm, i) = 2 * i + 1
      \/ LeastChild(t, tm, i) = 2 * i + 2 /\ 2 * i + 2 < Size(t)
  BY DEF LeastChild
<1> QED
  BY <1>1, <1>2, ChildOf DEF Slots

LEMMA LeastChildIs ==
  ASSUME NEW tm \in [Events -> Nat], NEW t \in Timers, NEW i \in Slots(t),
         2 * i + 1 < Size(t), NEW j \in Slots(t), j > 0, Parent(j) = i
  PROVE  tm[At(t, LeastChild(t, tm, i))] <= tm[At(t, j)]
<1>1. i \in Nat /\ j \in Nat /\ j < Size(t) /\ Size(t) \in Nat
  BY SlotsHold
<1>2. j = 2 * i + 1 \/ j = 2 * i + 2
  BY <1>1, ParentIs
<1>3. 2 * i + 1 \in Slots(t) /\ (2 * i + 2 < Size(t) => 2 * i + 2 \in Slots(t))
  BY <1>1 DEF Slots
<1>4. tm[At(t, 2 * i + 1)] \in Nat /\ (2 * i + 2 < Size(t) => tm[At(t, 2 * i + 2)] \in Nat)
  BY <1>3, TimesOf
<1> QED
  BY <1>1, <1>2, <1>4 DEF LeastChild

LEMMA DownTurns ==
  ASSUME NEW tm, NEW t \in Timers, NEW h \in Slots(t)
  PROVE  PercolateDown(t, tm, h) =
            IF GoesDown(t, tm, h)
            THEN PercolateDown(Exchange(t, h, LeastChild(t, tm, h)), tm, LeastChild(t, tm, h))
            ELSE t
<1> DEFINE Child(x) == LeastChild(x[1], tm, x[2])
           Down(f) == [x \in Places |->
             IF 2 * x[2] + 1 < Size(x[1]) /\ tm[At(x[1], Child(x))] < tm[At(x[1], x[2])]
             THEN f[<<Exchange(x[1], x[2], Child(x)), Child(x)>>]
             ELSE x[1]]
           stop == {x \in Places : ~GoesDown(x[1], tm, x[2])}
           next == [x \in Places |->
             IF x \in stop THEN x ELSE <<Exchange(x[1], x[2], Child(x)), Child(x)>>]
           fin == [x \in Places |-> x[1]]
           m == [x \in Places |-> Size(x[1]) - x[2]]
           down == CHOOSE f : f = Down(f)
<1>1. ASSUME NEW x \in Places \ stop
      PROVE  /\ <<Exchange(x[1], x[2], Child(x)), Child(x)>> \in Places
             /\ Size(Exchange(x[1], x[2], Child(x))) - Child(x) < Size(x[1]) - x[2]
  <2>1. x[1] \in Timers /\ x[2] \in Slots(x[1]) /\ 2 * x[2] + 1 < Size(x[1])
    BY PlacesAre DEF GoesDown
  <2>2. Child(x) \in Slots(x[1]) /\ Child(x) \in Nat /\ Child(x) > x[2]
    BY <2>1, DownPlace
  <2>3. x[2] \in Nat /\ Size(x[1]) \in Nat
    BY <2>1, SlotsHold
  <2> HIDE DEF Child
  <2>4. Exchange(x[1], x[2], Child(x)) \in Timers
        /\ Slots(Exchange(x[1], x[2], Child(x))) = Slots(x[1])
        /\ Size(Exchange(x[1], x[2], Child(x))) = Size(x[1])
    BY <2>1, <2>2, <2>3, ExchangeIs
  <2>5. <<Exchange(x[1], x[2], Child(x)), Child(x)>> \in Places
    BY <2>2, <2>4, SlotsArePlaces
  <2> QED
    BY <2>2, <2>3, <2>4, <2>5
<1>2. m \in [Places -> Nat]
  <2>1. ASSUME NEW x \in Places PROVE Size(x[1]) - x[2] \in Nat
    BY PlacesAre, SlotsHold
  <2> QED
    BY <2>1
<1>3. next \in [Places -> Places]
  BY <1>1
<1>4. \A x \in Places \ stop : m[next[x]] < m[x]
  BY <1>1
<1>5. \E f : Solves(Places, stop, next, fin, f)
  <2> HIDE DEF m, next, stop, fin
  <2> QED
    BY <1>2, <1>3, <1>4, Recursion
<1>6. ASSUME NEW f
      PROVE  Solves(Places, stop, next, fin, f) => f = Down(f)
  <2>1. [x \in Places |-> IF x \in stop THEN fin[x] ELSE f[next[x]]] = Down(f)
    BY DEF GoesDown
  <2> QED
    BY <2>1 DEF Solves
<1>7. \E f : f = Down(f)
  <2> HIDE DEF Down, stop, fin, next
  <2> QED
    BY <1>5, <1>6
<1>8. down = Down(down)
  <2> HIDE DEF Down
  <2> QED
    BY <1>7
<1>9. \A a, b : PercolateDown(a, tm, b) = down[<<a, b>>]
  BY DEF PercolateDown
<1>10. <<t, h>> \in Places
  BY SlotsArePlaces
<1> HIDE DEF down
<1>11. down[<<t, h>>] = IF GoesDown(t, tm, h)
                        THEN down[<<Exchange(t, h, LeastChild(t, tm, h)), LeastChild(t, tm, h)>>]
                        ELSE t
  BY <1>8, <1>10 DEF GoesDown
<1> QED
  BY <1>9, <1>11

(* In order but for h and its children, with h's parent before them.         *)
FallsFrom(t, tm, h) ==
    \A i \in Slots(t) : i > 0 =>
        /\ Parent(i) # h => tm[At(t, Parent(i))] <= tm[At(t, i)]
        /\ Parent(i) = h /\ h > 0 => tm[At(t, Parent(h))] <= tm[At(t, i)]

LEMMA DownStep ==
  ASSUME NEW tm \in [Events -> Nat], NEW t \in Timers, NEW h \in Slots(t),
         GoesDown(t, tm, h), FallsFrom(t, tm, h)
  PROVE  FallsFrom(Exchange(t, h, LeastChild(t, tm, h)), tm, LeastChild(t, tm, h))
<1> DEFINE c == LeastChild(t, tm, h)
           u == Exchange(t, h, c)
<1>1. 2 * h + 1 < Size(t) /\ tm[At(t, c)] < tm[At(t, h)]
  BY DEF GoesDown
<1>2. c \in Slots(t) /\ c \in Nat /\ c > h /\ Parent(c) = h /\ h \in Nat /\ c > 0 /\ c # h
  BY <1>1, DownPlace, SlotsHold
<1>3. \A k \in Slots(t) : k > 0 /\ Parent(k) = h => tm[At(t, c)] <= tm[At(t, k)]
  BY <1>1, LeastChildIs
<1> HIDE DEF c
<1>4. /\ Slots(u) = Slots(t)
      /\ \A k \in Slots(t) : At(u, k) =
            IF k = h THEN At(t, c) ELSE IF k = c THEN At(t, h) ELSE At(t, k)
  BY <1>2, ExchangeIs
<1> HIDE DEF u
<1>5. \A k \in Slots(t) : k > 0 =>
          /\ Parent(k) # h => tm[At(t, Parent(k))] <= tm[At(t, k)]
          /\ Parent(k) = h /\ h > 0 => tm[At(t, Parent(h))] <= tm[At(t, k)]
  BY DEF FallsFrom
<1>6. \A k \in Slots(t) : k > 0 => Parent(k) \in Slots(t) /\ Parent(k) # k /\ Parent(k) < k
                                   /\ k \in Nat /\ Parent(k) \in Nat
  BY UpPlace, SlotsHold
<1>7. \A k \in Slots(t) : tm[At(t, k)] \in Nat
  BY TimesOf
<1> SUFFICES ASSUME NEW i \in Slots(t), i > 0
             PROVE  /\ Parent(i) # c => tm[At(u, Parent(i))] <= tm[At(u, i)]
                    /\ Parent(i) = c /\ c > 0 => tm[At(u, Parent(c))] <= tm[At(u, i)]
  BY <1>4 DEF FallsFrom, c, u
<1>8. Parent(i) \in Slots(t) /\ Parent(i) # i
  BY <1>6
<1>9. ASSUME Parent(i) # c PROVE tm[At(u, Parent(i))] <= tm[At(u, i)]
  <2>1. CASE i = c
    <3>1. At(u, Parent(i)) = At(t, c) /\ At(u, i) = At(t, h)
      BY <2>1, <1>2, <1>4
    <3>2. tm[At(t, c)] \in Nat /\ tm[At(t, h)] \in Nat
      BY <1>2, <1>7
    <3> QED
      BY ONLY <3>1, <3>2, <1>1
  <2>2. CASE i # c /\ Parent(i) = h
    <3>1. At(u, Parent(i)) = At(t, c) /\ At(u, i) = At(t, i)
      BY <2>2, <1>4, <1>8
    <3> QED
      BY <3>1, <2>2, <1>3
  <2>3. CASE i = h
    <3>1. At(u, Parent(i)) = At(t, Parent(h)) /\ At(u, i) = At(t, c)
      BY <2>3, <1>4, <1>8, <1>9
    <3> QED
      BY <3>1, <2>3, <1>2, <1>5
  <2>4. CASE i # c /\ i # h /\ Parent(i) # h
    <3>1. At(u, Parent(i)) = At(t, Parent(i)) /\ At(u, i) = At(t, i)
      BY <2>4, <1>4, <1>8, <1>9
    <3> QED
      BY <3>1, <2>4, <1>5
  <2> QED
    BY <2>1, <2>2, <2>3, <2>4
<1>10. ASSUME Parent(i) = c PROVE tm[At(u, Parent(c))] <= tm[At(u, i)]
  <2>1. i # c /\ i # h /\ Parent(i) # h
    BY <1>2, <1>6, <1>10
  <2>2. At(u, Parent(c)) = At(t, c) /\ At(u, i) = At(t, i)
    BY <2>1, <1>2, <1>4
  <2>3. tm[At(t, Parent(i))] <= tm[At(t, i)]
    BY <2>1, <1>5
  <2> QED
    BY <2>2, <2>3, <1>10
<1> QED
  BY <1>9, <1>10

LEMMA DownSettles ==
  ASSUME NEW tm \in [Events -> Nat], NEW t \in Timers, NEW h \in Slots(t),
         Consistent(t), FallsFrom(t, tm, h)
  PROVE  Settles(t, tm, PercolateDown(t, tm, h))
<1> DEFINE Ready(u, i) == i \in Slots(u) /\ Consistent(u) /\ FallsFrom(u, tm, i)
           Bad == {n \in Nat : \E u \in Timers : \E i \in Nat :
                       n = Size(u) - i
                       /\ Ready(u, i) /\ ~Settles(u, tm, PercolateDown(u, tm, i))}
<1>1. h \in Nat /\ Size(t) - h \in Nat
  BY SlotsHold
<1>2. SUFFICES ASSUME Bad # {} PROVE FALSE
  BY <1>1
<1>3. PICK n \in Bad : \A k \in Bad : n <= k
  BY <1>2, LeastOne
<1>4. PICK u \in Timers, i \in Nat :
         n = Size(u) - i /\ Ready(u, i) /\ ~Settles(u, tm, PercolateDown(u, tm, i))
  BY <1>3
<1>5. CASE GoesDown(u, tm, i)
  <2> DEFINE c == LeastChild(u, tm, i)  v == Exchange(u, i, c)
  <2>1. 2 * i + 1 < Size(u)
    BY <1>5 DEF GoesDown
  <2>2. c \in Slots(u) /\ c # i /\ c \in Nat /\ c > i /\ Size(u) \in Nat /\ c < Size(u)
    <3>1. c \in Slots(u) /\ c \in Nat /\ c > i
      BY <2>1, <1>4, DownPlace
    <3> QED
      BY <3>1, SlotsHold
  <2>3. v \in Timers /\ Size(v) = Size(u) /\ Slots(v) = Slots(u) /\ InHeap(v) = InHeap(u)
        /\ Consistent(v)
    <3> HIDE DEF c
    <3> QED
      BY <2>2, <1>4, ExchangeIs
  <2>4. FallsFrom(v, tm, c)
    BY <1>4, <1>5, DownStep
  <2>5. PercolateDown(u, tm, i) = PercolateDown(v, tm, c)
    BY <1>4, <1>5, DownTurns
  <2> HIDE DEF v, c
  <2>6. Size(v) - c \in Nat /\ Size(v) - c < n /\ n \in Nat
    BY <1>4, <2>2, <2>3
  <2>7. Size(v) - c \notin Bad
    BY <1>3, <2>6
  <2>8. Settles(v, tm, PercolateDown(v, tm, c))
    BY <2>2, <2>3, <2>4, <2>6, <2>7
  <2>9. Settles(u, tm, PercolateDown(v, tm, c))
    BY <2>3, <2>8 DEF Settles
  <2> QED
    BY <1>4, <2>5, <2>9
<1>6. CASE ~GoesDown(u, tm, i)
  <2>1. PercolateDown(u, tm, i) = u
    BY <1>4, <1>6, DownTurns
  <2>2. \A k \in Slots(u) : tm[At(u, k)] \in Nat
    BY TimesOf
  <2>3. ASSUME NEW k \in Slots(u), k > 0 PROVE tm[At(u, Parent(k))] <= tm[At(u, k)]
    <3>1. CASE Parent(k) # i
      BY <3>1, <1>4, <2>3 DEF FallsFrom
    <3>2. CASE Parent(k) = i
      <4>1. k \in Nat /\ k < Size(u) /\ Size(u) \in Nat
        BY SlotsHold
      <4>2. k = 2 * i + 1 \/ k = 2 * i + 2
        BY <4>1, <3>2, <2>3, ParentIs
      <4>3. 2 * i + 1 < Size(u)
        BY <4>1, <4>2, <1>4
      <4>4. tm[At(u, LeastChild(u, tm, i))] <= tm[At(u, k)]
        BY <4>3, <3>2, <2>3, <1>4, LeastChildIs
      <4>5. ~(tm[At(u, LeastChild(u, tm, i))] < tm[At(u, i)])
        BY <4>3, <1>6 DEF GoesDown
      <4>6. LeastChild(u, tm, i) \in Slots(u)
        BY <4>3, <1>4, DownPlace
      <4>7. tm[At(u, LeastChild(u, tm, i))] \in Nat /\ tm[At(u, i)] \in Nat /\ tm[At(u, k)] \in Nat
        BY <4>6, <1>4, <2>2
      <4>8. tm[At(u, i)] <= tm[At(u, k)]
        BY ONLY <4>4, <4>5, <4>7
      <4> QED
        BY <4>8, <3>2
    <3> QED
      BY <3>1, <3>2
  <2>4. Sound(u, tm)
    BY <1>4, <2>3 DEF Sound, Ordered
  <2> QED
    BY <1>4, <2>1, <2>4 DEF Settles
<1> QED
  BY <1>5, <1>6

(* The same without any order: tick() needs to know that percolateDown keeps *)
(* a timer a timer of this size before it can be said to end.                *)
LEMMA DownKeepsSize ==
  ASSUME NEW tm, NEW t \in Timers, NEW h \in Slots(t)
  PROVE  PercolateDown(t, tm, h) \in Timers /\ Size(PercolateDown(t, tm, h)) = Size(t)
<1> DEFINE Kept(u, i) ==
              PercolateDown(u, tm, i) \in Timers /\ Size(PercolateDown(u, tm, i)) = Size(u)
           Bad == {n \in Nat : \E u \in Timers : \E i \in Nat :
                       n = Size(u) - i /\ i \in Slots(u) /\ ~Kept(u, i)}
<1>1. h \in Nat /\ Size(t) - h \in Nat
  BY SlotsHold
<1>2. SUFFICES ASSUME Bad # {} PROVE FALSE
  BY <1>1
<1>3. PICK n \in Bad : \A k \in Bad : n <= k
  BY <1>2, LeastOne
<1>4. PICK u \in Timers, i \in Nat : n = Size(u) - i /\ i \in Slots(u) /\ ~Kept(u, i)
  BY <1>3
<1>5. CASE GoesDown(u, tm, i)
  <2> DEFINE c == LeastChild(u, tm, i)  v == Exchange(u, i, c)
  <2>1. 2 * i + 1 < Size(u)
    BY <1>5 DEF GoesDown
  <2>2. c \in Slots(u) /\ c # i /\ c \in Nat /\ c > i /\ Size(u) \in Nat /\ c < Size(u)
    <3>1. c \in Slots(u) /\ c \in Nat /\ c > i
      BY <2>1, <1>4, DownPlace
    <3> QED
      BY <3>1, SlotsHold
  <2>3. v \in Timers /\ Size(v) = Size(u) /\ Slots(v) = Slots(u)
    <3> HIDE DEF c
    <3> QED
      BY <2>2, <1>4, ExchangeIs
  <2>4. PercolateDown(u, tm, i) = PercolateDown(v, tm, c)
    BY <1>4, <1>5, DownTurns
  <2> HIDE DEF v, c
  <2>5. Size(v) - c \in Nat /\ Size(v) - c < n /\ n \in Nat
    BY <1>4, <2>2, <2>3
  <2>6. Size(v) - c \notin Bad
    BY <1>3, <2>5
  <2>7. Kept(v, c)
    BY <2>2, <2>3, <2>5, <2>6
  <2> QED
    BY <1>4, <2>3, <2>4, <2>7
<1>6. CASE ~GoesDown(u, tm, i)
  BY <1>4, <1>6, DownTurns
<1> QED
  BY <1>5, <1>6
-----------------------------------------------------------------------------
(* An event put into slot h of a sound timer may be out of order with its    *)
(* parent or with its children; the parent is still before the children.     *)
OutOfOrderAt(t, tm, h) ==
    \A i \in Slots(t) : i > 0 =>
        /\ i # h /\ Parent(i) # h => tm[At(t, Parent(i))] <= tm[At(t, i)]
        /\ Parent(i) = h /\ h > 0 => tm[At(t, Parent(h))] <= tm[At(t, i)]

LEMMA SettleSettles ==
  ASSUME NEW tm \in [Events -> Nat], NEW t \in Timers, NEW h \in Slots(t),
         Consistent(t), OutOfOrderAt(t, tm, h)
  PROVE  Settles(t, tm, Settle(t, tm, h))
<1>1. \A k \in Slots(t) : tm[At(t, k)] \in Nat
  BY TimesOf
<1>2. CASE GoesUp(t, tm, h)
  <2>1. h > 0 /\ tm[At(t, Parent(h))] > tm[At(t, h)] /\ Parent(h) \in Slots(t)
    BY <1>2, UpPlace DEF GoesUp
  <2>2. ASSUME NEW i \in Slots(t), i > 0, i # h
        PROVE  tm[At(t, Parent(i))] <= tm[At(t, i)]
    <3>1. CASE Parent(i) # h
      BY <3>1, <2>2 DEF OutOfOrderAt
    <3>2. CASE Parent(i) = h
      <4>1. tm[At(t, Parent(h))] <= tm[At(t, i)]
        BY <3>2, <2>1, <2>2 DEF OutOfOrderAt
      <4>2. tm[At(t, Parent(h))] \in Nat /\ tm[At(t, h)] \in Nat /\ tm[At(t, i)] \in Nat
        BY <1>1, <2>1
      <4>3. tm[At(t, h)] <= tm[At(t, i)]
        BY ONLY <4>1, <4>2, <2>1
      <4> QED
        BY <4>3, <3>2
    <3> QED
      BY <3>1, <3>2
  <2>3. RisesFrom(t, tm, h)
    BY <2>2 DEF RisesFrom, OutOfOrderAt
  <2>4. Settle(t, tm, h) = PercolateUp(t, tm, h)
    BY <2>1 DEF Settle
  <2> QED
    BY <2>3, <2>4, UpSettles
<1>3. CASE ~GoesUp(t, tm, h)
  <2>1. ASSUME NEW i \in Slots(t), i > 0, Parent(i) # h
        PROVE  tm[At(t, Parent(i))] <= tm[At(t, i)]
    <3>1. CASE i # h
      BY <3>1, <2>1 DEF OutOfOrderAt
    <3>2. CASE i = h
      <4>1. ~(tm[At(t, Parent(i))] > tm[At(t, i)])
        BY <3>2, <2>1, <1>3 DEF GoesUp
      <4>2. tm[At(t, Parent(i))] \in Nat /\ tm[At(t, i)] \in Nat
        BY <2>1, <1>1, UpPlace
      <4> QED
        BY ONLY <4>1, <4>2
    <3> QED
      BY <3>1, <3>2
  <2>2. FallsFrom(t, tm, h)
    BY <2>1 DEF FallsFrom, OutOfOrderAt
  <2>3. Settle(t, tm, h) = PercolateDown(t, tm, h)
    BY <1>3 DEF Settle, GoesUp
  <2> QED
    BY <2>2, <2>3, DownSettles
<1> QED
  BY <1>2, <1>3

LEMMA OnlySlotChanges ==
  ASSUME NEW old \in [Events -> Nat], NEW tm \in [Events -> Nat],
         NEW t \in Timers, Ordered(t, old),
         NEW u \in Timers, Slots(u) \subseteq Slots(t), NEW h \in Slots(u),
         \A k \in Slots(u) : k # h =>
            At(u, k) = At(t, k) /\ tm[At(u, k)] = old[At(t, k)]
  PROVE  OutOfOrderAt(u, tm, h)
<1> SUFFICES ASSUME NEW i \in Slots(u), i > 0
             PROVE  /\ i # h /\ Parent(i) # h => tm[At(u, Parent(i))] <= tm[At(u, i)]
                    /\ Parent(i) = h /\ h > 0 => tm[At(u, Parent(h))] <= tm[At(u, i)]
  BY DEF OutOfOrderAt
<1>1. Parent(i) \in Slots(u) /\ i # Parent(i)
  BY UpPlace
<1>2. \A k \in Slots(t) : k > 0 => old[At(t, Parent(k))] <= old[At(t, k)]
  BY DEF Ordered
<1>3. ASSUME i # h, Parent(i) # h PROVE tm[At(u, Parent(i))] <= tm[At(u, i)]
  <2>1. tm[At(u, Parent(i))] = old[At(t, Parent(i))] /\ tm[At(u, i)] = old[At(t, i)]
    BY <1>1, <1>3
  <2> QED
    BY <2>1, <1>2
<1>4. ASSUME Parent(i) = h, h > 0 PROVE tm[At(u, Parent(h))] <= tm[At(u, i)]
  <2>1. Parent(h) \in Slots(u) /\ Parent(h) # h /\ i # h
    BY <1>1, <1>4, UpPlace
  <2>2. tm[At(u, Parent(h))] = old[At(t, Parent(h))] /\ tm[At(u, i)] = old[At(t, i)]
    BY <2>1
  <2>3. old[At(t, Parent(h))] <= old[At(t, h)]
    BY <1>2, <1>4
  <2>4. old[At(t, h)] <= old[At(t, i)]
    BY <1>2, <1>4
  <2>5. old[At(t, Parent(h))] \in Nat /\ old[At(t, h)] \in Nat /\ old[At(t, i)] \in Nat
    BY <2>1, TimesOf
  <2> QED
    BY ONLY <2>2, <2>3, <2>4, <2>5
<1> QED
  BY <1>3, <1>4

(* e's time is the only one that differs. *)
SameBut(old, tm, e) == \A x \in Events : x # e => tm[x] = old[x]

(* addTimer of an event that is not in the heap. *)
LEMMA AddIs ==
  ASSUME NEW old \in [Events -> Nat], NEW tm \in [Events -> Nat],
         NEW t, Sound(t, old), NEW e \in Events, e \notin InHeap(t), SameBut(old, tm, e)
  PROVE  /\ Sound(AddTimer(t, tm, e), tm)
         /\ InHeap(AddTimer(t, tm, e)) = InHeap(t) \cup {e}
         /\ Size(AddTimer(t, tm, e)) = Size(t) + 1
<1> DEFINE n == Size(t)
           u == [heap |-> Append(t.heap, e), pos |-> [t.pos EXCEPT ![e] = n]]
<1>1. t \in Timers /\ Consistent(t) /\ Ordered(t, old)
  BY DEF Sound
<1>2. n \in Nat /\ t.heap \in Seq(Events) /\ t.pos \in [Events -> Nat] /\ n = Len(t.heap)
  BY <1>1, SlotsHold DEF Size
<1>3. u \in Timers /\ Size(u) = n + 1 /\ Slots(u) = Slots(t) \cup {n} /\ n \notin Slots(t)
  BY <1>2 DEF Timers, Size, Slots
<1>4. \A k \in Slots(t) : At(u, k) = At(t, k) /\ At(t, k) # e /\ At(t, k) \in Events
  <2>1. \A k \in Slots(t) : At(t, k) \in InHeap(t) /\ At(t, k) \in Events
    BY <1>1, SlotsHold DEF InHeap, Slots
  <2>2. \A k \in Slots(t) : At(u, k) = At(t, k)
    BY <1>2 DEF At, Slots, Size
  <2> QED
    BY <2>1, <2>2
<1>5. At(u, n) = e
  BY <1>2 DEF At
<1>6. InHeap(u) = InHeap(t) \cup {e}
  <2>1. InHeap(u) = {At(u, k) : k \in Slots(u)} /\ InHeap(t) = {At(t, k) : k \in Slots(t)}
    BY DEF InHeap, Slots
  <2> QED
    BY <2>1, <1>3, <1>4, <1>5
<1>7. Consistent(u)
  <2>1. u.pos = [t.pos EXCEPT ![e] = n]
    OBVIOUS
  <2>2. \A k \in Slots(t) : t.pos[At(t, k)] = k
    BY <1>1 DEF Consistent
  <2> HIDE DEF u, n
  <2> QED
    BY <2>1, <2>2, <1>2, <1>3, <1>4, <1>5 DEF Consistent
<1>8. RisesFrom(u, tm, n)
  <2> SUFFICES ASSUME NEW i \in Slots(u), i > 0
               PROVE  /\ i # n => tm[At(u, Parent(i))] <= tm[At(u, i)]
                      /\ Parent(i) # n
    BY DEF RisesFrom
  <2> HIDE DEF u, n
  <2>1. /\ Parent(i) \in Slots(u) /\ Parent(i) < i /\ Parent(i) \in Nat
        /\ i \in Nat /\ i < Size(u)
    <3>1. Parent(i) \in Slots(u) /\ Parent(i) < i /\ Parent(i) \in Nat
      BY <1>3, UpPlace
    <3>2. i \in Nat /\ i < Size(u)
      BY <1>3, SlotsHold
    <3> QED
      BY <3>1, <3>2
  <2>2. Parent(i) # n
    BY ONLY <2>1, <1>2, <1>3
  <2>3. Parent(i) \in Slots(t)
    BY <2>1, <2>2, <1>3
  <2>4. ASSUME i # n PROVE tm[At(u, Parent(i))] <= tm[At(u, i)]
    <3>1. i \in Slots(t)
      BY <2>4, <1>3
    <3>2. old[At(t, Parent(i))] <= old[At(t, i)]
      BY <3>1, <1>1 DEF Ordered
    <3>3. tm[At(u, Parent(i))] = old[At(t, Parent(i))] /\ tm[At(u, i)] = old[At(t, i)]
      BY <3>1, <2>3, <1>4 DEF SameBut
    <3> QED
      BY <3>2, <3>3
  <2> QED
    BY <2>2, <2>4
<1>9. AddTimer(t, tm, e) = PercolateUp(u, tm, n)
  BY DEF AddTimer
<1> HIDE DEF u, n
<1>10. Settles(u, tm, PercolateUp(u, tm, n))
  BY <1>3, <1>7, <1>8, UpSettles
<1> QED
  BY <1>3, <1>6, <1>9, <1>10 DEF Settles, n

(* The last event takes slot i, and the last slot is dropped. *)
Replaced(t, i) == DropLast(Put(t, i, At(t, Size(t) - 1)))

LEMMA ReplacedIs ==
  ASSUME NEW t \in Timers, NEW i \in Slots(t)
  PROVE  /\ Replaced(t, i) \in Timers
         /\ Size(Replaced(t, i)) = Size(t) - 1
         /\ Slots(Replaced(t, i)) = Slots(t) \ {Size(t) - 1}
         /\ \A k \in Slots(Replaced(t, i)) : At(Replaced(t, i), k) =
                IF k = i THEN At(t, Size(t) - 1) ELSE At(t, k)
         /\ Consistent(t) =>
                /\ Consistent(Replaced(t, i))
                /\ InHeap(Replaced(t, i)) = InHeap(t) \ {At(t, i)}
<1> DEFINE last == Size(t) - 1
           u == Put(t, i, At(t, last))
           v == Replaced(t, i)
<1>1. Size(t) \in Nat /\ i \in Nat /\ i < Size(t) /\ last \in Slots(t) /\ last \in Nat
      /\ At(t, last) \in Events
  <2>1. Size(t) \in Nat /\ i \in Nat /\ i < Size(t)
    BY SlotsHold
  <2>2. last \in Slots(t)
    BY <2>1 DEF Slots
  <2> QED
    BY <2>1, <2>2, SlotsHold
<1>2. /\ u \in Timers /\ Size(u) = Size(t)
      /\ \A k \in Slots(t) : At(u, k) = IF k = i THEN At(t, last) ELSE At(t, k)
      /\ u.pos = [t.pos EXCEPT ![At(t, last)] = i]
  BY <1>1, PutIs
<1>3. v = DropLast(u)
  BY DEF Replaced
<1> HIDE DEF u, v
<1>4. u.heap \in Seq(Events) /\ u.pos \in [Events -> Nat] /\ Len(u.heap) = Size(t)
      /\ u = [heap |-> u.heap, pos |-> u.pos]
  BY <1>2 DEF Timers, Size
<1>5. v = [heap |-> SubSeq(u.heap, 1, last), pos |-> u.pos]
  BY <1>3, <1>4 DEF DropLast, Front
<1>6. /\ SubSeq(u.heap, 1, last) \in Seq(Events) /\ Len(SubSeq(u.heap, 1, last)) = last
      /\ \A k \in 1..last : SubSeq(u.heap, 1, last)[k] = u.heap[k]
  BY <1>1, <1>4
<1>7. v \in Timers /\ Size(v) = last /\ v.pos = u.pos
  BY <1>4, <1>5, <1>6 DEF Timers, Size
<1>8. Slots(v) = Slots(t) \ {last}
  BY <1>1, <1>7 DEF Slots
<1>9. ASSUME NEW k \in Slots(v)
      PROVE  At(v, k) = IF k = i THEN At(t, last) ELSE At(t, k)
  <2>1. k \in Nat /\ k + 1 \in 1..last /\ k \in Slots(t)
    BY <1>1, <1>7, <1>8 DEF Slots
  <2>2. At(v, k) = At(u, k)
    BY <2>1, <1>5, <1>6 DEF At
  <2> QED
    BY <2>1, <2>2, <1>2
<1>10. ASSUME Consistent(t)
       PROVE  Consistent(v) /\ InHeap(v) = InHeap(t) \ {At(t, i)}
  <2>1. \A k \in Slots(t) : t.pos[At(t, k)] = k /\ At(t, k) \in Events
    BY <1>10, SlotsHold DEF Consistent
  <2>2. \A j, k \in Slots(t) : At(t, j) = At(t, k) => j = k
    BY <2>1
  <2>3. t.pos \in [Events -> Nat]
    BY SlotsHold
  <2> HIDE DEF last
  <2>4. ASSUME NEW k \in Slots(v) PROVE v.pos[At(v, k)] = k
    <3>1. k \in Slots(t) /\ k # last
      BY <1>8
    <3>2. CASE k = i
      BY <3>2, <1>1, <1>2, <1>7, <1>9, <2>3
    <3>3. CASE k # i
      <4>1. At(v, k) = At(t, k) /\ At(t, k) # At(t, last) /\ At(t, k) \in Events
        BY <3>1, <3>3, <1>1, <1>9, <2>1, <2>2
      <4> QED
        BY <4>1, <3>1, <1>2, <1>7, <2>1, <2>3
    <3> QED
      BY <3>2, <3>3
  <2>5. InHeap(v) = {At(v, k) : k \in Slots(v)} /\ InHeap(t) = {At(t, k) : k \in Slots(t)}
    BY DEF InHeap, Slots
  <2>6. ASSUME NEW e \in InHeap(v) PROVE e \in InHeap(t) \ {At(t, i)}
    <3>1. PICK k \in Slots(v) : e = At(v, k)
      BY <2>5, <2>6
    <3>2. k \in Slots(t) /\ k # last
      BY <1>8
    <3>3. e = IF k = i THEN At(t, last) ELSE At(t, k)
      BY <3>1, <1>9
    <3> QED
      BY <3>2, <3>3, <2>2, <2>5, <1>1
  <2>7. ASSUME NEW e \in InHeap(t) \ {At(t, i)} PROVE e \in InHeap(v)
    <3>1. PICK k \in Slots(t) : e = At(t, k) /\ k # i
      BY <2>5, <2>7
    <3>2. CASE k = last
      <4>1. i \in Slots(v) /\ At(v, i) = At(t, last)
        BY <3>1, <3>2, <1>8, <1>9
      <4> QED
        BY <4>1, <3>1, <3>2, <2>5
    <3>3. CASE k # last
      <4>1. k \in Slots(v) /\ At(v, k) = At(t, k)
        BY <3>1, <3>3, <1>8, <1>9
      <4> QED
        BY <4>1, <3>1, <2>5
    <3> QED
      BY <3>2, <3>3
  <2> QED
    BY <2>4, <2>6, <2>7 DEF Consistent
<1> QED
  BY <1>7, <1>8, <1>9, <1>10 DEF v

(* delTimer: what is in the place e believes in is gone. *)
LEMMA DelIs ==
  ASSUME NEW tm \in [Events -> Nat], NEW t, Sound(t, tm), NEW e \in Events
  PROVE  /\ Sound(DelTimer(t, tm, e), tm)
         /\ InHeap(DelTimer(t, tm, e)) =
                InHeap(t) \ (IF t.pos[e] < Size(t) THEN {At(t, t.pos[e])} ELSE {})
<1> DEFINE i == t.pos[e]  last == Size(t) - 1
           v == Replaced(t, i)
<1>1. t \in Timers /\ Consistent(t) /\ Ordered(t, tm)
  BY DEF Sound
<1>2. i \in Nat /\ Size(t) \in Nat
  BY <1>1, SlotsHold
<1>3. CASE i >= Size(t)
  BY <1>2, <1>3 DEF DelTimer
<1>4. CASE i < Size(t)
  <2>1. i \in Slots(t)
    BY <1>2, <1>4 DEF Slots
  <2>2. /\ v \in Timers /\ Size(v) = last /\ Slots(v) = Slots(t) \ {last}
        /\ \A k \in Slots(v) : At(v, k) = IF k = i THEN At(t, last) ELSE At(t, k)
        /\ Consistent(v) /\ InHeap(v) = InHeap(t) \ {At(t, i)}
    BY <1>1, <2>1, ReplacedIs
  <2>3. DelTimer(t, tm, e) = IF i = last THEN v ELSE Settle(v, tm, i)
    BY <1>2, <1>4 DEF DelTimer, Replaced
  <2> HIDE DEF v, i, last
  <2>4. CASE i = last
    <3>1. ASSUME NEW k \in Slots(v), k > 0 PROVE tm[At(v, Parent(k))] <= tm[At(v, k)]
      <4>1. Parent(k) \in Slots(v)
        BY <2>2, <3>1, UpPlace
      <4>2. At(v, k) = At(t, k) /\ At(v, Parent(k)) = At(t, Parent(k))
        BY <4>1, <2>2, <2>4
      <4> QED
        BY <4>2, <3>1, <2>2, <1>1 DEF Ordered
    <3>2. Sound(v, tm)
      BY <2>2, <3>1 DEF Sound, Ordered
    <3> QED
      BY <2>2, <2>3, <2>4, <3>2, <1>4 DEF i
  <2>5. CASE i # last
    <3>1. i \in Slots(v)
      BY <2>1, <2>2, <2>5
    <3>2. OutOfOrderAt(v, tm, i)
      BY <1>1, <2>2, <3>1, OnlySlotChanges
    <3>3. Settles(v, tm, Settle(v, tm, i))
      BY <2>2, <3>1, <3>2, SettleSettles
    <3> QED
      BY <2>2, <2>3, <2>5, <3>3, <1>4 DEF i, Settles
  <2> QED
    BY <2>4, <2>5
<1> QED
  BY <1>2, <1>3, <1>4

(* popTimer: the root is gone.  Without any order it is still a timer, with  *)
(* one event less.                                                           *)
LEMMA PopKeepsTimer ==
  ASSUME NEW tm, NEW t \in Timers, t.heap # <<>>
  PROVE  /\ PopTimer(t, tm) \in Timers
         /\ Size(PopTimer(t, tm)) = Size(t) - 1
         /\ Size(t) > 0
<1>1. Size(t) \in Nat /\ Size(t) > 0 /\ 0 \in Slots(t)
  <2>1. t.heap \in Seq(Events) /\ t.heap # <<>>
    BY SlotsHold
  <2>2. Len(t.heap) \in Nat /\ Len(t.heap) > 0
    BY <2>1
  <2> QED
    BY <2>2 DEF Size, Slots
<1>2. Replaced(t, 0) \in Timers /\ Size(Replaced(t, 0)) = Size(t) - 1
  BY <1>1, ReplacedIs
<1>3. PopTimer(t, tm) = IF Replaced(t, 0).heap = <<>> THEN Replaced(t, 0)
                        ELSE PercolateDown(Replaced(t, 0), tm, 0)
  BY DEF PopTimer, Replaced
<1>4. Replaced(t, 0).heap # <<>> => 0 \in Slots(Replaced(t, 0))
  <2>1. Replaced(t, 0).heap \in Seq(Events)
    BY <1>2, SlotsHold
  <2>2. Replaced(t, 0).heap # <<>> => Len(Replaced(t, 0).heap) \in Nat /\ Len(Replaced(t, 0).heap) > 0
    BY <2>1
  <2> QED
    BY <2>2 DEF Size, Slots
<1> QED
  BY <1>1, <1>2, <1>3, <1>4, DownKeepsSize

LEMMA PopIs ==
  ASSUME NEW tm \in [Events -> Nat], NEW t, Sound(t, tm), t.heap # <<>>
  PROVE  /\ Sound(PopTimer(t, tm), tm)
         /\ InHeap(PopTimer(t, tm)) = InHeap(t) \ {At(t, 0)}
         /\ 0 \in Slots(t)
<1> DEFINE v == Replaced(t, 0)
<1>1. t \in Timers /\ Consistent(t) /\ Ordered(t, tm)
  BY DEF Sound
<1>2. 0 \in Slots(t)
  <2>1. Size(t) \in Nat /\ Size(t) > 0
    BY <1>1, PopKeepsTimer, SlotsHold
  <2> QED
    BY <2>1 DEF Slots
<1>3. /\ v \in Timers /\ Slots(v) = Slots(t) \ {Size(t) - 1}
      /\ \A k \in Slots(v) : At(v, k) = IF k = 0 THEN At(t, Size(t) - 1) ELSE At(t, k)
      /\ Consistent(v) /\ InHeap(v) = InHeap(t) \ {At(t, 0)}
  BY <1>1, <1>2, ReplacedIs
<1>4. PopTimer(t, tm) = IF v.heap = <<>> THEN v ELSE PercolateDown(v, tm, 0)
  BY DEF PopTimer, Replaced
<1> HIDE DEF v
<1>5. CASE v.heap = <<>>
  <2>1. Size(v) = 0
    BY <1>5 DEF Size
  <2>2. Slots(v) = {}
    BY <2>1 DEF Slots
  <2>3. Sound(v, tm)
    BY <1>3, <2>2 DEF Sound, Ordered
  <2> QED
    BY <1>2, <1>3, <1>4, <1>5, <2>3
<1>6. CASE v.heap # <<>>
  <2>1. 0 \in Slots(v)
    <3>1. Size(v) \in Nat /\ Size(v) > 0
      BY <1>3, <1>6, PopKeepsTimer, SlotsHold
    <3> QED
      BY <3>1 DEF Slots
  <2>2. OutOfOrderAt(v, tm, 0)
    BY <1>1, <1>3, <2>1, OnlySlotChanges
  <2>3. ASSUME NEW k \in Slots(v), k > 0, Parent(k) # 0
        PROVE  tm[At(v, Parent(k))] <= tm[At(v, k)]
    BY <2>2, <2>3 DEF OutOfOrderAt
  <2>4. FallsFrom(v, tm, 0)
    BY <2>3 DEF FallsFrom
  <2>5. Settles(v, tm, PercolateDown(v, tm, 0))
    BY <1>3, <2>1, <2>4, DownSettles
  <2> QED
    BY <1>2, <1>3, <1>4, <1>6, <2>5 DEF Settles
<1> QED
  BY <1>5, <1>6

(* adjustTimer after a change of e's time: e is in the heap, and what was in *)
(* the place e believed in is not, unless that was e.                        *)
LEMMA AdjustIs ==
  ASSUME NEW old \in [Events -> Nat], NEW tm \in [Events -> Nat],
         NEW t, Sound(t, old), NEW e \in Events, SameBut(old, tm, e)
  PROVE  /\ Sound(AdjustTimer(t, tm, e), tm)
         /\ InHeap(AdjustTimer(t, tm, e)) =
                {e} \cup (InHeap(t) \ (IF t.pos[e] < Size(t) THEN {At(t, t.pos[e])} ELSE {}))
<1> DEFINE i == t.pos[e]
           u == Put(t, i, e)
<1>1. t \in Timers /\ Consistent(t) /\ Ordered(t, old)
  BY DEF Sound
<1>2. i \in Nat /\ Size(t) \in Nat /\ t.pos \in [Events -> Nat]
  BY <1>1, SlotsHold
<1>3. InHeap(t) = {At(t, k) : k \in Slots(t)}
  BY DEF InHeap, Slots
<1>4. CASE i > Size(t) - 1
  <2>1. e \notin InHeap(t)
    <3>1. ASSUME NEW k \in Slots(t), At(t, k) = e PROVE FALSE
      <4>1. i = k /\ k \in Nat /\ k < Size(t)
        BY <3>1, <1>1, SlotsHold DEF Consistent
      <4> QED
        BY <4>1, <1>2, <1>4
    <3> QED
      BY <3>1, <1>3
  <2>2. AdjustTimer(t, tm, e) = AddTimer(t, tm, e)
    BY <1>4 DEF AdjustTimer
  <2>3. ~(i < Size(t))
    BY <1>2, <1>4
  <2> QED
    BY <2>1, <2>2, <2>3, AddIs
<1>5. CASE i <= Size(t) - 1
  <2>1. i \in Slots(t) /\ i < Size(t)
    BY <1>2, <1>5 DEF Slots
  <2>2. /\ u \in Timers /\ Size(u) = Size(t)
        /\ \A k \in Slots(t) : At(u, k) = IF k = i THEN e ELSE At(t, k)
        /\ u.pos = [t.pos EXCEPT ![e] = i]
    BY <1>1, <2>1, PutIs
  <2>3. u.pos = t.pos
    BY <1>2, <2>2
  <2>4. AdjustTimer(t, tm, e) = Settle(u, tm, i)
    <3>1. [t EXCEPT !.heap[t.pos[e] + 1] = e] = u
      <4>1. t = [heap |-> t.heap, pos |-> t.pos]
        BY <1>1 DEF Timers
      <4>2. u = [heap |-> [t.heap EXCEPT ![i + 1] = e], pos |-> t.pos]
        BY <2>2, <2>3 DEF Put
      <4>3. [t EXCEPT !.heap[t.pos[e] + 1] = e] = [heap |-> [t.heap EXCEPT ![i + 1] = e], pos |-> t.pos]
        BY <4>1
      <4> QED
        BY <4>2, <4>3
    <3> QED
      BY <3>1, <1>2, <1>5 DEF AdjustTimer
  <2> HIDE DEF u, i
  <2>5. Slots(u) = Slots(t)
    BY <2>2 DEF Slots
  <2>6. \A k \in Slots(t) : t.pos[At(t, k)] = k /\ At(t, k) \in Events
    BY <1>1, SlotsHold DEF Consistent
  <2>7. \A k \in Slots(t) : k # i => At(t, k) # e
    BY <2>6 DEF i
  <2>8. Consistent(u)
    BY <2>2, <2>3, <2>5, <2>6 DEF Consistent, i
  <2>9. OutOfOrderAt(u, tm, i)
    <3>1. \A k \in Slots(u) : k # i =>
             At(u, k) = At(t, k) /\ tm[At(u, k)] = old[At(t, k)]
      BY <2>2, <2>5, <2>6, <2>7 DEF SameBut
    <3> QED
      BY <3>1, <1>1, <2>1, <2>2, <2>5, OnlySlotChanges
  <2>10. InHeap(u) = {e} \cup (InHeap(t) \ {At(t, i)})
    <3>1. InHeap(u) = {At(u, k) : k \in Slots(t)}
      BY <2>5 DEF InHeap, Slots
    <3>2. \A j, k \in Slots(t) : At(t, j) = At(t, k) => j = k
      BY <2>6
    <3> QED
      BY <3>1, <3>2, <1>3, <2>1, <2>2
  <2>11. Settles(u, tm, Settle(u, tm, i))
    BY <2>1, <2>2, <2>5, <2>8, <2>9, SettleSettles
  <2> QED
    BY <2>1, <2>4, <2>10, <2>11 DEF Settles, i
<1> QED
  BY <1>2, <1>4, <1>5

(* The root is the first to expire. *)
LEMMA RootIsFirst ==
  ASSUME NEW tm \in [Events -> Nat], NEW t, Sound(t, tm), NEW i \in Slots(t)
  PROVE  tm[At(t, 0)] <= tm[At(t, i)] /\ 0 \in Slots(t)
<1>1. t \in Timers /\ Ordered(t, tm)
  BY DEF Sound
<1>2. 0 \in Slots(t)
  BY <1>1, SlotsHold DEF Slots
<1>3. \A k \in Slots(t) : tm[At(t, k)] \in Nat /\ k \in Nat
  BY <1>1, TimesOf, SlotsHold
<1> DEFINE Bad == {k \in Slots(t) : ~(tm[At(t, 0)] <= tm[At(t, k)])}
<1>4. SUFFICES ASSUME Bad # {} PROVE FALSE
  BY <1>2
<1>5. PICK k \in Bad : \A j \in Bad : k <= j
  BY <1>3, <1>4, LeastOne
<1>6. k > 0
  BY <1>3, <1>5
<1>7. Parent(k) \in Slots(t) /\ Parent(k) < k
  BY <1>1, <1>5, <1>6, UpPlace
<1>8. tm[At(t, 0)] <= tm[At(t, Parent(k))]
  BY <1>3, <1>5, <1>7
<1>9. tm[At(t, Parent(k))] <= tm[At(t, k)]
  BY <1>1, <1>5, <1>6 DEF Ordered
<1> QED
  BY <1>2, <1>3, <1>5, <1>7, <1>8, <1>9
-----------------------------------------------------------------------------
(* tick(): pops until the root has not expired. *)
Expired(t, tm, cur) == t.heap # <<>> /\ tm[At(t, 0)] <= cur

LEMMA TickTurns ==
  ASSUME NEW tm, NEW cur, NEW t \in Timers
  PROVE  RunTick(t, tm, cur) =
            IF Expired(t, tm, cur) THEN RunTick(PopTimer(t, tm), tm, cur) ELSE t
<1> DEFINE Run(f) == [u \in Timers |->
             IF u.heap # <<>> /\ tm[At(u, 0)] <= cur THEN f[PopTimer(u, tm)] ELSE u]
           stop == {u \in Timers : ~Expired(u, tm, cur)}
           next == [u \in Timers |-> IF u \in stop THEN u ELSE PopTimer(u, tm)]
           fin == [u \in Timers |-> u]
           m == [u \in Timers |-> Size(u)]
           run == CHOOSE f : f = Run(f)
<1>1. ASSUME NEW u \in Timers \ stop
      PROVE  PopTimer(u, tm) \in Timers /\ Size(PopTimer(u, tm)) < Size(u)
  <2>1. u \in Timers /\ u.heap # <<>> /\ Size(u) \in Nat
    BY SlotsHold DEF Expired
  <2> QED
    BY <2>1, PopKeepsTimer
<1>2. m \in [Timers -> Nat]
  BY SlotsHold
<1>3. next \in [Timers -> Timers]
  BY <1>1
<1>4. \A u \in Timers \ stop : m[next[u]] < m[u]
  BY <1>1
<1>5. \E f : Solves(Timers, stop, next, fin, f)
  <2> HIDE DEF m, next, stop, fin
  <2> QED
    BY <1>2, <1>3, <1>4, Recursion
<1>6. ASSUME NEW f
      PROVE  Solves(Timers, stop, next, fin, f) => f = Run(f)
  <2>1. [u \in Timers |-> IF u \in stop THEN fin[u] ELSE f[next[u]]] = Run(f)
    BY DEF Expired
  <2> QED
    BY <2>1 DEF Solves
<1>7. \E f : f = Run(f)
  <2> HIDE DEF Run, stop, fin, next
  <2> QED
    BY <1>5, <1>6
<1>8. run = Run(run)
  <2> HIDE DEF Run
  <2> QED
    BY <1>7
<1>9. \A a : RunTick(a, tm, cur) = run[a]
  BY DEF RunTick
<1> HIDE DEF run
<1>10. run[t] = IF Expired(t, tm, cur) THEN run[PopTimer(t, tm)] ELSE t
  BY <1>8 DEF Expired
<1> QED
  BY <1>9, <1>10

LEMMA TickIs ==
  ASSUME NEW tm \in [Events -> Nat], NEW cur \in Nat, NEW t, Sound(t, tm)
  PROVE  /\ Sound(RunTick(t, tm, cur), tm)
         /\ InHeap(RunTick(t, tm, cur)) = {e \in InHeap(t) : tm[e] > cur}
<1> DEFINE Exact(u) == /\ Sound(RunTick(u, tm, cur), tm)
                       /\ InHeap(RunTick(u, tm, cur)) = {e \in InHeap(u) : tm[e] > cur}
           Bad == {n \in Nat : \E u \in Timers : n = Size(u) /\ Sound(u, tm) /\ ~Exact(u)}
<1>1. t \in Timers /\ Size(t) \in Nat
  BY SlotsHold DEF Sound
<1>2. SUFFICES ASSUME Bad # {} PROVE FALSE
  BY <1>1
<1>3. PICK n \in Bad : \A k \in Bad : n <= k
  BY <1>2, LeastOne
<1>4. PICK u \in Timers : n = Size(u) /\ Sound(u, tm) /\ ~Exact(u)
  BY <1>3
<1>5. InHeap(u) = {At(u, k) : k \in Slots(u)}
  BY DEF InHeap, Slots
<1>6. CASE Expired(u, tm, cur)
  <2> DEFINE v == PopTimer(u, tm)
  <2>1. u.heap # <<>> /\ tm[At(u, 0)] <= cur
    BY <1>6 DEF Expired
  <2>2. Sound(v, tm) /\ InHeap(v) = InHeap(u) \ {At(u, 0)} /\ 0 \in Slots(u)
    BY <1>4, <2>1, PopIs
  <2>3. v \in Timers /\ Size(v) = n - 1 /\ n > 0 /\ Size(v) \in Nat
    BY <1>4, <2>1, PopKeepsTimer, SlotsHold
  <2>4. RunTick(u, tm, cur) = RunTick(v, tm, cur)
    BY <1>6, TickTurns
  <2> HIDE DEF v
  <2>5. Size(v) \notin Bad
    BY <1>3, <2>3
  <2>6. Exact(v)
    BY <2>2, <2>3, <2>5
  <2>7. ~(tm[At(u, 0)] > cur)
    BY <2>1, <2>2, TimesOf
  <2>8. {e \in InHeap(v) : tm[e] > cur} = {e \in InHeap(u) : tm[e] > cur}
    BY <2>2, <2>7
  <2> QED
    BY <1>4, <2>4, <2>6, <2>8
<1>7. CASE ~Expired(u, tm, cur)
  <2>1. RunTick(u, tm, cur) = u
    BY <1>7, TickTurns
  <2>2. ASSUME NEW k \in Slots(u) PROVE tm[At(u, k)] > cur
    <3>1. tm[At(u, 0)] <= tm[At(u, k)] /\ 0 \in Slots(u)
      BY <1>4, RootIsFirst
    <3>2. u.heap # <<>>
      <4>1. Size(u) > 0 /\ Size(u) \in Nat
        BY SlotsHold
      <4> QED
        BY <4>1 DEF Size
    <3>3. ~(tm[At(u, 0)] <= cur)
      BY <3>2, <1>7 DEF Expired
    <3>4. tm[At(u, 0)] \in Nat /\ tm[At(u, k)] \in Nat
      BY <3>1, TimesOf
    <3> QED
      BY ONLY <3>1, <3>3, <3>4, cur \in Nat
  <2>3. InHeap(u) = {e \in InHeap(u) : tm[e] > cur}
    BY <2>2, <1>5
  <2> QED
    BY <1>4, <2>1, <2>3
<1> QED
  BY <1>6, <1>7
-----------------------------------------------------------------------------
(* The specifications. *)
TimerInv == TypeOK /\ HeapSound

LEMMA InvIs ==
  TimerInv <=> /\ Sound(This, time)
               /\ time \in [Events -> 0..(Width - 1)]
               /\ now \in 0..(Width - 1)
<1>1. This.heap = heap /\ This.pos = pos /\ Size(This) = Len(heap)
  BY DEF This, Size
<1>2. This \in Timers <=> heap \in Seq(Events) /\ pos \in [Events -> Nat]
  BY DEF This, Timers
<1>3. Slots(This) = 0..(Len(heap) - 1)
  BY <1>1 DEF Slots
<1>4. PosConsistent <=> Consistent(This)
  BY <1>1, <1>3 DEF PosConsistent, Consistent
<1>5. ASSUME heap \in Seq(Events) PROVE HeapOrder <=> Ordered(This, time)
  <2>1. Len(heap) \in Nat
    BY <1>5
  <2>2. \A i : i \in 1..(Len(heap) - 1) <=> i \in 0..(Len(heap) - 1) /\ i > 0
    BY <2>1
  <2> QED
    BY <2>2, <1>3 DEF HeapOrder, Ordered
<1> QED
  BY <1>2, <1>4, <1>5 DEF TimerInv, TypeOK, HeapSound, Sound

LEMMA BecomesIs ==
  ASSUME NEW t, Sound(t, time'), Becomes(t),
         time' \in [Events -> 0..(Width - 1)], now' \in 0..(Width - 1)
  PROVE  TimerInv' /\ Pending' = InHeap(t)
<1>1. t = [heap |-> t.heap, pos |-> t.pos]
  BY DEF Sound, Timers
<1>2. This' = t
  BY <1>1 DEF This, Becomes
<1>3. Sound(This', time')
  BY <1>2
<1>4. (TimerInv <=> /\ Sound(This, time)
                    /\ time \in [Events -> 0..(Width - 1)]
                    /\ now \in 0..(Width - 1))'
  BY InvIs, PTL
<1>5. TimerInv'
  BY <1>3, <1>4
<1>6. Pending' = InHeap(This')
  BY DEF Pending, InHeap, Size, At
<1> QED
  BY <1>2, <1>5, <1>6

LEMMA ClockIs ==
  /\ Width \in Nat /\ Width > 0 /\ 0 \in 0..(Width - 1)
  /\ Lease \in Nat
  /\ \A f : f \in [Events -> 0..(Width - 1)] => f \in [Events -> Nat]
BY TimerAssumption

LEMMA TicksIs ==
  ASSUME NEW n \in Int, now \in 0..(Width - 1)
  PROVE  Ticks(n) \in 0..(Width - 1)
<1>1. Width \in Nat \ {0} /\ now + n \in Int
  BY TimerAssumption
<1>2. \A x \in Int, w \in Nat \ {0} : x % w \in 0..(w - 1)
  OBVIOUS
<1> QED
  BY <1>1, <1>2 DEF Ticks

(* When e's time is changed, the others' is not. *)
LEMMA TimeSet ==
  ASSUME NEW e \in Events, time \in [Events -> 0..(Width - 1)],
         NEW n \in 0..(Width - 1)
  PROVE  /\ [time EXCEPT ![e] = n] \in [Events -> 0..(Width - 1)]
         /\ SameBut(time, [time EXCEPT ![e] = n], e)
         /\ [time EXCEPT ![e] = n][e] = n
BY DEF SameBut

LEMMA TimerInitInv == Init => TimerInv /\ Pending = {}
<1> SUFFICES ASSUME Init PROVE TimerInv /\ Pending = {}
  OBVIOUS
<1>1. heap = <<>> /\ pos = [e \in Events |-> 0] /\ time = [e \in Events |-> 0] /\ now = 0
  BY DEF Init
<1>2. heap \in Seq(Events) /\ Len(heap) = 0
  BY <1>1
<1>3. TypeOK
  BY <1>1, <1>2, ClockIs DEF TypeOK
<1>4. 0..(Len(heap) - 1) = {} /\ 1..(Len(heap) - 1) = {}
  BY <1>2
<1>5. HeapSound
  BY <1>4 DEF HeapSound, PosConsistent, HeapOrder
<1>6. Pending = {}
  BY <1>4 DEF Pending, InHeap, Size, This
<1> QED
  BY <1>3, <1>5, <1>6 DEF TimerInv

(* A tick, whoever the timer belongs to. *)
LEMMA TickStep ==
  ASSUME TimerInv, Becomes(RunTick(This, time, now)), UNCHANGED <<time, now>>
  PROVE  TimerInv' /\ Pending' = {e \in Pending : time[e] > now}
                   /\ Pending' = InHeap(RunTick(This, time, now))
<1>1. Sound(This, time) /\ time \in [Events -> 0..(Width - 1)] /\ now \in 0..(Width - 1)
  BY InvIs
<1>2. time \in [Events -> Nat] /\ now \in Nat
  BY <1>1, ClockIs
<1> DEFINE t == RunTick(This, time, now)
<1>3. Sound(t, time) /\ InHeap(t) = {e \in InHeap(This) : time[e] > now}
  BY <1>1, <1>2, TickIs
<1> HIDE DEF t
<1>4. TimerInv' /\ Pending' = InHeap(t)
  BY <1>1, <1>3, BecomesIs DEF t
<1> QED
  BY <1>3, <1>4 DEF Pending, t

(* A step of the timer keeps it sound and is the step of the set of          *)
(* deadlines of the same name.                                               *)
LEMMA TimerStep ==
  ASSUME TimerInv, [Next]_timerVars
  PROVE  TimerInv' /\ [Promise!Next]_<<Pending, time, now>>
<1>1. Sound(This, time) /\ time \in [Events -> 0..(Width - 1)] /\ now \in 0..(Width - 1)
  BY InvIs
<1>2. time \in [Events -> Nat] /\ now \in Nat
  BY <1>1, ClockIs
<1>3. ASSUME NEW e \in Events, Add(e) PROVE TimerInv' /\ Promise!Add(e)
  <2>1. /\ e \notin Pending /\ now' = now
        /\ time' = [time EXCEPT ![e] = now]
        /\ Becomes(AddTimer(This, time', e))
    BY <1>3 DEF Add
  <2>2. time' \in [Events -> 0..(Width - 1)] /\ SameBut(time, time', e)
    BY <2>1, <1>1, TimeSet
  <2>3. time' \in [Events -> Nat]
    BY <2>2, ClockIs
  <2>4. Sound(AddTimer(This, time', e), time')
        /\ InHeap(AddTimer(This, time', e)) = Pending \cup {e}
    <3> DEFINE tm == time'
    <3>1. e \notin InHeap(This)
      BY <2>1 DEF Pending
    <3>2. tm \in [Events -> Nat] /\ SameBut(time, tm, e)
      BY <2>2, <2>3
    <3> HIDE DEF tm
    <3>3. Sound(AddTimer(This, tm, e), tm) /\ InHeap(AddTimer(This, tm, e)) = InHeap(This) \cup {e}
      BY <3>1, <3>2, <1>1, <1>2, AddIs
    <3> QED
      BY <3>3 DEF Pending, tm
  <2>5. TimerInv' /\ Pending' = Pending \cup {e}
    BY <2>1, <2>2, <2>4, <1>1, BecomesIs
  <2> QED
    BY <2>1, <2>5 DEF Promise!Add
<1>4. ASSUME NEW e \in Events, Delete(e) PROVE TimerInv' /\ Promise!Delete(e)
  <2>1. /\ e \in Pending /\ now' = now /\ time' = time
        /\ Becomes(DelTimer(This, time, e))
    BY <1>4 DEF Delete
  <2>2. This.pos[e] < Size(This) /\ At(This, This.pos[e]) = e
    <3>1. PICK i \in 0..(Size(This) - 1) : e = At(This, i)
      BY <2>1 DEF Pending, InHeap
    <3>2. i \in Slots(This) /\ This.pos[e] = i
      BY <3>1, <1>1 DEF Slots, Sound, Consistent
    <3>3. i < Size(This)
      BY <3>2, <1>1, SlotsHold DEF Sound
    <3> QED
      BY <3>1, <3>2, <3>3
  <2>3. Sound(DelTimer(This, time, e), time)
        /\ InHeap(DelTimer(This, time, e)) = Pending \ {e}
    BY <2>2, <1>1, <1>2, DelIs DEF Pending
  <2>4. TimerInv' /\ Pending' = Pending \ {e}
    BY <2>1, <2>3, <1>1, BecomesIs
  <2> QED
    BY <2>1, <2>4 DEF Promise!Delete
<1>5. ASSUME NEW e \in Events, Extend(e) PROVE TimerInv' /\ Promise!Extend(e)
  <2>1. /\ e \in Pending \/ pos[e] >= Len(heap)
        /\ now' = now
        /\ time' = [time EXCEPT ![e] = Ticks(Lease)]
        /\ Becomes(AdjustTimer(This, time', e))
    BY <1>5 DEF Extend
  <2>2. time' \in [Events -> 0..(Width - 1)] /\ SameBut(time, time', e)
    <3>1. Ticks(Lease) \in 0..(Width - 1)
      BY <1>1, TicksIs, ClockIs
    <3> QED
      BY <3>1, <2>1, <1>1, TimeSet
  <2>3. time' \in [Events -> Nat]
    BY <2>2, ClockIs
  <2>4. This.pos[e] < Size(This) => At(This, This.pos[e]) = e
    <3>1. CASE e \in Pending
      <4>1. PICK i \in 0..(Size(This) - 1) : e = At(This, i)
        BY <3>1 DEF Pending, InHeap
      <4>2. i \in Slots(This) /\ This.pos[e] = i
        BY <4>1, <1>1 DEF Slots, Sound, Consistent
      <4> QED
        BY <4>1, <4>2
    <3>2. CASE pos[e] >= Len(heap)
      <4>1. This.pos[e] >= Size(This)
        BY <3>2 DEF This, Size
      <4>2. This.pos[e] \in Nat /\ Size(This) \in Nat
        BY <1>1, SlotsHold DEF Sound
      <4> QED
        BY <4>1, <4>2
    <3> QED
      BY <2>1, <3>1, <3>2
  <2>5. Sound(AdjustTimer(This, time', e), time')
        /\ InHeap(AdjustTimer(This, time', e)) = Pending \cup {e}
    <3>1. InHeap(AdjustTimer(This, time', e)) =
             {e} \cup (InHeap(This) \ (IF This.pos[e] < Size(This)
                                       THEN {At(This, This.pos[e])} ELSE {}))
          /\ Sound(AdjustTimer(This, time', e), time')
      BY <2>2, <2>3, <1>1, <1>2, AdjustIs
    <3> QED
      BY <3>1, <2>4 DEF Pending
  <2>6. TimerInv' /\ Pending' = Pending \cup {e}
    BY <2>1, <2>2, <2>5, <1>1, BecomesIs
  <2>7. Ticks(Lease) = Promise!Ticks(Lease)
    BY DEF Ticks, Promise!Ticks
  <2> QED
    BY <2>1, <2>6, <2>7 DEF Promise!Extend
<1>6. ASSUME Tick PROVE TimerInv' /\ Promise!Tick
  BY <1>6, TickStep DEF Tick, Promise!Tick
<1>7. ASSUME Pass PROVE TimerInv' /\ Promise!Pass
  <2>1. now' = Ticks(1) /\ UNCHANGED <<heap, pos, time>>
    BY <1>7 DEF Pass
  <2>2. now' \in 0..(Width - 1)
    BY <2>1, <1>1, TicksIs
  <2>3. Becomes(This) /\ Sound(This, time')
    BY <2>1, <1>1 DEF Becomes, This
  <2>4. TimerInv' /\ Pending' = Pending
    BY <2>1, <2>2, <2>3, <1>1, BecomesIs DEF Pending
  <2>5. Ticks(1) = Promise!Ticks(1)
    BY DEF Ticks, Promise!Ticks
  <2> QED
    BY <2>1, <2>4, <2>5 DEF Promise!Pass
<1>8. ASSUME UNCHANGED timerVars PROVE TimerInv' /\ UNCHANGED <<Pending, time, now>>
  <2>1. heap' = heap /\ pos' = pos /\ time' = time /\ now' = now
    BY <1>8 DEF timerVars
  <2>2. Becomes(This) /\ Sound(This, time')
    BY <2>1, <1>1 DEF Becomes, This
  <2>3. TimerInv' /\ Pending' = Pending
    BY <2>1, <2>2, <1>1, BecomesIs DEF Pending
  <2> QED
    BY <2>1, <2>3
<1> QED
  BY <1>3, <1>4, <1>5, <1>6, <1>7, <1>8 DEF Next, Promise!Next

(* Whoever uses the timer as Timer.h describes has a heap whose events are    *)
(* events with times of the clock.                                           *)
THEOREM TimerTypes == Spec => []TypeOK
<1>1. Init => TimerInv
  BY TimerInitInv
<1>2. TimerInv /\ [Next]_timerVars => TimerInv'
  BY TimerStep
<1>3. TimerInv => TypeOK
  BY DEF TimerInv
<1> QED
  BY <1>1, <1>2, <1>3, PTL DEF Spec

(* And it is a set of deadlines: the heap, its positions and both             *)
(* percolations add, delete, extend and expire what they are asked to.       *)
THEOREM TimerIsDeadlines == Spec => ImplementsDeadlines
<1>1. Init => TimerInv /\ Promise!Init
  BY TimerInitInv DEF Init, Promise!Init
<1>2. TimerInv /\ [Next]_timerVars => TimerInv' /\ [Promise!Next]_<<Pending, time, now>>
  BY TimerStep
<1> QED
  BY <1>1, <1>2, PTL DEF Spec, ImplementsDeadlines, Promise!Spec
-----------------------------------------------------------------------------
(* The heartbeats. *)
LEMMA ModShift ==
  ASSUME NEW W \in Nat \ {0}, NEW x \in Int
  PROVE  (x + W) % W = x % W
<1> DEFINE q == x \div W
           r == x % W
           p == q + 1
<1>1. q \in Int /\ r \in 0..(W - 1) /\ x = q * W + r
  OBVIOUS
<1>2. p \in Int
  BY <1>1
<1> HIDE DEF q, r
<1>3. x + W = p * W + r
  BY <1>1 DEF p
<1> HIDE DEF p
<1>4. (p * W + r) % W = r
  BY ONLY <1>1, <1>2, W \in Nat \ {0}
<1> QED
  BY <1>3, <1>4 DEF r

(* A unit of time passes: what was due in k units is due in k - 1. *)
LEMMA DueSooner ==
  ASSUME NEW W \in Nat \ {0}, NEW n \in 0..(W - 1), NEW k \in Int
  PROVE  (((n + 1) % W) + (k - 1)) % W = (n + k) % W
<1>1. CASE n + 1 < W
  <2>1. n + 1 \in 0..(W - 1)
    BY <1>1
  <2>2. (n + 1) % W = n + 1
    BY ONLY <2>1, W \in Nat \ {0}
  <2>3. (n + 1) + (k - 1) = n + k
    OBVIOUS
  <2> QED
    BY <2>2, <2>3
<1>2. CASE n + 1 = W
  <2>1. (n + 1) % W = 0
    <3>1. W % W = 0
      OBVIOUS
    <3> QED
      BY <3>1, <1>2
  <2>2. k - 1 \in Int /\ 0 + (k - 1) = k - 1 /\ (k - 1) + W = n + k
    BY <1>2
  <2>3. ((k - 1) + W) % W = (k - 1) % W
    BY <2>2, ModShift
  <2> QED
    BY <2>1, <2>2, <2>3
<1> QED
  BY <1>1, <1>2

OpenHaveEvents == \A f \in open : event[f] # NoEvent /\ target[event[f]] = f

ConnTypes ==
    /\ open \subseteq Fds
    /\ event \in [Fds -> Events \cup {NoEvent}]
    /\ target \in [Events -> Fds]
    /\ idle \in [Fds -> 0..Steps]

(* An open object has an event of its own, since each closes one object. *)
HeartbeatInv == TimerInv /\ ConnTypes /\ OpenHaveEvents /\ DueAfterLease

LEMMA HeartbeatInvIs == HeartbeatInv /\ wild \in BOOLEAN => HeartbeatTypeOK /\ HeapSound
BY DEF HeartbeatInv, TimerInv, ConnTypes, OpenHaveEvents, HeartbeatTypeOK

LEMMA OpenHasEvent ==
  ASSUME ConnTypes, OpenHaveEvents, NEW f \in open
  PROVE  f \in Fds /\ event[f] \in Events /\ target[event[f]] = f
BY DEF ConnTypes, OpenHaveEvents

(* An event nobody refers to may replace the one of f. *)
LEMMA NewEventIs ==
  ASSUME ConnTypes, OpenHaveEvents, NEW f \in Fds, NEW e \in Events, NewEvent(f, e)
  PROVE  /\ e \notin Pending
         /\ event' \in [Fds -> Events \cup {NoEvent}] /\ target' \in [Events -> Fds]
         /\ event'[f] = e /\ target'[e] = f
         /\ \A g \in Fds \ {f} : event'[g] = event[g] /\ event[g] # e
         /\ \A x \in Events \ {e} : target'[x] = target[x]
<1>1. /\ e \notin Pending /\ \A g \in Fds \ {f} : event[g] # e
      /\ event' = [event EXCEPT ![f] = e] /\ target' = [target EXCEPT ![e] = f]
  BY DEF NewEvent, Unreferenced
<1> QED
  BY <1>1 DEF ConnTypes

(* Data flowed on f: its event is renewed, and nobody else's.                *)
LEMMA RenewIs ==
  ASSUME HeartbeatInv, NEW f \in Fds, NEW e \in Events,
         Renewed(e), DataFlowed(f), now' = now,
         event'[f] = e,
         open' \subseteq open \cup {f},
         \A g \in open \ {f} : event'[g] = event[g] /\ event[g] # e
  PROVE  DueAfterLease' /\ idle' \in [Fds -> 0..Steps]
<1>1. /\ time' = [time EXCEPT ![e] = Ticks(Lease)]
      /\ idle' = [idle EXCEPT ![f] = 0]
  BY DEF Renewed, DataFlowed
<1>2. /\ idle \in [Fds -> 0..Steps] /\ open \subseteq Fds
      /\ time \in [Events -> 0..(Width - 1)]
      /\ OpenHaveEvents /\ ConnTypes
  BY InvIs DEF HeartbeatInv, ConnTypes
<1>3. 0 \in 0..Steps
  BY HeartbeatAssumption
<1>4. ASSUME NEW g \in open', idle'[g] < Steps
      PROVE  time'[event'[g]] = (now' + (Lease - idle'[g])) % Width
  <2>1. CASE g = f
    <3>1. idle'[g] = 0 /\ time'[event'[g]] = Ticks(Lease)
      BY <2>1, <1>1, <1>2
    <3>2. Lease - 0 = Lease
      BY ClockIs
    <3> QED
      BY <3>1, <3>2 DEF Ticks
  <2>2. CASE g # f
    <3>1. g \in open /\ event'[g] = event[g] /\ event[g] # e
      BY <2>2
    <3>2. event[g] \in Events
      BY <3>1, <1>2, OpenHasEvent
    <3>3. idle'[g] = idle[g] /\ time'[event'[g]] = time[event[g]]
      BY <3>1, <3>2, <2>2, <1>1, <1>2
    <3>4. time[event[g]] = Ticks(Lease - idle[g])
      BY <3>1, <3>3, <1>4 DEF HeartbeatInv, DueAfterLease
    <3> QED
      BY <3>3, <3>4 DEF Ticks
  <2> QED
    BY <2>1, <2>2
<1>5. DueAfterLease'
  BY <1>4 DEF DueAfterLease, Ticks
<1> QED
  BY <1>1, <1>2, <1>3, <1>5

(* Nothing that DueAfterLease speaks of changes, but that objects may close.  *)
LEMMA DueStays ==
  ASSUME DueAfterLease, open' \subseteq open, UNCHANGED <<time, now, event, idle>>
  PROVE  DueAfterLease'
BY DEF DueAfterLease, Ticks

LEMMA FreshIs ==
  ASSUME Sound(This, time), NEW e \in Events, e \notin Pending, NEW p \in Nat
  PROVE  Sound(FreshTimer(e, p), time)
<1> DEFINE t == FreshTimer(e, p)
<1>1. This \in Timers /\ This = [heap |-> heap, pos |-> pos]
  BY DEF Sound, This
<1>2. heap \in Seq(Events) /\ pos \in [Events -> Nat]
  BY <1>1 DEF Timers
<1>3. t.heap = heap /\ t.pos = [pos EXCEPT ![e] = p] /\ t \in Timers
  BY <1>2 DEF FreshTimer, Timers
<1>4. Slots(t) = Slots(This) /\ \A i \in Slots(This) : At(t, i) = At(This, i)
  BY <1>1, <1>3 DEF Slots, Size, At
<1>5. \A i \in Slots(This) : At(This, i) \in Events \ {e}
  <2>1. \A i \in Slots(This) : At(This, i) \in Pending
    BY DEF Pending, InHeap, Slots
  <2> QED
    BY <2>1, <1>1, SlotsHold
<1>6. Consistent(This) /\ Ordered(This, time)
  BY DEF Sound
<1> HIDE DEF t
<1>7. Consistent(t)
  BY <1>1, <1>2, <1>3, <1>4, <1>5, <1>6 DEF Consistent
<1>8. Ordered(t, time)
  <2>1. ASSUME NEW i \in Slots(This), i > 0 PROVE Parent(i) \in Slots(This)
    BY <2>1, <1>1, UpPlace
  <2> QED
    BY <2>1, <1>4, <1>6 DEF Ordered
<1> QED
  BY <1>3, <1>7, <1>8 DEF Sound, t

(* extendTime(), whatever the position in e: the timer stays sound. *)
LEMMA ExtendedIs ==
  ASSUME TimerInv, NEW t, NEW old \in [Events -> Nat], Sound(t, old), NEW e \in Events,
         SameBut(old, time', e), Extended(t, time', e),
         time' \in [Events -> 0..(Width - 1)], now' = now
  PROVE  TimerInv'
<1> DEFINE tm == time'
           u == AdjustTimer(t, tm, e)
<1>1. tm \in [Events -> Nat] /\ SameBut(old, tm, e)
  BY ClockIs
<1>2. Becomes(u)
  BY DEF Extended
<1> HIDE DEF tm
<1>3. Sound(u, tm)
  BY <1>1, AdjustIs
<1> HIDE DEF u
<1>4. now' \in 0..(Width - 1)
  BY InvIs
<1> QED
  BY <1>2, <1>3, <1>4, BecomesIs DEF tm

LEMMA RenewedIs ==
  ASSUME TimerInv, NEW e \in Events, Renewed(e)
  PROVE  /\ time' \in [Events -> 0..(Width - 1)] /\ SameBut(time, time', e)
         /\ time \in [Events -> Nat] /\ Sound(This, time)
         /\ now \in 0..(Width - 1) /\ time \in [Events -> 0..(Width - 1)]
<1>1. Sound(This, time) /\ time \in [Events -> 0..(Width - 1)] /\ now \in 0..(Width - 1)
  BY InvIs
<1>2. Ticks(Lease) \in 0..(Width - 1)
  BY <1>1, TicksIs, ClockIs
<1>3. time' = [time EXCEPT ![e] = Ticks(Lease)]
  BY DEF Renewed
<1> QED
  BY <1>1, <1>2, <1>3, TimeSet, ClockIs

LEMMA AcceptStep ==
  ASSUME HeartbeatInv, NEW f \in Fds, NEW e \in Events, AcceptConnection(f, e)
  PROVE  HeartbeatInv'
<1>1. /\ f \notin open /\ NewEvent(f, e) /\ Renewed(e) /\ DataFlowed(f)
      /\ open' = open \cup {f} /\ now' = now
      /\ Extended(AddTimer(This, [time EXCEPT ![e] = now], e), time', e)
  BY DEF AcceptConnection
<1>2. TimerInv /\ ConnTypes /\ OpenHaveEvents
  BY DEF HeartbeatInv
<1>3. /\ e \notin Pending
      /\ event' \in [Fds -> Events \cup {NoEvent}] /\ target' \in [Events -> Fds]
      /\ event'[f] = e /\ target'[e] = f
      /\ \A g \in Fds \ {f} : event'[g] = event[g] /\ event[g] # e
      /\ \A x \in Events \ {e} : target'[x] = target[x]
  BY <1>1, <1>2, NewEventIs
<1>4. /\ time' \in [Events -> 0..(Width - 1)] /\ SameBut(time, time', e)
      /\ time \in [Events -> Nat] /\ Sound(This, time)
      /\ now \in 0..(Width - 1) /\ time \in [Events -> 0..(Width - 1)]
  BY <1>1, <1>2, RenewedIs
<1>5. TimerInv'
  <2> DEFINE first == [time EXCEPT ![e] = now]
             added == AddTimer(This, first, e)
  <2>1. first \in [Events -> 0..(Width - 1)] /\ SameBut(time, first, e)
    BY <1>4, TimeSet
  <2>2. first \in [Events -> Nat]
    BY <2>1, ClockIs
  <2>3. SameBut(first, time', e)
    BY <2>1, <1>4 DEF SameBut
  <2>4. Extended(added, time', e)
    BY <1>1
  <2>5. e \notin InHeap(This)
    BY <1>3 DEF Pending
  <2> HIDE DEF first
  <2>6. Sound(added, first)
    BY <2>1, <2>2, <2>5, <1>4, AddIs
  <2> HIDE DEF added
  <2> QED
    BY <2>2, <2>3, <2>4, <2>6, <1>1, <1>2, <1>4, ExtendedIs
<1>6. open \subseteq Fds
  BY <1>2 DEF ConnTypes
<1>7. DueAfterLease' /\ idle' \in [Fds -> 0..Steps]
  <2>1. \A g \in open \ {f} : event'[g] = event[g] /\ event[g] # e
    BY <1>3, <1>6
  <2> QED
    BY <2>1, <1>1, <1>3, RenewIs
<1>8. ConnTypes'
  BY <1>1, <1>3, <1>6, <1>7 DEF ConnTypes
<1>9. OpenHaveEvents'
  <2>1. ASSUME NEW g \in open' PROVE event'[g] # NoEvent /\ target'[event'[g]] = g
    <3>1. CASE g = f
      BY <3>1, <1>3, HeartbeatAssumption
    <3>2. CASE g # f
      <4>1. g \in open /\ g \in Fds \ {f} /\ event[g] \in Events /\ target[event[g]] = g
        BY <3>2, <1>1, <1>2, <1>6, OpenHasEvent
      <4> QED
        BY <4>1, <1>3, HeartbeatAssumption
    <3> QED
      BY <3>1, <3>2
  <2> QED
    BY <2>1 DEF OpenHaveEvents
<1> QED
  BY <1>5, <1>7, <1>8, <1>9 DEF HeartbeatInv

LEMMA KeepsAliveStep ==
  ASSUME HeartbeatInv, NEW f \in Fds, NEW e \in Events, WriteKeepsAlive(f, e)
  PROVE  HeartbeatInv'
<1>1. /\ f \in open /\ NewEvent(f, e) /\ Renewed(e) /\ DataFlowed(f)
      /\ open' = open /\ now' = now
  BY DEF WriteKeepsAlive
<1>2. PICK p \in Garbage \cap Nat : Extended(FreshTimer(e, p), time', e)
  BY DEF WriteKeepsAlive
<1>3. TimerInv /\ ConnTypes /\ OpenHaveEvents
  BY DEF HeartbeatInv
<1>4. /\ e \notin Pending
      /\ event' \in [Fds -> Events \cup {NoEvent}] /\ target' \in [Events -> Fds]
      /\ event'[f] = e /\ target'[e] = f
      /\ \A g \in Fds \ {f} : event'[g] = event[g] /\ event[g] # e
      /\ \A x \in Events \ {e} : target'[x] = target[x]
  BY <1>1, <1>3, NewEventIs
<1>5. /\ time' \in [Events -> 0..(Width - 1)] /\ SameBut(time, time', e)
      /\ time \in [Events -> Nat] /\ Sound(This, time)
  BY <1>1, <1>3, RenewedIs
<1>6. TimerInv'
  <2> DEFINE t == FreshTimer(e, p)
  <2>1. p \in Nat
    OBVIOUS
  <2>2. Sound(t, time)
    BY <2>1, <1>4, <1>5, FreshIs
  <2>3. Extended(t, time', e)
    BY <1>2
  <2> HIDE DEF t
  <2> QED
    BY <2>2, <2>3, <1>1, <1>3, <1>5, ExtendedIs
<1>7. open \subseteq Fds
  BY <1>3 DEF ConnTypes
<1>8. DueAfterLease' /\ idle' \in [Fds -> 0..Steps]
  <2>1. \A g \in open \ {f} : event'[g] = event[g] /\ event[g] # e
    BY <1>4, <1>7
  <2> QED
    BY <2>1, <1>1, <1>4, RenewIs
<1>9. ConnTypes'
  BY <1>1, <1>4, <1>7, <1>8 DEF ConnTypes
<1>10. OpenHaveEvents'
  <2>1. ASSUME NEW g \in open' PROVE event'[g] # NoEvent /\ target'[event'[g]] = g
    <3>1. CASE g = f
      BY <3>1, <1>4, HeartbeatAssumption
    <3>2. CASE g # f
      <4>1. g \in open /\ g \in Fds \ {f} /\ event[g] \in Events /\ target[event[g]] = g
        BY <3>2, <1>1, <1>3, <1>7, OpenHasEvent
      <4> QED
        BY <4>1, <1>4, HeartbeatAssumption
    <3> QED
      BY <3>1, <3>2
  <2> QED
    BY <2>1 DEF OpenHaveEvents
<1> QED
  BY <1>6, <1>8, <1>9, <1>10 DEF HeartbeatInv

(* What is outside the heap may expire whenever it likes.                     *)
LEMMA OutsideTheHeap ==
  ASSUME TimerInv, NEW e \in Events, e \notin Pending, SameBut(time, time', e),
         time' \in [Events -> 0..(Width - 1)], UNCHANGED <<heap, pos, now>>
  PROVE  TimerInv'
<1>1. Sound(This, time) /\ now \in 0..(Width - 1)
  BY InvIs
<1>2. \A i \in Slots(This) : time'[At(This, i)] = time[At(This, i)]
  <2>1. \A i \in Slots(This) : At(This, i) \in Pending /\ At(This, i) \in Events
    BY <1>1, SlotsHold DEF Sound, Pending, InHeap, Slots
  <2> QED
    BY <2>1 DEF SameBut
<1>3. \A i \in Slots(This) : i > 0 => Parent(i) \in Slots(This)
  BY <1>1, UpPlace DEF Sound
<1>4. Sound(This, time')
  BY <1>1, <1>2, <1>3 DEF Sound, Ordered
<1>5. Becomes(This)
  BY DEF Becomes, This
<1> QED
  BY <1>1, <1>4, <1>5, BecomesIs

(* A write before the heap is where the model ends: what it knows it keeps.   *)
LEMMA WildStep ==
  ASSUME HeartbeatInv, NEW f \in Fds, NEW e \in Events, WritesBeforeHeap(f, e)
  PROVE  HeartbeatInv'
<1>1. /\ f \in open /\ NewEvent(f, e) /\ Renewed(e) /\ DataFlowed(f)
      /\ open' = open /\ now' = now /\ heap' = heap /\ pos' = pos
  BY DEF WritesBeforeHeap
<1>2. TimerInv /\ ConnTypes /\ OpenHaveEvents
  BY DEF HeartbeatInv
<1>3. /\ e \notin Pending
      /\ event' \in [Fds -> Events \cup {NoEvent}] /\ target' \in [Events -> Fds]
      /\ event'[f] = e /\ target'[e] = f
      /\ \A g \in Fds \ {f} : event'[g] = event[g] /\ event[g] # e
      /\ \A x \in Events \ {e} : target'[x] = target[x]
  BY <1>1, <1>2, NewEventIs
<1>4. time' \in [Events -> 0..(Width - 1)] /\ SameBut(time, time', e)
  BY <1>1, <1>2, RenewedIs
<1>5. TimerInv'
  BY <1>1, <1>2, <1>3, <1>4, OutsideTheHeap
<1>6. open \subseteq Fds
  BY <1>2 DEF ConnTypes
<1>7. DueAfterLease' /\ idle' \in [Fds -> 0..Steps]
  <2>1. \A g \in open \ {f} : event'[g] = event[g] /\ event[g] # e
    BY <1>3, <1>6
  <2> QED
    BY <2>1, <1>1, <1>3, RenewIs
<1>8. ConnTypes'
  BY <1>1, <1>3, <1>6, <1>7 DEF ConnTypes
<1>9. OpenHaveEvents'
  <2>1. ASSUME NEW g \in open' PROVE event'[g] # NoEvent /\ target'[event'[g]] = g
    <3>1. CASE g = f
      BY <3>1, <1>3, HeartbeatAssumption
    <3>2. CASE g # f
      <4>1. g \in open /\ g \in Fds \ {f} /\ event[g] \in Events /\ target[event[g]] = g
        BY <3>2, <1>1, <1>2, <1>6, OpenHasEvent
      <4> QED
        BY <4>1, <1>3, HeartbeatAssumption
    <3> QED
      BY <3>1, <3>2
  <2> QED
    BY <2>1 DEF OpenHaveEvents
<1> QED
  BY <1>5, <1>7, <1>8, <1>9 DEF HeartbeatInv

(* Objects and events stay as they are, but that objects may close. *)
LEMMA ConnStays ==
  ASSUME ConnTypes, OpenHaveEvents, open' \subseteq open, UNCHANGED <<event, target>>,
         idle' \in [Fds -> 0..Steps]
  PROVE  ConnTypes' /\ OpenHaveEvents'
BY DEF ConnTypes, OpenHaveEvents

LEMMA KeepReadingStep ==
  ASSUME HeartbeatInv, NEW f \in Fds, KeepReading(f)
  PROVE  HeartbeatInv'
<1>1. /\ f \in open /\ Renewed(event[f]) /\ DataFlowed(f) /\ Extended(This, time', event[f])
      /\ now' = now /\ open' = open /\ event' = event /\ target' = target
  BY DEF KeepReading
<1>2. TimerInv /\ ConnTypes /\ OpenHaveEvents
  BY DEF HeartbeatInv
<1>3. event[f] \in Events
  BY <1>1, <1>2, OpenHasEvent
<1>4. TimerInv'
  BY <1>1, <1>2, <1>3, RenewedIs, ExtendedIs
<1>5. \A g \in open \ {f} : event'[g] = event[g] /\ event[g] # event[f]
  BY <1>1, <1>2, OpenHasEvent
<1>6. DueAfterLease' /\ idle' \in [Fds -> 0..Steps]
  <2>1. event'[f] = event[f] /\ open' \subseteq open \cup {f}
    BY <1>1
  <2> QED
    BY <2>1, <1>1, <1>3, <1>5, RenewIs
<1>7. ConnTypes' /\ OpenHaveEvents'
  BY <1>1, <1>2, <1>6, ConnStays
<1> QED
  BY <1>4, <1>6, <1>7 DEF HeartbeatInv

LEMMA CloseStep ==
  ASSUME HeartbeatInv, NEW f \in Fds, CloseOnly(f)
  PROVE  HeartbeatInv'
<1>1. /\ open' \subseteq open /\ event' = event /\ target' = target /\ idle' = idle
      /\ heap' = heap /\ pos' = pos /\ time' = time /\ now' = now
  BY DEF CloseOnly, timerVars
<1>2. TimerInv /\ ConnTypes /\ OpenHaveEvents /\ DueAfterLease
  BY DEF HeartbeatInv
<1>3. TimerInv'
  BY <1>1, <1>2, TimerStep DEF timerVars
<1>4. DueAfterLease'
  BY <1>1, <1>2, DueStays
<1>5. idle' \in [Fds -> 0..Steps]
  BY <1>1, <1>2 DEF ConnTypes
<1>6. ConnTypes' /\ OpenHaveEvents'
  BY <1>1, <1>2, <1>5, ConnStays
<1> QED
  BY <1>3, <1>4, <1>6 DEF HeartbeatInv

LEMMA ReadFailsStep ==
  ASSUME HeartbeatInv, NEW f \in Fds, ReadFails(f)
  PROVE  HeartbeatInv'
<1>1. /\ f \in open /\ Becomes(DelTimer(This, time, event[f])) /\ open' \subseteq open
      /\ time' = time /\ now' = now /\ event' = event /\ target' = target /\ idle' = idle
  BY DEF ReadFails
<1>2. TimerInv /\ ConnTypes /\ OpenHaveEvents /\ DueAfterLease
  BY DEF HeartbeatInv
<1>3. Sound(This, time) /\ time \in [Events -> 0..(Width - 1)] /\ now \in 0..(Width - 1)
  BY <1>2, InvIs
<1>4. event[f] \in Events /\ time \in [Events -> Nat]
  BY <1>1, <1>2, <1>3, OpenHasEvent, ClockIs
<1>5. Sound(DelTimer(This, time, event[f]), time)
  BY <1>3, <1>4, DelIs
<1>6. TimerInv'
  BY <1>1, <1>3, <1>5, BecomesIs
<1>7. DueAfterLease'
  BY <1>1, <1>2, DueStays
<1>8. idle' \in [Fds -> 0..Steps]
  BY <1>1, <1>2 DEF ConnTypes
<1>9. ConnTypes' /\ OpenHaveEvents'
  BY <1>1, <1>2, <1>8, ConnStays
<1> QED
  BY <1>6, <1>7, <1>9 DEF HeartbeatInv

LEMMA WriteClosesStep ==
  ASSUME HeartbeatInv, NEW f \in Fds, WriteCloses(f)
  PROVE  HeartbeatInv'
<1>1. /\ f \in open /\ Renewed(event[f])
      /\ Extended(DelTimer(This, time, event[f]), time', event[f])
      /\ open' = open \ {f}
      /\ now' = now /\ event' = event /\ target' = target /\ idle' = idle
  BY DEF WriteCloses
<1>2. TimerInv /\ ConnTypes /\ OpenHaveEvents /\ DueAfterLease
  BY DEF HeartbeatInv
<1>3. event[f] \in Events
  BY <1>1, <1>2, OpenHasEvent
<1>4. /\ time' \in [Events -> 0..(Width - 1)] /\ SameBut(time, time', event[f])
      /\ time \in [Events -> Nat] /\ Sound(This, time)
      /\ time \in [Events -> 0..(Width - 1)]
  BY <1>1, <1>2, <1>3, RenewedIs
<1>5. Sound(DelTimer(This, time, event[f]), time)
  BY <1>3, <1>4, DelIs
<1>6. TimerInv'
  <2> DEFINE t == DelTimer(This, time, event[f])
  <2>1. Sound(t, time) /\ Extended(t, time', event[f])
    BY <1>1, <1>5
  <2> HIDE DEF t
  <2> QED
    BY <2>1, <1>1, <1>2, <1>3, <1>4, ExtendedIs
<1>7. \A g \in open \ {f} : g \in Fds /\ event[g] \in Events /\ event[g] # event[f]
  BY <1>1, <1>2, OpenHasEvent
<1>8. DueAfterLease'
  <2>1. ASSUME NEW g \in open', idle'[g] < Steps
        PROVE  time'[event'[g]] = (now' + (Lease - idle'[g])) % Width
    <3>1. g \in open \ {f} /\ event'[g] = event[g] /\ idle'[g] = idle[g]
      BY <1>1
    <3>2. time'[event[g]] = time[event[g]]
      BY <3>1, <1>4, <1>7 DEF SameBut
    <3>3. time[event[g]] = Ticks(Lease - idle[g])
      BY <3>1, <2>1, <1>2 DEF DueAfterLease
    <3> QED
      BY <3>1, <3>2, <3>3, <1>1 DEF Ticks
  <2> QED
    BY <2>1 DEF DueAfterLease, Ticks
<1>9. idle' \in [Fds -> 0..Steps] /\ open' \subseteq open
  BY <1>1, <1>2 DEF ConnTypes
<1>10. ConnTypes' /\ OpenHaveEvents'
  BY <1>1, <1>2, <1>9, ConnStays
<1> QED
  BY <1>6, <1>8, <1>10 DEF HeartbeatInv

LEMMA TickTimerStep ==
  ASSUME HeartbeatInv, TickTimer
  PROVE  HeartbeatInv' /\ Pending' = {e \in Pending : time[e] > now}
<1>1. /\ Becomes(RunTick(This, time, now)) /\ open' \subseteq open
      /\ time' = time /\ now' = now /\ event' = event /\ target' = target /\ idle' = idle
  BY DEF TickTimer
<1>2. TimerInv /\ ConnTypes /\ OpenHaveEvents /\ DueAfterLease
  BY DEF HeartbeatInv
<1>3. TimerInv' /\ Pending' = {e \in Pending : time[e] > now}
  BY <1>1, <1>2, TickStep
<1>4. DueAfterLease'
  BY <1>1, <1>2, DueStays
<1>5. idle' \in [Fds -> 0..Steps]
  BY <1>1, <1>2 DEF ConnTypes
<1>6. ConnTypes' /\ OpenHaveEvents'
  BY <1>1, <1>2, <1>5, ConnStays
<1> QED
  BY <1>3, <1>4, <1>6 DEF HeartbeatInv

LEMMA PassTimeStep ==
  ASSUME HeartbeatInv, PassTime
  PROVE  HeartbeatInv'
<1>1. /\ now' = Ticks(1)
      /\ idle' = [f \in Fds |-> IF f \in open /\ idle[f] < Steps THEN idle[f] + 1 ELSE idle[f]]
      /\ heap' = heap /\ pos' = pos /\ time' = time
      /\ open' = open /\ event' = event /\ target' = target
  BY DEF PassTime
<1>2. TimerInv /\ ConnTypes /\ OpenHaveEvents /\ DueAfterLease
  BY DEF HeartbeatInv
<1>3. TimerInv'
  BY <1>1, <1>2, TimerStep DEF Next, Pass
<1>4. now \in 0..(Width - 1) /\ Width \in Nat \ {0}
  BY <1>2, InvIs, TimerAssumption
<1>5. /\ idle \in [Fds -> 0..Steps] /\ open \subseteq Fds /\ Steps \in Nat
      /\ Lease \in Nat
  BY <1>2, HeartbeatAssumption, ClockIs DEF ConnTypes
<1>6. idle' \in [Fds -> 0..Steps]
  BY <1>1, <1>5
<1>7. ASSUME NEW g \in open', idle'[g] < Steps
      PROVE  time'[event'[g]] = (now' + (Lease - idle'[g])) % Width
  <2>1. g \in open /\ g \in Fds /\ idle[g] \in 0..Steps
    BY <1>1, <1>5
  <2>2. idle[g] < Steps /\ idle'[g] = idle[g] + 1
    BY <2>1, <1>1, <1>5, <1>7
  <2>3. time[event[g]] = (now + (Lease - idle[g])) % Width
    BY <2>1, <2>2, <1>2 DEF DueAfterLease, Ticks
  <2> DEFINE k == Lease - idle[g]
  <2>4. k \in Int /\ k - 1 = Lease - idle'[g]
    BY <2>1, <2>2, <1>5
  <2>5. now' = (now + 1) % Width
    BY <1>1 DEF Ticks
  <2> HIDE DEF k
  <2>6. (((now + 1) % Width) + (k - 1)) % Width = (now + k) % Width
    BY <2>4, <1>4, DueSooner
  <2> QED
    BY <2>3, <2>4, <2>5, <2>6, <1>1 DEF k
<1>8. DueAfterLease'
  BY <1>7 DEF DueAfterLease, Ticks
<1>9. ConnTypes' /\ OpenHaveEvents'
  BY <1>1, <1>2, <1>6, ConnStays
<1> QED
  BY <1>3, <1>8, <1>9 DEF HeartbeatInv

LEMMA HeartbeatInitInv == HeartbeatInit => HeartbeatInv
<1> SUFFICES ASSUME HeartbeatInit PROVE HeartbeatInv
  OBVIOUS
<1>1. /\ Init /\ open = {} /\ event = [f \in Fds |-> NoEvent]
      /\ target = [e \in Events |-> CHOOSE f \in Fds : TRUE]
      /\ idle = [f \in Fds |-> 0]
  BY DEF HeartbeatInit
<1>2. TimerInv
  BY <1>1, TimerInitInv
<1>3. (CHOOSE f \in Fds : TRUE) \in Fds /\ 0 \in 0..Steps
  BY HeartbeatAssumption
<1>4. ConnTypes
  BY <1>1, <1>3 DEF ConnTypes
<1> QED
  BY <1>1, <1>2, <1>4 DEF HeartbeatInv, OpenHaveEvents, DueAfterLease

LEMMA HeartbeatStep == HeartbeatInv /\ [HeartbeatNext]_vars => HeartbeatInv'
<1> SUFFICES ASSUME HeartbeatInv, [HeartbeatNext]_vars PROVE HeartbeatInv'
  OBVIOUS
<1>1. ASSUME NEW f \in Fds, NEW e \in Events, AcceptConnection(f, e) PROVE HeartbeatInv'
  BY <1>1, AcceptStep
<1>2. ASSUME NEW f \in Fds, NEW e \in Events, WriteKeepsAlive(f, e) PROVE HeartbeatInv'
  BY <1>2, KeepsAliveStep
<1>3. ASSUME NEW f \in Fds, CloseOnly(f) PROVE HeartbeatInv'
  BY <1>3, CloseStep
<1>4. ASSUME NEW f \in Fds, KeepReading(f) PROVE HeartbeatInv'
  BY <1>4, KeepReadingStep
<1>5. ASSUME NEW f \in Fds, ReadFails(f) PROVE HeartbeatInv'
  BY <1>5, ReadFailsStep
<1>6. ASSUME NEW f \in Fds, WriteCloses(f) PROVE HeartbeatInv'
  BY <1>6, WriteClosesStep
<1>7. ASSUME TickTimer PROVE HeartbeatInv'
  BY <1>7, TickTimerStep
<1>8. ASSUME PassTime PROVE HeartbeatInv'
  BY <1>8, PassTimeStep
<1>10. ASSUME NEW f \in Fds, NEW e \in Events, WritesBeforeHeap(f, e) PROVE HeartbeatInv'
  BY <1>10, WildStep
<1>9. ASSUME UNCHANGED vars PROVE HeartbeatInv'
  <2>1. /\ heap' = heap /\ pos' = pos /\ time' = time /\ now' = now
        /\ open' = open /\ event' = event /\ target' = target /\ idle' = idle
    BY <1>9 DEF vars, timerVars, connVars
  <2>2. TimerInv /\ ConnTypes /\ OpenHaveEvents /\ DueAfterLease
    BY DEF HeartbeatInv
  <2>3. TimerInv'
    BY <2>1, <2>2, TimerStep DEF timerVars
  <2>4. DueAfterLease'
    BY <2>1, <2>2, DueStays
  <2>5. idle' \in [Fds -> 0..Steps]
    BY <2>1, <2>2 DEF ConnTypes
  <2>6. ConnTypes' /\ OpenHaveEvents'
    BY <2>1, <2>2, <2>5, ConnStays
  <2> QED
    BY <2>3, <2>4, <2>6 DEF HeartbeatInv
<1> QED
  BY <1>1, <1>2, <1>3, <1>4, <1>5, <1>6, <1>7, <1>8, <1>9, <1>10 DEF HeartbeatNext

LEMMA HeartbeatInvariant == HeartbeatSpec => []HeartbeatInv
BY HeartbeatInitInv, HeartbeatStep, PTL DEF HeartbeatSpec

LEMMA WildIsBoolean == HeartbeatSpec => [](wild \in BOOLEAN)
<1>1. HeartbeatInit => wild \in BOOLEAN
  BY DEF HeartbeatInit
<1>2. wild \in BOOLEAN /\ [HeartbeatNext]_vars => (wild \in BOOLEAN)'
  BY DEF HeartbeatNext, vars, connVars, Defined, WritesBeforeHeap, AcceptConnection,
         CloseOnly, KeepReading, ReadFails, WriteKeepsAlive, WriteCloses, TickTimer, PassTime
<1> QED
  BY <1>1, <1>2, PTL DEF HeartbeatSpec

(* What the connections keep of their events has its types, and the event of  *)
(* an open object is one that closes it.                                      *)
THEOREM HeartbeatTypes == HeartbeatSpec => []HeartbeatTypeOK
<1>1. HeartbeatInv /\ wild \in BOOLEAN => HeartbeatTypeOK
  BY HeartbeatInvIs
<1> QED
  BY <1>1, HeartbeatInvariant, WildIsBoolean, PTL

(* Although main extends events that it has deleted, that were never added or *)
(* whose _pos nobody initialised, every event in the heap knows its place, no *)
(* event is there twice, and the heap is in order: until it meets a _pos that  *)
(* is negative, and writes before the heap.                                   *)
THEOREM HeapStaysSound == HeartbeatSpec => []SoundUntilWild
<1>1. HeartbeatInv => SoundUntilWild
  BY DEF HeartbeatInv, TimerInv, SoundUntilWild
<1> QED
  BY <1>1, HeartbeatInvariant, PTL

(* Whom a tick closes, and when its event is due: a lease after the last data. *)
LEMMA TickClosesStep ==
  ASSUME HeartbeatInv, TickTimer, NEW f \in open
  PROVE  /\ event[f] \in Pending /\ idle[f] \in Lease..(Steps - 1) /\ idle[f] - Lease <= now
              => f \notin open'
         /\ f \notin open' =>
                \/ idle[f] >= Lease
                \/ LeftBehind(f)
                \/ now + (Lease - idle[f]) >= Width
<1>1. /\ TimerInv /\ ConnTypes /\ OpenHaveEvents
      /\ \A g \in open : idle[g] < Steps => time[event[g]] = Ticks(Lease - idle[g])
  BY DEF HeartbeatInv, DueAfterLease
<1>2. open' = open \ {target[e] : e \in {x \in Pending : time[x] <= now}}
  <2>1. /\ Becomes(RunTick(This, time, now)) /\ UNCHANGED <<time, now>>
        /\ open' = open \ {target[e] : e \in Fired(RunTick(This, time, now))}
    BY DEF TickTimer
  <2>2. /\ Pending' = InHeap(RunTick(This, time, now))
        /\ Pending' = {e \in Pending : time[e] > now}
    BY <2>1, <1>1, TickStep
  <2>3. \A e \in Pending : time[e] \in Int /\ now \in Int
    <3>1. Pending \in SUBSET Events
      BY <1>1, InvIs, SlotsHold DEF Sound, Pending
    <3> QED
      BY <3>1, <1>1, InvIs
  <2>4. Fired(RunTick(This, time, now)) = {x \in Pending : time[x] <= now}
    BY <2>2, <2>3 DEF Fired
  <2> QED
    BY <2>1, <2>4
<1>3. /\ f \in Fds /\ event[f] \in Events /\ target[event[f]] = f
      /\ now \in 0..(Width - 1) /\ idle[f] \in 0..Steps
      /\ Width \in Nat \ {0} /\ Lease \in Nat /\ Steps \in Nat /\ Lease < Steps
  BY <1>1, OpenHasEvent, InvIs, ClockIs, TimerAssumption, HeartbeatAssumption DEF ConnTypes
<1>4. \A n \in Int, w \in Nat \ {0} : n \in 0..(w - 1) => n % w = n
  OBVIOUS
<1>5. ASSUME event[f] \in Pending, idle[f] \in Lease..(Steps - 1), idle[f] - Lease <= now
      PROVE  f \notin open'
  <2>1. now + (Lease - idle[f]) \in 0..(Width - 1) /\ now + (Lease - idle[f]) <= now
    BY <1>3, <1>5
  <2>2. time[event[f]] = (now + (Lease - idle[f])) % Width
    <3>1. idle[f] < Steps
      BY <1>3, <1>5
    <3> QED
      BY <3>1, <1>1 DEF Ticks
  <2>3. time[event[f]] = now + (Lease - idle[f])
    BY <1>3, <1>4, <2>1, <2>2
  <2> QED
    BY <1>2, <1>3, <1>5, <2>1, <2>3
<1>6. ASSUME f \notin open', idle[f] < Lease, now + (Lease - idle[f]) < Width
      PROVE  LeftBehind(f)
  <2>1. PICK e \in Pending : time[e] <= now /\ target[e] = f
    BY <1>2, <1>6
  <2>2. now + (Lease - idle[f]) \in 0..(Width - 1) /\ now + (Lease - idle[f]) > now
    BY <1>3, <1>6
  <2>3. time[event[f]] = now + (Lease - idle[f])
    BY <1>1, <1>3, <1>4, <1>6, <2>2 DEF Ticks
  <2>4. e # event[f]
    BY <1>3, <2>1, <2>2, <2>3
  <2> QED
    BY <2>1, <2>4 DEF LeftBehind
<1> QED
  BY <1>3, <1>5, <1>6

(* A tick closes the connection that has been idle for its lease, if its event *)
(* is in the heap, and no other: but one with an expired event left behind,    *)
(* and one whose lease reaches past the range of the clock.                    *)
THEOREM TicksCloseTheIdle == HeartbeatSpec => TickClosesTheIdle
<1>1. HeartbeatInv /\ [HeartbeatNext]_vars
        => [TickTimer =>
              \A f \in open :
                 /\ /\ event[f] \in Pending
                    /\ idle[f] \in Lease..(Steps - 1) /\ idle[f] - Lease <= now
                    => f \notin open'
                 /\ f \notin open' =>
                       \/ idle[f] >= Lease
                       \/ LeftBehind(f)
                       \/ now + (Lease - idle[f]) >= Width]_vars
  BY TickClosesStep
<1> QED
  BY <1>1, HeartbeatInvariant, PTL DEF HeartbeatSpec, TickClosesTheIdle

(* A tick fires what has expired, all of it and nothing else.                 *)
THEOREM TicksAreExact == HeartbeatSpec => TickExact
<1>1. HeartbeatInv /\ [HeartbeatNext]_vars
        => [TickTimer => Pending' = {e \in Pending : time[e] > now}]_vars
  BY TickTimerStep
<1> QED
  BY <1>1, HeartbeatInvariant, PTL DEF HeartbeatSpec, TickExact
=============================================================================
