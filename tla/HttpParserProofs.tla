-------------------------- MODULE HttpParserProofs --------------------------
(***************************************************************************)
(* However a request is cut, process_read() means the same, a request that   *)
(* fits the buffer is read to its end, and the parts of a form come out as    *)
(* they went in: the invariants of HttpParser, for all requests, and every     *)
(* size of the buffer.                                                        *)
(***************************************************************************)
EXTENDS HttpParser, SequenceTheorems, WellFoundedInduction, TLAPS

(* The least of some numbers, which Min names.                               *)
Below == {x \in Nat \X Nat : x[1] < x[2]}

LEMMA BelowIsWellFounded == IsWellFoundedOn(Below, Nat)
<1>1. Below = OpToRel(<, Nat)
  BY DEF Below, OpToRel
<1> QED
  BY <1>1, NatLessThanWellFounded

LEMMA MinIsLeast ==
  ASSUME NEW T \in SUBSET Nat, T # {}
  PROVE  Min(T) \in T /\ \A k \in T : Min(T) <= k
<1>1. PICK m \in T : \A k \in T : ~(<<k, m>> \in Below)
  BY BelowIsWellFounded, WFMin
<1>2. ASSUME NEW k \in T PROVE m <= k
  <2>1. k < m => <<k, m>> \in Below
    BY DEF Below
  <2> QED
    BY <1>1, <2>1
<1> QED
  BY <1>2 DEF Min

LEMMA LeastIsMin ==
  ASSUME NEW T \in SUBSET Nat, NEW m \in T, \A k \in T : m <= k
  PROVE  Min(T) = m
<1>1. Min(T) \in T /\ Min(T) <= m
  BY MinIsLeast
<1>2. m <= Min(T) /\ Min(T) \in Nat /\ m \in Nat
  BY <1>1
<1> QED
  BY <1>1, <1>2
-----------------------------------------------------------------------------
(* What has been received of a text: the line ends and the empty lines that    *)
(* are in it as a whole, and the marks that are seen to be broken.             *)
LEMMA PrefixIs ==
  ASSUME NEW t \in Seq(STRING), NEW n \in 0..Len(t)
  PROVE  /\ SubSeq(t, 1, n) \in Seq(STRING) /\ Len(SubSeq(t, 1, n)) = n
         /\ \A i \in 1..n : SubSeq(t, 1, n)[i] = t[i]
  OBVIOUS

LEMMA OneToken ==
  ASSUME NEW t \in Seq(STRING), Len(t) = 1
  PROVE  t = <<t[1]>> /\ t # <<>>
<1>1. <<t[1]>> \in Seq(STRING) /\ Len(<<t[1]>>) = 1 /\ <<t[1]>>[1] = t[1]
  <2>1. t[1] \in STRING
    BY ElementOfSeq
  <2> QED
    BY <2>1
<1>2. \A i \in 1..Len(t) : t[i] = <<t[1]>>[i]
  BY <1>1
<1> QED
  BY <1>1, <1>2, SeqEqual

LEMMA PrefixLineEnds ==
  ASSUME NEW t \in Seq(STRING), NEW n \in 0..Len(t)
  PROVE  LineEnds(SubSeq(t, 1, n)) = {i \in LineEnds(t) : i + 2 <= n}
<1> DEFINE p == SubSeq(t, 1, n)
<1>1. Len(p) = n /\ \A i \in 1..n : p[i] = t[i]
  BY PrefixIs
<1>2. ASSUME NEW i \in Nat
      PROVE  i \in LineEnds(p) <=> i \in LineEnds(t) /\ i + 2 <= n
  BY <1>1 DEF LineEnds
<1> QED
  BY <1>2 DEF LineEnds

LEMMA PrefixEmptyLines ==
  ASSUME NEW t \in Seq(STRING), NEW n \in 0..Len(t)
  PROVE  EmptyLines(SubSeq(t, 1, n)) = {i \in EmptyLines(t) : i + 2 <= n}
<1>1. LineEnds(SubSeq(t, 1, n)) = {i \in LineEnds(t) : i + 2 <= n}
  BY PrefixLineEnds
<1>2. LineEnds(t) \subseteq Nat
  BY DEF LineEnds
<1> QED
  BY <1>1, <1>2 DEF EmptyLines

LEMMA PrefixBroken ==
  ASSUME NEW t \in Seq(STRING), NEW n \in 0..Len(t)
  PROVE  /\ Broken(SubSeq(t, 1, n)) \subseteq Broken(t)
         /\ \A i \in Broken(t) : i + 2 <= n => i \in Broken(SubSeq(t, 1, n))
<1> DEFINE p == SubSeq(t, 1, n)
<1>1. Len(p) = n /\ \A i \in 1..n : p[i] = t[i]
  BY PrefixIs
<1>2. LineEnds(p) = {i \in LineEnds(t) : i + 2 <= n}
  BY PrefixLineEnds
<1>3. ASSUME NEW i \in Nat, i + 1 <= n
      PROVE  i - 1 \in LineEnds(p) <=> i - 1 \in LineEnds(t)
  BY <1>2, <1>3
<1> HIDE DEF p
<1>4. ASSUME NEW i \in Broken(p) PROVE i \in Broken(t)
  BY <1>1, <1>3 DEF Broken
<1>5. ASSUME NEW i \in Broken(t), i + 2 <= n PROVE i \in Broken(p)
  BY <1>1, <1>3, <1>5 DEF Broken
<1> QED
  BY <1>4, <1>5 DEF p

LEMMA TextsAreIndexed ==
  ASSUME NEW t \in Seq(STRING)
  PROVE  /\ LineEnds(t) \in SUBSET Nat /\ EmptyLines(t) \in SUBSET Nat
         /\ Broken(t) \in SUBSET Nat
         /\ \A i \in LineEnds(t) : i + 2 <= Len(t) /\ t[i + 1] = "CR" /\ t[i + 2] = "LF"
         /\ EmptyLines(t) \subseteq LineEnds(t)
         /\ \A i \in EmptyLines(t) : i - 2 \in LineEnds(t) /\ i >= 2
         /\ \A i \in Broken(t) : t[i + 1] \in {"CR", "LF"} /\ i + 1 <= Len(t)
  BY DEF LineEnds, EmptyLines, Broken

(* A line end that nothing broken is in front of is the first, whatever has   *)
(* been received behind it.                                                   *)
LEMMA FirstIs ==
  ASSUME NEW t \in Seq(STRING), NEW ends \in SUBSET Nat, NEW e \in ends,
         \A i \in ends : e <= i, \A i \in Broken(t) : e <= i
  PROVE  First(t, ends) /\ Min(ends) = e
<1>1. Min(ends) = e
  BY LeastIsMin
<1> QED
  BY <1>1, TextsAreIndexed DEF First
-----------------------------------------------------------------------------
(***************************************************************************)
(* The invariant.  Outside the body, the worker has looked at the request up *)
(* to checkedIdx: nothing broken is in front of the line it looks for, the   *)
(* line ends in front of it have been the right ones, and what it has noted   *)
(* of the head is what is there.                                             *)
(***************************************************************************)
Got == SubSeq(request.bytes, 1, received)
Scanning == stage \in {"armed", "parsing"}

Seen ==
    /\ readBuf = Got /\ content = <<>>
    /\ \A i \in startLine..(checkedIdx - 1) : request.bytes[i + 1] \notin {"CR", "LF"}
    /\ \A i \in Broken(request.bytes) : i >= startLine

GoodStart ==
    /\ 1 \in LineEnds(request.bytes)
    /\ request.bytes[1] \in {"GET", "POST"} /\ method = request.bytes[1]

Noted(h) == \E i \in 3..startLine : request.bytes[i] = h

HeadSeen ==
    /\ startLine - 2 \in LineEnds(request.bytes)
    /\ \A i \in EmptyLines(request.bytes) : i >= startLine
    /\ HeadIsComplete(request.bytes) =>
          /\ contentLength = IF Noted("LENGTH") THEN request.length ELSE 0
          /\ linger = Noted("LINGER")

LineInv ==
    Scanning /\ ~InContent =>
        /\ Seen
        /\ checkState = "REQUESTLINE" =>
              startLine = 0 /\ contentLength = 0 /\ linger = FALSE
        /\ checkState = "HEADER" => GoodStart /\ HeadSeen

(* When the worker gives the object back, what it looks for is not there.    *)
StuckInv ==
    stage = "armed" /\ ~InContent =>
        \A i \in LineEnds(Got) : i >= startLine => \E j \in Broken(Got) : j < i

(* In the body: what lies in _read_buf behind the head is not yet copied, or  *)
(* it is copied and what came later is behind it.                             *)
HeadKnown ==
    /\ GoodStart /\ HeadIsComplete(request.bytes)
    /\ HasHeader(request.bytes, "LENGTH") /\ linger = HasHeader(request.bytes, "LINGER")
    /\ contentLength = request.length /\ contentLength # 0

BodyStart == Min(EmptyLines(request.bytes)) + 2
BodyInv ==
    Scanning /\ InContent =>
        /\ HeadKnown
        /\ Len(readBuf) >= BodyStart /\ Len(readBuf) <= received
        /\ readBuf = SubSeq(request.bytes, 1, Len(readBuf))
        /\ \/ /\ stage = "parsing" /\ content = <<>>
              /\ checkedIdx = BodyStart /\ Len(readBuf) = received
           \/ /\ content = SubSeq(request.bytes, BodyStart + 1, received)
              /\ checkedIdx = Len(readBuf)

Undecided == Scanning => verdict = "NO_REQUEST"

Inv == TypeOK /\ Undecided /\ LineInv /\ StuckInv /\ BodyInv /\ VerdictOfBytes
-----------------------------------------------------------------------------
LEMMA RequestsAre ==
  ASSUME TypeOK
  PROVE  /\ request.bytes \in Seq(STRING) /\ request.length \in Nat
         /\ received \in 0..Len(request.bytes)
         /\ Got \in Seq(STRING) /\ Len(Got) = received
         /\ \A i \in 1..received : Got[i] = request.bytes[i]
  BY ParserAssumption, PrefixIs DEF TypeOK, Got

(* parse_line() finds the first mark behind the line's beginning; when it is  *)
(* satisfied, the mark is a line end.                                          *)
LEMMA MarkIs ==
  ASSUME TypeOK, Seen
  PROVE  /\ Mark \in checkedIdx..received /\ Len(readBuf) = received
         /\ \A i \in startLine..(Mark - 1) : request.bytes[i + 1] \notin {"CR", "LF"}
         /\ Marks # {} => Mark < received /\ request.bytes[Mark + 1] \in {"CR", "LF"}
         /\ Marks = {} => Mark = received
<1>1. /\ Len(readBuf) = received /\ received \in Nat /\ received <= Len(request.bytes)
      /\ \A i \in 1..received : readBuf[i] = request.bytes[i]
  BY RequestsAre DEF Seen
<1>2. checkedIdx \in 0..received /\ startLine \in 0..checkedIdx
  BY <1>1 DEF TypeOK
<1>3. Marks = {i \in checkedIdx..(received - 1) : request.bytes[i + 1] \in {"CR", "LF"}}
  BY <1>1, <1>2 DEF Marks
<1>4. CASE Marks = {}
  <2>1. Mark = received
    BY <1>1, <1>4 DEF Mark
  <2>2. \A i \in checkedIdx..(received - 1) : request.bytes[i + 1] \notin {"CR", "LF"}
    BY <1>3, <1>4
  <2> QED
    BY <1>1, <1>2, <1>4, <2>1, <2>2 DEF Seen
<1>5. CASE Marks # {}
  <2>0. Marks \in SUBSET Nat
    BY <1>2, <1>3
  <2>1. Mark \in Marks /\ \A k \in Marks : Mark <= k
    BY <1>5, <2>0, MinIsLeast DEF Mark
  <2>2. Mark \in checkedIdx..(received - 1) /\ request.bytes[Mark + 1] \in {"CR", "LF"}
    BY <1>3, <2>1
  <2>3. ASSUME NEW i \in startLine..(Mark - 1) PROVE request.bytes[i + 1] \notin {"CR", "LF"}
    <3>1. i < checkedIdx => i \in startLine..(checkedIdx - 1)
      BY <1>1, <1>2, <2>2
    <3>2. i >= checkedIdx => i \in checkedIdx..(received - 1) /\ i < Mark
      BY <1>1, <1>2, <2>2
    <3>3. i >= checkedIdx => i \notin Marks
      BY <1>1, <1>2, <2>1, <2>2, <3>2
    <3>4. i < checkedIdx \/ i >= checkedIdx
      BY <1>1, <1>2, <2>2
    <3> QED
      BY <1>3, <3>1, <3>2, <3>3, <3>4 DEF Seen
  <2>4. Mark \in checkedIdx..received /\ Mark < received
    BY <1>1, <1>2, <2>2
  <2> QED
    BY <1>1, <1>5, <2>2, <2>3, <2>4
<1> QED
  BY <1>4, <1>5

Aligned == startLine = 0 \/ startLine - 2 \in LineEnds(request.bytes)

(* No CR is right in front of what the worker looks at.                      *)
LEMMA NoReturnBefore ==
  ASSUME TypeOK, Seen, Aligned, Mark > 0, Mark < received
  PROVE  request.bytes[Mark] # "CR"
<1>1. /\ Mark \in checkedIdx..received /\ received \in Nat /\ received <= Len(request.bytes)
      /\ \A i \in startLine..(Mark - 1) : request.bytes[i + 1] \notin {"CR", "LF"}
  BY MarkIs, RequestsAre
<1>2. startLine \in 0..Mark /\ Mark \in Nat
  BY <1>1 DEF TypeOK
<1>3. CASE startLine < Mark
  BY <1>1, <1>2, <1>3
<1>4. CASE startLine = Mark
  BY <1>1, <1>2, <1>4, TextsAreIndexed, RequestsAre DEF Aligned
<1> QED
  BY <1>2, <1>3, <1>4

LEMMA LineIs ==
  ASSUME TypeOK, Seen, Aligned, LineOK
  PROVE  /\ Mark \in LineEnds(request.bytes) /\ Mark + 2 <= received
         /\ startLine <= Mark
<1>1. /\ Mark \in checkedIdx..received /\ received \in Nat /\ received <= Len(request.bytes)
      /\ Len(readBuf) = received /\ Mark < received
      /\ \A i \in 1..received : readBuf[i] = request.bytes[i]
  BY MarkIs, RequestsAre DEF LineOK, Seen
<1>2. startLine \in 0..Mark /\ Mark \in Nat
  BY <1>1 DEF TypeOK
<1>3. Mark > 0 => request.bytes[Mark] # "CR"
  BY <1>1, NoReturnBefore
<1>4. request.bytes[Mark + 1] = "CR" /\ Mark + 1 < received /\ request.bytes[Mark + 2] = "LF"
  BY <1>1, <1>2, <1>3 DEF LineOK
<1> QED
  BY <1>1, <1>2, <1>4 DEF LineEnds

LEMMA NoLineIs ==
  ASSUME TypeOK, Seen, Aligned, ~LineOK
  PROVE  \A i \in LineEnds(Got) : i >= startLine => \E j \in Broken(Got) : j < i
<1>1. /\ Mark \in checkedIdx..received /\ received \in Nat /\ Len(readBuf) = received
      /\ \A i \in startLine..(Mark - 1) : request.bytes[i + 1] \notin {"CR", "LF"}
      /\ Marks = {} => Mark = received
      /\ Marks # {} => Mark < received /\ request.bytes[Mark + 1] \in {"CR", "LF"}
  BY MarkIs, RequestsAre
<1>2. /\ Len(Got) = received /\ readBuf = Got /\ Got \in Seq(STRING)
      /\ \A i \in 1..received : Got[i] = request.bytes[i]
  BY RequestsAre DEF Seen
<1>3. startLine \in 0..Mark /\ Mark \in Nat
  BY <1>1 DEF TypeOK
<1>4. SUFFICES ASSUME NEW i \in LineEnds(Got), i >= startLine
               PROVE  \E j \in Broken(Got) : j < i
  OBVIOUS
<1>5. i \in Nat /\ i + 2 <= received /\ Got[i + 1] = "CR" /\ Got[i + 2] = "LF"
  BY <1>2, TextsAreIndexed
<1>6. i >= Mark
  BY <1>1, <1>2, <1>3, <1>4, <1>5
<1>7. Marks # {} /\ Mark < received /\ request.bytes[Mark + 1] \in {"CR", "LF"}
  BY <1>1, <1>5, <1>6
<1>8. CASE request.bytes[Mark + 1] = "CR"
  <2>1. Mark + 1 < received
    BY <1>1, <1>3, <1>5, <1>6
  <2>2. Got[Mark + 1] = "CR" /\ Got[Mark + 2] # "LF"
    BY <1>1, <1>2, <1>3, <1>7, <1>8, <2>1 DEF LineOK
  <2>3. Mark \in Broken(Got)
    BY <1>1, <1>2, <1>3, <2>1, <2>2 DEF Broken
  <2>4. i # Mark
    BY <1>5, <2>2
  <2> QED
    BY <1>3, <1>5, <1>6, <2>3, <2>4
<1>9. CASE request.bytes[Mark + 1] = "LF"
  <2>1. Got[Mark + 1] = "LF"
    BY <1>2, <1>3, <1>7, <1>9
  <2>2. Mark > 0 => Got[Mark] # "CR"
    BY <1>2, <1>3, <1>7, NoReturnBefore
  <2>3. Mark - 1 \notin LineEnds(Got)
    BY <1>2, <1>3, <2>2, TextsAreIndexed
  <2>4. Mark \in Broken(Got)
    BY <1>2, <1>3, <1>7, <2>1, <2>3 DEF Broken
  <2> QED
    BY <1>3, <1>5, <1>6, <2>1, <2>4
<1> QED
  BY <1>7, <1>8, <1>9

(* What a line that is passed leaves in front of the next.                    *)
LEMMA LinePasses ==
  ASSUME NEW t \in Seq(STRING), NEW s \in Nat, NEW m \in LineEnds(t), s <= m,
         \A i \in s..(m - 1) : t[i + 1] \notin {"CR", "LF"},
         \A i \in Broken(t) : i >= s
  PROVE  /\ \A i \in Broken(t) : i >= m + 2
         /\ \A i \in LineEnds(t) : i >= s => i = m \/ i >= m + 2
<1>1. m \in Nat /\ t[m + 1] = "CR" /\ t[m + 2] = "LF" /\ m + 2 <= Len(t)
  BY TextsAreIndexed
<1>2. ASSUME NEW i \in Broken(t) PROVE i >= m + 2
  <2>1. i \in Nat /\ i >= s /\ t[i + 1] \in {"CR", "LF"}
    BY TextsAreIndexed
  <2>2. i >= m
    BY <1>1, <2>1
  <2>3. i # m
    BY <1>1 DEF Broken
  <2>4. i # m + 1
    BY <1>1 DEF Broken
  <2> QED
    BY <1>1, <2>1, <2>2, <2>3, <2>4
<1>3. ASSUME NEW i \in LineEnds(t), i >= s PROVE i = m \/ i >= m + 2
  <2>1. i \in Nat /\ t[i + 1] = "CR"
    BY TextsAreIndexed
  <2>2. i >= m
    BY <1>1, <1>3, <2>1
  <2>3. i # m + 1
    BY <1>1, <2>1
  <2> QED
    BY <1>1, <2>1, <2>2, <2>3
<1> QED
  BY <1>2, <1>3

LEMMA HeaderPasses ==
  ASSUME NEW t \in Seq(STRING), NEW s \in Nat, NEW m \in LineEnds(t), s < m,
         \A i \in s..(m - 1) : t[i + 1] \notin {"CR", "LF"},
         \A i \in Broken(t) : i >= s,
         \A i \in EmptyLines(t) : i >= s
  PROVE  \A i \in EmptyLines(t) : i >= m + 2
<1>1. m \in Nat /\ m - 1 \in s..(m - 1)
  BY TextsAreIndexed
<1>2. t[m] \notin {"CR", "LF"}
  <2>1. t[(m - 1) + 1] \notin {"CR", "LF"}
    BY <1>1
  <2> QED
    BY <1>1, <2>1
<1>3. m \notin EmptyLines(t)
  <2>1. m \in EmptyLines(t) => t[m] = "LF"
    BY <1>1, TextsAreIndexed
  <2> QED
    BY <1>2, <2>1
<1> QED
  BY <1>3, LinePasses, TextsAreIndexed
-----------------------------------------------------------------------------
(* A complete head: where it ends, and what is in it.                         *)
LEMMA HeadIs ==
  ASSUME NEW t \in Seq(STRING), NEW e \in EmptyLines(t),
         \A i \in EmptyLines(t) : e <= i, \A i \in Broken(t) : e <= i
  PROVE  /\ HeadIsComplete(t) /\ Min(EmptyLines(t)) = e
         /\ \A h : HasHeader(t, h) <=> \E i \in 3..e : t[i] = h
<1>1. EmptyLines(t) \in SUBSET Nat /\ e \in Nat /\ e + 2 <= Len(t)
  BY TextsAreIndexed
<1>2. First(t, EmptyLines(t)) /\ Min(EmptyLines(t)) = e
  BY <1>1, FirstIs
<1>3. Len(HeadOf(t)) = e
  BY <1>1, <1>2, PrefixIs DEF HeadOf
<1> QED
  BY <1>2, <1>3 DEF HeadIsComplete, HasHeader

LEMMA CompleteHeadIs ==
  ASSUME NEW t \in Seq(STRING), HeadIsComplete(t)
  PROVE  /\ Min(EmptyLines(t)) \in EmptyLines(t)
         /\ \A i \in EmptyLines(t) : Min(EmptyLines(t)) <= i
         /\ \A i \in Broken(t) : Min(EmptyLines(t)) <= i
         /\ \A h : HasHeader(t, h) <=> \E i \in 3..Min(EmptyLines(t)) : t[i] = h
<1>1. EmptyLines(t) \in SUBSET Nat /\ EmptyLines(t) # {} /\ Broken(t) \in SUBSET Nat
  BY TextsAreIndexed DEF HeadIsComplete, First
<1>2. /\ Min(EmptyLines(t)) \in EmptyLines(t)
      /\ \A i \in EmptyLines(t) : Min(EmptyLines(t)) <= i
  BY <1>1, MinIsLeast
<1>3. Min(EmptyLines(t)) \in Nat
  BY <1>1, <1>2
<1>4. ASSUME NEW i \in Broken(t) PROVE Min(EmptyLines(t)) <= i
  <2>1. ~(i < Min(EmptyLines(t)))
    BY DEF HeadIsComplete, First
  <2> QED
    BY <1>1, <1>3, <2>1
<1> QED
  BY <1>2, <1>4, HeadIs

(* The same of what has been received, in terms of the whole request.         *)
LEMMA GotIs ==
  ASSUME TypeOK
  PROVE  /\ LineEnds(Got) = {i \in LineEnds(request.bytes) : i + 2 <= received}
         /\ EmptyLines(Got) = {i \in EmptyLines(request.bytes) : i + 2 <= received}
         /\ Broken(Got) \subseteq Broken(request.bytes)
  BY RequestsAre, PrefixLineEnds, PrefixEmptyLines, PrefixBroken DEF Got

(* Stuck in the request line, stuck in a header, a bad request line: the       *)
(* verdict is that of the bytes received.                                     *)
Stuck == \A i \in LineEnds(Got) : i >= startLine => \E j \in Broken(Got) : j < i

LEMMA StuckAtStart ==
  ASSUME TypeOK, startLine = 0, Stuck
  PROVE  Meaning(Got) = "NO_REQUEST"
<1>1. Got \in Seq(STRING) /\ LineEnds(Got) \in SUBSET Nat
  BY RequestsAre, TextsAreIndexed
<1>2. LineEnds(Got) # {} => Min(LineEnds(Got)) \in LineEnds(Got)
  BY <1>1, MinIsLeast
<1>3. ~First(Got, LineEnds(Got))
  BY <1>1, <1>2 DEF First, Stuck
<1> QED
  BY <1>3 DEF Meaning

(* The request line of a good start is the first line.                       *)
LEMMA GoodStartIs ==
  ASSUME TypeOK, GoodStart, received >= 3, \A i \in Broken(request.bytes) : i >= 1
  PROVE  /\ First(Got, LineEnds(Got)) /\ Got[1] = method
         /\ SubSeq(Got, 1, Min(LineEnds(Got))) \in {<<"GET">>, <<"POST">>}
<1>1. /\ request.bytes \in Seq(STRING) /\ Got \in Seq(STRING) /\ Len(Got) = received
      /\ received \in Nat /\ \A i \in 1..received : Got[i] = request.bytes[i]
  BY RequestsAre
<1>2. 1 \in LineEnds(Got) /\ LineEnds(Got) \in SUBSET Nat
  BY <1>1, GotIs, TextsAreIndexed DEF GoodStart
<1>3. Got[1] = method /\ method \in {"GET", "POST"}
  BY <1>1 DEF GoodStart
<1>4. ASSUME NEW i \in LineEnds(Got) PROVE i >= 1
  <2>1. i \in Nat /\ Got[i + 1] = "CR"
    BY <1>1, TextsAreIndexed
  <2> QED
    BY <1>3, <2>1
<1>5. \A i \in Broken(Got) : i >= 1
  BY GotIs
<1>6. First(Got, LineEnds(Got)) /\ Min(LineEnds(Got)) = 1
  BY <1>1, <1>2, <1>4, <1>5, FirstIs
<1>7. SubSeq(Got, 1, 1) = <<Got[1]>>
  <2>1. SubSeq(Got, 1, 1) \in Seq(STRING) /\ Len(SubSeq(Got, 1, 1)) = 1
        /\ SubSeq(Got, 1, 1)[1] = Got[1]
    BY <1>1, PrefixIs
  <2> QED
    BY <2>1, OneToken
<1> QED
  BY <1>3, <1>6, <1>7

LEMMA StuckInHead ==
  ASSUME TypeOK, GoodStart, HeadSeen, startLine <= received, Stuck,
         \A i \in Broken(request.bytes) : i >= startLine
  PROVE  Meaning(Got) = "NO_REQUEST"
<1>1. /\ Got \in Seq(STRING) /\ request.bytes \in Seq(STRING) /\ received \in Nat
      /\ EmptyLines(Got) \in SUBSET Nat /\ EmptyLines(Got) \subseteq LineEnds(Got)
  BY RequestsAre, TextsAreIndexed
<1>2. startLine >= 3 /\ startLine \in Nat
  <2>1. startLine - 2 \in Nat /\ request.bytes[(startLine - 2) + 1] = "CR"
    BY <1>1, TextsAreIndexed DEF HeadSeen
  <2>2. startLine - 2 # 0
    BY <2>1 DEF GoodStart
  <2> QED
    BY <2>1, <2>2 DEF TypeOK
<1>3. /\ First(Got, LineEnds(Got))
      /\ SubSeq(Got, 1, Min(LineEnds(Got))) \in {<<"GET">>, <<"POST">>}
  <2>1. \A i \in Broken(request.bytes) : i >= 1
    BY <1>1, <1>2, TextsAreIndexed
  <2>2. received >= 3
    BY <1>1, <1>2
  <2> QED
    BY <2>1, <2>2, GoodStartIs
<1>4. ASSUME HeadIsComplete(Got) PROVE FALSE
  <2>1. /\ Min(EmptyLines(Got)) \in EmptyLines(Got)
        /\ \A i \in Broken(Got) : Min(EmptyLines(Got)) <= i
    BY <1>1, <1>4, CompleteHeadIs
  <2>2. Min(EmptyLines(Got)) \in LineEnds(Got) /\ Min(EmptyLines(Got)) >= startLine
    BY <1>1, <2>1, GotIs DEF HeadSeen
  <2>3. PICK j \in Broken(Got) : j < Min(EmptyLines(Got))
    BY <2>2 DEF Stuck
  <2> QED
    BY <1>1, <2>1, <2>3, TextsAreIndexed
<1> QED
  BY <1>3, <1>4 DEF Meaning

(* A request whose head has been received as a whole.                        *)
LEMMA WholeHead ==
  ASSUME TypeOK, GoodStart, HeadIsComplete(request.bytes), BodyStart <= received
  PROVE  /\ BodyStart \in Nat /\ BodyStart >= 3
         /\ Meaning(Got) = IF Len(Body(Got)) >= Length(Got) THEN "GET_REQUEST"
                           ELSE "NO_REQUEST"
         /\ Got[1] = method
         /\ \A h : HasHeader(Got, h) <=> HasHeader(request.bytes, h)
         /\ Body(Got) = SubSeq(Got, BodyStart + 1, Smallest(received, BodyStart + Length(Got)))
         /\ Overlong(Got) <=> Length(Got) # 0 /\ received > BodyStart + Length(Got)
<1> DEFINE e == Min(EmptyLines(request.bytes))
<1>1. /\ request.bytes \in Seq(STRING) /\ Got \in Seq(STRING) /\ Len(Got) = received
      /\ received \in Nat /\ \A i \in 1..received : Got[i] = request.bytes[i]
  BY RequestsAre
<1>2. /\ e \in EmptyLines(request.bytes) /\ \A i \in EmptyLines(request.bytes) : e <= i
      /\ \A i \in Broken(request.bytes) : e <= i
      /\ \A h : HasHeader(request.bytes, h) <=> \E i \in 3..e : request.bytes[i] = h
  BY <1>1, CompleteHeadIs
<1>3. e \in Nat /\ BodyStart = e + 2 /\ e >= 2
  BY <1>1, <1>2, TextsAreIndexed DEF BodyStart
<1> HIDE DEF e
<1>4. e \in EmptyLines(Got)
  BY <1>2, <1>3, GotIs
<1>5. \A i \in EmptyLines(Got) : e <= i
  BY <1>2, GotIs
<1>6. \A i \in Broken(Got) : e <= i
  BY <1>2, GotIs
<1>7. /\ HeadIsComplete(Got) /\ Min(EmptyLines(Got)) = e
      /\ \A h : HasHeader(Got, h) <=> \E i \in 3..e : Got[i] = h
  BY <1>1, <1>4, <1>5, <1>6, HeadIs
<1>8. \A i \in Broken(request.bytes) : i >= 1
  BY <1>1, <1>2, <1>3, TextsAreIndexed
<1>9. /\ First(Got, LineEnds(Got)) /\ Got[1] = method
      /\ SubSeq(Got, 1, Min(LineEnds(Got))) \in {<<"GET">>, <<"POST">>}
  BY <1>1, <1>3, <1>8, GoodStartIs
<1>10. \A h : HasHeader(Got, h) <=> HasHeader(request.bytes, h)
  BY <1>1, <1>2, <1>3, <1>7
<1>11. Body(Got) = SubSeq(Got, BodyStart + 1, Smallest(received, BodyStart + Length(Got)))
  BY <1>1, <1>3, <1>7 DEF Body
<1>12. Meaning(Got) = IF Len(Body(Got)) >= Length(Got) THEN "GET_REQUEST"
                      ELSE "NO_REQUEST"
  BY <1>7, <1>9 DEF Meaning
<1>13. Overlong(Got) <=> Length(Got) # 0 /\ received > BodyStart + Length(Got)
  BY <1>1, <1>3, <1>7 DEF Overlong
<1> QED
  BY <1>3, <1>9, <1>10, <1>11, <1>12, <1>13
-----------------------------------------------------------------------------
(* Two pieces of a text that lie behind each other are one.                  *)
LEMMA PieceIs ==
  ASSUME NEW t \in Seq(STRING), NEW a \in Nat, NEW n \in Nat, a <= n, n <= Len(t)
  PROVE  /\ SubSeq(t, a + 1, n) \in Seq(STRING)
         /\ Len(SubSeq(t, a + 1, n)) = n - a
         /\ \A i \in 1..(n - a) : SubSeq(t, a + 1, n)[i] = t[a + i]
<1>1. \A i \in (a + 1)..n : t[i] \in STRING
  BY ElementOfSeq
<1>2. /\ SubSeq(t, a + 1, n) \in Seq(STRING)
      /\ Len(SubSeq(t, a + 1, n)) = IF a + 1 <= n THEN n - (a + 1) + 1 ELSE 0
      /\ \A i \in 1..(n - (a + 1) + 1) : SubSeq(t, a + 1, n)[i] = t[(a + 1) + i - 1]
  BY <1>1, SubSeqProperties
<1>3. ASSUME NEW i \in 1..(n - a) PROVE SubSeq(t, a + 1, n)[i] = t[a + i]
  <2>1. (a + 1) + i - 1 = a + i /\ i \in 1..(n - (a + 1) + 1)
    OBVIOUS
  <2> QED
    BY <1>2, <2>1
<1> QED
  BY <1>2, <1>3

LEMMA PiecesJoin ==
  ASSUME NEW t \in Seq(STRING), NEW a \in Nat, NEW n \in Nat, NEW m \in Nat,
         a <= n, n <= m, m <= Len(t)
  PROVE  SubSeq(t, a + 1, n) \o SubSeq(t, n + 1, m) = SubSeq(t, a + 1, m)
<1> DEFINE u == SubSeq(t, a + 1, n)
           v == SubSeq(t, n + 1, m)
           w == SubSeq(t, a + 1, m)
<1>1. /\ u \in Seq(STRING) /\ Len(u) = n - a
      /\ \A i \in 1..(n - a) : u[i] = t[a + i]
  BY PieceIs
<1>2. /\ v \in Seq(STRING) /\ Len(v) = m - n
      /\ \A i \in 1..(m - n) : v[i] = t[n + i]
  BY PieceIs
<1>3. /\ w \in Seq(STRING) /\ Len(w) = m - a
      /\ \A i \in 1..(m - a) : w[i] = t[a + i]
  BY PieceIs
<1> HIDE DEF u, v, w
<1>4. /\ u \o v \in Seq(STRING) /\ Len(u \o v) = m - a
      /\ \A i \in 1..(m - a) : (u \o v)[i] = IF i <= n - a THEN u[i] ELSE v[i - (n - a)]
  <2>1. /\ u \o v \in Seq(STRING) /\ Len(u \o v) = Len(u) + Len(v)
        /\ \A i \in 1..(Len(u) + Len(v)) :
              (u \o v)[i] = IF i <= Len(u) THEN u[i] ELSE v[i - Len(u)]
    BY <1>1, <1>2, ConcatProperties
  <2>2. Len(u) + Len(v) = m - a
    BY <1>1, <1>2
  <2> QED
    BY <1>1, <2>1, <2>2
<1>5. ASSUME NEW i \in 1..(m - a) PROVE (u \o v)[i] = w[i]
  <2>1. CASE i <= n - a
    BY <1>1, <1>3, <1>4, <2>1
  <2>2. CASE ~(i <= n - a)
    <3>1. i - (n - a) \in 1..(m - n) /\ n + (i - (n - a)) = a + i
      BY <2>2
    <3> QED
      BY <1>2, <1>3, <1>4, <2>2, <3>1
  <2> QED
    BY <2>1, <2>2
<1>6. u \o v = w
  BY <1>3, <1>4, <1>5, SeqEqual
<1> QED
  BY <1>6 DEF u, v, w
-----------------------------------------------------------------------------
(* What init() leaves, whoever had the object before.                         *)
Fresh ==
    /\ request \in Requests /\ received = 0
    /\ readBuf = <<>> /\ checkedIdx = 0 /\ startLine = 0
    /\ checkState = "REQUESTLINE"
    /\ method = "GET" /\ linger = FALSE /\ contentLength = 0
    /\ content = <<>>
    /\ stage = "armed" /\ verdict = "NO_REQUEST"

LEMMA FreshHolds == Fresh => Inv
<1> SUFFICES ASSUME Fresh PROVE Inv
  OBVIOUS
<1>1. request.bytes \in Seq(STRING) /\ request.length \in Nat /\ request \in Requests
  BY ParserAssumption DEF Fresh
<1>2. TypeOK
  <2>1. READ_BUFFER_SIZE \in Nat
    BY ParserAssumption
  <2>2. Len(<<>>) = 0 /\ <<>> \in Seq(STRING)
    OBVIOUS
  <2>3. 0 \in 0..Len(request.bytes)
    BY <1>1
  <2>4. readBuf \in Seq(STRING) /\ Len(readBuf) = 0 /\ content \in Seq(STRING)
        /\ Len(content) = 0 /\ linger \in BOOLEAN
    BY <2>2 DEF Fresh
  <2>5. /\ checkedIdx \in 0..Len(readBuf) /\ startLine \in 0..checkedIdx
        /\ Len(readBuf) <= READ_BUFFER_SIZE /\ Len(content) <= contentLength
    BY <2>1, <2>4 DEF Fresh
  <2> QED
    BY <1>1, <2>3, <2>4, <2>5 DEF Fresh, TypeOK
<1>3. Got = <<>> /\ Got \in Seq(STRING) /\ Len(Got) = 0
  BY <1>1, PrefixIs DEF Fresh, Got
<1>4. LineEnds(Got) = {}
  BY <1>3 DEF LineEnds
<1>5. LineInv
  BY <1>1, <1>3, TextsAreIndexed DEF Fresh, LineInv, InContent, Seen
<1>6. Undecided /\ StuckInv /\ BodyInv
  BY <1>4 DEF Fresh, Undecided, StuckInv, BodyInv, InContent
<1>7. VerdictOfBytes
  <2>1. Meaning(Got) = "NO_REQUEST"
    BY <1>4 DEF Meaning, First
  <2> QED
    BY <2>1 DEF Fresh, VerdictOfBytes, Got
<1> QED
  BY <1>2, <1>5, <1>6, <1>7 DEF Inv

LEMMA InitHolds == Init => Inv
  BY FreshHolds DEF Init, Fresh

LEMMA ResetKeeps == Reset => Inv'
<1>1. Reset => Fresh'
  BY DEF Reset, Fresh
<1>2. Fresh => Inv
  BY FreshHolds
<1> QED
  BY <1>1, <1>2, PTL
-----------------------------------------------------------------------------
(* One lemma for each action.  While the bytes received are the same, so is     *)
(* their meaning.                                                             *)
LEMMA SameMeaning ==
  ASSUME request' = request, received' = received
  PROVE  /\ Got' = Got /\ Meaning(Got)' = Meaning(Got) /\ Body(Got)' = Body(Got)
         /\ Overlong(Got)' = Overlong(Got)
  BY DEF Got, Meaning, Body, Length, Overlong

LEMMA ReadFailsKeeps ==
  ASSUME Inv, NEW k \in 1..(Len(request.bytes) - received), ReadFails(k)
  PROVE  Inv'
<1> USE DEF ReadFails, clientVars, indexVars, headVars
<1>1. TypeOK'
  BY DEF Inv, TypeOK
<1>2. Undecided' /\ LineInv' /\ StuckInv' /\ BodyInv' /\ VerdictOfBytes'
  BY DEF Undecided, LineInv, StuckInv, BodyInv, VerdictOfBytes, Scanning
<1> QED
  BY <1>1, <1>2 DEF Inv

LEMMA DoRequestKeeps == ASSUME Inv, DoRequest PROVE Inv'
<1>1. /\ stage = "judged" /\ stage' = "replying"
      /\ UNCHANGED <<clientVars, readBuf, indexVars, checkState, headVars, content,
                     verdict>>
  BY DEF DoRequest
<1> USE DEF clientVars, indexVars, headVars
<1>2. TypeOK'
  BY <1>1 DEF Inv, TypeOK
<1>3. Undecided' /\ LineInv' /\ StuckInv' /\ BodyInv'
  BY <1>1 DEF Undecided, LineInv, StuckInv, BodyInv, Scanning
<1>4. VerdictOfBytes'
  <2>1. /\ Got' = Got /\ Meaning(Got)' = Meaning(Got) /\ Body(Got)' = Body(Got)
        /\ Overlong(Got)' = Overlong(Got)
    BY <1>1, SameMeaning
  <2> QED
    BY <1>1, <2>1 DEF Inv, VerdictOfBytes, Got
<1> QED
  BY <1>2, <1>3, <1>4 DEF Inv

LEMMA ReadKeeps ==
  ASSUME Inv, NEW k \in 1..(Len(request.bytes) - received), Read(k)
  PROVE  Inv'
<1> DEFINE new == SubSeq(request.bytes, received + 1, received + k)
<1>1. /\ stage = "armed" /\ CanRead(k) /\ received' = received + k
      /\ InContent => content' = content \o new /\ readBuf' = readBuf
      /\ ~InContent => readBuf' = readBuf \o new /\ content' = content
      /\ stage' = "parsing"
      /\ UNCHANGED <<request, indexVars, checkState, headVars, verdict>>
  BY DEF Read
<1>2. /\ TypeOK /\ request.bytes \in Seq(STRING) /\ received \in Nat /\ k \in Nat
      /\ received + k \in Nat /\ received + k <= Len(request.bytes) /\ k >= 1
      /\ request.length \in Nat /\ READ_BUFFER_SIZE \in Nat
  BY RequestsAre, ParserAssumption DEF Inv
<1>3. new \in Seq(STRING) /\ Len(new) = k
  BY <1>2, PieceIs
<1>4. Got' = SubSeq(request.bytes, 1, received + k)
  BY <1>1 DEF Got
<1> HIDE DEF new
<1> USE DEF indexVars, headVars
<1>5. Undecided' /\ StuckInv' /\ VerdictOfBytes'
  BY <1>1 DEF Inv, Undecided, Scanning, StuckInv, VerdictOfBytes
<1>6. CASE ~InContent
  <2>1. readBuf = Got /\ content = <<>> /\ Len(readBuf) = received
    BY <1>1, <1>2, <1>6, RequestsAre DEF Inv, LineInv, Scanning, Seen
  <2>2. readBuf' = Got'
    <3>1. SubSeq(request.bytes, 0 + 1, received)
             \o SubSeq(request.bytes, received + 1, received + k)
             = SubSeq(request.bytes, 0 + 1, received + k)
      BY <1>2, PiecesJoin
    <3>2. 0 + 1 = 1
      OBVIOUS
    <3>3. SubSeq(request.bytes, 1, received) \o new = SubSeq(request.bytes, 1, received + k)
      BY <3>1, <3>2 DEF new
    <3>4. readBuf' = Got \o new
      BY <1>1, <1>6, <2>1
    <3> QED
      BY <1>4, <3>3, <3>4 DEF Got
  <2>3. readBuf' \in Seq(STRING) /\ Len(readBuf') = received + k
    BY <1>2, <1>4, <2>2, PrefixIs
  <2>4. received + k <= READ_BUFFER_SIZE
    BY <1>1, <1>2, <1>6, <2>1 DEF CanRead, Room
  <2>5. TypeOK'
    BY <1>1, <1>2, <1>6, <2>1, <2>3, <2>4 DEF TypeOK
  <2>6. LineInv' /\ BodyInv'
    BY <1>1, <1>6, <2>2
    DEF Inv, LineInv, BodyInv, Scanning, InContent, Seen, GoodStart, HeadSeen, Noted
  <2> QED
    BY <1>5, <2>5, <2>6 DEF Inv
<1>7. CASE InContent
  <2>1. /\ HeadKnown /\ Len(readBuf) >= BodyStart /\ Len(readBuf) <= received
        /\ readBuf = SubSeq(request.bytes, 1, Len(readBuf))
        /\ content = SubSeq(request.bytes, BodyStart + 1, received)
        /\ checkedIdx = Len(readBuf)
    BY <1>1, <1>7 DEF Inv, BodyInv, Scanning
  <2>2. BodyStart \in Nat /\ BodyStart <= received
    <3>1. Len(readBuf) \in Nat
      BY <1>2 DEF TypeOK
    <3>2. Min(EmptyLines(request.bytes)) \in Nat
      BY <1>2, <2>1, CompleteHeadIs, TextsAreIndexed DEF HeadKnown
    <3> QED
      BY <1>2, <2>1, <3>1, <3>2 DEF BodyStart
  <2>3. content' = SubSeq(request.bytes, BodyStart + 1, received + k)
    <3>1. received <= received + k
      BY <1>2
    <3>2. SubSeq(request.bytes, BodyStart + 1, received)
             \o SubSeq(request.bytes, received + 1, received + k)
             = SubSeq(request.bytes, BodyStart + 1, received + k)
      BY <1>2, <2>2, <3>1, PiecesJoin
    <3> QED
      BY <1>1, <1>7, <2>1, <3>2 DEF new
  <2>4. content' \in Seq(STRING) /\ Len(content') = received + k - BodyStart
        /\ Len(content) = received - BodyStart
    BY <1>2, <2>1, <2>2, <2>3, PieceIs
  <2>5. Len(content') <= contentLength
    BY <1>1, <1>2, <1>7, <2>2, <2>4 DEF CanRead, Room, TypeOK
  <2>6. TypeOK'
    BY <1>1, <1>2, <1>7, <2>4, <2>5 DEF TypeOK
  <2>7. BodyStart' = BodyStart /\ HeadKnown'
    BY <1>1, <2>1 DEF BodyStart, HeadKnown, GoodStart
  <2>8. LineInv' /\ BodyInv'
    BY <1>1, <1>2, <1>7, <2>1, <2>3, <2>7 DEF LineInv, BodyInv, InContent, TypeOK
  <2> QED
    BY <1>5, <2>6, <2>8 DEF Inv
<1> QED
  BY <1>6, <1>7

LEMMA AlignedIs ==
  ASSUME Inv, stage = "parsing", ~InContent
  PROVE  Seen /\ Aligned /\ TypeOK /\ checkState \in {"REQUESTLINE", "HEADER"}
  BY DEF Inv, LineInv, Scanning, TypeOK, InContent, Aligned, HeadSeen

LEMMA NoLineKeeps == ASSUME Inv, NoLine PROVE Inv'
<1>1. /\ stage = "parsing" /\ ~InContent /\ ~LineOK
      /\ checkedIdx' = Mark /\ stage' = "armed" /\ startLine' = startLine
      /\ UNCHANGED <<request, received, readBuf, checkState, method, linger,
                     contentLength, verdict, content>>
  BY DEF NoLine, Parsing, clientVars, headVars
<1>2. Seen /\ Aligned /\ TypeOK /\ checkState \in {"REQUESTLINE", "HEADER"}
  BY <1>1, AlignedIs
<1>3. /\ Mark \in checkedIdx..received /\ Len(readBuf) = received
      /\ \A i \in startLine..(Mark - 1) : request.bytes[i + 1] \notin {"CR", "LF"}
      /\ received \in Nat /\ received' = received /\ Got' = Got
  BY <1>1, <1>2, MarkIs, RequestsAre, SameMeaning
<1>4. TypeOK'
  BY <1>1, <1>2, <1>3 DEF TypeOK
<1>5. Seen'
  BY <1>1, <1>2, <1>3 DEF Seen
<1>6. GoodStart' = GoodStart /\ HeadSeen' = HeadSeen
  BY <1>1 DEF GoodStart, HeadSeen, Noted
<1>7. LineInv' /\ BodyInv'
  BY <1>1, <1>5, <1>6 DEF Inv, LineInv, BodyInv, InContent, Scanning
<1>8. Stuck
  BY <1>1, <1>2, NoLineIs DEF Stuck
<1>9. StuckInv'
  BY <1>1, <1>3, <1>8 DEF StuckInv, Stuck
<1>10. Meaning(Got) = "NO_REQUEST"
  <2>1. CASE checkState = "REQUESTLINE"
    <3>1. startLine = 0
      BY <1>1, <2>1 DEF Inv, LineInv, Scanning
    <3> QED
      BY <1>2, <1>8, <3>1, StuckAtStart
  <2>2. CASE checkState = "HEADER"
    <3>1. GoodStart /\ HeadSeen
      BY <1>1, <2>2 DEF Inv, LineInv, Scanning
    <3>2. startLine <= received
      BY <1>2, <1>3 DEF TypeOK
    <3> QED
      BY <1>2, <1>8, <3>1, <3>2, StuckInHead DEF Seen
  <2> QED
    BY <1>2, <2>1, <2>2
<1>11. Undecided' /\ VerdictOfBytes'
  <2>1. Meaning(Got)' = "NO_REQUEST"
    BY <1>1, <1>10, SameMeaning
  <2>2. verdict = "NO_REQUEST"
    BY <1>1 DEF Inv, Undecided, Scanning
  <2> QED
    BY <1>1, <2>1, <2>2 DEF Undecided, VerdictOfBytes, Got
<1> QED
  BY <1>4, <1>7, <1>9, <1>11 DEF Inv

(* What is common to both answers of parse_request_line().                   *)
LEMMA RequestLineIs ==
  ASSUME Inv, stage = "parsing", ~InContent, LineOK, checkState = "REQUESTLINE"
  PROVE  /\ Seen /\ Aligned /\ TypeOK
         /\ startLine = 0 /\ contentLength = 0 /\ linger = FALSE
         /\ Mark \in LineEnds(request.bytes) /\ Mark + 2 <= received /\ Mark \in Nat
         /\ \A i \in startLine..(Mark - 1) : request.bytes[i + 1] \notin {"CR", "LF"}
         /\ \A i \in Broken(request.bytes) : i >= Mark + 2
         /\ \A i \in LineEnds(request.bytes) : i = Mark \/ i >= Mark + 2
         /\ Line = SubSeq(Got, 1, Mark) /\ (Mark >= 1 => Line[1] = request.bytes[1])
         /\ Line \in {<<"GET">>, <<"POST">>} => Mark = 1 /\ Line[1] \in {"GET", "POST"}
<1>1. stage = "parsing" /\ ~InContent /\ LineOK /\ checkState = "REQUESTLINE"
  OBVIOUS
<1>2. /\ Seen /\ Aligned /\ TypeOK
      /\ startLine = 0 /\ contentLength = 0 /\ linger = FALSE
  BY <1>1, AlignedIs DEF Inv, LineInv, Scanning
<1>3. /\ request.bytes \in Seq(STRING) /\ received \in Nat /\ received <= Len(request.bytes)
      /\ Got \in Seq(STRING) /\ Len(Got) = received /\ readBuf = Got
      /\ \A i \in 1..received : Got[i] = request.bytes[i]
  BY <1>2, RequestsAre DEF Seen
<1>4. /\ Mark \in LineEnds(request.bytes) /\ Mark + 2 <= received /\ Mark \in Nat
      /\ \A i \in startLine..(Mark - 1) : request.bytes[i + 1] \notin {"CR", "LF"}
  BY <1>1, <1>2, <1>3, LineIs, MarkIs, TextsAreIndexed
<1>5. /\ \A i \in Broken(request.bytes) : i >= Mark + 2
      /\ \A i \in LineEnds(request.bytes) : i = Mark \/ i >= Mark + 2
  <2>1. \A i \in Broken(request.bytes) : i >= startLine
    BY <1>2 DEF Seen
  <2>2. \A i \in LineEnds(request.bytes) : i >= startLine
    BY <1>2, <1>3, TextsAreIndexed
  <2> QED
    BY <1>2, <1>3, <1>4, <2>1, <2>2, LinePasses
<1>6. Line = SubSeq(Got, 1, Mark) /\ Len(Line) = Mark /\ (Mark >= 1 => Line[1] = request.bytes[1])
  <2>1. startLine + 1 = 1
    BY <1>2
  <2>2. Line = SubSeq(Got, 1, Mark)
    BY <1>3, <2>1 DEF Line
  <2> QED
    BY <1>3, <1>4, <2>2, PrefixIs
<1>7. Line \in {<<"GET">>, <<"POST">>} => Mark = 1 /\ Line[1] \in {"GET", "POST"}
  <2>1. /\ Len(<<"GET">>) = 1 /\ <<"GET">>[1] = "GET"
        /\ Len(<<"POST">>) = 1 /\ <<"POST">>[1] = "POST"
    OBVIOUS
  <2> QED
    BY <1>6, <2>1
<1> QED
  BY <1>2, <1>4, <1>5, <1>6, <1>7

LEMMA RequestLineKeeps == ASSUME Inv, RequestLine PROVE Inv'
<1>1. /\ stage = "parsing" /\ ~InContent /\ LineOK /\ checkState = "REQUESTLINE"
      /\ checkedIdx' = Mark + 2 /\ startLine' = Mark + 2
      /\ UNCHANGED <<request, received, readBuf, content, linger, contentLength>>
  BY DEF RequestLine, Parsing, NextLineBegins, StillParsing, clientVars
<1>2. /\ Seen /\ Aligned /\ TypeOK
      /\ startLine = 0 /\ contentLength = 0 /\ linger = FALSE
  BY <1>1, RequestLineIs
<1>3. /\ request.bytes \in Seq(STRING) /\ received \in Nat /\ received <= Len(request.bytes)
      /\ Got \in Seq(STRING) /\ Len(Got) = received /\ readBuf = Got
      /\ \A i \in 1..received : Got[i] = request.bytes[i]
  BY <1>2, RequestsAre DEF Seen
<1>4. /\ Mark \in LineEnds(request.bytes) /\ Mark + 2 <= received /\ Mark \in Nat
      /\ \A i \in startLine..(Mark - 1) : request.bytes[i + 1] \notin {"CR", "LF"}
  BY <1>1, RequestLineIs
<1>5. /\ \A i \in Broken(request.bytes) : i >= Mark + 2
      /\ \A i \in LineEnds(request.bytes) : i = Mark \/ i >= Mark + 2
  BY <1>1, RequestLineIs
<1>6. Line = SubSeq(Got, 1, Mark) /\ (Mark >= 1 => Line[1] = request.bytes[1])
  BY <1>1, RequestLineIs
<1>7. Got' = Got /\ readBuf' = Got' /\ content' = <<>>
  BY <1>1, <1>2, <1>3, SameMeaning DEF Seen
<1>8. CASE Line \in {<<"GET">>, <<"POST">>}
  <2>1. checkState' = "HEADER" /\ method' = Line[1] /\ UNCHANGED <<stage, verdict>>
    BY <1>8 DEF RequestLine
  <2>2. Mark = 1 /\ Line[1] \in {"GET", "POST"}
    BY <1>1, <1>8, RequestLineIs
  <2>3. TypeOK'
    BY <1>1, <1>2, <1>3, <1>4, <2>1, <2>2 DEF TypeOK
  <2>4. Seen'
    BY <1>1, <1>5, <1>7 DEF Seen
  <2>5. GoodStart'
    BY <1>1, <1>4, <1>6, <2>1, <2>2 DEF GoodStart
  <2>6. HeadSeen'
    <3>1. startLine' = 3 /\ request.bytes[3] = "LF"
      BY <1>1, <1>3, <1>4, <2>2, TextsAreIndexed
    <3>2. \A i \in EmptyLines(request.bytes) : i >= 3
      BY <1>3, <1>5, <2>2, TextsAreIndexed
    <3>3. ~Noted("LENGTH")' /\ ~Noted("LINGER")'
      BY <1>1, <3>1 DEF Noted
    <3>4. contentLength' = 0 /\ linger' = FALSE
      BY <1>1, <1>2
    <3>5. linger' = Noted("LINGER")'
      BY <3>3, <3>4 DEF Noted
    <3>6. contentLength' = IF Noted("LENGTH")' THEN request.length ELSE 0
      BY <3>3, <3>4
    <3>7. startLine' - 2 \in LineEnds(request.bytes)
      BY <1>4, <2>2, <3>1
    <3> QED
      BY <1>1, <3>1, <3>2, <3>5, <3>6, <3>7 DEF HeadSeen
  <2>7. LineInv'
    BY <2>1, <2>4, <2>5, <2>6 DEF LineInv
  <2>8. Undecided' /\ StuckInv' /\ BodyInv' /\ VerdictOfBytes'
    BY <1>1, <2>1
    DEF Inv, Undecided, Scanning, StuckInv, BodyInv, InContent, VerdictOfBytes
  <2> QED
    BY <2>3, <2>7, <2>8 DEF Inv
<1>9. CASE Line \notin {<<"GET">>, <<"POST">>}
  <2>1. verdict' = "BAD_REQUEST" /\ stage' = "judged" /\ UNCHANGED <<checkState, method>>
    BY <1>9 DEF RequestLine, Answered
  <2>2. TypeOK'
    BY <1>1, <1>2, <1>3, <1>4, <2>1 DEF TypeOK
  <2>3. Meaning(Got) = "BAD_REQUEST"
    <3>1. Mark \in LineEnds(Got) /\ LineEnds(Got) \in SUBSET Nat
      BY <1>2, <1>3, <1>4, GotIs, TextsAreIndexed
    <3>2. \A i \in LineEnds(Got) : Mark <= i
      BY <1>2, <1>3, <1>4, <1>5, GotIs, TextsAreIndexed
    <3>3. \A i \in Broken(Got) : Mark <= i
      BY <1>2, <1>3, <1>4, <1>5, GotIs, TextsAreIndexed
    <3>4. First(Got, LineEnds(Got)) /\ Min(LineEnds(Got)) = Mark
      BY <1>3, <3>1, <3>2, <3>3, FirstIs
    <3> QED
      BY <1>6, <1>9, <3>4 DEF Meaning
  <2>4. Meaning(Got)' = "BAD_REQUEST"
    BY <1>1, <2>3, SameMeaning
  <2>5. VerdictOfBytes'
    BY <2>1, <2>4 DEF VerdictOfBytes, Got
  <2>6. Undecided' /\ LineInv' /\ StuckInv' /\ BodyInv'
    BY <2>1 DEF Undecided, LineInv, StuckInv, BodyInv, Scanning
  <2> QED
    BY <2>2, <2>5, <2>6 DEF Inv
<1> QED
  BY <1>8, <1>9

(* What is common to both branches of parse_headers().                       *)
LEMMA HeaderLineIs ==
  ASSUME Inv, stage = "parsing", ~InContent, LineOK, checkState = "HEADER"
  PROVE  /\ TypeOK /\ Seen /\ GoodStart /\ HeadSeen
         /\ Mark \in LineEnds(request.bytes) /\ Mark + 2 <= received /\ Mark \in Nat
         /\ startLine \in Nat /\ 3 <= startLine /\ startLine <= Mark
         /\ \A i \in startLine..(Mark - 1) : request.bytes[i + 1] \notin {"CR", "LF"}
         /\ \A i \in Broken(request.bytes) : i >= Mark + 2
         /\ Line \in Seq(STRING) /\ Len(Line) = Mark - startLine
         /\ Mark > startLine => Line[1] = request.bytes[startLine + 1]
<1>1. TypeOK /\ Seen /\ Aligned /\ GoodStart /\ HeadSeen
  BY AlignedIs DEF Inv, LineInv, Scanning
<1>2. /\ request.bytes \in Seq(STRING) /\ received \in Nat /\ received <= Len(request.bytes)
      /\ Got \in Seq(STRING) /\ Len(Got) = received /\ readBuf = Got
      /\ \A i \in 1..received : Got[i] = request.bytes[i]
  BY <1>1, RequestsAre DEF Seen
<1>3. /\ Mark \in LineEnds(request.bytes) /\ Mark + 2 <= received /\ Mark \in Nat
      /\ \A i \in startLine..(Mark - 1) : request.bytes[i + 1] \notin {"CR", "LF"}
      /\ startLine <= Mark
  BY <1>1, <1>2, LineIs, MarkIs, TextsAreIndexed
<1>4. startLine \in Nat /\ 3 <= startLine
  <2>1. startLine - 2 \in Nat /\ request.bytes[(startLine - 2) + 1] = "CR"
    BY <1>1, <1>2, TextsAreIndexed DEF HeadSeen
  <2>2. startLine - 2 # 0
    BY <1>1, <2>1 DEF GoodStart
  <2>3. startLine \in Nat
    BY <1>1, <1>2 DEF TypeOK
  <2> QED
    BY <2>1, <2>2, <2>3
<1>5. \A i \in Broken(request.bytes) : i >= Mark + 2
  <2>1. \A i \in Broken(request.bytes) : i >= startLine
    BY <1>1 DEF Seen
  <2> QED
    BY <1>2, <1>3, <1>4, <2>1, LinePasses
<1>6. /\ Line \in Seq(STRING) /\ Len(Line) = Mark - startLine
      /\ \A i \in 1..(Mark - startLine) : Line[i] = Got[startLine + i]
  <2>1. Mark <= Len(Got)
    BY <1>2, <1>3
  <2> QED
    BY <1>2, <1>3, <1>4, <2>1, PieceIs DEF Line
<1>7. Mark > startLine => Line[1] = request.bytes[startLine + 1]
  BY <1>2, <1>3, <1>4, <1>6
<1> QED
  BY <1>1, <1>3, <1>4, <1>5, <1>6, <1>7

(* A header of a complete head is one token, and it is noted.                *)
LEMMA HeaderNotes ==
  ASSUME Inv, Header
  PROVE  /\ startLine < Mark /\ \A i \in EmptyLines(request.bytes) : i >= Mark + 2
         /\ HeadIsComplete(request.bytes) =>
               /\ Line = <<request.bytes[startLine + 1]>>
               /\ \A h \in {"LENGTH", "LINGER", "TYPE"} :
                     Noted(h)' <=> Noted(h) \/ request.bytes[startLine + 1] = h
<1>1. /\ stage = "parsing" /\ ~InContent /\ LineOK /\ checkState = "HEADER"
      /\ Line # <<>> /\ checkedIdx' = Mark + 2 /\ startLine' = Mark + 2
      /\ contentLength' = IF Line[1] = "LENGTH" THEN request.length ELSE contentLength
      /\ linger' = (linger \/ Line = <<"LINGER">>)
      /\ UNCHANGED <<request, received, readBuf, checkState, method, content, stage,
                     verdict>>
  BY DEF Header, Parsing, NextLineBegins, clientVars
<1>2. /\ TypeOK /\ Seen /\ GoodStart /\ HeadSeen
      /\ Mark \in LineEnds(request.bytes) /\ Mark + 2 <= received /\ Mark \in Nat
      /\ startLine \in Nat /\ 3 <= startLine /\ startLine <= Mark
      /\ \A i \in startLine..(Mark - 1) : request.bytes[i + 1] \notin {"CR", "LF"}
      /\ \A i \in Broken(request.bytes) : i >= Mark + 2
      /\ Line \in Seq(STRING) /\ Len(Line) = Mark - startLine
      /\ Mark > startLine => Line[1] = request.bytes[startLine + 1]
  BY <1>1, HeaderLineIs
<1>3. /\ request.bytes \in Seq(STRING) /\ received \in Nat /\ received <= Len(request.bytes)
      /\ Len(readBuf) = received /\ request.length \in Nat /\ Got' = Got
  BY <1>1, <1>2, RequestsAre, SameMeaning DEF Seen
<1>4. startLine < Mark
  <2>1. Len(Line) # 0
    BY <1>1, <1>2, EmptySeq
  <2> QED
    BY <1>2, <2>1
<1>5. \A i \in EmptyLines(request.bytes) : i >= Mark + 2
  <2>1. /\ \A i \in Broken(request.bytes) : i >= startLine
        /\ \A i \in EmptyLines(request.bytes) : i >= startLine
    BY <1>2 DEF Seen, HeadSeen
  <2> QED
    BY <1>2, <1>3, <1>4, <2>1, HeaderPasses
<1>6. ASSUME HeadIsComplete(request.bytes)
      PROVE  /\ Line = <<request.bytes[startLine + 1]>>
             /\ \A h \in {"LENGTH", "LINGER", "TYPE"} :
                   Noted(h)' <=> Noted(h) \/ request.bytes[startLine + 1] = h
  <2> DEFINE t == request.bytes
             e == Min(EmptyLines(t))
  <2>1. e \in EmptyLines(t)
    BY <1>3, <1>6, CompleteHeadIs
  <2>2. e \in Nat /\ e >= Mark + 2
    BY <1>3, <1>5, <2>1, TextsAreIndexed
  <2>3. \A i \in 1..(e - 1) : t[i] \in {"CR", "LF"} \/ t[i + 1] \in {"CR", "LF"}
    BY <1>2, <1>6, ParserAssumption DEF TypeOK
  <2> HIDE DEF e
  <2>4. Mark = startLine + 1
    <3> SUFFICES ASSUME Mark > startLine + 1 PROVE FALSE
      BY <1>2, <1>4
    <3>1. startLine \in startLine..(Mark - 1) /\ startLine + 1 \in startLine..(Mark - 1)
      BY <1>2
    <3>2. t[startLine + 1] \notin {"CR", "LF"} /\ t[(startLine + 1) + 1] \notin {"CR", "LF"}
      BY <1>2, <3>1
    <3>3. startLine + 1 \in 1..(e - 1)
      BY <1>2, <2>2
    <3> QED
      BY <2>3, <3>2, <3>3
  <2>5. Line = <<t[startLine + 1]>>
    BY <1>2, <2>4, OneToken
  <2>6. t[Mark + 1] = "CR" /\ t[Mark + 2] = "LF"
    BY <1>2, <1>3, TextsAreIndexed
  <2>7. \A i \in 3..(Mark + 2) :
           i \in 3..startLine \/ i = startLine + 1 \/ i = Mark + 1 \/ i = Mark + 2
    BY <1>2, <2>4
  <2>8. startLine + 1 \in 3..(Mark + 2) /\ 3..startLine \subseteq 3..(Mark + 2)
    BY <1>2, <2>4
  <2>9. ASSUME NEW h \in {"LENGTH", "LINGER", "TYPE"}
        PROVE  Noted(h)' <=> Noted(h) \/ t[startLine + 1] = h
    <3>1. Noted(h)' <=> \E i \in 3..(Mark + 2) : t[i] = h
      BY <1>1 DEF Noted
    <3>2. t[Mark + 1] # h /\ t[Mark + 2] # h
      BY <2>6
    <3> QED
      BY <2>7, <2>8, <3>1, <3>2 DEF Noted
  <2> QED
    BY <2>5, <2>9
<1> QED
  BY <1>4, <1>5, <1>6

LEMMA HeaderKeeps == ASSUME Inv, Header PROVE Inv'
<1>1. /\ stage = "parsing" /\ ~InContent /\ LineOK /\ checkState = "HEADER"
      /\ Line # <<>> /\ checkedIdx' = Mark + 2 /\ startLine' = Mark + 2
      /\ contentLength' = IF Line[1] = "LENGTH" THEN request.length ELSE contentLength
      /\ linger' = (linger \/ Line = <<"LINGER">>)
      /\ UNCHANGED <<request, received, readBuf, checkState, method, content, stage,
                     verdict>>
  BY DEF Header, Parsing, NextLineBegins, clientVars
<1>2. /\ TypeOK /\ Seen /\ GoodStart /\ HeadSeen
      /\ Mark \in LineEnds(request.bytes) /\ Mark + 2 <= received /\ Mark \in Nat
      /\ startLine \in Nat /\ 3 <= startLine /\ startLine <= Mark
      /\ \A i \in startLine..(Mark - 1) : request.bytes[i + 1] \notin {"CR", "LF"}
      /\ \A i \in Broken(request.bytes) : i >= Mark + 2
      /\ Line \in Seq(STRING) /\ Len(Line) = Mark - startLine
      /\ Mark > startLine => Line[1] = request.bytes[startLine + 1]
  BY <1>1, HeaderLineIs
<1>3. /\ request.bytes \in Seq(STRING) /\ received \in Nat /\ received <= Len(request.bytes)
      /\ Len(readBuf) = received /\ request.length \in Nat /\ Got' = Got
  BY <1>1, <1>2, RequestsAre, SameMeaning DEF Seen
<1>4. startLine < Mark
  BY HeaderNotes
<1>5. \A i \in EmptyLines(request.bytes) : i >= Mark + 2
  BY HeaderNotes
<1>6. TypeOK'
  <2>1. /\ checkedIdx' \in 0..Len(readBuf') /\ startLine' \in 0..checkedIdx'
        /\ linger' \in BOOLEAN
    BY <1>1, <1>2, <1>3
  <2>2. contentLength' \in {0, request'.length} /\ Len(content') <= contentLength'
    <3>1. Len(content) = 0
      BY <1>2 DEF Seen
    <3> QED
      BY <1>1, <1>2, <1>3, <3>1 DEF TypeOK
  <2> QED
    BY <1>1, <1>2, <2>1, <2>2 DEF TypeOK
<1>7. Seen'
  BY <1>1, <1>2, <1>3 DEF Seen
<1>8. GoodStart'
  BY <1>1, <1>2 DEF GoodStart
<1>9. HeadIsComplete(request.bytes) =>
         /\ Line = <<request.bytes[startLine + 1]>>
         /\ \A h \in {"LENGTH", "LINGER", "TYPE"} :
               Noted(h)' <=> Noted(h) \/ request.bytes[startLine + 1] = h
  BY HeaderNotes
<1>10. HeadSeen'
  <2>1. startLine' - 2 = Mark
    BY <1>1, <1>2
  <2>2. ASSUME HeadIsComplete(request.bytes)
        PROVE  contentLength' = IF Noted("LENGTH")' THEN request.length ELSE 0
    BY <1>1, <1>2, <1>4, <1>9, <2>2 DEF HeadSeen
  <2>3. ASSUME HeadIsComplete(request.bytes)
        PROVE  linger' = Noted("LINGER")'
    <3>1. Line = <<"LINGER">> <=> request.bytes[startLine + 1] = "LINGER"
      BY <1>9, <2>3
    <3>2. linger' = (Noted("LINGER") \/ request.bytes[startLine + 1] = "LINGER")
      BY <1>1, <1>2, <2>3, <3>1 DEF HeadSeen
    <3>3. Noted("LINGER")' <=> Noted("LINGER") \/ request.bytes[startLine + 1] = "LINGER"
      BY <1>9, <2>3
    <3> QED
      BY <3>2, <3>3 DEF Noted
  <2> QED
    BY <1>1, <1>2, <1>5, <2>1, <2>2, <2>3 DEF HeadSeen
<1>11. LineInv'
  BY <1>1, <1>7, <1>8, <1>10 DEF LineInv
<1>12. Undecided' /\ StuckInv' /\ BodyInv' /\ VerdictOfBytes'
  BY <1>1 DEF Inv, Undecided, Scanning, StuckInv, BodyInv, InContent, VerdictOfBytes
<1> QED
  BY <1>6, <1>11, <1>12 DEF Inv

(* What is noted of a head when its end has been found.                      *)
LEMMA HeadEndIs ==
  ASSUME Inv, stage = "parsing", ~InContent, LineOK, checkState = "HEADER", Line = <<>>
  PROVE  /\ HeadIsComplete(request.bytes) /\ Min(EmptyLines(request.bytes)) = Mark
         /\ \A h : HasHeader(request.bytes, h) <=> Noted(h)
<1>1. stage = "parsing" /\ ~InContent /\ LineOK /\ checkState = "HEADER" /\ Line = <<>>
  OBVIOUS
<1>2. /\ TypeOK /\ Seen /\ GoodStart /\ HeadSeen
      /\ Mark \in LineEnds(request.bytes) /\ Mark + 2 <= received /\ Mark \in Nat
      /\ startLine \in Nat /\ 3 <= startLine /\ startLine <= Mark
      /\ \A i \in Broken(request.bytes) : i >= Mark + 2
      /\ Line \in Seq(STRING) /\ Len(Line) = Mark - startLine
  BY <1>1, HeaderLineIs
<1>3. /\ request.bytes \in Seq(STRING) /\ received \in Nat /\ received <= Len(request.bytes)
      /\ Len(readBuf) = received /\ request.length \in Nat
      /\ readBuf = Got /\ content = <<>> /\ Got \in Seq(STRING) /\ Len(Got) = received
  BY <1>1, <1>2, RequestsAre DEF Seen
<1>4. Mark = startLine
  BY <1>1, <1>2, EmptySeq
<1>5. Mark \in EmptyLines(request.bytes) /\ \A i \in EmptyLines(request.bytes) : Mark <= i
  BY <1>2, <1>3, <1>4, TextsAreIndexed DEF HeadSeen, EmptyLines
<1>6. \A i \in Broken(request.bytes) : Mark <= i
  BY <1>2, <1>3, TextsAreIndexed
<1>7. /\ HeadIsComplete(request.bytes) /\ Min(EmptyLines(request.bytes)) = Mark
      /\ \A h : HasHeader(request.bytes, h) <=> Noted(h)
  BY <1>3, <1>4, <1>5, <1>6, HeadIs DEF Noted
<1> QED
  BY <1>7

LEMMA HeadersEndKeeps == ASSUME Inv, HeadersEnd PROVE Inv'
<1>1. /\ stage = "parsing" /\ ~InContent /\ LineOK /\ checkState = "HEADER"
      /\ Line = <<>> /\ checkedIdx' = Mark + 2 /\ startLine' = Mark + 2
      /\ UNCHANGED <<request, received, readBuf, method, linger, contentLength, content>>
  BY DEF HeadersEnd, Parsing, NextLineBegins, StillParsing, clientVars
<1>2. /\ TypeOK /\ Seen /\ GoodStart /\ HeadSeen
      /\ Mark \in LineEnds(request.bytes) /\ Mark + 2 <= received /\ Mark \in Nat
      /\ startLine \in Nat /\ 3 <= startLine /\ startLine <= Mark
      /\ \A i \in Broken(request.bytes) : i >= Mark + 2
      /\ Line \in Seq(STRING) /\ Len(Line) = Mark - startLine
  BY <1>1, HeaderLineIs
<1>3. /\ request.bytes \in Seq(STRING) /\ received \in Nat /\ received <= Len(request.bytes)
      /\ Len(readBuf) = received /\ request.length \in Nat /\ Got' = Got
      /\ readBuf = Got /\ content = <<>> /\ Got \in Seq(STRING) /\ Len(Got) = received
  BY <1>1, <1>2, RequestsAre, SameMeaning DEF Seen
<1>7. /\ HeadIsComplete(request.bytes) /\ Min(EmptyLines(request.bytes)) = Mark
      /\ \A h : HasHeader(request.bytes, h) <=> Noted(h)
  BY <1>1, HeadEndIs
<1>8. /\ contentLength = IF HasHeader(request.bytes, "LENGTH") THEN request.length ELSE 0
      /\ linger = HasHeader(request.bytes, "LINGER")
      /\ BodyStart = Mark + 2
  <2>1. linger = Noted("LINGER")
    BY <1>2, <1>7 DEF HeadSeen
  <2>2. linger = HasHeader(request.bytes, "LINGER")
    BY <1>7, <2>1 DEF HasHeader, Noted
  <2> QED
    BY <1>2, <1>7, <2>2 DEF HeadSeen, BodyStart
<1>9. /\ checkedIdx' \in 0..Len(readBuf') /\ startLine' \in 0..checkedIdx'
  BY <1>1, <1>2, <1>3
<1>10. CASE contentLength # 0
  <2>1. checkState' = "CONTENT" /\ UNCHANGED <<stage, verdict>>
    BY <1>10 DEF HeadersEnd
  <2>2. TypeOK'
    BY <1>1, <1>2, <1>9, <2>1 DEF TypeOK
  <2>3. HasHeader(request.bytes, "LENGTH") /\ contentLength = request.length
    BY <1>8, <1>10
  <2>4. GoodStart' /\ BodyStart' = BodyStart
    BY <1>1, <1>2 DEF GoodStart, BodyStart
  <2>5. HeadKnown'
    BY <1>1, <1>7, <1>8, <1>10, <2>3, <2>4 DEF HeadKnown
  <2>6. readBuf' = SubSeq(request'.bytes, 1, Len(readBuf'))
    BY <1>1, <1>3 DEF Got
  <2>7. BodyInv'
    BY <1>1, <1>2, <1>3, <1>8, <2>1, <2>4, <2>5, <2>6 DEF BodyInv
  <2>8. Undecided' /\ LineInv' /\ StuckInv' /\ VerdictOfBytes'
    BY <1>1, <2>1
    DEF Inv, Undecided, Scanning, LineInv, StuckInv, InContent, VerdictOfBytes
  <2> QED
    BY <2>2, <2>7, <2>8 DEF Inv
<1>11. CASE contentLength = 0
  <2>1. verdict' = "GET_REQUEST" /\ stage' = "judged" /\ checkState' = checkState
    BY <1>11 DEF HeadersEnd, Answered
  <2>2. TypeOK'
    BY <1>1, <1>2, <1>9, <2>1 DEF TypeOK
  <2>3. BodyStart <= received
    BY <1>2, <1>8
  <2>4. /\ Meaning(Got) = IF Len(Body(Got)) >= Length(Got) THEN "GET_REQUEST"
                          ELSE "NO_REQUEST"
        /\ Got[1] = method /\ BodyStart \in Nat
        /\ \A h : HasHeader(Got, h) <=> HasHeader(request.bytes, h)
        /\ Body(Got) = SubSeq(Got, BodyStart + 1, Smallest(received, BodyStart + Length(Got)))
        /\ Overlong(Got) => Length(Got) # 0
    BY <1>2, <1>7, <2>3, WholeHead
  <2>5. Length(Got) = 0
    BY <1>8, <1>11, <2>4 DEF Length
  <2>6. Smallest(received, BodyStart + Length(Got)) = BodyStart
    BY <1>3, <2>3, <2>4, <2>5 DEF Smallest
  <2>7. Body(Got) = <<>> /\ Len(Body(Got)) = 0
    BY <2>4, <2>6, SubSeqEmpty
  <2>8. Meaning(Got) = "GET_REQUEST"
    <3>1. Len(Body(Got)) >= Length(Got)
      BY <2>5, <2>7
    <3> QED
      BY <2>4, <3>1
  <2>9. linger = HasHeader(Got, "LINGER")
    <3>1. HasHeader(Got, "LINGER") <=> HasHeader(request.bytes, "LINGER")
      BY <2>4
    <3> QED
      BY <1>8, <3>1 DEF HasHeader
  <2>10. VerdictOfBytes'
    <3>1. Meaning(Got)' = "GET_REQUEST" /\ Body(Got)' = <<>> /\ ~Overlong(Got)'
      BY <1>1, <2>4, <2>5, <2>7, <2>8, SameMeaning
    <3>2. method' = Got'[1] /\ linger' = HasHeader(Got', "LINGER") /\ content' = <<>>
      BY <1>1, <1>3, <2>4, <2>9
    <3> QED
      BY <2>1, <3>1, <3>2 DEF VerdictOfBytes, Got
  <2>11. Undecided' /\ LineInv' /\ StuckInv' /\ BodyInv'
    BY <2>1 DEF Undecided, LineInv, StuckInv, BodyInv, Scanning
  <2> QED
    BY <2>2, <2>10, <2>11 DEF Inv
<1> QED
  BY <1>10, <1>11

LEMMA ContentKeeps == ASSUME Inv, Content PROVE Inv'
<1>1. /\ stage = "parsing" /\ InContent /\ Fits
      /\ content' = content \o SubSeq(readBuf, checkedIdx + 1, Len(readBuf))
      /\ checkedIdx' = Len(readBuf) /\ startLine' = checkedIdx
      /\ UNCHANGED <<request, received, readBuf, checkState, method, linger,
                     contentLength>>
  BY DEF Content, clientVars, headVars
<1>2. /\ TypeOK /\ HeadKnown /\ verdict = "NO_REQUEST"
      /\ Len(readBuf) >= BodyStart /\ Len(readBuf) <= received
      /\ readBuf = SubSeq(request.bytes, 1, Len(readBuf))
      /\ \/ content = <<>> /\ checkedIdx = BodyStart /\ Len(readBuf) = received
         \/ /\ content = SubSeq(request.bytes, BodyStart + 1, received)
            /\ checkedIdx = Len(readBuf)
  BY <1>1 DEF Inv, Undecided, BodyInv, Scanning
<1>3. /\ request.bytes \in Seq(STRING) /\ received \in Nat /\ received <= Len(request.bytes)
      /\ request.length \in Nat /\ Got' = Got
      /\ Got \in Seq(STRING) /\ Len(Got) = received
      /\ \A i \in 1..received : Got[i] = request.bytes[i]
      /\ readBuf \in Seq(STRING) /\ Len(readBuf) \in Nat
  BY <1>1, <1>2, RequestsAre, SameMeaning DEF TypeOK
<1>4. BodyStart \in Nat /\ BodyStart >= 3 /\ BodyStart <= received
  <2>1. Min(EmptyLines(request.bytes)) \in Nat
    BY <1>2, <1>3, CompleteHeadIs, TextsAreIndexed DEF HeadKnown
  <2>2. BodyStart \in Nat
    BY <2>1 DEF BodyStart
  <2>3. /\ Len(readBuf) >= BodyStart /\ Len(readBuf) <= received
        /\ Len(readBuf) \in Nat /\ received \in Nat
    BY <1>2, <1>3
  <2>4. BodyStart <= received
    BY <2>2, <2>3
  <2> QED
    BY <1>2, <2>4, WholeHead DEF HeadKnown
<1> DEFINE rest == SubSeq(request.bytes, BodyStart + 1, received)
<1>5. /\ rest \in Seq(STRING) /\ Len(rest) = received - BodyStart
      /\ \A i \in 1..(received - BodyStart) : rest[i] = request.bytes[BodyStart + i]
  BY <1>3, <1>4, PieceIs
<1>6. rest = SubSeq(Got, BodyStart + 1, received)
  <2> DEFINE u == SubSeq(Got, BodyStart + 1, received)
  <2>1. /\ u \in Seq(STRING) /\ Len(u) = received - BodyStart
        /\ \A i \in 1..(received - BodyStart) : u[i] = Got[BodyStart + i]
    BY <1>3, <1>4, PieceIs
  <2> HIDE DEF u, rest
  <2>2. ASSUME NEW i \in 1..(received - BodyStart) PROVE u[i] = rest[i]
    <3>1. BodyStart + i \in 1..received
      BY <1>3, <1>4
    <3>2. u[i] = Got[BodyStart + i] /\ rest[i] = request.bytes[BodyStart + i]
      BY <1>5, <2>1
    <3> QED
      BY <1>3, <3>1, <3>2
  <2>3. u = rest
    BY <1>5, <2>1, <2>2, SeqEqual
  <2> QED
    BY <2>3 DEF u
<1>7. content' = rest
  <2>1. CASE content = <<>> /\ checkedIdx = BodyStart /\ Len(readBuf) = received
    <3>1. readBuf = Got
      BY <1>2, <2>1 DEF Got
    <3>2. content' = <<>> \o rest
      BY <1>1, <1>6, <2>1, <3>1
    <3> QED
      BY <1>5, <3>2, ConcatEmptySeq
  <2>2. CASE content = rest /\ checkedIdx = Len(readBuf)
    <3>1. SubSeq(readBuf, checkedIdx + 1, Len(readBuf)) = <<>>
      BY <1>3, <2>2, SubSeqEmpty
    <3>2. content' = rest \o <<>>
      BY <1>1, <2>2, <3>1
    <3> QED
      BY <1>5, <3>2, ConcatEmptySeq
  <2> QED
    BY <1>2, <2>1, <2>2
<1>8. received <= BodyStart + request.length
  <2>1. Len(content) + (Len(readBuf) - checkedIdx) <= request.length
    BY <1>1, <1>2 DEF Fits, HeadKnown
  <2>2. CASE content = <<>> /\ checkedIdx = BodyStart /\ Len(readBuf) = received
    <3>1. Len(content) = 0
      BY <2>2
    <3> QED
      BY <1>3, <1>4, <2>1, <2>2, <3>1
  <2>3. CASE content = rest /\ checkedIdx = Len(readBuf)
    BY <1>3, <1>4, <1>5, <2>1, <2>3
  <2> QED
    BY <1>2, <2>2, <2>3
<1> HIDE DEF rest
<1>9. /\ content' \in Seq(STRING) /\ Len(content') = received - BodyStart
      /\ contentLength = request.length /\ Len(content') <= contentLength
  <2>1. contentLength = request.length
    BY <1>2 DEF HeadKnown
  <2>2. content' \in Seq(STRING) /\ Len(content') = received - BodyStart
    BY <1>5, <1>7
  <2>3. received - BodyStart <= request.length
    BY <1>3, <1>4, <1>8
  <2> QED
    BY <2>1, <2>2, <2>3
<1>10. startLine' \in 0..checkedIdx'
  BY <1>1, <1>2, <1>3, <1>4
<1>11. /\ Meaning(Got) = IF Len(Body(Got)) >= Length(Got) THEN "GET_REQUEST"
                         ELSE "NO_REQUEST"
       /\ Got[1] = method
       /\ \A h : HasHeader(Got, h) <=> HasHeader(request.bytes, h)
       /\ Body(Got) = SubSeq(Got, BodyStart + 1, Smallest(received, BodyStart + Length(Got)))
       /\ Overlong(Got) => received > BodyStart + Length(Got)
  BY <1>2, <1>4, WholeHead DEF HeadKnown
<1>12. Length(Got) = contentLength
  BY <1>2, <1>11 DEF Length, HeadKnown
<1>13. Smallest(received, BodyStart + Length(Got)) = received
  BY <1>3, <1>4, <1>8, <1>9, <1>12 DEF Smallest
<1>14. Body(Got) = content'
  BY <1>6, <1>7, <1>11, <1>13
<1>15. HeadKnown' /\ BodyStart' = BodyStart
  BY <1>1, <1>2 DEF HeadKnown, GoodStart, BodyStart
<1>16. stage' \in {"armed", "judged"} /\ checkState' = "CONTENT"
  BY <1>1 DEF Content, Answered, InContent
<1>17. LineInv' /\ StuckInv'
  BY <1>16 DEF LineInv, StuckInv, InContent
<1>18. BodyInv'
  <2>1. content' = SubSeq(request'.bytes, BodyStart' + 1, received')
    BY <1>1, <1>7, <1>15 DEF rest
  <2> QED
    BY <1>1, <1>2, <1>15, <2>1 DEF BodyInv
<1>19. CASE Len(content') >= contentLength
  <2>1. verdict' = "GET_REQUEST" /\ stage' = "judged"
    BY <1>19 DEF Content, Answered
  <2>2. TypeOK'
    BY <1>1, <1>2, <1>3, <1>9, <1>10, <2>1 DEF TypeOK
  <2>3. Meaning(Got) = "GET_REQUEST"
    BY <1>11, <1>12, <1>14, <1>19
  <2>4. linger = HasHeader(Got, "LINGER")
    <3>1. HasHeader(Got, "LINGER") <=> HasHeader(request.bytes, "LINGER")
      BY <1>11
    <3> QED
      BY <1>2, <3>1 DEF HeadKnown, HasHeader
  <2>5. VerdictOfBytes'
    <3>0. ~Overlong(Got)
      BY <1>3, <1>4, <1>8, <1>9, <1>11, <1>12
    <3>1. Meaning(Got)' = "GET_REQUEST" /\ Body(Got)' = content' /\ ~Overlong(Got)'
      BY <1>1, <1>14, <2>3, <3>0, SameMeaning
    <3>2. method' = Got'[1] /\ linger' = HasHeader(Got', "LINGER")
      BY <1>1, <1>3, <1>11, <2>4
    <3> QED
      BY <2>1, <3>1, <3>2 DEF VerdictOfBytes, Got
  <2>6. Undecided'
    BY <2>1 DEF Undecided, Scanning
  <2> QED
    BY <1>17, <1>18, <2>2, <2>5, <2>6 DEF Inv
<1>20. CASE ~(Len(content') >= contentLength)
  <2>1. verdict' = verdict /\ stage' = "armed"
    BY <1>20 DEF Content
  <2>2. TypeOK'
    BY <1>1, <1>2, <1>3, <1>9, <1>10, <2>1 DEF TypeOK
  <2>3. Meaning(Got)' = "NO_REQUEST"
    BY <1>1, <1>11, <1>12, <1>14, <1>20, SameMeaning
  <2>4. Undecided' /\ VerdictOfBytes'
    BY <1>2, <2>1, <2>3 DEF Undecided, VerdictOfBytes, Got
  <2> QED
    BY <1>17, <1>18, <2>2, <2>4 DEF Inv
<1> QED
  BY <1>19, <1>20

LEMMA OverrunKeeps == ASSUME Inv, Overrun PROVE Inv'
<1>1. /\ stage = "parsing" /\ InContent /\ ~Fits /\ stage' = "overrun"
      /\ UNCHANGED <<request, received, readBuf, checkedIdx, startLine, checkState,
                     method, linger, contentLength, content, verdict>>
  BY DEF Overrun, clientVars, indexVars, headVars
<1>2. /\ TypeOK /\ HeadKnown /\ verdict = "NO_REQUEST"
      /\ Len(readBuf) >= BodyStart /\ Len(readBuf) <= received
      /\ \/ content = <<>> /\ checkedIdx = BodyStart /\ Len(readBuf) = received
         \/ checkedIdx = Len(readBuf)
  BY <1>1 DEF Inv, Undecided, BodyInv, Scanning
<1>3. /\ request.bytes \in Seq(STRING) /\ received \in Nat /\ request.length \in Nat
      /\ Len(readBuf) \in Nat /\ Len(content) \in Nat /\ Len(content) <= contentLength
      /\ contentLength = request.length
  BY <1>2, RequestsAre DEF TypeOK, HeadKnown
<1>4. BodyStart \in Nat /\ BodyStart <= received
  <2>1. Min(EmptyLines(request.bytes)) \in Nat
    BY <1>2, <1>3, CompleteHeadIs, TextsAreIndexed DEF HeadKnown
  <2>2. BodyStart \in Nat
    BY <2>1 DEF BodyStart
  <2>3. /\ Len(readBuf) >= BodyStart /\ Len(readBuf) <= received
        /\ Len(readBuf) \in Nat /\ received \in Nat
    BY <1>2, <1>3
  <2> QED
    BY <2>2, <2>3
<1>5. received > BodyStart + request.length
  <2>1. ~(Len(content) + (Len(readBuf) - checkedIdx) <= request.length)
    BY <1>1, <1>3 DEF Fits
  <2>2. checkedIdx # Len(readBuf)
    BY <1>3, <2>1
  <2>3. Len(content) = 0 /\ checkedIdx = BodyStart /\ Len(readBuf) = received
    BY <1>2, <2>2
  <2> QED
    BY <1>3, <1>4, <2>1, <2>3
<1>6. Overlong(Got)
  <2>1. /\ HasHeader(Got, "LENGTH") <=> HasHeader(request.bytes, "LENGTH")
        /\ Overlong(Got) <=> Length(Got) # 0 /\ received > BodyStart + Length(Got)
    BY <1>2, <1>4, WholeHead DEF HeadKnown
  <2>2. Length(Got) = request.length /\ request.length # 0
    BY <1>2, <2>1 DEF Length, HeadKnown
  <2> QED
    BY <1>5, <2>1, <2>2
<1>7. TypeOK'
  BY <1>1, <1>2 DEF TypeOK
<1>8. VerdictOfBytes'
  <2>1. Overlong(Got)'
    BY <1>1, <1>6, SameMeaning
  <2> QED
    BY <1>1, <2>1 DEF VerdictOfBytes, Got
<1>9. Undecided' /\ LineInv' /\ StuckInv' /\ BodyInv'
  BY <1>1 DEF Undecided, LineInv, StuckInv, BodyInv, Scanning
<1> QED
  BY <1>7, <1>8, <1>9 DEF Inv
-----------------------------------------------------------------------------
LEMMA StutterKeeps == ASSUME Inv, UNCHANGED vars PROVE Inv'
<1>1. UNCHANGED <<request, received, readBuf, checkedIdx, startLine, checkState,
                  method, linger, contentLength, content, stage, verdict>>
  BY DEF vars, clientVars, indexVars, headVars
<1>2. TypeOK' /\ Undecided'
  BY <1>1 DEF Inv, TypeOK, Undecided, Scanning
<1>3. LineInv' /\ StuckInv'
  BY <1>1 DEF Inv, LineInv, StuckInv, Scanning, InContent, Seen, GoodStart, HeadSeen,
              Noted, Got
<1>4. BodyInv'
  BY <1>1 DEF Inv, BodyInv, Scanning, InContent, HeadKnown, GoodStart, BodyStart
<1>5. VerdictOfBytes'
  <2>1. /\ Got' = Got /\ Meaning(Got)' = Meaning(Got) /\ Body(Got)' = Body(Got)
        /\ Overlong(Got)' = Overlong(Got)
    BY <1>1, SameMeaning
  <2> QED
    BY <1>1, <2>1 DEF Inv, VerdictOfBytes, Got
<1> QED
  BY <1>2, <1>3, <1>4, <1>5 DEF Inv

LEMMA InvAlways == Spec => []Inv
<1>1. ASSUME Inv, [Next]_vars PROVE Inv'
  <2>1. ASSUME NEW k \in 1..(Len(request.bytes) - received), Read(k) PROVE Inv'
    BY <1>1, <2>1, ReadKeeps
  <2>2. ASSUME NEW k \in 1..(Len(request.bytes) - received), ReadFails(k) PROVE Inv'
    BY <1>1, <2>2, ReadFailsKeeps
  <2>3. CASE RequestLine
    BY <1>1, <2>3, RequestLineKeeps
  <2>4. CASE Header
    BY <1>1, <2>4, HeaderKeeps
  <2>5. CASE HeadersEnd
    BY <1>1, <2>5, HeadersEndKeeps
  <2>6. CASE NoLine
    BY <1>1, <2>6, NoLineKeeps
  <2>7. CASE Content
    BY <1>1, <2>7, ContentKeeps
  <2>8. CASE DoRequest
    BY <1>1, <2>8, DoRequestKeeps
  <2>9. CASE Reset
    BY <2>9, ResetKeeps
  <2>10. CASE UNCHANGED vars
    BY <1>1, <2>10, StutterKeeps
  <2>11. CASE Overrun
    BY <1>1, <2>11, OverrunKeeps
  <2> QED
    BY <1>1, <2>1, <2>2, <2>3, <2>4, <2>5, <2>6, <2>7, <2>8, <2>9, <2>10, <2>11 DEF Next
<1> QED
  BY <1>1, InitHolds, PTL DEF Spec

(* The indexes are in order, and neither buffer holds more than it can, of     *)
(* every request; what has been written behind a buffer ends in "overrun".     *)
THEOREM TypesHold == Spec => []TypeOK
<1>1. Inv => TypeOK
  BY DEF Inv
<1> QED
  BY <1>1, InvAlways, PTL

(* A request that arrives in pieces, cut anywhere, means what it would mean   *)
(* in one piece: the verdict, the method, keep-alive and the body are those of *)
(* the bytes received, of every request, and behind every other request; and   *)
(* the memcpy() of http_conn.cpp:342 leaves its buffer only when more of a body *)
(* than announced came with the head.                                          *)
THEOREM CutsDoNotMatter == Spec => []VerdictOfBytes
<1>1. Inv => VerdictOfBytes
  BY DEF Inv
<1> QED
  BY <1>1, InvAlways, PTL

(* A request that fits _read_buf is not refused: outside the body no more      *)
(* than the request is in the buffer, and in it no more comes than announced,   *)
(* or the client has sent more.                                                *)
LEMMA OnlyLongerFail ==
  ASSUME Inv, NEW k \in 1..(Len(request.bytes) - received), ReadFails(k)
  PROVE  Len(request.bytes) > READ_BUFFER_SIZE \/ Overlong(request.bytes)
<1>1. /\ stage = "armed" /\ ~CanRead(k)
  BY DEF ReadFails
<1>2. /\ TypeOK /\ request.bytes \in Seq(STRING) /\ received \in Nat
      /\ received <= Len(request.bytes) /\ READ_BUFFER_SIZE \in Nat /\ k \in Nat
      /\ received + k <= Len(request.bytes) /\ k >= 1 /\ request.length \in Nat
      /\ Len(readBuf) \in Nat
  BY RequestsAre, ParserAssumption DEF Inv, TypeOK
<1>3. CASE ~InContent
  <2>1. Len(readBuf) = received
    BY <1>1, <1>2, <1>3, RequestsAre DEF Inv, LineInv, Scanning, Seen
  <2> QED
    BY <1>1, <1>2, <1>3, <2>1 DEF CanRead, Room
<1>4. CASE InContent
  <2>1. /\ HeadKnown /\ BodyStart <= Len(readBuf) /\ Len(readBuf) <= received
        /\ content = SubSeq(request.bytes, BodyStart + 1, received)
    BY <1>1, <1>4 DEF Inv, BodyInv, Scanning
  <2>2. BodyStart \in Nat
    <3>1. Min(EmptyLines(request.bytes)) \in Nat
      BY <1>2, <2>1, CompleteHeadIs, TextsAreIndexed DEF HeadKnown
    <3> QED
      BY <3>1 DEF BodyStart
  <2>3. Len(content) = received - BodyStart
    BY <1>2, <2>1, <2>2, PieceIs
  <2>4. CASE k <= Room
    <3>1. ~(Len(readBuf) < READ_BUFFER_SIZE)
      BY <1>1, <2>4 DEF CanRead
    <3> QED
      BY <1>2, <2>1, <3>1
  <2>5. CASE ~(k <= Room)
    <3>1. Len(request.bytes) > BodyStart + request.length
      BY <1>2, <1>4, <2>1, <2>2, <2>3, <2>5 DEF Room, HeadKnown
    <3>2. HeadIsComplete(request.bytes) /\ Length(request.bytes) = request.length
          /\ request.length # 0
      BY <2>1 DEF HeadKnown, Length
    <3> QED
      BY <3>1, <3>2 DEF Overlong, BodyStart
  <2> QED
    BY <2>4, <2>5
<1> QED
  BY <1>3, <1>4

(* http_conn.cpp:188: only a request longer than the buffer, or than it has    *)
(* announced, closes its connection, however it is cut.                        *)
THEOREM FittingRequestsAreRead == Spec => []FitsIsRead
<1>1. Init => FitsIsRead
  BY DEF Init, FitsIsRead
<1>2. ASSUME Inv, FitsIsRead, [Next]_vars PROVE FitsIsRead'
  <2>1. ASSUME NEW k \in 1..(Len(request.bytes) - received), Read(k) PROVE FitsIsRead'
    BY <2>1 DEF Read, FitsIsRead
  <2>2. ASSUME NEW k \in 1..(Len(request.bytes) - received), ReadFails(k) PROVE FitsIsRead'
    <3>1. Overlong(request.bytes)' = Overlong(request.bytes)
      BY <2>2 DEF ReadFails, clientVars, Overlong, Length
    <3> QED
      BY <1>2, <2>2, <3>1, OnlyLongerFail DEF ReadFails, FitsIsRead, clientVars
  <2>3. CASE RequestLine \/ Header \/ HeadersEnd \/ Content
    <3>1. stage' # "closed"
      BY <2>3 DEF RequestLine, Header, HeadersEnd, Content, Parsing, Answered
    <3> QED
      BY <3>1 DEF FitsIsRead
  <2>4. CASE NoLine \/ Overrun \/ DoRequest \/ Reset
    BY <2>4 DEF NoLine, Overrun, DoRequest, Reset, FitsIsRead
  <2>5. CASE UNCHANGED vars
    <3>1. Overlong(request.bytes)' = Overlong(request.bytes)
      BY <2>5 DEF vars, clientVars, Overlong, Length
    <3> QED
      BY <1>2, <2>5, <3>1 DEF vars, clientVars, FitsIsRead
  <2> QED
    BY <1>2, <2>1, <2>2, <2>3, <2>4, <2>5 DEF Next
<1> QED
  BY <1>1, <1>2, InvAlways, PTL DEF Spec
-----------------------------------------------------------------------------
(***************************************************************************)
(* The form parser.  Items is a recursive function of the place where it     *)
(* goes on, which moves forward: such a function exists, and it is the items *)
(* of one part after another.                                                *)
(***************************************************************************)
FormUpTo(D, m, stop, next, fin, g, n) ==
    \A x \in D : m[x] <= n => g[x] = IF x \in stop THEN <<>> ELSE <<fin[x]>> \o g[next[x]]

LEMMA FormsAgree ==
  ASSUME NEW D, NEW m \in [D -> Nat], NEW stop, NEW next \in [D -> D], NEW fin,
         \A x \in D \ stop : m[next[x]] < m[x],
         NEW g, NEW h, NEW n \in Nat,
         FormUpTo(D, m, stop, next, fin, g, n),
         FormUpTo(D, m, stop, next, fin, h, n),
         NEW x \in D, m[x] <= n
  PROVE  g[x] = h[x]
<1> DEFINE Bad == {k \in Nat : \E y \in D : m[y] = k /\ k <= n /\ g[y] # h[y]}
<1>1. SUFFICES ASSUME Bad # {} PROVE FALSE
  BY <1>1
<1>2. PICK k \in Bad : \A j \in Bad : k <= j
  BY <1>1, MinIsLeast
<1>3. PICK y \in D : m[y] = k /\ k <= n /\ g[y] # h[y]
  BY <1>2
<1>4. /\ y \notin stop
      /\ g[y] = <<fin[y]>> \o g[next[y]] /\ h[y] = <<fin[y]>> \o h[next[y]]
  BY <1>3 DEF FormUpTo
<1>5. next[y] \in D /\ m[next[y]] \in Nat /\ m[next[y]] < k /\ k \in Nat
  BY <1>3, <1>4
<1>6. m[next[y]] \in Bad
  BY <1>3, <1>4, <1>5
<1> QED
  BY <1>2, <1>5, <1>6

LEMMA FormsExist ==
  ASSUME NEW D, NEW m \in [D -> Nat], NEW stop, NEW next \in [D -> D], NEW fin,
         \A x \in D \ stop : m[next[x]] < m[x],
         NEW n \in Nat
  PROVE  \E g : FormUpTo(D, m, stop, next, fin, g, n)
<1> DEFINE Bad == {k \in Nat : ~ \E g : FormUpTo(D, m, stop, next, fin, g, k)}
<1>1. SUFFICES ASSUME Bad # {} PROVE FALSE
  BY <1>1
<1>2. PICK k \in Bad : \A j \in Bad : k <= j
  BY <1>1, MinIsLeast
<1>3. CASE k = 0
  <2> DEFINE g == [x \in D |-> <<>>]
  <2>1. ASSUME NEW x \in D, m[x] <= 0 PROVE x \in stop
    <3>1. m[x] \in Nat /\ (x \notin stop => m[next[x]] \in Nat /\ m[next[x]] < m[x])
      OBVIOUS
    <3> QED
      BY <2>1, <3>1
  <2>2. FormUpTo(D, m, stop, next, fin, g, 0)
    BY <2>1 DEF FormUpTo
  <2> QED
    BY <1>2, <1>3, <2>2
<1>4. CASE k # 0
  <2>1. k - 1 \in Nat /\ k - 1 \notin Bad
    BY <1>2, <1>4
  <2>2. PICK g : FormUpTo(D, m, stop, next, fin, g, k - 1)
    BY <2>1
  <2> DEFINE h == [x \in D |-> IF x \in stop THEN <<>> ELSE <<fin[x]>> \o g[next[x]]]
  <2>3. ASSUME NEW x \in D, m[x] <= k
        PROVE  h[x] = IF x \in stop THEN <<>> ELSE <<fin[x]>> \o h[next[x]]
    <3>1. CASE x \in stop
      BY <3>1
    <3>2. CASE x \notin stop
      <4>1. next[x] \in D /\ m[next[x]] \in Nat /\ m[x] \in Nat /\ m[next[x]] < m[x]
        BY <3>2
      <4>2. m[next[x]] <= k - 1
        BY <4>1, <2>3, <2>1
      <4>3. g[next[x]] = IF next[x] \in stop THEN <<>>
                         ELSE <<fin[next[x]]>> \o g[next[next[x]]]
        BY <2>2, <4>1, <4>2 DEF FormUpTo
      <4>4. h[next[x]] = g[next[x]]
        BY <4>1, <4>3
      <4> QED
        BY <3>2, <4>4
    <3> QED
      BY <3>1, <3>2
  <2>4. FormUpTo(D, m, stop, next, fin, h, k)
    BY <2>3 DEF FormUpTo
  <2> QED
    BY <1>2, <2>4
<1> QED
  BY <1>3, <1>4

FormSolves(D, stop, next, fin, f) ==
    f = [x \in D |-> IF x \in stop THEN <<>> ELSE <<fin[x]>> \o f[next[x]]]

LEMMA FormRecursion ==
  ASSUME NEW D, NEW m \in [D -> Nat], NEW stop, NEW next \in [D -> D], NEW fin,
         \A x \in D \ stop : m[next[x]] < m[x]
  PROVE  \E f : FormSolves(D, stop, next, fin, f)
<1> DEFINE G(n) == CHOOSE g : FormUpTo(D, m, stop, next, fin, g, n)
           f == [x \in D |-> G(m[x])[x]]
<1>1. \A n \in Nat : FormUpTo(D, m, stop, next, fin, G(n), n)
  BY FormsExist
<1> HIDE DEF G
<1>2. ASSUME NEW x \in D
      PROVE  f[x] = IF x \in stop THEN <<>> ELSE <<fin[x]>> \o f[next[x]]
  <2>1. m[x] \in Nat /\ FormUpTo(D, m, stop, next, fin, G(m[x]), m[x])
    BY <1>1
  <2>2. G(m[x])[x] = IF x \in stop THEN <<>> ELSE <<fin[x]>> \o G(m[x])[next[x]]
    BY <2>1 DEF FormUpTo
  <2>3. CASE x \in stop
    BY <2>2, <2>3
  <2>4. CASE x \notin stop
    <3> DEFINE y == next[x]
    <3>1. y \in D /\ m[y] \in Nat /\ m[y] < m[x]
      BY <2>4
    <3>2. FormUpTo(D, m, stop, next, fin, G(m[y]), m[y])
      BY <1>1, <3>1
    <3>3. FormUpTo(D, m, stop, next, fin, G(m[x]), m[y])
      <4>1. \A z \in D : m[z] \in Nat
        OBVIOUS
      <4> HIDE DEF y
      <4>2. \A z \in D : m[z] <= m[y] => m[z] <= m[x]
        BY <4>1, <3>1, <2>1
      <4> QED
        BY <2>1, <4>2 DEF FormUpTo
    <3>4. G(m[x])[y] = G(m[y])[y]
      <4> HIDE DEF y
      <4> QED
        BY <3>1, <3>2, <3>3, FormsAgree
    <3> QED
      BY <2>2, <2>4, <3>1, <3>4
  <2> QED
    BY <2>3, <2>4
<1>3. FormSolves(D, stop, next, fin, f)
  <2> HIDE DEF f
  <2>1. f = [x \in D |-> f[x]]
    BY DEF f
  <2> QED
    BY <1>2, <2>1 DEF FormSolves
<1> QED
  BY <1>3
-----------------------------------------------------------------------------
(* Lines: where one ends, and that every step of the parser is forward.       *)
LEMMA LineFeedsAre ==
  ASSUME NEW d \in Seq(STRING), NEW pos \in Nat
  PROVE  /\ LineFeeds(d, pos) \in SUBSET Nat
         /\ \A i \in LineFeeds(d, pos) : pos <= i /\ i + 1 <= Len(d) /\ d[i + 1] = "LF"
         /\ \A i \in Nat : pos <= i /\ i + 1 <= Len(d) /\ d[i + 1] = "LF"
               => i \in LineFeeds(d, pos)
  BY DEF LineFeeds

NoFeed(d, pos, e) == \A i \in Nat : pos <= i /\ i < e => d[i + 1] # "LF"

LEMMA OpenLine ==
  ASSUME NEW d \in Seq(STRING), NEW pos \in Nat, pos <= Len(d), NoFeed(d, pos, Len(d))
  PROVE  /\ NextLine(d, pos).start = pos
         /\ NextLine(d, pos).len = Len(d) - pos
         /\ NextLine(d, pos).next = Len(d)
<1>1. LineFeeds(d, pos) = {}
  BY LineFeedsAre DEF NoFeed
<1> QED
  BY <1>1 DEF NextLine

LEMMA EndedLine ==
  ASSUME NEW d \in Seq(STRING), NEW pos \in Nat, NEW e \in Nat,
         pos < e, e + 1 <= Len(d), d[e + 1] = "LF", d[e] = "CR", NoFeed(d, pos, e)
  PROVE  /\ NextLine(d, pos).start = pos
         /\ NextLine(d, pos).len = e - pos - 1
         /\ NextLine(d, pos).next = e + 1
<1>1. LineFeeds(d, pos) \in SUBSET Nat /\ e \in LineFeeds(d, pos)
  BY LineFeedsAre
<1>2. ASSUME NEW i \in LineFeeds(d, pos) PROVE e <= i
  BY <1>1, LineFeedsAre DEF NoFeed
<1>3. Min(LineFeeds(d, pos)) = e
  BY <1>1, <1>2, LeastIsMin
<1> QED
  BY <1>1, <1>3 DEF NextLine

LEMMA LineGoesOn ==
  ASSUME NEW d \in Seq(STRING), NEW pos \in Nat, pos < Len(d)
  PROVE  NextLine(d, pos).next \in (pos + 1)..Len(d)
<1>1. CASE LineFeeds(d, pos) = {}
  BY <1>1 DEF NextLine
<1>2. CASE LineFeeds(d, pos) # {}
  <2>1. LineFeeds(d, pos) \in SUBSET Nat
    BY LineFeedsAre
  <2>2. Min(LineFeeds(d, pos)) \in LineFeeds(d, pos)
    BY <1>2, <2>1, MinIsLeast
  <2>3. NextLine(d, pos).next = Min(LineFeeds(d, pos)) + 1
    BY <1>2 DEF NextLine
  <2> QED
    BY <2>1, <2>2, <2>3, LineFeedsAre
<1> QED
  BY <1>1, <1>2

LEMMA StartsAre ==
  ASSUME NEW d \in Seq(STRING), NEW pos \in Nat
  PROVE  /\ LineStarts(d, pos) \in SUBSET Nat
         /\ \A s \in LineStarts(d, pos) : pos <= s /\ s < Len(d) /\ (s = pos \/ d[s] = "LF")
         /\ \A s \in Nat : pos <= s /\ s < Len(d) /\ (s = pos \/ d[s] = "LF")
               => s \in LineStarts(d, pos)
  BY DEF LineStarts

LEMMA HeaderGoesOn ==
  ASSUME NEW d \in Seq(STRING), NEW pos \in Nat, pos <= Len(d)
  PROVE  /\ HeaderEnd(d, pos) \in pos..Len(d)
         /\ HeaderEnd(d, pos) # Len(d) => pos < HeaderEnd(d, pos)
<1> DEFINE blank == {s \in LineStarts(d, pos) : NextLine(d, s).len = 0}
<1>1. HeaderEnd(d, pos) = IF blank = {} THEN Len(d) ELSE NextLine(d, Min(blank)).next
  BY DEF HeaderEnd
<1>2. blank \in SUBSET Nat /\ \A s \in blank : pos <= s /\ s < Len(d)
  BY StartsAre
<1> HIDE DEF blank
<1>3. CASE blank = {}
  BY <1>1, <1>3
<1>4. CASE blank # {}
  <2>1. Min(blank) \in blank
    BY <1>2, <1>4, MinIsLeast
  <2>2. Min(blank) \in Nat /\ pos <= Min(blank) /\ Min(blank) < Len(d)
    BY <1>2, <2>1
  <2>3. NextLine(d, Min(blank)).next \in (Min(blank) + 1)..Len(d)
    BY <2>2, LineGoesOn
  <2> QED
    BY <1>1, <1>4, <2>2, <2>3
<1> QED
  BY <1>3, <1>4

LEMMA BoundaryGoesOn ==
  ASSUME NEW d \in Seq(STRING), NEW b, NEW pos \in Nat, pos <= Len(d)
  PROVE  BoundaryFrom(d, b, pos) \in pos..Len(d)
<1> DEFINE S == {s \in LineStarts(d, pos) : AtBoundaryLine(d, b, s)} \cup {Len(d)}
<1>1. S \in SUBSET Nat /\ S # {} /\ \A s \in S : pos <= s /\ s <= Len(d)
  BY StartsAre
<1>2. BoundaryFrom(d, b, pos) = Min(S)
  BY DEF BoundaryFrom
<1> HIDE DEF S
<1>3. Min(S) \in S
  BY <1>1, MinIsLeast
<1>4. Min(S) \in Nat /\ pos <= Min(S) /\ Min(S) <= Len(d)
  BY <1>1, <1>3
<1> QED
  BY <1>2, <1>4

LEMMA BehindGoesOn ==
  ASSUME NEW d \in Seq(STRING), NEW b, NEW s \in Nat, s <= Len(d)
  PROVE  Behind(d, b, s) \in s..Len(d)
<1>1. CASE s = Len(d) \/ AtLastBoundary(d, b, s)
  BY <1>1 DEF Behind
<1>2. CASE ~(s = Len(d) \/ AtLastBoundary(d, b, s))
  BY <1>2, LineGoesOn DEF Behind
<1> QED
  BY <1>1, <1>2

(* What Items is: the item at a place, and those behind it.                    *)
ItemsTurn(d, b, f) ==
    \A pos \in 0..Len(d) :
        LET s == HeaderEnd(d, pos) IN
        f[pos] = IF s = Len(d) THEN <<>>
                 ELSE <<Item(d, b, s, FileName(d, pos))>>
                          \o f[Behind(d, b, BoundaryFrom(d, b, s))]

LEMMA ItemsAre ==
  ASSUME NEW d \in Seq(STRING), NEW b
  PROVE  \E f : ItemsTurn(d, b, f) /\ Items(d, b) = f[Behind(d, b, BoundaryFrom(d, b, 0))]
<1> DEFINE D == 0..Len(d)
           Turn(f) == [pos \in 0..Len(d) |->
             LET s == HeaderEnd(d, pos) IN
             IF s = Len(d) THEN <<>>
             ELSE <<Item(d, b, s, FileName(d, pos))>>
                      \o f[Behind(d, b, BoundaryFrom(d, b, s))]]
           stop == {pos \in D : HeaderEnd(d, pos) = Len(d)}
           next == [pos \in D |-> Behind(d, b, BoundaryFrom(d, b, HeaderEnd(d, pos)))]
           fin == [pos \in D |-> Item(d, b, HeaderEnd(d, pos), FileName(d, pos))]
           m == [pos \in D |-> Len(d) - pos]
           from == CHOOSE f : f = Turn(f)
<1>1. ASSUME NEW pos \in D
      PROVE  /\ next[pos] \in D /\ m[pos] \in Nat
             /\ pos \notin stop => m[next[pos]] < m[pos]
  <2>1. pos \in Nat /\ pos <= Len(d) /\ Len(d) \in Nat
    OBVIOUS
  <2>2. /\ HeaderEnd(d, pos) \in pos..Len(d)
        /\ HeaderEnd(d, pos) # Len(d) => pos < HeaderEnd(d, pos)
    BY <2>1, HeaderGoesOn
  <2>3. BoundaryFrom(d, b, HeaderEnd(d, pos)) \in HeaderEnd(d, pos)..Len(d)
    BY <2>1, <2>2, BoundaryGoesOn
  <2>4. Behind(d, b, BoundaryFrom(d, b, HeaderEnd(d, pos)))
          \in BoundaryFrom(d, b, HeaderEnd(d, pos))..Len(d)
    BY <2>1, <2>2, <2>3, BehindGoesOn
  <2> QED
    BY <2>1, <2>2, <2>3, <2>4
<1>2. /\ m \in [D -> Nat] /\ next \in [D -> D]
      /\ \A x \in D \ stop : m[next[x]] < m[x]
  BY <1>1
<1>3. \E f : FormSolves(D, stop, next, fin, f)
  <2> HIDE DEF m, next, stop, fin, D
  <2> QED
    BY <1>2, FormRecursion
<1>4. ASSUME NEW f
      PROVE  FormSolves(D, stop, next, fin, f) => f = Turn(f)
  <2>1. [x \in D |-> IF x \in stop THEN <<>> ELSE <<fin[x]>> \o f[next[x]]] = Turn(f)
    OBVIOUS
  <2> QED
    BY <2>1 DEF FormSolves
<1>5. \E f : f = Turn(f)
  <2> HIDE DEF Turn, stop, fin, next, D
  <2> QED
    BY <1>3, <1>4
<1>6. from = Turn(from)
  <2> HIDE DEF Turn
  <2> QED
    BY <1>5
<1>7. Items(d, b) = from[Behind(d, b, BoundaryFrom(d, b, 0))]
  BY DEF Items
<1> HIDE DEF from
<1>8. ItemsTurn(d, b, from)
  BY <1>6 DEF ItemsTurn
<1> QED
  BY <1>7, <1>8
-----------------------------------------------------------------------------
(* A form: its tokens, and the places of its boundaries.                      *)
LEMMA FormTypes ==
  ASSUME NEW d, NEW b, NEW parts, NEW at, IsForm(d, b, parts, at)
  PROVE  /\ Len(parts) \in Nat /\ b \notin {"CR", "LF"} /\ at[1] = 0
         /\ \A i \in 1..(Len(parts) + 1) : at[i] \in Nat
         /\ \A i \in 1..Len(parts) :
               /\ parts[i].text \in Seq(STRING) /\ Len(parts[i].text) \in Nat
               /\ parts[i].file \in {"NAME", "FILE"}
               /\ at[i + 1] = at[i] + Len(parts[i].text) + 10
<1>1. /\ parts \in Seq([file : {"NAME", "FILE"}, text : Seq(STRING)])
      /\ at \in [1..(Len(parts) + 1) -> Nat] /\ at[1] = 0 /\ b \notin {"CR", "LF"}
  BY DEF IsForm, Dispositions
<1>2. Len(parts) \in Nat
  BY <1>1
<1>3. ASSUME NEW i \in 1..Len(parts)
      PROVE  /\ parts[i].text \in Seq(STRING) /\ Len(parts[i].text) \in Nat
             /\ parts[i].file \in {"NAME", "FILE"}
  <2>1. parts[i] \in [file : {"NAME", "FILE"}, text : Seq(STRING)]
    BY <1>1, ElementOfSeq
  <2>2. parts[i].text \in Seq(STRING) /\ parts[i].file \in {"NAME", "FILE"}
    BY <2>1
  <2> QED
    BY <2>2
<1>4. ASSUME NEW i \in 1..Len(parts) PROVE at[i + 1] = at[i] + Len(parts[i].text) + 10
  <2>1. at[i + 1] = at[i] + 8 + Len(parts[i].text) + 2
    BY DEF IsForm
  <2>2. i \in 1..(Len(parts) + 1)
    BY <1>2
  <2>3. at[i] \in Nat /\ Len(parts[i].text) \in Nat
    BY <1>1, <1>3, <2>2
  <2> QED
    BY <2>1, <2>3
<1> QED
  BY <1>1, <1>2, <1>3, <1>4

LEMMA AtGrows ==
  ASSUME NEW d, NEW b, NEW parts, NEW at, IsForm(d, b, parts, at),
         NEW i \in 1..(Len(parts) + 1), NEW j \in 1..(Len(parts) + 1), i < j
  PROVE  at[i] + 10 <= at[j]
<1> DEFINE Bad == {k \in 1..(Len(parts) + 1) : i < k /\ ~(at[i] + 10 <= at[k])}
<1>0. /\ Len(parts) \in Nat /\ \A k \in 1..(Len(parts) + 1) : at[k] \in Nat
      /\ \A k \in 1..Len(parts) : Len(parts[k].text) \in Nat
                                  /\ at[k + 1] = at[k] + Len(parts[k].text) + 10
  BY FormTypes
<1>1. SUFFICES ASSUME Bad # {} PROVE FALSE
  BY <1>1
<1>2. PICK k \in Bad : \A h \in Bad : k <= h
  <2>1. Bad \in SUBSET Nat
    BY <1>0
  <2> QED
    BY <1>1, <2>1, MinIsLeast
<1>3. k \in 1..(Len(parts) + 1) /\ i < k /\ ~(at[i] + 10 <= at[k])
  OBVIOUS
<1> HIDE DEF Bad
<1>4. k - 1 \in 1..Len(parts) /\ k - 1 \in 1..(Len(parts) + 1) /\ (k - 1) + 1 = k
  BY <1>0, <1>3
<1>5. /\ at[k] = at[k - 1] + Len(parts[k - 1].text) + 10
      /\ Len(parts[k - 1].text) \in Nat /\ at[k - 1] \in Nat /\ at[i] \in Nat
  BY <1>0, <1>4
<1>6. i # k - 1
  BY <1>3, <1>5
<1>7. at[i] + 10 <= at[k - 1]
  <2>1. i < k - 1
    BY <1>0, <1>3, <1>4, <1>6
  <2>2. k - 1 \notin Bad
    BY <1>2, <1>3, <1>4
  <2> QED
    BY <1>4, <2>1, <2>2 DEF Bad
<1>8. PICK u, v, w, t \in Nat : /\ u = at[i] /\ v = at[k - 1] /\ w = at[k]
                               /\ t = Len(parts[k - 1].text)
  BY <1>0, <1>3, <1>5
<1>9. ~(u + 10 <= w) /\ w = v + t + 10 /\ u + 10 <= v
  BY <1>3, <1>5, <1>7, <1>8
<1> QED
  BY <1>9

LEMMA PartTokens ==
  ASSUME NEW d \in Seq(STRING), NEW b, NEW parts, NEW at, IsForm(d, b, parts, at),
         NEW i \in 1..Len(parts), NEW p, p = at[i], NEW t, t = Len(parts[i].text)
  PROVE  /\ p + 1 <= Len(d) => d[p + 1] = b
         /\ p + 2 <= Len(d) => d[p + 2] = "CR"
         /\ p + 3 <= Len(d) => d[p + 3] = "LF"
         /\ p + 4 <= Len(d) => d[p + 4] = parts[i].file
         /\ p + 5 <= Len(d) => d[p + 5] = "CR"
         /\ p + 6 <= Len(d) => d[p + 6] = "LF"
         /\ p + 7 <= Len(d) => d[p + 7] = "CR"
         /\ p + 8 <= Len(d) => d[p + 8] = "LF"
         /\ \A k \in 1..t : p + 8 + k <= Len(d) => d[p + 8 + k] = parts[i].text[k]
         /\ p + t + 9 <= Len(d) => d[p + t + 9] = "CR"
         /\ p + t + 10 <= Len(d) => d[p + t + 10] = "LF"
<1>1. p \in Nat /\ t \in Nat /\ i \in 1..(Len(parts) + 1)
  BY FormTypes
<1>2. /\ Stands(d, p, <<b, "CR", "LF", parts[i].file, "CR", "LF", "CR", "LF">>)
      /\ Stands(d, p + 8, parts[i].text)
      /\ Stands(d, p + 8 + t, <<"CR", "LF">>)
  BY DEF IsForm
<1>3. ASSUME NEW k \in 1..8, p + k <= Len(d)
      PROVE  d[p + k] = <<b, "CR", "LF", parts[i].file, "CR", "LF", "CR", "LF">>[k]
  BY <1>2, <1>3 DEF Stands
<1>4. ASSUME NEW k \in 1..t, p + 8 + k <= Len(d) PROVE d[p + 8 + k] = parts[i].text[k]
  BY <1>2, <1>4 DEF Stands
<1>5. ASSUME NEW k \in 1..2, p + 8 + t + k <= Len(d)
      PROVE  d[p + 8 + t + k] = <<"CR", "LF">>[k]
  BY <1>2, <1>5 DEF Stands
<1>6. p + 8 + t + 1 = p + t + 9 /\ p + 8 + t + 2 = p + t + 10
  BY <1>1
<1> QED
  BY <1>3, <1>4, <1>5, <1>6

LEMMA LastTokens ==
  ASSUME NEW d \in Seq(STRING), NEW b, NEW parts, NEW at, IsForm(d, b, parts, at),
         NEW p, p = at[Len(parts) + 1]
  PROVE  /\ p + 1 <= Len(d) => d[p + 1] = b
         /\ p + 2 <= Len(d) => d[p + 2] = "--"
         /\ p + 3 <= Len(d) => d[p + 3] = "CR"
         /\ p + 4 <= Len(d) => d[p + 4] = "LF"
<1>1. Stands(d, p, <<b, "--", "CR", "LF">>)
  BY DEF IsForm
<1>2. ASSUME NEW k \in 1..4, p + k <= Len(d)
      PROVE  d[p + k] = <<b, "--", "CR", "LF">>[k]
  BY <1>1, <1>2 DEF Stands
<1> QED
  BY <1>2
-----------------------------------------------------------------------------
(* Short lines.                                                              *)
LEMMA TextIs ==
  ASSUME NEW d \in Seq(STRING), NEW s \in Nat, NEW l \in Nat, s + l <= Len(d),
         NextLine(d, s).len = l
  PROVE  /\ l = 0 => Text(d, s) = <<>>
         /\ l = 1 => Text(d, s) = <<d[s + 1]>>
         /\ l = 2 => Text(d, s) = <<d[s + 1], d[s + 2]>>
         /\ Len(Text(d, s)) = l
<1>1. Text(d, s) = SubSeq(d, s + 1, s + l)
  BY DEF Text
<1>2. /\ SubSeq(d, s + 1, s + l) \in Seq(STRING) /\ Len(SubSeq(d, s + 1, s + l)) = l
      /\ \A k \in 1..l : SubSeq(d, s + 1, s + l)[k] = d[s + k]
  OBVIOUS
<1> DEFINE q == SubSeq(d, s + 1, s + l)
<1>3. q \in Seq(STRING) /\ Len(q) = l /\ \A k \in 1..l : q[k] = d[s + k]
  BY <1>2
<1> HIDE DEF q
<1>4. l = 0 => q = <<>>
  BY <1>3
<1>5. ASSUME l = 1 PROVE q = <<d[s + 1]>>
  <2>1. q = <<q[1]>>
    BY <1>3, <1>5, OneToken
  <2> QED
    BY <1>3, <1>5, <2>1
<1>6. ASSUME l = 2 PROVE q = <<d[s + 1], d[s + 2]>>
  <2>1. d[s + 1] \in STRING /\ d[s + 2] \in STRING
    BY <1>6, ElementOfSeq
  <2>2. /\ <<d[s + 1], d[s + 2]>> \in Seq(STRING) /\ Len(<<d[s + 1], d[s + 2]>>) = 2
        /\ \A k \in 1..2 : <<d[s + 1], d[s + 2]>>[k] = d[s + k]
    BY <2>1
  <2> QED
    BY <1>3, <1>6, <2>2, SeqEqual
<1> QED
  BY <1>1, <1>3, <1>4, <1>5, <1>6 DEF q

(* A boundary of the form is a line, unless the body ends within it; behind   *)
(* it comes a part, or nothing that the parser looks at.                       *)
Found(d, b, at, i) == at[i] < Len(d) /\ AtBoundaryLine(d, b, at[i])

LEMMA PartFound ==
  ASSUME NEW d \in Seq(STRING), NEW b, NEW parts, NEW at, IsForm(d, b, parts, at),
         NEW i \in 1..Len(parts), NEW p, p = at[i]
  PROVE  /\ Found(d, b, at, i) <=> Len(d) = p + 1 \/ Len(d) >= p + 3
         /\ Len(d) = p + 1 => Behind(d, b, p) = Len(d)
         /\ Len(d) >= p + 3 => Behind(d, b, p) = p + 3
<1>1. p \in Nat /\ i \in 1..(Len(parts) + 1) /\ Len(d) \in Nat /\ b \notin {"CR", "LF"}
  BY FormTypes
<1>2. /\ p + 1 <= Len(d) => d[p + 1] = b
      /\ p + 2 <= Len(d) => d[p + 2] = "CR"
      /\ p + 3 <= Len(d) => d[p + 3] = "LF"
  <2>1. PICK t : t = Len(parts[i].text)
    OBVIOUS
  <2> QED
    BY <2>1, PartTokens
<1>3. CASE Len(d) <= p
  BY <1>1, <1>3 DEF Found
<1>4. CASE Len(d) = p + 1
  <2>1. NoFeed(d, p, Len(d))
    <3>1. ASSUME NEW k \in Nat, p <= k, k < Len(d) PROVE k = p
      BY <1>1, <1>4, <3>1
    <3> QED
      BY <1>1, <1>2, <1>4, <3>1 DEF NoFeed
  <2>2. p <= Len(d) /\ p + 1 <= Len(d)
    BY <1>1, <1>4
  <2>3. NextLine(d, p).len = Len(d) - p /\ NextLine(d, p).next = Len(d)
    BY <1>1, <2>1, <2>2, OpenLine
  <2>4. NextLine(d, p).len = 1
    BY <1>1, <1>4, <2>3
  <2>5. Text(d, p) = <<b>>
    BY <1>1, <1>2, <2>2, <2>4, TextIs
  <2> QED
    BY <1>1, <1>4, <2>3, <2>5 DEF Found, AtBoundaryLine, Behind
<1>5. CASE Len(d) = p + 2
  <2>1. NoFeed(d, p, Len(d))
    <3>1. ASSUME NEW k \in Nat, p <= k, k < Len(d) PROVE k = p \/ k = p + 1
      BY <1>1, <1>5, <3>1
    <3>2. d[p + 1] # "LF" /\ d[(p + 1) + 1] # "LF"
      BY <1>1, <1>2, <1>5
    <3> QED
      BY <3>1, <3>2 DEF NoFeed
  <2>2. p <= Len(d) /\ p + 2 <= Len(d)
    BY <1>1, <1>5
  <2>3. NextLine(d, p).len = 2
    <3>1. NextLine(d, p).len = Len(d) - p
      BY <1>1, <2>1, <2>2, OpenLine
    <3> QED
      BY <1>1, <1>5, <3>1
  <2>4. Len(Text(d, p)) = 2 /\ Text(d, p) = <<d[p + 1], d[p + 2]>>
    BY <1>1, <2>2, <2>3, TextIs
  <2>5. d[p + 2] = "CR"
    BY <1>2, <2>2
  <2>6. ~AtBoundaryLine(d, b, p)
    BY <2>4, <2>5 DEF AtBoundaryLine, AtLastBoundary
  <2> QED
    BY <1>1, <1>5, <2>6 DEF Found
<1>6. CASE Len(d) >= p + 3
  <2> DEFINE e == p + 2
  <2>1. NoFeed(d, p, e)
    <3>1. ASSUME NEW k \in Nat, p <= k, k < e PROVE k = p \/ k = p + 1
      BY <1>1, <3>1
    <3>2. d[p + 1] # "LF" /\ d[(p + 1) + 1] # "LF"
      BY <1>1, <1>2, <1>6
    <3> QED
      BY <3>1, <3>2 DEF NoFeed
  <2>2. e \in Nat /\ p < e /\ e + 1 <= Len(d) /\ d[e + 1] = "LF" /\ d[e] = "CR"
    BY <1>1, <1>2, <1>6
  <2> HIDE DEF e
  <2>3. NextLine(d, p).len = e - p - 1 /\ NextLine(d, p).next = e + 1
    BY <1>1, <2>1, <2>2, EndedLine
  <2>4. NextLine(d, p).len = 1 /\ NextLine(d, p).next = p + 3
    BY <1>1, <2>3 DEF e
  <2>5. p + 1 <= Len(d) /\ p # Len(d) /\ p < Len(d)
    BY <1>1, <1>6
  <2>6. Text(d, p) = <<b>>
    BY <1>1, <1>2, <2>4, <2>5, TextIs
  <2>7. ~AtLastBoundary(d, b, p)
    BY <2>6 DEF AtLastBoundary
  <2> QED
    BY <1>1, <1>6, <2>4, <2>5, <2>6, <2>7 DEF Found, AtBoundaryLine, Behind
<1> QED
  BY <1>1, <1>3, <1>4, <1>5, <1>6

LEMMA LastFound ==
  ASSUME NEW d \in Seq(STRING), NEW b, NEW parts, NEW at, IsForm(d, b, parts, at),
         NEW p, p = at[Len(parts) + 1]
  PROVE  /\ Found(d, b, at, Len(parts) + 1)
               <=> Len(d) = p + 1 \/ Len(d) = p + 2 \/ Len(d) >= p + 4
         /\ Found(d, b, at, Len(parts) + 1) => Behind(d, b, p) = Len(d)
<1>1. /\ p \in Nat /\ Len(parts) + 1 \in 1..(Len(parts) + 1)
      /\ Len(d) \in Nat /\ b \notin {"CR", "LF"}
  BY FormTypes
<1>2. /\ p + 1 <= Len(d) => d[p + 1] = b
      /\ p + 2 <= Len(d) => d[p + 2] = "--"
      /\ p + 3 <= Len(d) => d[p + 3] = "CR"
      /\ p + 4 <= Len(d) => d[p + 4] = "LF"
  BY LastTokens
<1>3. CASE Len(d) <= p
  BY <1>1, <1>3 DEF Found
<1>4. CASE Len(d) \in {p + 1, p + 2, p + 3}
  <2>1. NoFeed(d, p, Len(d))
    <3>1. ASSUME NEW k \in Nat, p <= k, k < Len(d)
          PROVE  k = p \/ k = p + 1 \/ k = p + 2
      BY <1>1, <1>4, <3>1
    <3>2. d[p + 1] # "LF"
      BY <1>1, <1>2, <1>4
    <3>3. p + 2 <= Len(d) => d[(p + 1) + 1] # "LF"
      BY <1>1, <1>2
    <3>4. p + 3 <= Len(d) => d[(p + 2) + 1] # "LF"
      BY <1>1, <1>2
    <3> QED
      BY <1>1, <3>1, <3>2, <3>3, <3>4 DEF NoFeed
  <2>2. p <= Len(d)
    BY <1>1, <1>4
  <2>3. NextLine(d, p).len = Len(d) - p
    BY <1>1, <2>1, <2>2, OpenLine
  <2>4. CASE Len(d) = p + 1
    <3>1. NextLine(d, p).len = 1 /\ p + 1 <= Len(d)
      BY <1>1, <2>3, <2>4
    <3>2. Text(d, p) = <<b>>
      BY <1>1, <1>2, <3>1, TextIs
    <3>3. NextLine(d, p).next = Len(d)
      BY <1>1, <2>1, <2>2, OpenLine
    <3> QED
      BY <1>1, <2>4, <3>2, <3>3 DEF Found, AtBoundaryLine, Behind
  <2>5. CASE Len(d) = p + 2
    <3>1. NextLine(d, p).len = 2 /\ p + 2 <= Len(d) /\ p + 1 <= Len(d)
      BY <1>1, <2>3, <2>5
    <3>2. Text(d, p) = <<b, "--">>
      BY <1>1, <1>2, <3>1, TextIs
    <3> QED
      BY <1>1, <2>5, <3>2 DEF Found, AtBoundaryLine, AtLastBoundary, Behind
  <2>6. CASE Len(d) = p + 3
    <3>1. NextLine(d, p).len = 3 /\ p + 3 <= Len(d)
      BY <1>1, <2>3, <2>6
    <3>2. Len(Text(d, p)) = 3
      BY <1>1, <3>1, TextIs
    <3>3. Len(<<b>>) = 1 /\ Len(<<b, "--">>) = 2
      OBVIOUS
    <3>4. Text(d, p) # <<b>> /\ Text(d, p) # <<b, "--">>
      <4>1. 3 # 1 /\ 3 # 2
        OBVIOUS
      <4> QED
        BY <3>2, <3>3, <4>1, Zenon
    <3>5. ~AtBoundaryLine(d, b, p)
      BY <3>4 DEF AtBoundaryLine, AtLastBoundary
    <3> QED
      BY <1>1, <2>6, <3>5 DEF Found
  <2> QED
    BY <1>4, <2>4, <2>5, <2>6
<1>5. CASE Len(d) >= p + 4
  <2> DEFINE e == p + 3
  <2>1. NoFeed(d, p, e)
    <3>1. ASSUME NEW k \in Nat, p <= k, k < e
          PROVE  k = p \/ k = p + 1 \/ k = p + 2
      BY <1>1, <3>1
    <3>2. d[p + 1] # "LF"
      BY <1>1, <1>2, <1>5
    <3>3. d[(p + 1) + 1] # "LF"
      BY <1>1, <1>2, <1>5
    <3>4. d[(p + 2) + 1] # "LF"
      BY <1>1, <1>2, <1>5
    <3> QED
      BY <3>1, <3>2, <3>3, <3>4 DEF NoFeed
  <2>2. e \in Nat /\ p < e /\ e + 1 <= Len(d) /\ d[e + 1] = "LF" /\ d[e] = "CR"
    BY <1>1, <1>2, <1>5
  <2> HIDE DEF e
  <2>3. NextLine(d, p).len = e - p - 1
    BY <1>1, <2>1, <2>2, EndedLine
  <2>4. NextLine(d, p).len = 2 /\ p + 2 <= Len(d) /\ p + 1 <= Len(d)
    BY <1>1, <1>5, <2>3 DEF e
  <2>5. Text(d, p) = <<b, "--">>
    BY <1>1, <1>2, <2>4, TextIs
  <2> QED
    BY <1>1, <1>5, <2>5 DEF Found, AtBoundaryLine, AtLastBoundary, Behind
<1> QED
  BY <1>1, <1>3, <1>4, <1>5
-----------------------------------------------------------------------------
(* Where the parser looks for a boundary, it finds the next one of the form.  *)
LEMMA BoundaryIs ==
  ASSUME NEW d \in Seq(STRING), NEW b, NEW parts, NEW at, IsForm(d, b, parts, at),
         NEW i \in 1..(Len(parts) + 1), NEW s \in Nat, s <= Len(d), s <= at[i],
         s = 0 \/ d[s] = "LF",
         \A j \in 1..(Len(parts) + 1) : j < i => at[j] < s,
         at[i] = s \/ (at[i] <= Len(d) => d[at[i]] = "LF")
  PROVE  BoundaryFrom(d, b, s) = IF Found(d, b, at, i) THEN at[i] ELSE Len(d)
<1> DEFINE S == {q \in LineStarts(d, s) : AtBoundaryLine(d, b, q)} \cup {Len(d)}
<1>0. Len(parts) \in Nat /\ Len(d) \in Nat /\ \A j \in 1..(Len(parts) + 1) : at[j] \in Nat
  BY FormTypes
<1>1. BoundaryFrom(d, b, s) = Min(S)
  BY DEF BoundaryFrom
<1>2. ASSUME NEW q \in LineStarts(d, s), AtBoundaryLine(d, b, q)
      PROVE  q < Len(d) /\ \E j \in 1..(Len(parts) + 1) : q = at[j] /\ i <= j
  <2>1. q \in Nat /\ s <= q /\ q < Len(d) /\ (q = s \/ d[q] = "LF")
    BY StartsAre
  <2>2. q \in LineStarts(d, 0)
    BY <2>1, StartsAre
  <2>3. PICK j \in DOMAIN at : q = at[j]
    BY <1>2, <2>2 DEF IsForm
  <2>4. j \in 1..(Len(parts) + 1)
    BY DEF IsForm
  <2>5. ~(j < i)
    BY <1>0, <2>1, <2>3, <2>4
  <2> QED
    BY <1>0, <2>1, <2>3, <2>4, <2>5
<1>3. CASE Found(d, b, at, i)
  <2>1. at[i] \in LineStarts(d, s) /\ at[i] < Len(d) /\ AtBoundaryLine(d, b, at[i])
    BY <1>0, <1>3, StartsAre DEF Found
  <2>2. ASSUME NEW q \in S PROVE at[i] <= q
    <3>1. CASE q = Len(d)
      BY <1>0, <2>1, <3>1
    <3>2. CASE q # Len(d)
      <4>1. PICK j \in 1..(Len(parts) + 1) : q = at[j] /\ i <= j
        BY <1>2, <3>2
      <4>2. i < j => at[i] + 10 <= at[j]
        BY AtGrows
      <4> QED
        BY <1>0, <4>1, <4>2
    <3> QED
      BY <3>1, <3>2
  <2>3. S \in SUBSET Nat /\ at[i] \in S
    BY <1>0, <2>1, StartsAre
  <2> HIDE DEF S
  <2>4. Min(S) = at[i]
    BY <2>2, <2>3, LeastIsMin
  <2> QED
    BY <1>1, <1>3, <2>4
<1>4. CASE ~Found(d, b, at, i)
  <2>1. ASSUME NEW q \in LineStarts(d, s), AtBoundaryLine(d, b, q) PROVE FALSE
    <3>1. PICK j \in 1..(Len(parts) + 1) : q = at[j] /\ i <= j
      BY <1>2, <2>1
    <3>2. q < Len(d)
      BY <1>2, <2>1
    <3>3. i # j
      BY <1>4, <2>1, <3>1, <3>2 DEF Found
    <3>4. i \in 1..Len(parts) /\ at[i] + 10 <= at[j]
      <4>1. i < j /\ i \in 1..Len(parts)
        BY <1>0, <3>1, <3>3
      <4> QED
        BY <4>1, AtGrows
    <3>5. Len(d) >= at[i] + 3
      BY <1>0, <3>1, <3>2, <3>4
    <3>6. Found(d, b, at, i)
      BY <3>4, <3>5, PartFound
    <3> QED
      BY <1>4, <3>6
  <2>2. S = {Len(d)}
    BY <2>1
  <2>3. S \in SUBSET Nat /\ Len(d) \in S /\ \A q \in S : Len(d) <= q
    BY <1>0, <2>2
  <2> HIDE DEF S
  <2>4. Min(S) = Len(d)
    BY <2>3, LeastIsMin
  <2> QED
    BY <1>1, <1>4, <2>4
<1> QED
  BY <1>3, <1>4

(* The head of a part at p, as far as it is in d.                             *)
PartsHead(d, p, file) ==
    /\ file \in {"NAME", "FILE"}
    /\ p + 4 <= Len(d) => d[p + 4] = file
    /\ p + 5 <= Len(d) => d[p + 5] = "CR"
    /\ p + 6 <= Len(d) => d[p + 6] = "LF"
    /\ p + 7 <= Len(d) => d[p + 7] = "CR"
    /\ p + 8 <= Len(d) => d[p + 8] = "LF"

LEMMA PartHead ==
  ASSUME NEW d \in Seq(STRING), NEW b, NEW parts, NEW at, IsForm(d, b, parts, at),
         NEW i \in 1..Len(parts), NEW p, p = at[i]
  PROVE  p \in Nat /\ PartsHead(d, p, parts[i].file)
<1>1. p \in Nat
  <2>1. i \in 1..(Len(parts) + 1)
    BY FormTypes
  <2> QED
    BY <2>1, FormTypes
<1>2. parts[i].file \in {"NAME", "FILE"}
  BY FormTypes
<1>3. PICK t : t = Len(parts[i].text)
  OBVIOUS
<1>4. /\ p + 4 <= Len(d) => d[p + 4] = parts[i].file
      /\ p + 5 <= Len(d) => d[p + 5] = "CR"
      /\ p + 6 <= Len(d) => d[p + 6] = "LF"
      /\ p + 7 <= Len(d) => d[p + 7] = "CR"
      /\ p + 8 <= Len(d) => d[p + 8] = "LF"
  BY <1>3, PartTokens
<1> QED
  BY <1>1, <1>2, <1>4 DEF PartsHead

(* The head of a part has two lines, of which the second is empty.            *)
LEMMA HeadLines ==
  ASSUME NEW d \in Seq(STRING), NEW p \in Nat, NEW file, PartsHead(d, p, file), p + 3 <= Len(d)
  PROVE  /\ \A s \in LineStarts(d, p + 3) :
               s \in Nat /\ s < Len(d) /\ (s = p + 3 \/ s = p + 6 \/ s >= p + 8)
         /\ p + 3 < Len(d) => p + 3 \in LineStarts(d, p + 3) /\ NextLine(d, p + 3).len # 0
         /\ p + 6 <= Len(d) => NextLine(d, p + 3).len = 1
         /\ p + 7 = Len(d) => NextLine(d, p + 6).len # 0
         /\ p + 8 <= Len(d) => /\ p + 6 \in LineStarts(d, p + 3)
                               /\ NextLine(d, p + 6).len = 0
                               /\ NextLine(d, p + 6).next = p + 8
<1>1. p \in Nat /\ Len(d) \in Nat
  OBVIOUS
<1>2. /\ p + 4 <= Len(d) => d[p + 4] # "LF"
      /\ p + 5 <= Len(d) => d[p + 5] = "CR"
      /\ p + 6 <= Len(d) => d[p + 6] = "LF"
      /\ p + 7 <= Len(d) => d[p + 7] = "CR"
      /\ p + 8 <= Len(d) => d[p + 8] = "LF"
  BY DEF PartsHead
<1>3. ASSUME NEW s \in LineStarts(d, p + 3)
      PROVE  s \in Nat /\ s < Len(d) /\ (s = p + 3 \/ s = p + 6 \/ s >= p + 8)
  <2>1. s \in Nat /\ p + 3 <= s /\ s < Len(d) /\ (s = p + 3 \/ d[s] = "LF")
    BY <1>1, StartsAre
  <2>2. s # p + 4 /\ s # p + 5 /\ s # p + 7
    BY <1>1, <1>2, <2>1
  <2> QED
    BY <1>1, <2>1, <2>2
<1>4. p + 3 < Len(d) => p + 3 \in LineStarts(d, p + 3)
  BY <1>1, StartsAre
<1>5. ASSUME p + 6 <= Len(d) PROVE NextLine(d, p + 3).len = 1
  <2> DEFINE q == p + 3
             e == p + 5
  <2>1. NoFeed(d, q, e)
    <3>1. ASSUME NEW k \in Nat, q <= k, k < e PROVE k = p + 3 \/ k = p + 4
      BY <1>1, <3>1
    <3>2. d[(p + 3) + 1] # "LF" /\ d[(p + 4) + 1] # "LF"
      BY <1>1, <1>2, <1>5
    <3> QED
      BY <3>1, <3>2 DEF NoFeed
  <2>2. q \in Nat /\ e \in Nat /\ q < e /\ e + 1 <= Len(d) /\ d[e + 1] = "LF" /\ d[e] = "CR"
    BY <1>1, <1>2, <1>5
  <2> HIDE DEF q, e
  <2>3. NextLine(d, q).len = e - q - 1
    BY <2>1, <2>2, EndedLine
  <2> QED
    BY <1>1, <2>3 DEF q, e
<1>6. ASSUME p + 3 < Len(d), ~(p + 6 <= Len(d)) PROVE NextLine(d, p + 3).len # 0
  <2> DEFINE q == p + 3
  <2>1. NoFeed(d, q, Len(d))
    <3>1. ASSUME NEW k \in Nat, q <= k, k < Len(d) PROVE k = p + 3 \/ k = p + 4
      BY <1>1, <1>6, <3>1
    <3>2. d[(p + 3) + 1] # "LF" /\ (p + 5 <= Len(d) => d[(p + 4) + 1] # "LF")
      BY <1>1, <1>2, <1>6
    <3> QED
      BY <1>1, <3>1, <3>2 DEF NoFeed
  <2>2. q \in Nat /\ q <= Len(d) /\ Len(d) - q # 0
    BY <1>1, <1>6
  <2> HIDE DEF q
  <2>3. NextLine(d, q).len = Len(d) - q
    BY <2>1, <2>2, OpenLine
  <2> QED
    BY <2>2, <2>3 DEF q
<1>7. ASSUME p + 7 = Len(d) PROVE NextLine(d, p + 6).len # 0
  <2> DEFINE q == p + 6
  <2>1. NoFeed(d, q, Len(d))
    <3>1. ASSUME NEW k \in Nat, q <= k, k < Len(d) PROVE k = p + 6
      BY <1>1, <1>7, <3>1
    <3>2. d[(p + 6) + 1] # "LF"
      BY <1>1, <1>2, <1>7
    <3> QED
      BY <3>1, <3>2 DEF NoFeed
  <2>2. q \in Nat /\ q <= Len(d) /\ Len(d) - q # 0
    BY <1>1, <1>7
  <2> HIDE DEF q
  <2>3. NextLine(d, q).len = Len(d) - q
    BY <2>1, <2>2, OpenLine
  <2> QED
    BY <2>2, <2>3 DEF q
<1>8. ASSUME p + 8 <= Len(d)
      PROVE  /\ p + 6 \in LineStarts(d, p + 3)
             /\ NextLine(d, p + 6).len = 0 /\ NextLine(d, p + 6).next = p + 8
  <2> DEFINE q == p + 6
             e == p + 7
  <2>1. NoFeed(d, q, e)
    <3>1. ASSUME NEW k \in Nat, q <= k, k < e PROVE k = p + 6
      BY <1>1, <3>1
    <3>2. d[(p + 6) + 1] # "LF"
      BY <1>1, <1>2, <1>8
    <3> QED
      BY <3>1, <3>2 DEF NoFeed
  <2>2. q \in Nat /\ e \in Nat /\ q < e /\ e + 1 <= Len(d) /\ d[e + 1] = "LF" /\ d[e] = "CR"
    BY <1>1, <1>2, <1>8
  <2>3. p + 6 \in LineStarts(d, p + 3)
    <3>1. p + 3 <= p + 6 /\ p + 6 < Len(d) /\ d[p + 6] = "LF" /\ p + 6 \in Nat /\ p + 3 \in Nat
      BY <1>1, <1>2, <1>8
    <3> QED
      BY <3>1, StartsAre
  <2> HIDE DEF q, e
  <2>4. NextLine(d, q).len = e - q - 1 /\ NextLine(d, q).next = e + 1
    BY <2>1, <2>2, EndedLine
  <2> QED
    BY <1>1, <2>3, <2>4 DEF q, e
<1>9. p + 3 < Len(d) => NextLine(d, p + 3).len # 0
  BY <1>5, <1>6
<1> QED
  BY <1>3, <1>4, <1>5, <1>7, <1>8, <1>9

LEMMA HeaderEndIs ==
  ASSUME NEW d \in Seq(STRING), NEW p \in Nat, NEW file, PartsHead(d, p, file), p + 3 <= Len(d)
  PROVE  HeaderEnd(d, p + 3) = IF p + 8 <= Len(d) THEN p + 8 ELSE Len(d)
<1> DEFINE blank == {s \in LineStarts(d, p + 3) : NextLine(d, s).len = 0}
<1>0. p \in Nat /\ Len(d) \in Nat
  OBVIOUS
<1>1. HeaderEnd(d, p + 3) = IF blank = {} THEN Len(d) ELSE NextLine(d, Min(blank)).next
  BY DEF HeaderEnd
<1>2. \A s \in LineStarts(d, p + 3) :
          s \in Nat /\ s < Len(d) /\ (s = p + 3 \/ s = p + 6 \/ s >= p + 8)
  BY HeadLines
<1>3. p + 3 < Len(d) => NextLine(d, p + 3).len # 0
  BY HeadLines
<1>4. CASE p + 8 <= Len(d)
  <2>1. p + 6 \in blank /\ NextLine(d, p + 6).next = p + 8
    BY <1>4, HeadLines
  <2>2. ASSUME NEW s \in blank PROVE s \in Nat /\ p + 6 <= s
    <3>1. s # p + 3
      BY <1>0, <1>3, <1>4
    <3> QED
      BY <1>0, <1>2, <3>1
  <2> HIDE DEF blank
  <2>3. blank \in SUBSET Nat
    BY <2>2
  <2>4. Min(blank) = p + 6
    <3>1. \A s \in blank : p + 6 <= s
      BY <2>2
    <3> QED
      BY <2>1, <2>3, <3>1, LeastIsMin
  <2>5. blank # {}
    BY <2>1
  <2> QED
    BY <1>1, <1>4, <2>1, <2>4, <2>5
<1>5. CASE ~(p + 8 <= Len(d))
  <2>1. ASSUME NEW s \in blank PROVE FALSE
    <3>1. s \in Nat /\ s < Len(d) /\ (s = p + 3 \/ s = p + 6)
      BY <1>0, <1>2, <1>5
    <3>2. s = p + 6 => p + 7 = Len(d)
      BY <1>0, <1>5, <3>1
    <3>3. p + 7 = Len(d) => NextLine(d, p + 6).len # 0
      BY HeadLines
    <3> QED
      BY <1>3, <3>1, <3>2, <3>3
  <2>2. blank = {}
    BY <2>1
  <2> QED
    BY <1>1, <1>5, <2>2
<1> QED
  BY <1>4, <1>5

LEMMA FileNameIs ==
  ASSUME NEW d \in Seq(STRING), NEW p \in Nat, NEW file, PartsHead(d, p, file), p + 8 <= Len(d)
  PROVE  FileName(d, p + 3) = file
<1> DEFINE lines == {s \in LineStarts(d, p + 3) :
                        s < HeaderEnd(d, p + 3) /\ \E x \in Dispositions : Text(d, s) = <<x>>}
<1>0. /\ p \in Nat /\ Len(d) \in Nat /\ p + 3 <= Len(d) /\ p + 3 < Len(d)
      /\ p + 4 <= Len(d) /\ p + 6 # p + 3
  OBVIOUS
<1> file \in Dispositions
  BY DEF PartsHead, Dispositions
<1>1. HeaderEnd(d, p + 3) = p + 8
  BY <1>0, HeaderEndIs
<1>2. Text(d, p + 3) = <<file>>
  <2>1. NextLine(d, p + 3).len = 1 /\ p + 3 \in Nat /\ (p + 3) + 1 <= Len(d)
    BY <1>0, HeadLines
  <2>2. Text(d, p + 3) = <<d[(p + 3) + 1]>>
    BY <2>1, TextIs
  <2>3. d[p + 4] = file
    BY <1>0 DEF PartsHead
  <2>4. (p + 3) + 1 = p + 4
    BY <1>0
  <2> QED
    BY <2>2, <2>3, <2>4
<1>3. Text(d, p + 6) = <<>>
  <2>1. NextLine(d, p + 6).len = 0 /\ p + 6 \in Nat /\ (p + 6) + 0 <= Len(d)
    BY <1>0, HeadLines
  <2> QED
    BY <2>1, TextIs
<1>4. p + 3 \in lines
  <2>1. p + 3 \in LineStarts(d, p + 3)
    BY <1>0, HeadLines
  <2> QED
    BY <1>0, <1>1, <1>2, <2>1
<1>5. ASSUME NEW s \in lines PROVE s = p + 3
  <2>1. s \in Nat /\ (s = p + 3 \/ s = p + 6)
    <3>1. s \in Nat /\ (s = p + 3 \/ s = p + 6 \/ s >= p + 8)
      BY <1>0, HeadLines
    <3> QED
      BY <1>0, <1>1, <3>1
  <2>2. s # p + 6
    <3>1. \A x : <<>> # <<x>>
      OBVIOUS
    <3>2. Text(d, s) # <<>>
      BY <3>1
    <3> QED
      BY <1>3, <3>2
  <2> QED
    BY <2>1, <2>2
<1>6. FileName(d, p + 3) = IF lines = {} THEN "NAME" ELSE Text(d, Max(lines))[1]
  BY DEF FileName
<1> HIDE DEF lines
<1>7. lines = {p + 3} /\ lines # {}
  BY <1>4, <1>5
<1>8. Max(lines) = p + 3
  BY <1>0, <1>7 DEF Max
<1> QED
  BY <1>2, <1>6, <1>7, <1>8

(* An item is its bytes, without the line end, if the boundary is found.      *)
LEMMA ItemHas ==
  ASSUME NEW d, NEW b, NEW s, NEW file
  PROVE  Item(d, b, s, file).start = s /\ Item(d, b, s, file).file = file
  BY DEF Item

LEMMA ItemIs ==
  ASSUME NEW d \in Seq(STRING), NEW b, NEW s \in Nat, NEW file
  PROVE  /\ BoundaryFrom(d, b, s) = Len(d) => Item(d, b, s, file).len = -1
         /\ \A e \in Nat : BoundaryFrom(d, b, s) = e /\ e # Len(d) /\ d[e - 1] = "CR"
                             => Item(d, b, s, file).len = e - 2 - s
  BY DEF Item

LEMMA TextBetween ==
  ASSUME NEW d \in Seq(STRING), NEW s \in Nat, NEW t \in Nat, NEW text \in Seq(STRING),
         Len(text) = t, s + t <= Len(d), \A k \in 1..t : d[s + k] = text[k]
  PROVE  SubSeq(d, s + 1, s + t) = text
<1> DEFINE q == SubSeq(d, s + 1, s + t)
<1>1. q \in Seq(STRING) /\ Len(q) = t /\ \A k \in 1..t : q[k] = d[s + k]
  OBVIOUS
<1> HIDE DEF q
<1>2. \A k \in 1..t : q[k] = text[k]
  BY <1>1
<1>3. q = text
  BY <1>1, <1>2, SeqEqual
<1> QED
  BY <1>3 DEF q

(* The text of a part at s, and the line end behind it.                       *)
Between(d, s, text, e) ==
    /\ \A k \in 1..Len(text) : s + k <= Len(d) => d[s + k] = text[k]
    /\ e - 1 <= Len(d) => d[e - 1] = "CR"
    /\ e <= Len(d) => d[e] = "LF"

LEMMA ItemBetween ==
  ASSUME NEW d \in Seq(STRING), NEW b, NEW s \in Nat, NEW file,
         NEW text \in Seq(STRING), NEW t \in Nat, t = Len(text),
         NEW e \in Nat, e = s + t + 2, Between(d, s, text, e),
         BoundaryFrom(d, b, s) = e, e < Len(d)
  PROVE  Item(d, b, s, file).len = t /\ SubSeq(d, s + 1, s + t) = text
<1>1. e # Len(d) /\ e - 1 <= Len(d) /\ s + t <= Len(d) /\ e - 2 - s = t /\ Len(d) \in Nat
  OBVIOUS
<1>2. d[e - 1] = "CR" /\ \A k \in 1..t : s + k <= Len(d) => d[s + k] = text[k]
  BY <1>1 DEF Between
<1>3. \A k \in 1..t : d[s + k] = text[k]
  <2>1. ASSUME NEW k \in 1..t PROVE s + k <= Len(d)
    BY <1>1
  <2> QED
    BY <1>2, <2>1
<1>4. SubSeq(d, s + 1, s + t) = text
  BY <1>1, <1>3, TextBetween
<1>5. Item(d, b, s, file).len = e - 2 - s
  BY <1>1, <1>2, ItemIs
<1> QED
  BY <1>1, <1>4, <1>5

LEMMA PartEnd ==
  ASSUME NEW p \in Nat, NEW t \in Nat, NEW e, e = p + t + 10
  PROVE  e \in Nat /\ e - 1 = p + t + 9 /\ e = (p + 8) + t + 2
  OBVIOUS

LEMMA PlaceBelow ==
  ASSUME NEW p \in Nat, NEW q \in Nat, NEW s, s = p + 8
  PROVE  p < s /\ (q + 10 <= p => q < s)
  OBVIOUS

PartAt(d, p, text, e) ==
    /\ p \in Nat /\ e \in Nat /\ e = (p + 8) + Len(text) + 2
    /\ text \in Seq(STRING) /\ Len(text) \in Nat
    /\ p + 8 <= Len(d) => d[p + 8] = "LF"
    /\ Between(d, p + 8, text, e)

LEMMA PartBetween ==
  ASSUME NEW d \in Seq(STRING), NEW b, NEW parts, NEW at, IsForm(d, b, parts, at),
         NEW i \in 1..Len(parts), NEW p, p = at[i], NEW h, h = i + 1, NEW e, e = at[h],
         NEW text, text = parts[i].text
  PROVE  PartAt(d, p, text, e)
<1>1. text \in Seq(STRING) /\ Len(text) \in Nat
  BY FormTypes
<1>2. PICK t : t = Len(text)
  OBVIOUS
<1>3. p \in Nat
  BY PartHead
<1>4. e = p + t + 10
  BY <1>2, FormTypes
<1>5. /\ p + 8 <= Len(d) => d[p + 8] = "LF"
      /\ \A k \in 1..t : p + 8 + k <= Len(d) => d[p + 8 + k] = text[k]
      /\ p + t + 9 <= Len(d) => d[p + t + 9] = "CR"
      /\ p + t + 10 <= Len(d) => d[p + t + 10] = "LF"
  BY <1>2, PartTokens
<1>6. t \in Nat /\ e \in Nat /\ e - 1 = p + t + 9 /\ e = (p + 8) + t + 2
  <2>1. t \in Nat
    BY <1>1, <1>2
  <2> QED
    BY <1>3, <1>4, <2>1, PartEnd
<1>7. Between(d, p + 8, text, e)
  BY <1>2, <1>4, <1>5, <1>6 DEF Between
<1> QED
  BY <1>1, <1>2, <1>3, <1>5, <1>6, <1>7 DEF PartAt

(* From the text of a part, the next boundary of the form is found.           *)
LEMMA BoundaryOfPart ==
  ASSUME NEW d \in Seq(STRING), NEW b, NEW parts, NEW at, IsForm(d, b, parts, at),
         NEW i \in 1..Len(parts), NEW p, p = at[i], p + 8 <= Len(d), NEW h, h = i + 1,
         NEW e, e = at[h]
  PROVE  BoundaryFrom(d, b, p + 8) = IF Found(d, b, at, h) THEN e ELSE Len(d)
<1>1. PICK text : text = parts[i].text
  OBVIOUS
<1>2. /\ p \in Nat /\ e \in Nat /\ e = (p + 8) + Len(text) + 2 /\ Len(text) \in Nat
      /\ p + 8 <= Len(d) => d[p + 8] = "LF"
      /\ Between(d, p + 8, text, e)
  <2>1. PartAt(d, p, text, e)
    BY <1>1, PartBetween
  <2> QED
    BY <2>1 DEF PartAt
<1>3. Len(parts) \in Nat /\ Len(d) \in Nat
  BY FormTypes
<1>4. h \in 1..(Len(parts) + 1) /\ i \in 1..(Len(parts) + 1)
  BY <1>3
<1>5. PICK s \in Nat : s = p + 8
  BY <1>2
<1>6. s <= e /\ s <= Len(d) /\ d[s] = "LF"
  BY <1>2, <1>3, <1>5
<1>7. e <= Len(d) => d[e] = "LF"
  BY <1>2 DEF Between
<1>8. ASSUME NEW j \in 1..(Len(parts) + 1), j < h PROVE at[j] < s
  <2>1. PICK q : q = at[j]
    OBVIOUS
  <2>2. q \in Nat
    BY <2>1, FormTypes
  <2>3. j < i => q + 10 <= p
    BY <1>4, <2>1, AtGrows
  <2>4. j < i \/ j = i
    BY <1>3, <1>8
  <2>5. j = i => q = p
    BY <2>1
  <2>6. p < s /\ (q + 10 <= p => q < s)
    <3>1. p \in Nat
      BY <1>2
    <3> QED
      BY <1>5, <2>2, <3>1, PlaceBelow
  <2>7. q < s
    BY <2>3, <2>4, <2>5, <2>6
  <2> QED
    BY <2>1, <2>7
<1>9. s <= at[h] /\ (at[h] <= Len(d) => d[at[h]] = "LF")
  BY <1>6, <1>7
<1>10. BoundaryFrom(d, b, s) = IF Found(d, b, at, h) THEN at[h] ELSE Len(d)
  BY <1>4, <1>6, <1>8, <1>9, BoundaryIs
<1> QED
  BY <1>5, <1>10

(* The item of a part: its bytes, if the boundary behind it is there.         *)
HasText(d, x, text) ==
    x.len = Len(text) /\ SubSeq(d, x.start + 1, x.start + x.len) = text

LEMMA ItemOfPart ==
  ASSUME NEW d \in Seq(STRING), NEW b, NEW parts, NEW at, IsForm(d, b, parts, at),
         NEW i \in 1..Len(parts), NEW p \in Nat, p = at[i], p + 8 <= Len(d),
         NEW h, h = i + 1, NEW file, Found(d, b, at, h)
  PROVE  HasText(d, Item(d, b, p + 8, file), parts[i].text)
<1>1. PICK e, text : e = at[h] /\ text = parts[i].text
  OBVIOUS
<1>2. /\ p \in Nat /\ e \in Nat /\ e = (p + 8) + Len(text) + 2
      /\ text \in Seq(STRING) /\ Len(text) \in Nat
      /\ Between(d, p + 8, text, e)
  <2>1. PartAt(d, p, text, e)
    BY <1>1, PartBetween
  <2> QED
    BY <2>1 DEF PartAt
<1>3. BoundaryFrom(d, b, p + 8) = e
  BY <1>1, BoundaryOfPart
<1>4. p + 8 \in Nat
  BY <1>2
<1>5. e < Len(d)
  BY <1>1 DEF Found
<1>6. Item(d, b, p + 8, file).len = Len(text)
      /\ SubSeq(d, (p + 8) + 1, (p + 8) + Len(text)) = text
  BY <1>2, <1>3, <1>4, <1>5, ItemBetween
<1>7. Item(d, b, p + 8, file).start = p + 8
  BY ItemHas
<1> QED
  BY <1>1, <1>6, <1>7 DEF HasText

LEMMA ItemHasNoEnd ==
  ASSUME NEW d \in Seq(STRING), NEW b, NEW parts, NEW at, IsForm(d, b, parts, at),
         NEW i \in 1..Len(parts), NEW p \in Nat, p = at[i], p + 8 <= Len(d), NEW h, h = i + 1,
         NEW file, ~Found(d, b, at, h)
  PROVE  Item(d, b, p + 8, file).len = -1
<1>1. PICK e : e = at[h]
  OBVIOUS
<1>2. BoundaryFrom(d, b, p + 8) = Len(d)
  BY <1>1, BoundaryOfPart
<1>3. p + 8 \in Nat
  OBVIOUS
<1> QED
  BY <1>2, <1>3, ItemIs
-----------------------------------------------------------------------------
(* The items q are the parts of the form from the i-th on, as many of them as  *)
(* have a head that is in d, and more behind it; if not all of the form is      *)
(* there, the last of them may have no end.                                     *)
FormItems == [start : Nat, file : STRING, len : Int]

IsPart(d, part, x, cut) ==
    /\ x.file = part.file
    /\ \/ HasText(d, x, part.text)
       \/ cut /\ x.len = -1

ReadFrom(d, parts, at, whole, i, q) ==
    /\ q \in Seq(FormItems)
    /\ i + Len(q) <= Len(parts) + 1
    /\ \A k \in i..Len(parts) : k < i + Len(q) <=> at[k] + 8 < Len(d)
    /\ \A j \in 1..Len(q) : IsPart(d, parts[i + j - 1], q[j], ~whole /\ j = Len(q))

LEMMA ReadNothing ==
  ASSUME NEW d, NEW parts, NEW at, Len(parts) \in Nat, NEW whole,
         NEW i \in 1..(Len(parts) + 1), \A k \in i..Len(parts) : ~(at[k] + 8 < Len(d))
  PROVE  ReadFrom(d, parts, at, whole, i, <<>>)
<1>1. <<>> \in Seq(FormItems) /\ Len(<<>>) = 0
  OBVIOUS
<1>2. PICK n \in Nat : n = Len(parts)
  OBVIOUS
<1>3. i + 0 = i /\ i <= n + 1 /\ 1..0 = {} /\ \A k \in i..n : ~(k < i)
  BY <1>2
<1> QED
  BY <1>1, <1>2, <1>3 DEF ReadFrom

LEMMA ReadOneMore ==
  ASSUME NEW d, NEW parts, NEW at, Len(parts) \in Nat, NEW whole \in BOOLEAN,
         NEW i \in 1..Len(parts), at[i] + 8 < Len(d),
         NEW h, h = i + 1, NEW q, ReadFrom(d, parts, at, whole, h, q),
         NEW x \in FormItems, IsPart(d, parts[i], x, ~whole /\ q = <<>>)
  PROVE  ReadFrom(d, parts, at, whole, i, <<x>> \o q)
<1> DEFINE r == <<x>> \o q
<1>1. /\ q \in Seq(FormItems) /\ h + Len(q) <= Len(parts) + 1
      /\ \A k \in h..Len(parts) : k < h + Len(q) <=> at[k] + 8 < Len(d)
      /\ \A j \in 1..Len(q) : IsPart(d, parts[h + j - 1], q[j], ~whole /\ j = Len(q))
  BY DEF ReadFrom
<1>2. PICK n, m \in Nat : n = Len(parts) /\ m = Len(q)
  BY <1>1
<1>3. /\ r \in Seq(FormItems) /\ Len(r) = m + 1 /\ r[1] = x
      /\ \A j \in 2..(m + 1) : r[j] = q[j - 1]
  BY <1>1, <1>2
<1> HIDE DEF r
<1>4. i + (m + 1) = h + m
  BY <1>2
<1>5. ASSUME NEW j \in 1..(m + 1)
      PROVE  IsPart(d, parts[i + j - 1], r[j], ~whole /\ j = m + 1)
  <2>1. CASE j = 1
    <3>1. i + j - 1 = i
      BY <2>1
    <3>2. (j = m + 1) <=> (q = <<>>)
      BY <1>1, <1>2, <2>1
    <3>3. (~whole /\ j = m + 1) = (~whole /\ q = <<>>)
      BY <3>2
    <3> QED
      BY <1>3, <2>1, <3>1, <3>3
  <2>2. CASE j # 1
    <3>1. j - 1 \in 1..m /\ j \in 2..(m + 1) /\ h + (j - 1) - 1 = i + j - 1
      BY <1>2, <2>2
    <3>2. (j - 1 = m) <=> (j = m + 1)
      BY <1>2
    <3>3. IsPart(d, parts[h + (j - 1) - 1], q[j - 1], ~whole /\ j - 1 = m)
      BY <1>1, <1>2, <3>1
    <3>4. (~whole /\ j - 1 = m) = (~whole /\ j = m + 1)
      BY <3>2
    <3>5. r[j] = q[j - 1]
      BY <1>3, <3>1
    <3> QED
      BY <3>1, <3>3, <3>4, <3>5
  <2> QED
    BY <2>1, <2>2
<1>6. ASSUME NEW k \in i..n PROVE k < i + (m + 1) <=> at[k] + 8 < Len(d)
  <2>1. CASE k = i
    BY <1>2, <2>1
  <2>2. CASE k # i
    <3>1. k \in h..n
      BY <1>2, <2>2
    <3> QED
      BY <1>1, <1>2, <1>4, <3>1
  <2> QED
    BY <2>1, <2>2
<1>7. ReadFrom(d, parts, at, whole, i, r)
  BY <1>1, <1>2, <1>3, <1>4, <1>5, <1>6 DEF ReadFrom
<1> QED
  BY <1>7 DEF r

(* Of a whole form, every boundary is found.                                  *)
LEMMA WholeIsFound ==
  ASSUME NEW d \in Seq(STRING), NEW b, NEW parts, NEW at, IsForm(d, b, parts, at),
         NEW n, n = Len(parts), IsWhole(d, at[n + 1]), NEW i \in 1..(n + 1)
  PROVE  Found(d, b, at, i)
<1>1. PICK l, p : l = at[n + 1] /\ p = at[i]
  OBVIOUS
<1>2. n \in Nat /\ n + 1 \in 1..(n + 1)
  BY FormTypes
<1>3. l \in Nat /\ p \in Nat /\ Len(d) \in Nat
  BY <1>1, <1>2, FormTypes
<1>4. Len(d) = l + 2 \/ Len(d) >= l + 4
  BY <1>1 DEF IsWhole
<1>5. CASE i = n + 1
  <2>1. Found(d, b, at, n + 1)
    BY <1>1, <1>4, LastFound
  <2> QED
    BY <1>5, <2>1
<1>6. CASE i # n + 1
  <2>1. i \in 1..n /\ i < n + 1
    BY <1>2, <1>6
  <2>2. p + 10 <= l
    BY <1>1, <1>2, <2>1, AtGrows
  <2>3. Len(d) >= p + 3
    BY <1>3, <1>4, <2>2
  <2>4. Found(d, b, at, i)
    BY <1>1, <2>1, <2>3, PartFound
  <2> QED
    BY <2>4
<1> QED
  BY <1>5, <1>6

(* Where the parser goes on when it has looked for the i-th boundary.         *)
Place(d, b, at, i) == IF Found(d, b, at, i) THEN Behind(d, b, at[i]) ELSE Len(d)

LEMMA BehindPlace ==
  ASSUME NEW d, NEW b, NEW at, NEW i, NEW s,
         s = IF Found(d, b, at, i) THEN at[i] ELSE Len(d)
  PROVE  Behind(d, b, s) = Place(d, b, at, i)
<1>1. Behind(d, b, Len(d)) = Len(d)
  BY DEF Behind
<1> QED
  BY <1>1 DEF Place

LEMMA NothingAtEnd ==
  ASSUME NEW d \in Seq(STRING), NEW b, NEW f, ItemsTurn(d, b, f)
  PROVE  /\ f[Len(d)] = <<>>
         /\ \A pos \in 0..Len(d) : HeaderEnd(d, pos) = Len(d) => f[pos] = <<>>
<1>1. \A pos \in 0..Len(d) : HeaderEnd(d, pos) = Len(d) => f[pos] = <<>>
  BY DEF ItemsTurn
<1>2. Len(d) \in Nat /\ Len(d) \in 0..Len(d) /\ Len(d) <= Len(d)
  OBVIOUS
<1>3. HeaderEnd(d, Len(d)) \in Len(d)..Len(d)
  BY <1>2, HeaderGoesOn
<1>4. HeaderEnd(d, Len(d)) = Len(d)
  BY <1>2, <1>3
<1> QED
  BY <1>1, <1>2, <1>4

LEMMA ItemTyped ==
  ASSUME NEW d \in Seq(STRING), NEW b, NEW s \in Nat, s <= Len(d), NEW file \in STRING
  PROVE  Item(d, b, s, file) \in FormItems
<1>1. BoundaryFrom(d, b, s) \in s..Len(d)
  BY BoundaryGoesOn
<1>2. BoundaryFrom(d, b, s) \in Int /\ -1 \in Int
  BY <1>1
<1> HIDE <1>1
<1> QED
  BY <1>2 DEF Item, FormItems

(* The head of a part that is there, and the items from it on.                *)
LEMMA ReadPart ==
  ASSUME NEW d \in Seq(STRING), NEW b, NEW parts, NEW at, IsForm(d, b, parts, at),
         NEW n, n = Len(parts), NEW whole \in BOOLEAN, whole = IsWhole(d, at[n + 1]),
         NEW f, ItemsTurn(d, b, f),
         NEW i \in 1..n, NEW h, h = i + 1, NEW p \in Nat, p = at[i], p + 8 < Len(d),
         ReadFrom(d, parts, at, whole, h, f[Place(d, b, at, h)])
  PROVE  ReadFrom(d, parts, at, whole, i, f[p + 3])
<1>1. PICK text, file : text = parts[i].text /\ file = parts[i].file
  OBVIOUS
<1>2. /\ p + 3 \in 0..Len(d) /\ p + 3 <= Len(d) /\ p + 8 <= Len(d) /\ p + 8 # Len(d)
      /\ p + 8 \in Nat
  OBVIOUS
<1>3. PartsHead(d, p, file) /\ file \in STRING
  <2>1. PartsHead(d, p, file)
    BY <1>1, PartHead
  <2> QED
    BY <2>1 DEF PartsHead
<1>4. HeaderEnd(d, p + 3) = p + 8
  BY <1>2, <1>3, HeaderEndIs
<1>5. FileName(d, p + 3) = file
  BY <1>2, <1>3, FileNameIs
<1>6. PICK e : e = at[h]
  OBVIOUS
<1>7. BoundaryFrom(d, b, p + 8) = IF Found(d, b, at, h) THEN e ELSE Len(d)
  BY <1>2, <1>6, BoundaryOfPart
<1>8. Behind(d, b, BoundaryFrom(d, b, p + 8)) = Place(d, b, at, h)
  BY <1>6, <1>7, BehindPlace
<1>9. f[p + 3] = <<Item(d, b, p + 8, file)>> \o f[Place(d, b, at, h)]
  BY <1>2, <1>4, <1>5, <1>8 DEF ItemsTurn
<1>10. PICK x, q : x = Item(d, b, p + 8, file) /\ q = f[Place(d, b, at, h)]
  OBVIOUS
<1>11. x \in FormItems
  BY <1>2, <1>3, <1>10, ItemTyped
<1>12. x.start = p + 8 /\ x.file = file
  BY <1>10, ItemHas
<1>13. IsPart(d, parts[i], x, ~whole /\ q = <<>>)
  <2>1. CASE Found(d, b, at, h)
    <3>1. HasText(d, Item(d, b, p + 8, file), parts[i].text)
      BY <1>2, <2>1, ItemOfPart
    <3> QED
      BY <1>1, <1>10, <1>12, <3>1 DEF IsPart
  <2>2. CASE ~Found(d, b, at, h)
    <3>1. x.len = -1
      <4>1. Item(d, b, p + 8, file).len = -1
        BY <1>2, <2>2, ItemHasNoEnd
      <4> QED
        BY <1>10, <4>1
    <3>2. q = <<>>
      BY <1>10, <2>2, NothingAtEnd DEF Place
    <3>3. ~whole
      <4>1. h \in 1..(n + 1)
        BY FormTypes
      <4> QED
        BY <2>2, <4>1, WholeIsFound
    <3> QED
      BY <1>1, <1>12, <3>1, <3>2, <3>3 DEF IsPart
  <2> QED
    BY <2>1, <2>2
<1>14. Len(parts) \in Nat
  BY FormTypes
<1>15. at[i] + 8 < Len(d)
  OBVIOUS
<1>16. ReadFrom(d, parts, at, whole, i, <<x>> \o q)
  BY <1>10, <1>11, <1>13, <1>14, <1>15, ReadOneMore
<1> QED
  BY <1>9, <1>10, <1>16

LEMMA ReadFromPart ==
  ASSUME NEW d \in Seq(STRING), NEW b, NEW parts, NEW at, IsForm(d, b, parts, at),
         NEW n, n = Len(parts), NEW whole \in BOOLEAN, whole = IsWhole(d, at[n + 1]),
         NEW f, ItemsTurn(d, b, f),
         NEW i \in 1..n, NEW h, h = i + 1,
         ReadFrom(d, parts, at, whole, h, f[Place(d, b, at, h)])
  PROVE  ReadFrom(d, parts, at, whole, i, f[Place(d, b, at, i)])
<1>1. PICK p : p = at[i]
  OBVIOUS
<1>2. /\ p \in Nat /\ n \in Nat /\ Len(d) \in Nat /\ i \in 1..(n + 1) /\ i # n + 1
  <2>1. n \in Nat /\ Len(d) \in Nat
    BY FormTypes
  <2>2. i \in 1..(n + 1) /\ i # n + 1
    BY <2>1
  <2> QED
    BY <1>1, <2>1, <2>2, FormTypes
<1>3. CASE p + 8 < Len(d)
  <2>1. Len(d) >= p + 3
    BY <1>2, <1>3
  <2>2. Found(d, b, at, i) /\ Behind(d, b, p) = p + 3
    BY <1>1, <2>1, PartFound
  <2>3. Place(d, b, at, i) = p + 3
    BY <1>1, <2>2 DEF Place
  <2>4. ReadFrom(d, parts, at, whole, i, f[p + 3])
    BY <1>1, <1>2, <1>3, ReadPart
  <2> QED
    BY <2>3, <2>4
<1>4. CASE ~(p + 8 < Len(d))
  <2>1. ASSUME NEW k \in i..n PROVE ~(at[k] + 8 < Len(d))
    <3>1. PICK q : q = at[k]
      OBVIOUS
    <3>2. k \in 1..(n + 1) /\ (k = i \/ i < k)
      BY <1>2
    <3>3. q \in Nat
      BY <3>1, <3>2, FormTypes
    <3>4. q = p \/ p + 10 <= q
      BY <1>1, <1>2, <3>1, <3>2, AtGrows
    <3>5. ~(q + 8 < Len(d))
      BY <1>2, <1>4, <3>3, <3>4
    <3> QED
      BY <3>1, <3>5
  <2>2. f[Place(d, b, at, i)] = <<>>
    <3>1. CASE ~Found(d, b, at, i)
      BY <3>1, NothingAtEnd DEF Place
    <3>2. CASE Found(d, b, at, i) /\ Len(d) = p + 1
      <4>1. Behind(d, b, p) = Len(d)
        BY <1>1, <3>2, PartFound
      <4> QED
        BY <1>1, <3>2, <4>1, NothingAtEnd DEF Place
    <3>3. CASE Found(d, b, at, i) /\ Len(d) >= p + 3
      <4>1. Behind(d, b, p) = p + 3
        BY <1>1, <3>3, PartFound
      <4>2. p + 3 \in 0..Len(d) /\ p + 3 <= Len(d) /\ (p + 8 <= Len(d) => p + 8 = Len(d))
        BY <1>2, <1>4, <3>3
      <4>3. HeaderEnd(d, p + 3) = Len(d)
        <5>1. PICK file : file = parts[i].file
          OBVIOUS
        <5>2. PartsHead(d, p, file)
          BY <1>1, <5>1, PartHead
        <5> QED
          BY <1>2, <4>2, <5>2, HeaderEndIs
      <4>4. f[p + 3] = <<>>
        BY <4>2, <4>3, NothingAtEnd
      <4> QED
        BY <1>1, <3>3, <4>1, <4>4 DEF Place
    <3>4. Found(d, b, at, i) => Len(d) = p + 1 \/ Len(d) >= p + 3
      BY <1>1, PartFound
    <3> QED
      BY <3>1, <3>2, <3>3, <3>4
  <2> QED
    BY <1>2, <2>1, <2>2, ReadNothing
<1> QED
  BY <1>3, <1>4

(* From the i-th boundary on, the parser reads the parts from the i-th on: by *)
(* the least number of parts behind one where it would not.                    *)
LEMMA ReadFromAll ==
  ASSUME NEW d \in Seq(STRING), NEW b, NEW parts, NEW at, IsForm(d, b, parts, at),
         NEW n, n = Len(parts), NEW whole \in BOOLEAN, whole = IsWhole(d, at[n + 1]),
         NEW f, ItemsTurn(d, b, f)
  PROVE  ReadFrom(d, parts, at, whole, 1, f[Place(d, b, at, 1)])
<1> DEFINE R(i) == ReadFrom(d, parts, at, whole, i, f[Place(d, b, at, i)])
           Bad == {k \in 0..n : ~R(n + 1 - k)}
<1>1. n \in Nat
  BY FormTypes
<1>2. R(n + 1)
  <2>1. Place(d, b, at, n + 1) = Len(d)
    <3>1. PICK p : p = at[n + 1]
      OBVIOUS
    <3>2. Found(d, b, at, n + 1) => Behind(d, b, p) = Len(d)
      BY <3>1, LastFound
    <3> QED
      BY <3>1, <3>2 DEF Place
  <2>2. f[Len(d)] = <<>>
    BY NothingAtEnd
  <2>3. n + 1 \in 1..(n + 1) /\ (n + 1)..n = {}
    BY <1>1
  <2>4. ReadFrom(d, parts, at, whole, n + 1, <<>>)
    BY <1>1, <2>3, ReadNothing
  <2> QED
    BY <2>1, <2>2, <2>4
<1>3. ASSUME NEW i \in 1..n, R(i + 1) PROVE R(i)
  <2>1. PICK h : h = i + 1
    OBVIOUS
  <2> QED
    BY <1>3, <2>1, ReadFromPart
<1> HIDE DEF R
<1>4. SUFFICES ASSUME Bad # {} PROVE FALSE
  <2>1. n \notin Bad => R(n + 1 - n)
    BY <1>1
  <2>2. n + 1 - n = 1
    BY <1>1
  <2> QED
    BY <1>4, <2>1, <2>2 DEF R
<1>5. PICK k \in Bad : \A j \in Bad : k <= j
  <2>1. Bad \in SUBSET Nat
    BY <1>1
  <2> QED
    BY <1>4, <2>1, MinIsLeast
<1>6. k \in 0..n /\ ~R(n + 1 - k)
  OBVIOUS
<1>7. k # 0
  <2>1. n + 1 - 0 = n + 1
    BY <1>1
  <2> QED
    BY <1>2, <1>6, <2>1
<1>8. PICK i \in 1..n : i = n + 1 - k /\ i + 1 = n + 1 - (k - 1)
  BY <1>1, <1>6, <1>7
<1>9. k - 1 \in 0..n /\ ~(k <= k - 1)
  BY <1>1, <1>6, <1>7
<1>10. R(n + 1 - (k - 1))
  BY <1>5, <1>9
<1> QED
  BY <1>3, <1>6, <1>8, <1>10

LEMMA FormIsRead ==
  ASSUME NEW d \in Seq(STRING), NEW b, NEW parts, NEW at, IsForm(d, b, parts, at),
         NEW whole \in BOOLEAN, whole = IsWhole(d, at[Len(parts) + 1])
  PROVE  ReadFrom(d, parts, at, whole, 1, Items(d, b))
<1>1. PICK f : ItemsTurn(d, b, f) /\ Items(d, b) = f[Behind(d, b, BoundaryFrom(d, b, 0))]
  BY ItemsAre
<1>2. BoundaryFrom(d, b, 0) = IF Found(d, b, at, 1) THEN at[1] ELSE Len(d)
  <2>1. Len(parts) \in Nat /\ at[1] = 0 /\ Len(d) \in Nat
    BY FormTypes
  <2>2. 1 \in 1..(Len(parts) + 1) /\ 0 <= Len(d) /\ 0 <= at[1] /\ 0 \in Nat
    BY <2>1
  <2>3. \A j \in 1..(Len(parts) + 1) : j < 1 => at[j] < 0
    BY <2>1
  <2> QED
    BY <2>1, <2>2, <2>3, BoundaryIs
<1>3. Behind(d, b, BoundaryFrom(d, b, 0)) = Place(d, b, at, 1)
  BY <1>2, BehindPlace
<1>4. ReadFrom(d, parts, at, whole, 1, f[Place(d, b, at, 1)])
  BY <1>1, ReadFromAll
<1> QED
  BY <1>1, <1>3, <1>4
-----------------------------------------------------------------------------
(***************************************************************************)
(* The boundary is not reset with the rest of the object, and the form is     *)
(* still cut at the boundary of its own request: as soon as the worker has     *)
(* seen the header that says it, the object has it.                           *)
(***************************************************************************)
HasBoundary == boundary = request.boundary
Judged == stage \in {"judged", "replying"} /\ verdict = "GET_REQUEST"

BoundaryKept ==
    /\ Scanning /\ checkState = "HEADER" /\ HeadIsComplete(request.bytes)
          /\ Noted("TYPE") => HasBoundary
    /\ Scanning /\ InContent /\ HasHeader(request.bytes, "TYPE") => HasBoundary
    /\ Judged /\ HasHeader(request.bytes, "TYPE") => HasBoundary

ItemsKept ==
    stage = "replying" /\ verdict = "GET_REQUEST" /\ method = "POST" =>
        items = Items(content, boundary)

FormInv == BoundaryKept /\ ItemsKept

LEMMA BoundaryInHead == ASSUME Inv, FormInv, RequestLine PROVE FormInv'
<1>1. /\ stage = "parsing" /\ ~InContent /\ LineOK /\ checkState = "REQUESTLINE"
      /\ startLine' = Mark + 2 /\ UNCHANGED <<request, boundary>>
  BY DEF RequestLine, Parsing, NextLineBegins, StillParsing, clientVars
<1>2. CASE Line \in {<<"GET">>, <<"POST">>}
  <2>1. checkState' = "HEADER" /\ UNCHANGED <<stage, verdict>>
    BY <1>2 DEF RequestLine
  <2>2. Mark = 1 /\ Mark \in LineEnds(request.bytes) /\ request.bytes \in Seq(STRING)
    BY <1>1, <1>2, RequestLineIs, RequestsAre
  <2>3. startLine' = 3 /\ request.bytes[3] = "LF"
    BY <1>1, <2>2, TextsAreIndexed
  <2>4. ~Noted("TYPE")'
    BY <1>1, <2>3 DEF Noted
  <2> QED
    BY <1>1, <2>1, <2>4 DEF FormInv, BoundaryKept, ItemsKept, InContent, Judged
<1>3. CASE Line \notin {<<"GET">>, <<"POST">>}
  <2>1. verdict' = "BAD_REQUEST" /\ stage' = "judged"
    BY <1>3 DEF RequestLine, Answered
  <2> QED
    BY <2>1 DEF FormInv, BoundaryKept, ItemsKept, Judged, Scanning
<1> QED
  BY <1>2, <1>3

LEMMA BoundaryIsNoted == ASSUME Inv, FormInv, Header PROVE FormInv'
<1>1. /\ stage = "parsing" /\ checkState = "HEADER"
      /\ boundary' = IF Line[1] = "TYPE" THEN request.boundary ELSE boundary
      /\ UNCHANGED <<request, checkState, stage>>
  BY DEF Header, Parsing, clientVars
<1>2. ASSUME HeadIsComplete(request.bytes), Noted("TYPE")' PROVE HasBoundary'
  <2>1. /\ Line = <<request.bytes[startLine + 1]>>
        /\ Noted("TYPE")' <=> Noted("TYPE") \/ request.bytes[startLine + 1] = "TYPE"
    BY <1>2, HeaderNotes
  <2>2. Line[1] = request.bytes[startLine + 1]
    BY <2>1
  <2>3. CASE Line[1] = "TYPE"
    BY <1>1, <2>3 DEF HasBoundary
  <2>4. CASE Line[1] # "TYPE"
    <3>1. Noted("TYPE")
      BY <1>2, <2>1, <2>2, <2>4
    <3>2. HasBoundary
      BY <1>1, <1>2, <3>1 DEF FormInv, BoundaryKept, Scanning
    <3> QED
      BY <1>1, <2>4, <3>2 DEF HasBoundary
  <2> QED
    BY <2>3, <2>4
<1> QED
  BY <1>1, <1>2 DEF FormInv, BoundaryKept, ItemsKept, InContent, Judged

LEMMA BoundaryAtEnd == ASSUME Inv, FormInv, HeadersEnd PROVE FormInv'
<1>1. /\ stage = "parsing" /\ ~InContent /\ LineOK /\ checkState = "HEADER" /\ Line = <<>>
      /\ stage' \in {"parsing", "judged"} /\ UNCHANGED <<request, boundary>>
      /\ stage' = "parsing" => checkState' = "CONTENT"
  BY DEF HeadersEnd, Parsing, Answered, StillParsing, clientVars
<1>2. HeadIsComplete(request.bytes) /\ (HasHeader(request.bytes, "TYPE") <=> Noted("TYPE"))
  BY <1>1, HeadEndIs
<1>3. HasHeader(request.bytes, "TYPE") => HasBoundary
  BY <1>1, <1>2 DEF FormInv, BoundaryKept, Scanning
<1>4. HasHeader(request.bytes, "TYPE")' => HasBoundary'
  <2>1. HasBoundary' = HasBoundary
    BY <1>1 DEF HasBoundary
  <2>2. HasHeader(request.bytes, "TYPE")' <=> HasHeader(request.bytes, "TYPE")
    BY <1>1
  <2> QED
    BY <1>3, <2>1, <2>2
<1> QED
  BY <1>1, <1>4 DEF FormInv, BoundaryKept, ItemsKept, Scanning

LEMMA BoundaryInBody == ASSUME Inv, FormInv, Content PROVE FormInv'
<1>1. /\ stage = "parsing" /\ InContent /\ stage' \in {"armed", "judged"}
      /\ UNCHANGED <<request, boundary, checkState>>
  BY DEF Content, Answered, clientVars, headVars
<1>2. HasHeader(request.bytes, "TYPE") => HasBoundary
  BY <1>1 DEF FormInv, BoundaryKept, Scanning
<1>3. HasHeader(request.bytes, "TYPE")' => HasBoundary'
  <2>1. HasBoundary' = HasBoundary
    BY <1>1 DEF HasBoundary
  <2>2. HasHeader(request.bytes, "TYPE")' <=> HasHeader(request.bytes, "TYPE")
    BY <1>1
  <2> QED
    BY <1>2, <2>1, <2>2
<1> QED
  BY <1>1, <1>3 DEF FormInv, BoundaryKept, ItemsKept, InContent

LEMMA BoundaryStays ==
  ASSUME FormInv, UNCHANGED <<request, boundary, startLine, checkState, verdict>>,
         \/ stage \in {"armed", "parsing"} /\ stage' \in {"armed", "parsing"}
         \/ stage = "judged" /\ stage' = "replying"
         \/ stage' = stage
  PROVE  BoundaryKept'
<1>1. /\ HasBoundary' = HasBoundary /\ (Noted("TYPE")' <=> Noted("TYPE"))
      /\ InContent' = InContent
      /\ HeadIsComplete(request.bytes)' = HeadIsComplete(request.bytes)
      /\ HasHeader(request.bytes, "TYPE")' = HasHeader(request.bytes, "TYPE")
  BY DEF HasBoundary, Noted, InContent
<1>2. /\ Scanning' => Scanning
      /\ Judged' => Judged
  BY DEF Scanning, Judged
<1> QED
  BY <1>1, <1>2 DEF FormInv, BoundaryKept

LEMMA FormInvAlways == Spec => []FormInv
<1>1. Init => FormInv
  BY DEF Init, FormInv, BoundaryKept, ItemsKept, InContent, Judged
<1>2. ASSUME Inv, FormInv, [Next]_vars PROVE FormInv'
  <2>1. ASSUME NEW k \in 1..(Len(request.bytes) - received), Read(k) PROVE FormInv'
    <3>1. BoundaryKept'
      BY <1>2, <2>1, BoundaryStays DEF Read, indexVars, headVars
    <3> QED
      BY <2>1, <3>1 DEF Read, FormInv, ItemsKept
  <2>2. ASSUME NEW k \in 1..(Len(request.bytes) - received), ReadFails(k) PROVE FormInv'
    BY <2>2 DEF ReadFails, FormInv, BoundaryKept, ItemsKept, Scanning, Judged
  <2>3. CASE RequestLine
    BY <1>2, <2>3, BoundaryInHead
  <2>4. CASE Header
    BY <1>2, <2>4, BoundaryIsNoted
  <2>5. CASE HeadersEnd
    BY <1>2, <2>5, BoundaryAtEnd
  <2>6. CASE NoLine
    <3>1. BoundaryKept'
      BY <1>2, <2>6, BoundaryStays DEF NoLine, Parsing, clientVars, headVars
    <3> QED
      BY <2>6, <3>1 DEF NoLine, FormInv, ItemsKept
  <2>7. CASE Content
    BY <1>2, <2>7, BoundaryInBody
  <2>8. CASE DoRequest
    <3>1. BoundaryKept'
      BY <1>2, <2>8, BoundaryStays DEF DoRequest, clientVars, indexVars, headVars
    <3> QED
      BY <2>8, <3>1 DEF DoRequest, FormInv, ItemsKept, headVars
  <2>9. CASE Reset
    BY <2>9 DEF Reset, FormInv, BoundaryKept, ItemsKept, InContent, Judged
  <2>10. CASE UNCHANGED vars
    <3>1. BoundaryKept'
      BY <1>2, <2>10, BoundaryStays DEF vars, clientVars, indexVars, headVars
    <3>2. ItemsKept'
      BY <1>2, <2>10 DEF vars, headVars, FormInv, ItemsKept
    <3> QED
      BY <3>1, <3>2 DEF FormInv
  <2>11. CASE Overrun
    BY <2>11 DEF Overrun, FormInv, BoundaryKept, ItemsKept, Scanning, Judged
  <2> QED
    BY <1>2, <2>1, <2>2, <2>3, <2>4, <2>5, <2>6, <2>7, <2>8, <2>9, <2>10, <2>11 DEF Next
<1> QED
  BY <1>1, <1>2, InvAlways, PTL DEF Spec

(* A good request has been received up to the end of its body.               *)
LEMMA BodyIsReceived ==
  ASSUME TypeOK, Meaning(Got) = "GET_REQUEST"
  PROVE  Body(Got) = Body(request.bytes)
<1> DEFINE t == request.bytes
           e == Min(EmptyLines(Got))
           start == e + 2
<1>1. /\ t \in Seq(STRING) /\ request.length \in Nat
      /\ received \in Nat /\ received <= Len(t) /\ Got \in Seq(STRING)
      /\ Len(Got) = received /\ \A i \in 1..received : Got[i] = t[i]
      /\ Got = SubSeq(t, 1, received)
  BY RequestsAre DEF Got
<1>2. HeadIsComplete(Got) /\ Len(Body(Got)) >= Length(Got)
  BY DEF Meaning
<1>3. /\ e \in EmptyLines(Got) /\ \A i \in EmptyLines(Got) : e <= i
      /\ \A i \in Broken(Got) : e <= i
      /\ \A h : HasHeader(Got, h) <=> \E i \in 3..e : Got[i] = h
  BY <1>1, <1>2, CompleteHeadIs
<1>4. e \in Nat /\ e + 2 <= received /\ e \in EmptyLines(t)
  BY <1>1, <1>3, GotIs, TextsAreIndexed
<1> HIDE DEF e
<1>5. ASSUME NEW i \in EmptyLines(t) PROVE e <= i
  <2>1. i \in Nat
    BY <1>1, TextsAreIndexed
  <2>2. i + 2 <= received => i \in EmptyLines(Got)
    BY GotIs
  <2> QED
    BY <1>1, <1>3, <1>4, <2>1, <2>2
<1>6. ASSUME NEW i \in Broken(t) PROVE e <= i
  <2>1. i \in Nat
    BY <1>1, TextsAreIndexed
  <2>2. i + 2 <= received => i \in Broken(Got)
    BY <1>1, PrefixBroken
  <2> QED
    BY <1>1, <1>3, <1>4, <2>1, <2>2
<1>7. /\ HeadIsComplete(t) /\ Min(EmptyLines(t)) = e
      /\ \A h : HasHeader(t, h) <=> \E i \in 3..e : t[i] = h
  BY <1>1, <1>4, <1>5, <1>6, HeadIs
<1>8. HasHeader(Got, "LENGTH") <=> HasHeader(t, "LENGTH")
  BY <1>1, <1>3, <1>4, <1>7
<1>9. Length(Got) = Length(t) /\ Length(t) \in Nat
  BY <1>1, <1>8 DEF Length
<1>10. /\ Body(Got) = SubSeq(Got, start + 1, Smallest(received, start + Length(t)))
       /\ Body(t) = SubSeq(t, start + 1, Smallest(Len(t), start + Length(t)))
  BY <1>1, <1>7, <1>9 DEF Body, e
<1>11. start \in Nat /\ start <= received
  BY <1>1, <1>4
<1>12. CASE Length(t) = 0
  <2>1. Smallest(received, start + Length(t)) = start
        /\ Smallest(Len(t), start + Length(t)) = start
    BY <1>1, <1>11, <1>12 DEF Smallest
  <2>2. SubSeq(Got, start + 1, start) = <<>> /\ SubSeq(t, start + 1, start) = <<>>
    BY <1>1, <1>11, SubSeqEmpty
  <2> QED
    BY <1>10, <2>1, <2>2
<1>13. CASE Length(t) # 0
  <2> DEFINE m == start + Length(t)
  <2>1. PICK n \in Nat : n = Smallest(received, m)
    BY <1>1, <1>9, <1>11 DEF Smallest
  <2>2. start <= n /\ n <= received /\ n <= m
    BY <1>1, <1>9, <1>11, <2>1 DEF Smallest
  <2>3. Len(Body(Got)) = n - start
    BY <1>1, <1>10, <1>11, <2>1, <2>2, PieceIs
  <2>4. n = m /\ m <= received /\ m <= Len(t) /\ m \in Nat /\ start <= m
    BY <1>1, <1>2, <1>9, <1>11, <2>2, <2>3
  <2>5. Smallest(Len(t), m) = m
    BY <1>1, <2>4 DEF Smallest
  <2> DEFINE u == SubSeq(Got, start + 1, m)
             v == SubSeq(t, start + 1, m)
  <2>6. Body(Got) = u /\ Body(t) = v
    BY <1>10, <2>1, <2>4, <2>5
  <2>7. /\ u \in Seq(STRING) /\ Len(u) = m - start
        /\ \A i \in 1..(m - start) : u[i] = Got[start + i]
    BY <1>1, <1>11, <2>4, PieceIs
  <2>8. /\ v \in Seq(STRING) /\ Len(v) = m - start
        /\ \A i \in 1..(m - start) : v[i] = t[start + i]
    BY <1>1, <1>11, <2>4, PieceIs
  <2> HIDE DEF u, v
  <2>9. ASSUME NEW i \in 1..(m - start) PROVE u[i] = v[i]
    <3>1. start + i \in 1..received
      BY <1>1, <1>11, <2>4
    <3> QED
      BY <1>1, <2>7, <2>8, <3>1
  <2>10. u = v
    BY <2>7, <2>8, <2>9, SeqEqual
  <2> QED
    BY <2>6, <2>10
<1> QED
  BY <1>12, <1>13

(* FormDataParser.h: of the form that the client has encoded in the body, the  *)
(* handlers get the parts, with their names and their bytes; if the body ends  *)
(* too early, they get those whose head is there, and the last of them may have *)
(* no end.                                                                     *)
THEOREM FormsAreRead == Spec => []FormOfBody
<1>1. ASSUME Inv, FormInv PROVE FormOfBody
  <2> DEFINE parts == request.parts
             body == Body(request.bytes)
             whole == IsWhole(body, request.at[Len(parts) + 1])
  <2>1. SUFFICES ASSUME stage = "replying", verdict = "GET_REQUEST", method = "POST",
                        HasHeader(request.bytes, "TYPE"),
                        IsForm(body, request.boundary, parts, request.at)
                 PROVE  /\ Len(items) <= Len(parts)
                        /\ \A i \in 1..Len(parts) :
                              i <= Len(items) <=> request.at[i] + 8 < Len(body)
                        /\ \A i \in DOMAIN items :
                              /\ items[i].file = parts[i].file
                              /\ \/ /\ items[i].len = Len(parts[i].text)
                                    /\ SubSeq(content, items[i].start + 1,
                                              items[i].start + items[i].len)
                                           = parts[i].text
                                 \/ ~whole /\ i = Len(items) /\ items[i].len = -1
    BY DEF FormOfBody
  <2>2. content = body /\ content \in Seq(STRING)
    <3>1. TypeOK /\ Meaning(Got) = "GET_REQUEST" /\ content = Body(Got)
      BY <1>1, <2>1 DEF Inv, VerdictOfBytes, Got
    <3> QED
      BY <3>1, BodyIsReceived DEF TypeOK
  <2>3. items = Items(content, request.boundary)
    BY <1>1, <2>1 DEF FormInv, BoundaryKept, ItemsKept, Judged, HasBoundary
  <2>4. whole \in BOOLEAN
    BY DEF IsWhole
  <2> HIDE DEF whole
  <2>5. ReadFrom(content, parts, request.at, whole, 1, items)
    BY <2>1, <2>2, <2>3, <2>4, FormIsRead DEF whole
  <2>6. Len(parts) \in Nat
    BY <2>1, FormTypes
  <2> HIDE DEF parts
  <2>7. /\ items \in Seq(FormItems) /\ 1 + Len(items) <= Len(parts) + 1
        /\ \A k \in 1..Len(parts) :
              k < 1 + Len(items) <=> request.at[k] + 8 < Len(content)
        /\ \A j \in 1..Len(items) :
              IsPart(content, parts[1 + j - 1], items[j], ~whole /\ j = Len(items))
    BY <2>5 DEF ReadFrom
  <2>8. ASSUME NEW i \in DOMAIN items
        PROVE  IsPart(content, parts[i], items[i], ~whole /\ i = Len(items))
    <3>1. i \in 1..Len(items) /\ 1 + i - 1 = i
      BY <2>7
    <3> QED
      BY <2>7, <3>1
  <2>9. /\ Len(items) <= Len(parts)
        /\ \A i \in 1..Len(parts) : i <= Len(items) <=> request.at[i] + 8 < Len(body)
    <3>1. Len(items) \in Nat
      BY <2>7
    <3>2. \A i \in 1..Len(parts) : i <= Len(items) <=> i < 1 + Len(items)
      BY <2>6, <3>1
    <3>3. Len(items) <= Len(parts)
      BY <2>6, <2>7, <3>1
    <3> QED
      BY <2>2, <2>7, <3>2, <3>3
  <2> QED
    BY <2>8, <2>9 DEF IsPart, HasText
<1> QED
  BY <1>1, InvAlways, FormInvAlways, PTL
=============================================================================
