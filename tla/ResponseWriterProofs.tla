------------------------ MODULE ResponseWriterProofs ------------------------
(***************************************************************************)
(* Theorems about ResponseWriter, for replies of any length, sent in any      *)
(* number of pieces cut anywhere, on top of any residue.                      *)
(***************************************************************************)
EXTENDS ResponseWriter, SequenceTheorems, TLAPS

Block == [base : Int, len : Nat]
Pair == IF iov_count = 2 THEN iov[1].len ELSE 0

Region == {"head", "body"}

(* A stretch of the head with a stretch of the body behind it.               *)
LEMMA BytesAre ==
  ASSUME NEW r \in Region, NEW base \in Int, NEW len \in Nat
  PROVE  /\ Bytes(r, base, len) \in Seq(Region \X Int)
         /\ Len(Bytes(r, base, len)) = len
         /\ \A i \in 1..len : Bytes(r, base, len)[i] = <<r, base + i - 1>>
  BY DEF Bytes

(* One sequence behind another, seen from the start of each. *)
LEMMA Behind ==
  ASSUME NEW S, NEW s \in Seq(S), NEW t \in Seq(S)
  PROVE  /\ s \o t \in Seq(S)
         /\ Len(s \o t) = Len(s) + Len(t)
         /\ \A i \in 1..Len(s) : (s \o t)[i] = s[i]
         /\ \A i \in 1..Len(t) : (s \o t)[Len(s) + i] = t[i]
<1>1. /\ s \o t \in Seq(S) /\ Len(s \o t) = Len(s) + Len(t)
      /\ \A i \in 1..(Len(s) + Len(t)) :
            (s \o t)[i] = IF i <= Len(s) THEN s[i] ELSE t[i - Len(s)]
  BY ConcatProperties
<1>2. Len(s) \in Nat /\ Len(t) \in Nat
  OBVIOUS
<1>3. ASSUME NEW i \in 1..Len(s) PROVE (s \o t)[i] = s[i]
  BY <1>1, <1>2
<1>4. ASSUME NEW i \in 1..Len(t) PROVE (s \o t)[Len(s) + i] = t[i]
  <2>1. /\ Len(s) + i \in 1..(Len(s) + Len(t))
        /\ ~(Len(s) + i <= Len(s)) /\ (Len(s) + i) - Len(s) = i
    BY <1>2
  <2> QED
    BY <1>1, <2>1
<1> QED
  BY <1>1, <1>3, <1>4

Both(a, m, b, n) == Bytes("head", a, m) \o Bytes("body", b, n)

IsBoth(q, a, m, b, n) ==
    /\ q \in Seq(Region \X Int)
    /\ Len(q) = m + n
    /\ \A i \in 1..m : q[i] = <<"head", a + i - 1>>
    /\ \A i \in 1..n : q[m + i] = <<"body", b + i - 1>>

LEMMA TwoStretches ==
  ASSUME NEW a \in Int, NEW m \in Nat, NEW b \in Int, NEW n \in Nat
  PROVE  IsBoth(Both(a, m, b, n), a, m, b, n)
<1> DEFINE s == Bytes("head", a, m)
           t == Bytes("body", b, n)
           C == Region \X Int
<1>1. /\ s \in Seq(C) /\ Len(s) = m
      /\ \A i \in 1..m : s[i] = <<"head", a + i - 1>>
  BY BytesAre DEF Region
<1>2. /\ t \in Seq(C) /\ Len(t) = n
      /\ \A i \in 1..n : t[i] = <<"body", b + i - 1>>
  BY BytesAre DEF Region
<1>3. Both(a, m, b, n) = s \o t
  BY DEF Both
<1> HIDE DEF s, t, C
<1>0. s \in Seq(C) /\ t \in Seq(C)
  BY <1>1, <1>2
<1>4. /\ s \o t \in Seq(C)
      /\ Len(s \o t) = Len(s) + Len(t)
      /\ \A i \in 1..Len(s) : (s \o t)[i] = s[i]
      /\ \A i \in 1..Len(t) : (s \o t)[Len(s) + i] = t[i]
  BY <1>0, Behind
<1>5. IsBoth(s \o t, a, m, b, n)
  BY <1>1, <1>2, <1>4 DEF C, IsBoth
<1> QED
  BY <1>3, <1>5

LEMMA OfferedIs ==
  ASSUME TypeOK
  PROVE  /\ Offered \in Seq(Region \X Int)
         /\ Len(Offered) = iov[0].len + Pair
         /\ \A i \in 1..iov[0].len : Offered[i] = <<"head", iov[0].base + i - 1>>
         /\ \A i \in 1..Pair : Offered[iov[0].len + i] = <<"body", iov[1].base + i - 1>>
<1>1. /\ iov[0].base \in Int /\ iov[0].len \in Nat
      /\ iov[1].base \in Int /\ iov[1].len \in Nat
  BY DEF TypeOK
<1>2. CASE iov_count = 2
  <2>1. Offered = Both(iov[0].base, iov[0].len, iov[1].base, iov[1].len)
    BY <1>2 DEF Offered, Both
  <2>2. Pair = iov[1].len
    BY <1>2 DEF Pair
  <2>3. IsBoth(Offered, iov[0].base, iov[0].len, iov[1].base, iov[1].len)
    BY <1>1, <2>1, TwoStretches
  <2> QED
    BY <2>2, <2>3 DEF IsBoth
<1>3. CASE iov_count # 2
  <2>1. Bytes("head", iov[0].base, iov[0].len) \in Seq(Region \X Int)
    BY <1>1, BytesAre DEF Region
  <2>2. Offered = Bytes("head", iov[0].base, iov[0].len)
    BY <1>3, <2>1, ConcatEmptySeq DEF Offered
  <2>3. Pair = 0
    BY <1>3 DEF Pair
  <2>4. /\ Len(Offered) = iov[0].len
        /\ \A i \in 1..iov[0].len : Offered[i] = <<"head", iov[0].base + i - 1>>
    BY <1>1, <2>2, BytesAre DEF Region
  <2>5. 1..Pair = {}
    BY <2>3
  <2> QED
    BY <1>1, <2>1, <2>2, <2>3, <2>4, <2>5
<1> QED
  BY <1>2, <1>3

LEMMA ReplyIs ==
  ASSUME write_idx \in Nat, body \in Nat
  PROVE  Reply \in Seq(Region \X Int) /\ Len(Reply) = write_idx + body
<1>1. Reply = Both(0, write_idx, 0, body)
  BY DEF Reply, Both
<1>2. IsBoth(Reply, 0, write_idx, 0, body)
  BY <1>1, TwoStretches
<1> QED
  BY <1>2 DEF IsBoth

Rest == IF iov_count = 2 THEN body + residue ELSE 0

LEMMA ExpectedIs ==
  ASSUME write_idx \in Nat, body \in Nat, residue \in Nat
  PROVE  /\ Expected \in Seq(Region \X Int)
         /\ Len(Expected) = write_idx + Rest
         /\ \A i \in 1..write_idx : Expected[i] = <<"head", 0 + i - 1>>
         /\ \A i \in 1..Rest : Expected[write_idx + i] = <<"body", 0 + i - 1>>
<1>1. CASE iov_count = 2
  <2>1. Expected = Both(0, write_idx, 0, body + residue) /\ Rest = body + residue
    BY <1>1 DEF Expected, Both, Rest
  <2>0. body + residue \in Nat /\ 0 \in Int
    OBVIOUS
  <2> DEFINE n == body + residue
  <2> HIDE DEF n
  <2>2. IsBoth(Expected, 0, write_idx, 0, n)
    BY <2>0, <2>1, TwoStretches DEF n
  <2> QED
    BY <2>1, <2>2 DEF IsBoth, n
<1>2. CASE iov_count # 2
  <2>1. Bytes("head", 0, write_idx) \in Seq(Region \X Int)
    BY BytesAre DEF Region
  <2>2. Expected = Bytes("head", 0, write_idx) /\ Rest = 0
    BY <1>2, <2>1, ConcatEmptySeq DEF Expected, Rest
  <2>3. /\ Len(Expected) = write_idx
        /\ \A i \in 1..write_idx : Expected[i] = <<"head", 0 + i - 1>>
    <3>1. 0 \in Int /\ "head" \in Region
      BY DEF Region
    <3> QED
      BY <2>2, <3>1, BytesAre
  <2>4. 1..Rest = {}
    BY <2>2
  <2> QED
    BY <2>1, <2>2, <2>3, <2>4
<1> QED
  BY <1>1, <1>2
-----------------------------------------------------------------------------
(* writev is never offered more than is to be sent, so that _byte_to_send does *)
(* not pass 0; and a second block is not left empty while there is something   *)
(* to send.                                                                   *)
NeverOffersMore ==
    phase \in {"armed", "writing"} => Len(Offered) <= to_send

SafeInv == TypeOK /\ NeverOffersMore

SecondBlockFull ==
    phase \in {"armed", "writing"} =>
        /\ to_send > 0 /\ iov_count \in 1..2
        /\ iov_count = 2 => iov[0].len > 0 \/ iov[1].len = to_send

(* The two assignments to the iovecs. *)
LEMMA TwoBlocks ==
  ASSUME NEW v \in [0..1 -> Block], NEW a \in Block, NEW b \in Block,
         NEW u, u = [v EXCEPT ![0] = a, ![1] = b]
  PROVE  u \in [0..1 -> Block] /\ u[0] = a /\ u[1] = b
  OBVIOUS

LEMMA FirstBlock ==
  ASSUME NEW v \in [0..1 -> Block], NEW a \in Block,
         NEW u, u = [v EXCEPT ![0] = a]
  PROVE  u \in [0..1 -> Block] /\ u[0] = a /\ u[1] = v[1]
  OBVIOUS

(* How far the body advances when the head is sent. *)
Step(k, total) == IF k < total - write_idx THEN k ELSE total - write_idx

(* What a writev of k bytes does to the iovecs.                              *)
LEMMA AfterWritev ==
  ASSUME SafeInv, NEW k \in Nat, Writev(k)
  PROVE  /\ k <= Len(Offered) /\ k <= to_send
         /\ iov' \in [0..1 -> Block]
         /\ have_send + k >= iov[0].len =>
               /\ iov'[0] = [base |-> iov[0].base, len |-> 0]
               /\ iov_count # 1 =>
                     iov'[1] = [base |-> iov[1].base + Step(k, have_send + k),
                                len |-> to_send - k]
         /\ have_send + k < iov[0].len =>
               /\ iov'[0] = [base |-> have_send + k, len |-> iov[0].len - (have_send + k)]
               /\ iov'[1] = iov[1]
<1>0. /\ TypeOK /\ phase = "writing" /\ Len(Offered) <= to_send
      /\ have_send \in Nat /\ to_send \in Nat /\ write_idx \in Nat
      /\ iov \in [0..1 -> Block]
      /\ iov[0] \in Block /\ iov[1] \in Block
  BY WriterAssumption DEF SafeInv, TypeOK, NeverOffersMore, Writev, Block
<1>1. /\ iov[0].base \in Int /\ iov[0].len \in Nat
      /\ iov[1].base \in Int /\ iov[1].len \in Nat
  BY <1>0 DEF Block
<1>2. Offered \in Seq(Region \X Int)
  BY <1>0, OfferedIs
<1>3. k <= Len(Offered)
  BY <1>2 DEF Writev
<1>4. k <= to_send /\ to_send - k \in Nat /\ have_send + k \in Nat
  BY <1>0, <1>2, <1>3
<1>5. iov' = Advance(k, have_send + k, to_send - k)
  BY Zenon DEF Writev
<1>8. CASE have_send + k >= iov[0].len /\ iov_count = 1
  <2> DEFINE a == [base |-> iov[0].base, len |-> 0]
  <2>1. ~(have_send + k < iov[0].len)
    BY <1>1, <1>4, <1>8
  <2>2. iov' = [iov EXCEPT ![0] = a]
    BY <1>5, <1>8, <2>1 DEF Advance
  <2>3. a \in Block
    BY <1>1 DEF Block
  <2> HIDE DEF a
  <2>4. iov' \in [0..1 -> Block] /\ iov'[0] = a
    BY <1>0, <2>2, <2>3, FirstBlock
  <2> QED
    BY <1>3, <1>4, <1>8, <2>1, <2>4 DEF a
<1>6. CASE have_send + k >= iov[0].len /\ iov_count # 1
  <2> DEFINE a == [base |-> iov[0].base, len |-> 0]
             d == Step(k, have_send + k)
             b == [base |-> iov[1].base + d, len |-> to_send - k]
  <2>0. ~(have_send + k < iov[0].len)
    BY <1>1, <1>4, <1>6
  <2>1. iov' = [iov EXCEPT ![0] = a, ![1] = b]
    BY <1>0, <1>5, <1>6, <2>0 DEF Advance, Step
  <2>2. d \in Int
    BY <1>0 DEF Step
  <2>3. a \in Block /\ b \in Block
    BY <1>1, <1>4, <2>2 DEF Block
  <2> HIDE DEF a, b
  <2>4. iov' \in [0..1 -> Block] /\ iov'[0] = a /\ iov'[1] = b
    BY <1>0, <2>1, <2>3, TwoBlocks
  <2>5. ~(have_send + k < iov[0].len)
    BY <1>1, <1>4, <1>6
  <2> QED
    BY <1>3, <1>4, <2>4, <2>5 DEF a, b
<1>7. CASE ~(have_send + k >= iov[0].len)
  <2> DEFINE a == [base |-> have_send + k, len |-> iov[0].len - (have_send + k)]
  <2>0. have_send + k < iov[0].len
    BY <1>1, <1>4, <1>7
  <2>1. iov' = [iov EXCEPT ![0] = a]
    BY <1>0, <1>5, <2>0 DEF Advance
  <2>2. a \in Block
    BY <1>1, <1>4, <1>7 DEF Block
  <2> HIDE DEF a
  <2>3. iov' \in [0..1 -> Block] /\ iov'[0] = a /\ iov'[1] = iov[1]
    BY <1>0, <2>1, <2>2, FirstBlock
  <2> QED
    BY <1>3, <1>4, <1>7, <2>3 DEF a
<1> QED
  BY <1>6, <1>7, <1>8

(* The types, except those of the iovecs and of _byte_to_send.               *)
LEMMA PlainTypes ==
  ASSUME SafeInv, Next
  PROVE  /\ phase' \in {"closed", "reading", "armed", "writing"}
         /\ linger' \in BOOLEAN /\ residue' \in 0..MaxToSend
         /\ write_idx' \in Nat /\ body' \in Nat /\ cuts' \in 0..MaxCuts
         /\ iov_count' \in 0..2
         /\ have_send' \in Nat
         /\ wire' \in Seq({"head", "body"} \X Int)
<1>0. TypeOK
  BY DEF SafeInv
<1>1. CASE Accept
  BY <1>0, <1>1 DEF TypeOK, Accept
<1>2. ASSUME NEW h \in HeadSizes, NEW b \in BodySizes, Compose(h, b)
      PROVE  /\ phase' \in {"closed", "reading", "armed", "writing"}
             /\ linger' \in BOOLEAN /\ residue' \in 0..MaxToSend
             /\ write_idx' \in Nat /\ body' \in Nat /\ cuts' \in 0..MaxCuts
             /\ iov_count' \in 0..2
             /\ have_send' \in Nat
             /\ wire' \in Seq({"head", "body"} \X Int)
  BY <1>0, <1>2, WriterAssumption DEF TypeOK, Compose
<1>3. CASE EnterWrite
  BY <1>0, <1>3 DEF TypeOK, EnterWrite
<1>4. ASSUME NEW k \in 0..Len(Offered), Writev(k)
      PROVE  /\ phase' \in {"closed", "reading", "armed", "writing"}
             /\ linger' \in BOOLEAN /\ residue' \in 0..MaxToSend
             /\ write_idx' \in Nat /\ body' \in Nat /\ cuts' \in 0..MaxCuts
             /\ iov_count' \in 0..2
             /\ have_send' \in Nat
             /\ wire' \in Seq({"head", "body"} \X Int)
  <2>1. Offered \in Seq(Region \X Int) /\ k \in Nat /\ k <= Len(Offered)
    BY <1>0, OfferedIs
  <2>2. SubSeq(Offered, 1, k) \in Seq(Region \X Int)
    BY <2>1
  <2>3. wire' \in Seq(Region \X Int)
    BY <1>0, <1>4, <2>2, ConcatProperties DEF TypeOK, Writev, Region
  <2>4. cuts' \in 0..MaxCuts
    BY <1>0, <1>4, WriterAssumption DEF TypeOK, Writev
  <2>5. /\ phase' \in {"closed", "reading", "armed", "writing"}
        /\ have_send' \in Nat
    BY <1>0, <1>4, <2>1 DEF TypeOK, Writev
  <2> QED
    BY <1>0, <1>4, <2>3, <2>4, <2>5 DEF TypeOK, Writev, Region
<1>5. CASE WouldBlock
  BY <1>0, <1>5 DEF TypeOK, WouldBlock
<1>6. CASE Close
  BY <1>0, <1>6 DEF TypeOK, Close
<1> QED
  BY <1>1, <1>2, <1>3, <1>4, <1>5, <1>6 DEF Next, Writing

LEMMA NextOffered == TypeOK' => (Len(Offered) = iov[0].len + Pair)'
<1>1. TypeOK => Len(Offered) = iov[0].len + Pair
  BY OfferedIs
<1> QED
  BY <1>1, PTL

LEMMA SafeStep ==
  ASSUME SafeInv, [Next]_vars
  PROVE  SafeInv'
<1>0. /\ TypeOK /\ NeverOffersMore
      /\ to_send \in Nat /\ to_send <= MaxToSend /\ have_send \in Nat
      /\ iov \in [0..1 -> Block] /\ iov[0] \in Block /\ iov[1] \in Block
  BY WriterAssumption DEF SafeInv, TypeOK, Block
<1>1. CASE UNCHANGED vars
  BY <1>0, <1>1 DEF SafeInv, TypeOK, NeverOffersMore, Offered, Bytes, vars
<1> SUFFICES ASSUME Next PROVE SafeInv'
  BY <1>1
<1>2. ASSUME iov' \in [0..1 -> Block], to_send' \in 0..MaxToSend PROVE TypeOK'
  BY <1>2, PlainTypes DEF TypeOK, Block
<1>3. ASSUME TypeOK', iov'[0].len + Pair' <= to_send' PROVE SafeInv'
  <2>1. Len(Offered)' = (iov[0].len + Pair)'
    BY <1>3, NextOffered
  <2> QED
    BY <1>3, <2>1 DEF SafeInv, NeverOffersMore
<1>4. ASSUME UNCHANGED <<iov, iov_count, to_send>>,
             phase' \in {"armed", "writing"} => phase \in {"armed", "writing"}
      PROVE  SafeInv'
  <2>1. TypeOK'
    BY <1>0, <1>2, <1>4 DEF TypeOK, Block
  <2>2. Offered' = Offered
    BY <1>4 DEF Offered, Bytes
  <2> QED
    BY <1>0, <1>4, <2>1, <2>2 DEF SafeInv, NeverOffersMore
<1>5. CASE Accept
  BY <1>4, <1>5 DEF Accept
<1>6. ASSUME NEW h \in HeadSizes, NEW b \in BodySizes, Compose(h, b) PROVE SafeInv'
  <2>0. h \in Nat /\ b \in Nat
    BY WriterAssumption
  <2> DEFINE x == [base |-> 0, len |-> h]
             y == IF b > 0 THEN [base |-> 0, len |-> b] ELSE iov[1]
  <2>1. x \in Block /\ y \in Block
    BY <1>0, <2>0 DEF Block
  <2>2. iov' = [iov EXCEPT ![0] = x, ![1] = y]
    BY <1>0, <1>6 DEF Compose
  <2>3. iov' \in [0..1 -> Block] /\ iov'[0] = x /\ iov'[1] = y
    BY ONLY <1>0, <2>1, <2>2, TwoBlocks
  <2>4. to_send' = to_send + h + b /\ to_send + h + b <= MaxToSend
    BY <1>6 DEF Compose
  <2>5. iov'[0].len + Pair' <= to_send'
    <3>1. iov'[0].len = h
      BY <2>3
    <3>2. Pair' = b
      BY <1>6, <2>0, <2>3 DEF Pair, Compose
    <3> QED
      BY <1>0, <2>0, <2>4, <3>1, <3>2
  <2> QED
    BY <1>0, <1>2, <1>3, <2>0, <2>3, <2>4, <2>5, WriterAssumption
<1>7. CASE EnterWrite
  BY <1>4, <1>7 DEF EnterWrite
<1>8. ASSUME NEW k \in 0..Len(Offered), Writev(k) PROVE SafeInv'
  <2>0. k \in Nat
    OBVIOUS
  <2>1. /\ k <= Len(Offered) /\ k <= to_send
        /\ iov' \in [0..1 -> Block]
        /\ have_send + k >= iov[0].len =>
              /\ iov'[0] = [base |-> iov[0].base, len |-> 0]
              /\ iov_count # 1 =>
                    iov'[1] = [base |-> iov[1].base + Step(k, have_send + k),
                               len |-> to_send - k]
        /\ have_send + k < iov[0].len =>
              /\ iov'[0] = [base |-> have_send + k, len |-> iov[0].len - (have_send + k)]
              /\ iov'[1] = iov[1]
    BY <1>8, <2>0, AfterWritev
  <2>2. to_send' = to_send - k /\ iov_count' = iov_count /\ phase = "writing"
    BY <1>8 DEF Writev
  <2>3. iov[0].len + Pair <= to_send
    BY <1>0, <2>2, OfferedIs DEF NeverOffersMore
  <2>4. iov[0].len \in Nat /\ iov[1].len \in Nat
    BY <1>0 DEF Block
  <2>5. CASE have_send + k >= iov[0].len
    <3>1. iov'[0].len = 0 /\ (iov_count # 1 => iov'[1].len = to_send - k)
      BY <2>1, <2>5
    <3>2. Pair' <= to_send - k
      BY <1>0, <2>0, <2>1, <2>2, <3>1 DEF Pair
    <3>3. Pair' \in Int
      BY <2>1 DEF Pair, Block
    <3>4. iov'[0].len + Pair' <= to_send'
      BY <1>0, <2>0, <2>1, <2>2, <3>1, <3>2, <3>3
    <3>5. to_send' \in 0..MaxToSend
      BY <1>0, <2>0, <2>1, <2>2, WriterAssumption
    <3> QED
      BY <1>2, <1>3, <2>1, <3>4, <3>5
  <2>6. CASE have_send + k < iov[0].len
    <3>1. iov'[0].len = iov[0].len - (have_send + k) /\ iov'[1].len = iov[1].len
      BY <2>1, <2>6
    <3>2. Pair' = Pair /\ Pair \in Nat
      BY <2>2, <2>4, <3>1 DEF Pair
    <3>3. iov'[0].len + Pair' <= to_send'
      BY <1>0, <2>0, <2>1, <2>2, <2>3, <2>4, <2>6, <3>1, <3>2
    <3>4. to_send' \in 0..MaxToSend
      BY <1>0, <2>0, <2>1, <2>2, WriterAssumption
    <3> QED
      BY <1>2, <1>3, <2>1, <3>3, <3>4
  <2> QED
    BY <1>0, <2>0, <2>4, <2>5, <2>6
<1>9. CASE WouldBlock
  BY <1>4, <1>9 DEF WouldBlock
<1>10. CASE Close
  BY <1>4, <1>10 DEF Close
<1> QED
  BY <1>5, <1>6, <1>7, <1>8, <1>9, <1>10 DEF Next, Writing

LEMMA SafeInit ==
  ASSUME Init
  PROVE  SafeInv
<1>1. <<>> \in Seq({"head", "body"} \X Int)
  OBVIOUS
<1> QED
  BY <1>1, WriterAssumption DEF Init, SafeInv, TypeOK, NeverOffersMore

THEOREM AlwaysSafe == Spec => []SafeInv
  BY SafeInit, SafeStep, PTL DEF Spec

(* The variables have their types: _byte_to_send does not pass 0.            *)
THEOREM TypesHold == Spec => []TypeOK
<1>1. SafeInv => TypeOK
  BY DEF SafeInv
<1> QED
  BY <1>1, AlwaysSafe, PTL

LEMMA SecondBlockStep ==
  ASSUME SafeInv, SecondBlockFull, [Next]_vars
  PROVE  SecondBlockFull'
<1>0. /\ TypeOK /\ to_send \in Nat /\ have_send \in Nat
      /\ iov \in [0..1 -> Block] /\ iov[0] \in Block /\ iov[1] \in Block
  BY WriterAssumption DEF SafeInv, TypeOK, Block
<1>1. ASSUME UNCHANGED <<iov, iov_count, to_send>>,
             phase' \in {"armed", "writing"} => phase \in {"armed", "writing"}
      PROVE  SecondBlockFull'
  BY <1>1 DEF SecondBlockFull
<1>2. ASSUME NEW h \in HeadSizes, NEW b \in BodySizes, Compose(h, b) PROVE SecondBlockFull'
  <2>1. h \in Nat /\ h > 0 /\ b \in Nat
    BY WriterAssumption
  <2> DEFINE x == [base |-> 0, len |-> h]
             y == IF b > 0 THEN [base |-> 0, len |-> b] ELSE iov[1]
  <2>2. x \in Block /\ y \in Block
    BY <1>0, <2>1 DEF Block
  <2>3. iov' = [iov EXCEPT ![0] = x, ![1] = y]
    BY <1>0, <1>2 DEF Compose
  <2>4. iov'[0] = x
    BY ONLY <1>0, <2>2, <2>3, TwoBlocks
  <2>5. to_send' = to_send + h + b /\ iov_count' \in 1..2
    BY <1>2 DEF Compose
  <2> QED
    BY <1>0, <2>1, <2>4, <2>5 DEF SecondBlockFull
<1>3. ASSUME NEW k \in 0..Len(Offered), Writev(k) PROVE SecondBlockFull'
  <2>0. k \in Nat
    OBVIOUS
  <2>1. /\ k <= to_send
        /\ have_send + k >= iov[0].len => (iov_count # 1 => iov'[1].len = to_send - k)
        /\ have_send + k < iov[0].len => iov'[0].len = iov[0].len - (have_send + k)
    <3>1. /\ k <= to_send
          /\ have_send + k >= iov[0].len /\ iov_count # 1 =>
                   iov'[1] = [base |-> iov[1].base + Step(k, have_send + k),
                              len |-> to_send - k]
          /\ have_send + k < iov[0].len =>
                iov'[0] = [base |-> have_send + k, len |-> iov[0].len - (have_send + k)]
      BY <1>3, <2>0, AfterWritev
    <3> QED
      BY <3>1
  <2>2. /\ to_send' = to_send - k /\ iov_count' = iov_count /\ phase = "writing"
        /\ phase' = IF to_send > k THEN "writing" ELSE IF linger THEN "reading" ELSE "closed"
    BY <1>3 DEF Writev
  <2>3. iov[0].len \in Nat
    BY <1>0 DEF Block
  <2> QED
    BY <1>0, <2>0, <2>1, <2>2, <2>3 DEF SecondBlockFull
<1>4. CASE Accept
  BY <1>1, <1>4 DEF Accept
<1>5. CASE EnterWrite
  BY <1>1, <1>5 DEF EnterWrite
<1>6. CASE WouldBlock
  BY <1>1, <1>6 DEF WouldBlock
<1>7. CASE Close
  BY <1>1, <1>7 DEF Close
<1>8. CASE UNCHANGED vars
  BY <1>1, <1>8 DEF vars
<1> QED
  BY <1>2, <1>3, <1>4, <1>5, <1>6, <1>7, <1>8 DEF Next, Writing
-----------------------------------------------------------------------------
(***************************************************************************)
(* What reaches the client.  A reply has either part of its head still to go, *)
(* and then the iovecs are the rest of the head and the whole body, or only   *)
(* the rest of its body, with as many bytes behind it as the residue has.     *)
(***************************************************************************)
Sent == Len(wire)

HeadLeft ==
    /\ Sent < write_idx
    /\ iov[0] = [base |-> Sent, len |-> write_idx - Sent]
    /\ Sent > 0 => cuts >= 1
    /\ body > 0 => iov[1] = [base |-> 0, len |-> body]

BodyLeft ==
    /\ Sent >= write_idx
    /\ iov[0].len = 0
    /\ body > 0 => iov[1] = [base |-> Sent - write_idx,
                             len |-> write_idx + (body + residue) - Sent]

(* The bytes sent are the first of the reply, and _byte_to_send is what is   *)
(* missing.                                                                  *)
Prefixed ==
    /\ \A i \in 1..Sent : wire[i] = Expected[i]
    /\ to_send = write_idx + (body + residue) - Sent
    /\ Sent <= Len(Expected)

InStep ==
    /\ have_send = Sent
    /\ iov_count = IF body > 0 THEN 2 ELSE 1
    /\ HeadLeft \/ BodyLeft

WireInv ==
    /\ phase = "reading" => have_send = 0
    /\ cuts <= 1 => Prefixed
    /\ cuts <= 1 /\ phase \in {"armed", "writing"} => InStep

(* What the iovecs offer is what comes next in what is expected.             *)
LEMMA OfferedIsNext ==
  ASSUME SafeInv, Prefixed, InStep
  PROVE  /\ Sent + Len(Offered) <= Len(Expected)
         /\ \A i \in 1..Len(Offered) : Offered[i] = Expected[Sent + i]
<1>0. /\ TypeOK /\ write_idx \in Nat /\ body \in Nat /\ residue \in Nat
      /\ Sent \in Nat /\ to_send \in Nat
      /\ to_send = write_idx + (body + residue) - Sent /\ Sent <= Len(Expected)
      /\ iov_count = IF body > 0 THEN 2 ELSE 1
      /\ iov[0].len \in Nat /\ iov[1].len \in Nat
  BY WriterAssumption DEF SafeInv, TypeOK, Prefixed, InStep, Sent
<1>1. /\ Len(Offered) = iov[0].len + Pair
      /\ \A i \in 1..iov[0].len : Offered[i] = <<"head", iov[0].base + i - 1>>
      /\ \A i \in 1..Pair : Offered[iov[0].len + i] = <<"body", iov[1].base + i - 1>>
  BY <1>0, OfferedIs
<1>2. /\ Len(Expected) = write_idx + Rest
      /\ \A i \in 1..write_idx : Expected[i] = <<"head", 0 + i - 1>>
      /\ \A i \in 1..Rest : Expected[write_idx + i] = <<"body", 0 + i - 1>>
  BY <1>0, ExpectedIs
<1>3. /\ body > 0 => Pair = iov[1].len /\ Rest = body + residue
      /\ ~(body > 0) => Pair = 0 /\ Rest = 0
      /\ Rest \in Nat
  BY <1>0 DEF Pair, Rest
<1>4. CASE HeadLeft
  <2>1. /\ Sent < write_idx
        /\ iov[0].base = Sent /\ iov[0].len = write_idx - Sent
        /\ body > 0 => iov[1].base = 0 /\ iov[1].len = body
    BY <1>4 DEF HeadLeft
  <2>2. Pair = body /\ body <= Rest /\ Rest \in Nat
    BY <1>0, <1>3, <2>1
  <2>3. Sent + Len(Offered) <= Len(Expected)
    BY <1>0, <1>1, <1>2, <2>1, <2>2
  <2>4. ASSUME NEW i \in 1..Len(Offered) PROVE Offered[i] = Expected[Sent + i]
    <3>1. CASE i <= iov[0].len
      <4>1. i \in 1..iov[0].len /\ Sent + i \in 1..write_idx
        BY <1>0, <2>1, <3>1
      <4>2. Offered[i] = <<"head", Sent + i - 1>>
        BY <1>1, <2>1, <4>1
      <4>3. Expected[Sent + i] = <<"head", 0 + (Sent + i) - 1>>
        BY <1>2, <4>1
      <4>4. 0 + (Sent + i) - 1 = Sent + i - 1
        BY <1>0
      <4> QED
        BY <4>2, <4>3, <4>4
    <3>2. CASE ~(i <= iov[0].len)
      <4> DEFINE j == i - iov[0].len
      <4>1. /\ body > 0 /\ j \in 1..Pair /\ j \in 1..Rest
            /\ i = iov[0].len + j /\ Sent + i = write_idx + j
        BY <1>0, <1>1, <1>3, <2>1, <2>2, <3>2
      <4> HIDE DEF j
      <4>2. Offered[i] = <<"body", iov[1].base + j - 1>>
        BY <1>1, <4>1
      <4>3. Expected[Sent + i] = <<"body", 0 + j - 1>>
        BY <1>2, <4>1
      <4>4. iov[1].base = 0
        BY <2>1, <4>1
      <4> QED
        BY <4>2, <4>3, <4>4
    <3> QED
      BY <3>1, <3>2
  <2> QED
    BY <2>3, <2>4
<1>5. CASE BodyLeft
  <2>1. /\ Sent >= write_idx /\ iov[0].len = 0
        /\ body > 0 => /\ iov[1].base = Sent - write_idx
                       /\ iov[1].len = write_idx + (body + residue) - Sent
    BY <1>5 DEF BodyLeft
  <2>2. Len(Offered) = Pair /\ Sent + Pair <= Len(Expected)
    BY <1>0, <1>1, <1>2, <1>3, <2>1
  <2>3. ASSUME NEW i \in 1..Len(Offered) PROVE Offered[i] = Expected[Sent + i]
    <3>1. i \in 1..Pair /\ i = iov[0].len + i
      BY <1>0, <2>1, <2>2
    <3>2. body > 0 /\ iov[1].base = Sent - write_idx /\ Rest = body + residue
      BY <1>0, <1>3, <2>1, <3>1
    <3> DEFINE j == (Sent - write_idx) + i
    <3>3. j \in 1..Rest /\ Sent + i = write_idx + j /\ iov[1].base + i - 1 = 0 + j - 1
      BY <1>0, <1>2, <2>1, <2>2, <3>1, <3>2
    <3> HIDE DEF j
    <3>4. Offered[i] = <<"body", iov[1].base + i - 1>>
      BY <1>1, <3>1
    <3>5. Expected[Sent + i] = <<"body", 0 + j - 1>>
      BY <1>2, <3>3
    <3> QED
      BY <3>3, <3>4, <3>5
  <2> QED
    BY <2>2, <2>3
<1> QED
  BY <1>4, <1>5 DEF InStep

(* A writev of k bytes makes the client's bytes k longer.                    *)
LEMMA WireGrows ==
  ASSUME SafeInv, NEW k \in Nat, Writev(k), Prefixed, InStep
  PROVE  /\ Sent' = Sent + k /\ k <= to_send
         /\ Prefixed'
<1>0. /\ TypeOK /\ write_idx \in Nat /\ body \in Nat /\ residue \in Nat
      /\ Sent \in Nat /\ to_send \in Nat
      /\ wire \in Seq(Region \X Int)
      /\ to_send = write_idx + (body + residue) - Sent
      /\ \A i \in 1..Sent : wire[i] = Expected[i]
  BY WriterAssumption DEF SafeInv, TypeOK, Prefixed, Sent, Region
<1>1. k <= Len(Offered) /\ k <= to_send
  BY AfterWritev
<1> DEFINE C == Region \X Int
<1>2. Offered \in Seq(C) /\ wire \in Seq(C)
  BY <1>0, OfferedIs
<1>3. /\ Sent + Len(Offered) <= Len(Expected)
      /\ \A i \in 1..Len(Offered) : Offered[i] = Expected[Sent + i]
  BY OfferedIsNext
<1> HIDE DEF C
<1> DEFINE s == SubSeq(Offered, 1, k)
<1>4. s \in Seq(C) /\ Len(s) = k /\ \A i \in 1..k : s[i] = Offered[i]
  BY <1>1, <1>2
<1>5. wire' = wire \o s /\ to_send' = to_send - k /\ write_idx' = write_idx /\ body' = body
      /\ residue' = residue /\ iov_count' = iov_count
  BY DEF Writev
<1> HIDE DEF s
<1>6. /\ Len(wire \o s) = Len(wire) + k
      /\ \A i \in 1..Len(wire) : (wire \o s)[i] = wire[i]
      /\ \A i \in 1..k : (wire \o s)[Len(wire) + i] = s[i]
  <2>1. wire \in Seq(C) /\ s \in Seq(C) /\ Len(s) = k
    BY <1>2, <1>4
  <2>2. /\ Len(wire \o s) = Len(wire) + Len(s)
        /\ \A i \in 1..Len(wire) : (wire \o s)[i] = wire[i]
        /\ \A i \in 1..Len(s) : (wire \o s)[Len(wire) + i] = s[i]
    <3>1. ASSUME NEW u \in Seq(C), NEW v \in Seq(C)
          PROVE  /\ Len(u \o v) = Len(u) + Len(v)
                 /\ \A i \in 1..Len(u) : (u \o v)[i] = u[i]
                 /\ \A i \in 1..Len(v) : (u \o v)[Len(u) + i] = v[i]
      BY Behind
    <3> QED
      BY ONLY <2>1, <3>1
  <2> QED
    BY <2>1, <2>2
<1>7. Sent' = Sent + k
  BY <1>5, <1>6 DEF Sent
<1>8. Expected' = Expected
  BY <1>5 DEF Expected, Bytes
<1>9. ASSUME NEW i \in 1..Sent' PROVE wire'[i] = Expected[i]
  <2>1. CASE i <= Sent
    BY <1>0, <1>5, <1>6, <1>7, <2>1 DEF Sent
  <2>2. CASE ~(i <= Sent)
    <3> DEFINE j == i - Sent
    <3>1. j \in 1..k /\ j \in 1..Len(Offered) /\ i = Sent + j
      BY <1>0, <1>1, <1>2, <1>7, <2>2
    <3> HIDE DEF j
    <3>2. wire'[i] = s[j]
      BY <1>5, <1>6, <3>1 DEF Sent
    <3>3. s[j] = Expected[Sent + j]
      BY <1>3, <1>4, <3>1
    <3> QED
      BY <3>1, <3>2, <3>3
  <2> QED
    BY <2>1, <2>2
<1>10. to_send' = write_idx' + (body' + residue') - Sent'
  BY <1>0, <1>5, <1>7
<1>11. Sent' <= Len(Expected)
  <2>1. Len(Expected) \in Nat /\ Len(Offered) \in Nat
    BY <1>0, <1>2, ExpectedIs
  <2> QED
    BY <1>0, <1>1, <1>3, <1>7, <2>1
<1> QED
  BY <1>1, <1>7, <1>8, <1>9, <1>10, <1>11 DEF Prefixed

(* And leaves the iovecs on the rest of the reply, if the head was not cut   *)
(* before: a second cut would count the first piece of the head twice.       *)
LEMMA StaysInStep ==
  ASSUME SafeInv, cuts' <= 1, NEW k \in Nat, Writev(k), Prefixed, InStep,
         phase' = "writing"
  PROVE  InStep'
<1>0. /\ TypeOK /\ write_idx \in Nat /\ body \in Nat /\ residue \in Nat
      /\ Sent \in Nat /\ to_send \in Nat /\ cuts \in Nat
      /\ iov[0].len \in Nat /\ iov[1].base \in Int
      /\ to_send = write_idx + (body + residue) - Sent /\ have_send = Sent
  BY WriterAssumption DEF SafeInv, TypeOK, Prefixed, InStep, Sent
<1>1. /\ have_send + k >= iov[0].len =>
            /\ iov'[0] = [base |-> iov[0].base, len |-> 0]
            /\ iov_count # 1 =>
                  iov'[1] = [base |-> iov[1].base + Step(k, have_send + k),
                             len |-> to_send - k]
      /\ have_send + k < iov[0].len =>
            /\ iov'[0] = [base |-> have_send + k, len |-> iov[0].len - (have_send + k)]
            /\ iov'[1] = iov[1]
  BY AfterWritev
<1>2. Sent' = Sent + k
  BY WireGrows
<1>3. /\ have_send' = have_send + k /\ iov_count' = iov_count
      /\ write_idx' = write_idx /\ body' = body /\ residue' = residue
      /\ cuts' = IF k < iov[0].len THEN cuts + 1 ELSE cuts
  BY DEF Writev
<1>4. have_send' = Sent' /\ iov_count' = IF body' > 0 THEN 2 ELSE 1
  BY <1>0, <1>2, <1>3 DEF InStep
<1>5. CASE HeadLeft
  <2>1. /\ Sent < write_idx /\ iov[0].base = Sent /\ iov[0].len = write_idx - Sent
        /\ Sent > 0 => cuts >= 1
        /\ body > 0 => iov[1] = [base |-> 0, len |-> body]
    BY <1>5 DEF HeadLeft
  <2>2. k < iov[0].len => Sent = 0
    BY <1>0, <1>3, <2>1
  <2>3. CASE k >= iov[0].len
    <3>1. have_send + k >= iov[0].len /\ Sent + k >= write_idx
      BY <1>0, <2>1, <2>3
    <3>2. iov'[0].len = 0
      BY <1>1, <3>1
    <3>3. ASSUME body > 0
          PROVE  iov'[1] = [base |-> Sent' - write_idx, len |-> write_idx + (body + residue) - Sent']
      <4>1. iov[1].base = 0
        BY <2>1, <3>3
      <4>2. iov[1].base + Step(k, have_send + k) = Sent' - write_idx
        BY <1>0, <1>2, <2>1, <3>1, <4>1 DEF Step
      <4>3. to_send - k = write_idx + (body + residue) - Sent'
        BY <1>0, <1>2
      <4> QED
        BY <1>1, <3>1, <3>3, <4>2, <4>3 DEF InStep
    <3>4. BodyLeft'
      BY <1>2, <1>3, <3>1, <3>2, <3>3 DEF BodyLeft
    <3> QED
      BY <1>4, <3>4 DEF InStep
  <2>4. CASE k < iov[0].len
    <3>1. Sent = 0 /\ have_send + k < iov[0].len /\ Sent' < write_idx
      BY <1>0, <1>2, <2>1, <2>2, <2>4
    <3>2. /\ iov'[0] = [base |-> have_send + k, len |-> iov[0].len - (have_send + k)]
          /\ iov'[1] = iov[1]
      BY <1>1, <3>1
    <3>3. have_send + k = Sent' /\ iov[0].len - (have_send + k) = write_idx - Sent'
      BY <1>0, <1>2, <2>1, <3>1
    <3>4. cuts' >= 1
      BY <1>0, <1>3, <2>4
    <3>5. HeadLeft'
      BY <1>3, <2>1, <3>1, <3>2, <3>3, <3>4 DEF HeadLeft
    <3> QED
      BY <1>4, <3>5 DEF InStep
  <2> QED
    BY <1>0, <2>3, <2>4
<1>6. CASE BodyLeft
  <2>1. /\ Sent >= write_idx /\ iov[0].len = 0
        /\ body > 0 => iov[1].base = Sent - write_idx
    BY <1>6 DEF BodyLeft
  <2>2. have_send + k >= iov[0].len /\ Sent + k >= write_idx
    BY <1>0, <2>1
  <2>3. iov'[0].len = 0
    BY <1>1, <2>2
  <2>4. ASSUME body > 0
        PROVE  iov'[1] = [base |-> Sent' - write_idx, len |-> write_idx + (body + residue) - Sent']
    <3>1. iov[1].base + Step(k, have_send + k) = Sent' - write_idx
      BY <1>0, <1>2, <2>1, <2>4 DEF Step
    <3>2. to_send - k = write_idx + (body + residue) - Sent'
      BY <1>0, <1>2
    <3> QED
      BY <1>1, <2>2, <2>4, <3>1, <3>2 DEF InStep
  <2>5. BodyLeft'
    BY <1>2, <1>3, <2>2, <2>3, <2>4 DEF BodyLeft
  <2> QED
    BY <1>4, <2>5 DEF InStep
<1> QED
  BY <1>5, <1>6 DEF InStep

(* A step that leaves the reply, the iovecs and the counts alone.            *)
LEMMA WireKept ==
  ASSUME WireInv,
         UNCHANGED <<write_idx, body, iov, iov_count, to_send, wire, cuts, residue>>,
         phase' = "reading" => have_send' = 0,
         phase' \in {"armed", "writing"} =>
             phase \in {"armed", "writing"} /\ have_send' = have_send
  PROVE  WireInv'
<1>1. Expected' = Expected /\ Sent' = Sent
  BY DEF Expected, Bytes, Sent
<1>2. Prefixed => Prefixed'
  BY <1>1 DEF Prefixed
<1>3. ASSUME InStep, have_send' = have_send PROVE InStep'
  BY <1>1, <1>3 DEF InStep, HeadLeft, BodyLeft
<1> QED
  BY <1>2, <1>3 DEF WireInv

LEMMA NextExpected ==
  (write_idx \in Nat /\ body \in Nat /\ residue \in Nat => Len(Expected) \in Nat)'
<1>1. write_idx \in Nat /\ body \in Nat /\ residue \in Nat => Len(Expected) \in Nat
  <2> SUFFICES ASSUME write_idx \in Nat, body \in Nat, residue \in Nat
               PROVE  Len(Expected) \in Nat
    OBVIOUS
  <2>1. Expected \in Seq(Region \X Int)
    BY ExpectedIs
  <2> QED
    BY <2>1
<1> QED
  BY <1>1, PTL

LEMMA WireStep ==
  ASSUME SafeInv, WireInv, [Next]_vars
  PROVE  WireInv'
<1>0. TypeOK
  BY DEF SafeInv
<1>1. CASE UNCHANGED vars
  BY <1>1, WireKept DEF WireInv, vars
<1>2. CASE Accept
  BY <1>2, WireKept DEF Accept
<1>3. ASSUME NEW h \in HeadSizes, NEW b \in BodySizes, Compose(h, b) PROVE WireInv'
  <2>0. h \in Nat /\ b \in Nat /\ h > 0 /\ to_send \in Nat
    BY <1>0, WriterAssumption DEF TypeOK
  <2>1. /\ phase' = "armed" /\ have_send = 0 /\ have_send' = 0
        /\ write_idx' = h /\ body' = b /\ wire' = <<>>
        /\ iov_count' = IF b > 0 THEN 2 ELSE 1
        /\ to_send' = to_send + h + b
        /\ residue' = to_send
    BY <1>3 DEF Compose, WireInv
  <2>2. Sent' = 0
    BY <2>1 DEF Sent
  <2> DEFINE x == [base |-> 0, len |-> h]
             y == IF b > 0 THEN [base |-> 0, len |-> b] ELSE iov[1]
  <2>3. iov' = [iov EXCEPT ![0] = x, ![1] = y]
    BY <1>0, <1>3 DEF Compose, TypeOK
  <2>4. x \in Block /\ y \in Block /\ iov \in [0..1 -> Block]
    BY <1>0, <2>0 DEF TypeOK, Block
  <2>5. iov'[0] = x /\ iov'[1] = y
    BY ONLY <2>3, <2>4, TwoBlocks
  <2>6. HeadLeft'
    BY <2>0, <2>1, <2>2, <2>5 DEF HeadLeft
  <2>7. InStep'
    BY <2>1, <2>2, <2>6 DEF InStep
  <2>8. Prefixed'
    <3>1. Len(Expected)' \in Nat
      BY <2>0, <2>1, NextExpected
    <3> QED
      BY <2>0, <2>1, <2>2, <3>1 DEF Prefixed
  <2> QED
    BY <2>1, <2>7, <2>8 DEF WireInv
<1>4. CASE EnterWrite
  BY <1>4, WireKept DEF EnterWrite
<1>5. ASSUME NEW k \in 0..Len(Offered), Writev(k) PROVE WireInv'
  <2>0. k \in Nat
    OBVIOUS
  <2>1. phase' = "reading" => have_send' = 0
    BY <1>5, Zenon DEF Writev
  <2>2. ASSUME cuts' <= 1 PROVE Prefixed' /\ (phase' \in {"armed", "writing"} => InStep')
    <3>0. cuts \in Nat /\ (cuts' = cuts \/ cuts' = cuts + 1)
      BY <1>0, <1>5 DEF TypeOK, Writev
    <3>1. Prefixed /\ InStep
      BY <1>5, <2>2, <3>0 DEF Writev, WireInv
    <3>2. Prefixed'
      BY <1>5, <2>0, <3>1, WireGrows
    <3>3. phase' # "armed"
      BY <1>5 DEF Writev
    <3>4. phase' = "writing" => InStep'
      BY <1>5, <2>0, <2>2, <3>1, StaysInStep
    <3> QED
      BY <3>2, <3>3, <3>4
  <2> QED
    BY <2>1, <2>2 DEF WireInv
<1>6. CASE WouldBlock
  BY <1>6, WireKept DEF WouldBlock
<1>7. CASE Close
  BY <1>7, WireKept DEF Close
<1> QED
  BY <1>1, <1>2, <1>3, <1>4, <1>5, <1>6, <1>7 DEF Next, Writing

LEMMA WireInit ==
  ASSUME Init
  PROVE  WireInv
<1>1. /\ 1..Sent = {} /\ Sent = 0 /\ write_idx = 0 /\ body = 0 /\ residue = 0 /\ to_send = 0
      /\ phase = "closed"
  BY DEF Init, Sent
<1>2. Len(Expected) \in Nat
  BY <1>1, ExpectedIs
<1> QED
  BY <1>1, <1>2 DEF WireInv, Prefixed

(* The bytes of an invariant, as a prefix. *)
LEMMA PrefixFromBytes ==
  ASSUME SafeInv, WireInv
  PROVE  WirePrefix
<1> SUFFICES ASSUME cuts <= 1
             PROVE  IsPrefix(wire, Expected) /\ to_send = Len(Reply) + residue - Len(wire)
  BY DEF WirePrefix
<1>0. /\ wire \in Seq(Region \X Int) /\ write_idx \in Nat /\ body \in Nat
      /\ residue \in Nat /\ to_send \in Nat /\ Sent \in Nat
  BY WriterAssumption DEF SafeInv, TypeOK, Region, Sent
<1>1. /\ to_send = write_idx + (body + residue) - Sent /\ Sent <= Len(Expected)
      /\ \A i \in 1..Sent : wire[i] = Expected[i]
  BY DEF WireInv, Prefixed
<1>2. Expected \in Seq(Region \X Int) /\ Len(Expected) \in Nat /\ Len(wire) = Sent
  BY <1>0, ExpectedIs DEF Sent
<1> DEFINE C == Region \X Int
<1>4. \A i \in 1..Sent : wire[i] \in C /\ Expected[i] \in C
  BY <1>0, <1>1, <1>2
<1> HIDE DEF C
<1>5. SubSeq(wire, 1, Sent) = SubSeq(Expected, 1, Sent)
  <2> DEFINE s == SubSeq(wire, 1, Sent)
             t == SubSeq(Expected, 1, Sent)
  <2>1. /\ s \in Seq(C) /\ Len(s) = Sent /\ \A i \in 1..Sent : s[i] = wire[i]
    BY <1>0, <1>4, SubSeqProperties
  <2>2. /\ t \in Seq(C) /\ Len(t) = Sent /\ \A i \in 1..Sent : t[i] = Expected[i]
    BY <1>0, <1>4, SubSeqProperties
  <2> HIDE DEF s, t
  <2>3. s = t
    BY <1>0, <1>1, <2>1, <2>2, SeqEqual
  <2> QED
    BY <2>3 DEF s, t
<1>6. IsPrefix(wire, Expected)
  BY <1>1, <1>2, <1>5, Zenon DEF IsPrefix
<1>7. to_send = Len(Reply) + residue - Len(wire)
  BY <1>0, <1>1, <1>2, ReplyIs
<1> QED
  BY <1>6, <1>7

(* A second block offers what is to be sent, and one block the rest of a head  *)
(* that has not been cut twice.                                               *)
LEMMA SomethingOffered ==
  ASSUME SafeInv, SecondBlockFull, WireInv
  PROVE  OffersTheRest
<1> SUFFICES ASSUME phase = "writing", Offered = <<>>, ~ShortOfOffer PROVE FALSE
  BY DEF OffersTheRest
<1>0. /\ TypeOK /\ write_idx \in Nat /\ body \in Nat /\ residue \in Nat /\ cuts \in Nat
      /\ Sent \in Nat /\ to_send \in Nat
      /\ iov[0].len \in Nat /\ iov[1].len \in Nat
  BY WriterAssumption DEF SafeInv, TypeOK, Sent
<1>1. iov[0].len + Pair = 0
  <2>1. Len(Offered) = iov[0].len + Pair /\ Len(Offered) = 0
    BY <1>0, OfferedIs
  <2> QED
    BY <2>1
<1>2. /\ to_send > 0 /\ iov_count \in 1..2
      /\ iov_count = 2 => iov[0].len > 0 \/ iov[1].len = to_send
  BY DEF SecondBlockFull
<1>3. iov[0].len = 0 /\ (iov_count = 2 => iov[1].len = 0)
  <2>1. Pair \in Nat /\ (iov_count = 2 => Pair = iov[1].len)
    BY <1>0 DEF Pair
  <2>2. \A m, n \in Nat : m + n = 0 => m = 0 /\ n = 0
    OBVIOUS
  <2>3. iov[0].len = 0 /\ Pair = 0
    BY <1>0, <1>1, <2>1, <2>2
  <2> QED
    BY <2>1, <2>3
<1>4. iov_count = 1
  BY <1>0, <1>2, <1>3
<1>5. residue = 0 /\ cuts <= 1
  BY <1>0, <1>4 DEF ShortOfOffer
<1>6. Prefixed /\ InStep
  BY <1>5 DEF WireInv
<1>7. body = 0 /\ to_send = write_idx - Sent
  BY <1>0, <1>4, <1>5, <1>6 DEF Prefixed, InStep
<1>8. HeadLeft
  BY <1>0, <1>2, <1>6, <1>7 DEF InStep, BodyLeft
<1> QED
  BY <1>0, <1>2, <1>3, <1>7, <1>8 DEF HeadLeft

LEMMA AlwaysInStep == Spec => []WireInv
<1>1. Init => WireInv
  BY WireInit
<1>2. SafeInv /\ WireInv /\ [Next]_vars => WireInv'
  BY WireStep
<1> QED
  BY <1>1, <1>2, AlwaysSafe, PTL DEF Spec

(* What a client has received is a beginning of what write() takes the reply   *)
(* to be, the reply and the residue of an unfinished one, and _byte_to_send    *)
(* is what is missing, for replies of every length and however often the       *)
(* kernel stops, unless it has stopped twice inside this reply's head.         *)
THEOREM RepliesArrive == Spec => []WirePrefix
<1>1. SafeInv /\ WireInv => WirePrefix
  BY PrefixFromBytes
<1> QED
  BY <1>1, AlwaysSafe, AlwaysInStep, PTL

(* While it has something to send, write() has something to offer to writev,   *)
(* and so goes on: but for a reply in one block that follows an unfinished one  *)
(* or whose head was cut twice.                                               *)
THEOREM WritevIsOffered == Spec => []OffersTheRest
<1>1. Init => SecondBlockFull
  BY DEF Init, SecondBlockFull
<1>2. SafeInv /\ SecondBlockFull /\ [Next]_vars => SecondBlockFull'
  BY SecondBlockStep
<1>3. SafeInv /\ SecondBlockFull /\ WireInv => OffersTheRest
  BY SomethingOffered
<1> QED
  BY <1>1, <1>2, <1>3, AlwaysSafe, AlwaysInStep, PTL DEF Spec
=============================================================================
