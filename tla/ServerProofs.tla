----------------------------- MODULE ServerProofs -----------------------------
(***************************************************************************)
(* Theorems about Log and Server, for any length of queue and file, any       *)
(* number of lines, days and signals.  What the lines do inside _logQueue is   *)
(* that module's business: its lemmas are instantiated.                       *)
(***************************************************************************)
EXTENDS Server, FiniteSetTheorems, SequenceTheorems, WellFoundedInduction, TLAPS

QP == INSTANCE BlockQueueProofs
    WITH Values <- Messages, NoValue <- 0, Consumers <- {Writer},
         Nobody <- NoBody, MaxSize <- QueueSize

(* A set of numbers has a least one. *)
Below == {p \in Nat \X Nat : p[1] < p[2]}

LEMMA BelowIsWellFounded == IsWellFoundedOn(Below, Nat)
<1>1. Below = OpToRel(<, Nat)
  BY DEF Below, OpToRel
<1> QED
  BY <1>1, NatLessThanWellFounded

LEMMA Least ==
  ASSUME NEW T \in SUBSET Nat, T # {}
  PROVE  \E m \in T : \A k \in T : m <= k
<1>1. PICK m \in T : \A k \in T : ~(<<k, m>> \in Below)
  BY BelowIsWellFounded, WFMin
<1>2. ASSUME NEW k \in T PROVE m <= k
  <2>1. k < m => <<k, m>> \in Below
    BY DEF Below
  <2> QED
    BY <1>1, <2>1
<1> QED
  BY <1>2

(* creatFile() finds a name that is not there yet. *)
LEMMA FreeName ==
  ASSUME NEW E, IsFiniteSet(E), NEW d, NEW idx \in Nat
  PROVE  /\ FirstFree(d, idx, E) \in Nat /\ FirstFree(d, idx, E) >= idx
         /\ <<d, FirstFree(d, idx, E)>> \notin E
<1> DEFINE N == idx + Cardinality(E)
           Free == {i \in idx..N : <<d, i>> \notin E}
<1>1. Cardinality(E) \in Nat /\ N \in Nat
  BY FS_CardinalityType
<1>2. Free # {}
  <2> SUFFICES ASSUME Free = {} PROVE FALSE
    OBVIOUS
  <2> DEFINE f == [i \in idx..N |-> <<d, i>>]
  <2>1. \A i \in idx..N : <<d, i>> \in E
    OBVIOUS
  <2>2. f \in Injection(idx..N, E)
    BY <2>1 DEF Injection, IsInjective
  <2>3. Cardinality(idx..N) <= Cardinality(E)
    BY <2>2, FS_Injection
  <2>4. Cardinality(idx..N) = N - idx + 1
    BY <1>1, FS_Interval
  <2> QED
    BY <1>1, <2>3, <2>4
<1>3. PICK m \in Free : \A k \in Free : m <= k
  <2>1. Free \subseteq Nat
    BY <1>1
  <2> QED
    BY <1>2, <2>1, Least
<1>4. /\ m \in idx..N /\ <<d, m>> \notin E
      /\ \A j \in idx..(m - 1) : <<d, j>> \in E
  BY <1>1, <1>3
<1>5. \E i \in idx..(idx + Cardinality(E)) :
          <<d, i>> \notin E /\ \A j \in idx..(i - 1) : <<d, j>> \in E
  BY <1>4
<1>6. /\ FirstFree(d, idx, E) \in idx..(idx + Cardinality(E))
      /\ <<d, FirstFree(d, idx, E)>> \notin E
  BY <1>5 DEF FirstFree
<1> QED
  BY <1>1, <1>6
-----------------------------------------------------------------------------
(* The queue of the logger. *)
Lines == Queue!Contents

LEMMA QueueIsGood == QP!QueueAssumption
<1>1. QP!IsFiniteSet({Writer})
  <2> DEFINE s == <<Writer>>
  <2>1. s \in Seq({Writer}) /\ \A e \in {Writer} : \E n \in 1..Len(s) : s[n] = e
    OBVIOUS
  <2> QED
    BY <2>1, Zenon DEF QP!IsFiniteSet
<1> QED
  BY <1>1, LogAssumption DEF QP!QueueAssumption, Messages

LEMMA LinesAre == Lines = QP!Contents
  BY DEF Lines, Queue!Contents, QP!Contents, Queue!Slot, QP!Slot

LEMMA QueueTypes == ASSUME QP!QueueInv PROVE Queue!TypeOK
  BY DEF QP!QueueInv, QP!TypeOK, Queue!TypeOK

LEMMA QueueBegins == ASSUME Queue!Init PROVE QP!QueueInv /\ Lines = <<>>
<1>1. QP!Init
  BY DEF Queue!Init, QP!Init
<1> QED
  BY <1>1, QP!InvInit, QueueIsGood, LinesAre

LEMMA QueuePushes ==
  ASSUME QP!QueueInv, NEW v \in Messages, Queue!Push(v)
  PROVE  QP!QueueInv' /\ Lines' = Append(Lines, v)
<1>1. QP!Push(v)
  BY DEF Queue!Push, QP!Push, Queue!Slot, QP!Slot, Queue!Woken, QP!Woken
<1>2. QP!QueueInv' /\ QP!Contents' = Append(QP!Contents, v)
  BY <1>1, QP!PushKeeps, QueueIsGood
<1> QED
  BY <1>2 DEF Lines, Queue!Contents, QP!Contents, Queue!Slot, QP!Slot

LEMMA QueuePops ==
  ASSUME QP!QueueInv, Queue!PopAtOnce(Writer) \/ Queue!WakeTake(Writer)
  PROVE  /\ QP!QueueInv' /\ Lines # <<>> /\ Lines' = Tail(Lines)
         /\ item'[Writer] = Head(Lines)
<1>1. mutex = NoBody /\ size > 0 /\ QP!TakeFront(Writer)
  BY DEF Queue!PopAtOnce, Queue!WakeTake, Queue!TakeFront, QP!TakeFront, Queue!Slot, QP!Slot,
     Queue!FrontItem, QP!FrontItem, Queue!Goto, QP!Goto
<1>2. /\ QP!QueueInv' /\ QP!Contents # <<>> /\ QP!Contents' = Tail(QP!Contents)
      /\ item' = [item EXCEPT ![Writer] = Head(QP!Contents)]
  BY <1>1, QP!TakeKeeps, QueueIsGood
<1>3. item \in [{Writer} -> Messages \cup {0}]
  BY DEF QP!QueueInv, QP!TypeOK
<1> QED
  BY <1>2, <1>3 DEF Lines, Queue!Contents, QP!Contents, Queue!Slot, QP!Slot

(* Everything else that happens to it leaves the lines as they are. *)
LEMMA QueueWaits ==
  ASSUME QP!QueueInv,
         \/ Queue!PushFull \/ Queue!QuitFlag \/ Queue!QuitBroadcast
         \/ Queue!PopEmpty(Writer, FALSE) \/ Queue!Sleep(Writer) \/ Queue!Spurious(Writer)
         \/ Queue!WakeExit(Writer) \/ Queue!WakeEmpty(Writer)
  PROVE  QP!QueueInv' /\ Lines' = Lines
<1>1. UNCHANGED <<array, size, front, back>>
  BY DEF Queue!PushFull, Queue!QuitFlag, Queue!QuitBroadcast, Queue!PopEmpty, Queue!Sleep,
     Queue!Spurious, Queue!WakeExit, Queue!WakeEmpty, Queue!ringVars
<1>2. Lines' = Lines
  BY <1>1 DEF Lines, Queue!Contents, Queue!Slot
<1>3. CASE Queue!PushFull \/ Queue!QuitFlag \/ Queue!QuitBroadcast
  <2>1. QP!PushFull \/ QP!QuitFlag \/ QP!QuitBroadcast
    BY <1>3 DEF Queue!PushFull, Queue!QuitFlag, Queue!QuitBroadcast, Queue!Woken,
       QP!PushFull, QP!QuitFlag, QP!QuitBroadcast, QP!Woken, Queue!ringVars, QP!ringVars,
       Queue!popVars, QP!popVars
  <2> QED
    BY <1>2, <2>1, QP!WakeKeeps, QueueIsGood
<1>4. CASE \/ Queue!PopEmpty(Writer, FALSE) \/ Queue!Sleep(Writer) \/ Queue!Spurious(Writer)
           \/ Queue!WakeExit(Writer) \/ Queue!WakeEmpty(Writer)
  <2>1. \/ QP!PopEmpty(Writer, FALSE) \/ QP!Sleep(Writer) \/ QP!Spurious(Writer)
        \/ QP!WakeExit(Writer) \/ QP!WakeEmpty(Writer)
    BY <1>4 DEF Queue!PopEmpty, Queue!Sleep, Queue!Spurious, Queue!WakeExit, Queue!WakeEmpty,
       QP!PopEmpty, QP!Sleep, QP!Spurious, QP!WakeExit, QP!WakeEmpty, Queue!ringVars,
       QP!ringVars, Queue!Goto, QP!Goto
  <2> QED
    BY <1>2, <2>1, QP!WaitKeeps, QueueIsGood
<1> QED
  BY <1>3, <1>4

LEMMA QueueStays ==
  ASSUME QP!QueueInv, UNCHANGED queueVars PROVE QP!QueueInv' /\ Lines' = Lines
<1>1. QP!QueueInv'
  BY QP!SameQueue DEF queueVars, QP!queueVars, QP!ringVars, QP!popVars
<1> QED
  BY <1>1 DEF Lines, Queue!Contents, Queue!Slot, queueVars

LEMMA LinesAreMessages == ASSUME QP!QueueInv PROVE Lines \in Seq(Messages)
<1>1. size \in Nat /\ \A i \in 1..size : QP!Contents[i] \in Messages
  BY LogAssumption DEF QP!QueueInv, QP!TypeOK, QP!RingInv
<1>2. QP!Contents = [i \in 1..size |-> array[(front + i) % QueueSize]]
  BY DEF QP!Contents, QP!Slot
<1> QED
  BY <1>1, <1>2, LinesAre
-----------------------------------------------------------------------------
(***************************************************************************)
(* The logger.  The variables besides the queue's have their types; the file *)
(* is lost only with the mutex locked by the writer for ever, which is why   *)
(* nobody writes to it; no file is longer than what is counted of it.         *)
(***************************************************************************)
LogTypes ==
    /\ accepted \in 0..MaxMessages
    /\ lock \in {NoBody, Writer, Main}
    /\ quit \in BOOLEAN
    /\ writer \in {"test", "pop", "check", "put", "done"}
    /\ line \in 0..MaxMessages
    /\ stopper \in {"running", "quit", "broadcast", "join", "stopped"}
    /\ file \in DOMAIN files \cup {NoFile}
    /\ file_idx \in Nat \ {0} /\ today \in 1..day /\ day \in 1..MaxDays
    /\ line_counts \in HeaderLines..MaxLines
    /\ written \in Seq(Messages)

LockInv ==
    /\ file = NoFile <=> lock = Writer
    /\ lock = Main <=> stopper \in {"quit", "broadcast"}
    /\ writer = "put" => file # NoFile /\ line_counts < MaxLines

FileInv ==
    /\ IsFiniteSet(DOMAIN files)
    /\ files \in [DOMAIN files -> 0..MaxLines]
    /\ file # NoFile => files[file] <= line_counts

UpTo(n) == [i \in 1..n |-> i]
Ordered == file # NoFile => (written \o InHand) \o Lines = UpTo(accepted)

LogInv == QP!QueueInv /\ LogTypes /\ LockInv /\ FileInv /\ Ordered

Constants ==
    /\ MaxLines \in Nat /\ MaxLines > 2 /\ MaxMessages \in Nat /\ MaxDays \in Nat \ {0}
    /\ Writer # Main /\ Writer # NoBody /\ Main # NoBody
    /\ \A d, i \in Nat : <<d, i>> # NoFile
    /\ HeaderLines = 2

LEMMA ConstantsAre == Constants
  BY LogAssumption DEF Constants, HeaderLines

LEMMA LogBegins == ASSUME Init PROVE LogInv
<1>0. Constants
  BY ConstantsAre
<1>1. QP!QueueInv /\ Lines = <<>>
  BY QueueBegins DEF Init
<1>2. DOMAIN files = {<<1, 1>>} /\ files[<<1, 1>>] = 2 /\ file = <<1, 1>>
  BY <1>0 DEF Init, Constants
<1>3. LogTypes
  <2>1. written \in Seq(Messages)
    BY DEF Init
  <2>2. file \in DOMAIN files \cup {NoFile}
    BY <1>2
  <2>3. /\ accepted \in 0..MaxMessages /\ line \in 0..MaxMessages
        /\ file_idx \in Nat \ {0} /\ today \in 1..day /\ day \in 1..MaxDays
        /\ line_counts \in HeaderLines..MaxLines
    BY <1>0 DEF Init, Constants
  <2>4. /\ lock \in {NoBody, Writer, Main} /\ quit \in BOOLEAN
        /\ writer \in {"test", "pop", "check", "put", "done"}
        /\ stopper \in {"running", "quit", "broadcast", "join", "stopped"}
    BY DEF Init
  <2> QED
    BY <2>1, <2>2, <2>3, <2>4 DEF LogTypes
<1>4. LockInv
  BY <1>0, <1>2 DEF Init, LockInv, Constants
<1>5. FileInv
  <2>1. IsFiniteSet(DOMAIN files)
    BY <1>2, FS_Singleton
  <2>2. files \in [{<<1, 1>>} -> 0..MaxLines]
    BY <1>0 DEF Init, Constants
  <2> QED
    BY <1>0, <1>2, <2>1, <2>2 DEF Init, FileInv, Constants
<1>6. Ordered
  <2>1. InHand = <<>> /\ written = <<>> /\ accepted = 0
    BY DEF Init, InHand
  <2>2. UpTo(0) = <<>>
    BY DEF UpTo
  <2>3. (<<>> \o <<>>) \o <<>> = <<>>
    OBVIOUS
  <2> QED
    BY <1>1, <2>1, <2>2, <2>3 DEF Ordered
<1> QED
  BY <1>1, <1>3, <1>4, <1>5, <1>6 DEF LogInv

(* What the three places of a line have in common: their contents, one        *)
(* behind the other, are not changed when a line goes from one to the next.    *)
LEMMA OneMore ==
  ASSUME NEW w \in Seq(Messages), NEW h \in Seq(Messages), NEW c \in Seq(Messages),
         NEW v \in Messages
  PROVE  (w \o h) \o Append(c, v) = Append((w \o h) \o c, v)
<1>1. <<v>> \in Seq(Messages) /\ w \o h \in Seq(Messages)
  OBVIOUS
<1>2. Append(c, v) = c \o <<v>>
  BY AppendIsConcat
<1>3. (w \o h) \o c \in Seq(Messages)
  BY <1>1
<1>4. Append((w \o h) \o c, v) = ((w \o h) \o c) \o <<v>>
  BY <1>3, AppendIsConcat
<1> QED
  BY <1>1, <1>2, <1>4, ConcatAssociative

LEMMA Popped ==
  ASSUME NEW w \in Seq(Messages), NEW c \in Seq(Messages), c # <<>>
  PROVE  (w \o <<Head(c)>>) \o Tail(c) = (w \o <<>>) \o c
<1>1. /\ <<Head(c)>> \in Seq(Messages) /\ Tail(c) \in Seq(Messages)
      /\ c = <<Head(c)>> \o Tail(c)
  OBVIOUS
<1>2. w \o <<>> = w
  BY ConcatEmptySeq
<1> QED
  BY <1>1, <1>2, ConcatAssociative

LEMMA NumberedOn ==
  ASSUME NEW n \in Nat
  PROVE  UpTo(n + 1) = Append(UpTo(n), n + 1)
<1>1. UpTo(n) \in Seq(Nat) /\ UpTo(n + 1) \in Seq(Nat)
  BY DEF UpTo
<1>2. Len(UpTo(n)) = n /\ Len(UpTo(n + 1)) = n + 1
  BY DEF UpTo
<1>3. Append(UpTo(n), n + 1) \in Seq(Nat) /\ Len(Append(UpTo(n), n + 1)) = n + 1
  BY <1>1, <1>2
<1>4. ASSUME NEW i \in 1..(n + 1) PROVE UpTo(n + 1)[i] = Append(UpTo(n), n + 1)[i]
  <2>1. UpTo(n + 1)[i] = i
    BY DEF UpTo
  <2>2. CASE i \in 1..n
    BY <1>1, <1>2, <2>1, <2>2 DEF UpTo
  <2>3. CASE i = n + 1
    BY <1>1, <1>2, <2>1, <2>3
  <2>4. i \in 1..n \/ i = n + 1
    OBVIOUS
  <2> QED
    BY ONLY <2>2, <2>3, <2>4
<1> QED
  BY <1>1, <1>2, <1>3, <1>4, SeqEqual

LEMMA HandIsSeq == ASSUME LogTypes PROVE InHand \in Seq(Messages)
<1>1. CASE writer \in {"check", "put"} /\ line # 0
  <2>1. line \in Messages
    BY <1>1, LogAssumption DEF LogTypes, Messages
  <2>2. InHand = <<line>>
    BY <1>1 DEF InHand
  <2> QED
    BY <2>1, <2>2
<1>2. CASE ~(writer \in {"check", "put"} /\ line # 0)
  BY <1>2 DEF InHand
<1> QED
  BY <1>1, <1>2

(* A step that leaves the file and its count alone. *)
LEMMA FileStays ==
  ASSUME FileInv, UNCHANGED <<files, file, line_counts>> PROVE FileInv'
  BY DEF FileInv

(* One that leaves the line in hand, too, and the queue's lines.             *)
LEMMA OrderStays ==
  ASSUME Ordered, UNCHANGED <<file, written, accepted>>, InHand' = InHand, Lines' = Lines
  PROVE  Ordered'
  BY DEF Ordered, UpTo

LEMMA PushedInOrder ==
  ASSUME LogInv, WriteLog
  PROVE  LogInv'
<1>0. QP!QueueInv /\ LogTypes /\ LockInv /\ FileInv /\ Ordered /\ Constants
  BY ConstantsAre DEF LogInv
<1>1. accepted + 1 \in Messages /\ accepted \in Nat
  BY <1>0 DEF WriteLog, LogTypes, Messages, Constants
<1>2. QP!QueueInv' /\ Lines' = Append(Lines, accepted + 1)
  BY <1>0, <1>1, QueuePushes DEF WriteLog
<1>3. /\ accepted' = accepted + 1
      /\ UNCHANGED <<lock, quit, writer, line, stopper, file, file_idx, line_counts, today,
                     files, written, day>>
  BY DEF WriteLog, fileVars
<1>4. LogTypes'
  BY <1>0, <1>1, <1>3 DEF LogTypes, Messages
<1>5. LockInv' /\ FileInv'
  BY <1>0, <1>3, FileStays DEF LockInv
<1>6. Ordered'
  <2> SUFFICES ASSUME file # NoFile
               PROVE  (written \o InHand) \o Lines' = UpTo(accepted + 1)
    BY <1>3 DEF Ordered, InHand, UpTo
  <2>1. written \in Seq(Messages) /\ InHand \in Seq(Messages) /\ Lines \in Seq(Messages)
    BY <1>0, HandIsSeq, LinesAreMessages DEF LogTypes
  <2>2. (written \o InHand) \o Append(Lines, accepted + 1)
            = Append((written \o InHand) \o Lines, accepted + 1)
    BY <1>1, <2>1, OneMore
  <2>3. (written \o InHand) \o Lines = UpTo(accepted)
    BY <1>0 DEF Ordered
  <2> QED
    BY <1>1, <1>2, <2>2, <2>3, NumberedOn
<1> QED
  BY <1>2, <1>4, <1>5, <1>6 DEF LogInv

(* The writer takes the first line in hand. *)
LEMMA PoppedInOrder ==
  ASSUME LogInv, WriterPops
  PROVE  LogInv'
<1>0. QP!QueueInv /\ LogTypes /\ LockInv /\ FileInv /\ Ordered /\ Constants
  BY ConstantsAre DEF LogInv
<1>1. /\ QP!QueueInv' /\ Lines # <<>> /\ Lines' = Tail(Lines)
      /\ item'[Writer] = Head(Lines)
  BY <1>0, QueuePops DEF WriterPops
<1>2. Lines \in Seq(Messages) /\ written \in Seq(Messages)
  BY <1>0, LinesAreMessages DEF LogTypes
<1>3. /\ writer = "pop" /\ writer' = "check" /\ line' = Head(Lines)
      /\ UNCHANGED <<accepted, lock, quit, stopper, file, file_idx, line_counts, today,
                     files, written, day>>
  BY <1>1 DEF WriterPops, fileVars
<1>4. Head(Lines) \in Messages /\ Head(Lines) # 0
  <2>1. Lines # <<>> /\ Lines \in Seq(Messages)
    BY <1>1, <1>2
  <2>2. Head(Lines) \in Messages
    BY ONLY <2>1
  <2>3. 0 \notin Messages
    BY DEF Messages
  <2> QED
    BY <2>2, <2>3
<1>5. LogTypes'
  BY <1>0, <1>3, <1>4 DEF LogTypes, Messages
<1>6. LockInv' /\ FileInv'
  BY <1>0, <1>3, FileStays DEF LockInv
<1>7. Ordered'
  <2>1. InHand = <<>> /\ InHand' = <<Head(Lines)>>
    BY <1>3, <1>4 DEF InHand
  <2>2. (written \o <<Head(Lines)>>) \o Tail(Lines) = (written \o <<>>) \o Lines
    BY <1>1, <1>2, Popped
  <2> QED
    BY <1>0, <1>1, <1>3, <2>1, <2>2 DEF Ordered, UpTo
<1> QED
  BY <1>1, <1>5, <1>6, <1>7 DEF LogInv

(* And writes it behind the others. *)
LEMMA PutInOrder ==
  ASSUME LogInv, PutLine
  PROVE  LogInv'
<1>0. QP!QueueInv /\ LogTypes /\ LockInv /\ FileInv /\ Ordered /\ Constants
  BY ConstantsAre DEF LogInv
<1>1. /\ writer = "put" /\ writer' = "test" /\ line_counts' = line_counts + 1
      /\ files' = IF line # 0 THEN [files EXCEPT ![file] = @ + 1] ELSE files
      /\ written' = IF line # 0 THEN Append(written, line) ELSE written
      /\ UNCHANGED <<queueVars, accepted, lock, quit, line, stopper, file, file_idx,
                     today, day>>
  BY DEF PutLine
<1>2. file # NoFile /\ file \in DOMAIN files /\ line_counts < MaxLines
  BY <1>0, <1>1 DEF LockInv, LogTypes
<1>3. /\ files \in [DOMAIN files -> 0..MaxLines] /\ files[file] <= line_counts
      /\ IsFiniteSet(DOMAIN files) /\ files[file] \in 0..MaxLines
      /\ line_counts \in Nat /\ MaxLines \in Nat
  BY <1>0, <1>2 DEF FileInv, LogTypes, Constants
<1>4. FileInv' /\ DOMAIN files' = DOMAIN files
  <2>1. CASE line # 0
    <3>1. files' = [files EXCEPT ![file] = files[file] + 1]
      BY <1>1, <2>1
    <3>2. files[file] + 1 \in 0..MaxLines /\ files[file] + 1 <= line_counts + 1
      BY <1>2, <1>3
    <3>3. /\ DOMAIN files' = DOMAIN files /\ files'[file] = files[file] + 1
          /\ files' \in [DOMAIN files -> 0..MaxLines]
      BY <1>2, <1>3, <3>1, <3>2
    <3> QED
      BY <1>1, <1>3, <3>2, <3>3 DEF FileInv
  <2>2. CASE line = 0
    BY <1>1, <1>3, <2>2 DEF FileInv
  <2> QED
    BY <2>1, <2>2
<1>5. written \in Seq(Messages) /\ Lines \in Seq(Messages) /\ (line # 0 => line \in Messages)
  BY <1>0, LinesAreMessages, LogAssumption DEF LogTypes, Messages
<1>6. written' \in Seq(Messages)
  BY <1>1, <1>5
<1>7. LogTypes'
  <2>1. line_counts' \in HeaderLines..MaxLines
    BY <1>0, <1>1, <1>2, <1>3 DEF LogTypes, Constants
  <2> QED
    BY <1>0, <1>1, <1>4, <1>6, <2>1 DEF LogTypes
<1>8. LockInv'
  BY <1>0, <1>1 DEF LockInv
<1>9. QP!QueueInv' /\ Lines' = Lines
  BY <1>0, <1>1, QueueStays
<1>10. Ordered'
  <2>1. InHand' = <<>>
    BY <1>1 DEF InHand
  <2>2. CASE line = 0
    BY <1>0, <1>1, <1>9, <2>1, <2>2 DEF Ordered, UpTo, InHand
  <2>3. CASE line # 0
    <3>1. InHand = <<line>>
      BY <1>1, <2>3 DEF InHand
    <3>2. Append(written, line) = written \o <<line>>
      BY <1>5, <2>3, AppendIsConcat
    <3>3. Append(written, line) \o <<>> = Append(written, line)
      BY <1>1, <1>6, <2>3, ConcatEmptySeq
    <3> QED
      BY <1>0, <1>1, <1>9, <2>1, <2>3, <3>1, <3>2, <3>3 DEF Ordered, UpTo
  <2> QED
    BY <2>2, <2>3
<1> QED
  BY <1>4, <1>7, <1>8, <1>9, <1>10 DEF LogInv

(* A full file, or yesterday's, is replaced by one that is new. *)
LEMMA ReplacedInOrder ==
  ASSUME LogInv, ReplaceFile
  PROVE  LogInv'
<1>0. QP!QueueInv /\ LogTypes /\ LockInv /\ FileInv /\ Ordered /\ Constants
  BY ConstantsAre DEF LogInv
<1>1. /\ writer = "check" /\ writer' = "put" /\ lock = NoBody /\ line_counts' = HeaderLines
      /\ file_idx' = FirstFree(day, file_idx, DOMAIN files)
      /\ file' = <<day, file_idx'>>
      /\ files' = NewFile(file')
      /\ today' = day
      /\ UNCHANGED <<queueVars, accepted, lock, quit, line, stopper, day, written>>
  BY DEF ReplaceFile, CreatFile
<1>2. file_idx' \in Nat \ {0} /\ day \in Nat
  <2>1. IsFiniteSet(DOMAIN files) /\ file_idx \in Nat /\ file_idx >= 1
    BY <1>0 DEF FileInv, LogTypes
  <2>2. FirstFree(day, file_idx, DOMAIN files) \in Nat /\ FirstFree(day, file_idx, DOMAIN files) >= file_idx
    BY <2>1, FreeName
  <2> QED
    BY <1>0, <1>1, <2>1, <2>2 DEF LogTypes, Constants
<1>3. file' # NoFile
  BY <1>0, <1>1, <1>2 DEF Constants
<1>4. file # NoFile
  BY <1>0, <1>1 DEF LockInv, Constants
<1> DEFINE name == file'
<1>5. /\ DOMAIN files' = DOMAIN files \cup {name}
      /\ files'[name] = 2
      /\ files' \in [DOMAIN files \cup {name} -> 0..MaxLines]
  <2>1. files' = [n \in DOMAIN files \cup {name} |-> IF n = name THEN 2 ELSE files[n]]
    BY <1>0, <1>1 DEF NewFile, Constants
  <2>2. 2 \in 0..MaxLines /\ files \in [DOMAIN files -> 0..MaxLines]
    BY <1>0 DEF Constants, FileInv
  <2> HIDE DEF name
  <2> QED
    BY <2>1, <2>2
<1>6. FileInv'
  <2>1. IsFiniteSet(DOMAIN files \cup {name})
    BY <1>0, FS_AddElement DEF FileInv
  <2>2. files'[file'] <= line_counts'
    BY <1>0, <1>1, <1>5 DEF Constants
  <2>3. IsFiniteSet(DOMAIN files') /\ files' \in [DOMAIN files' -> 0..MaxLines]
    BY <1>5, <2>1
  <2> QED
    BY <2>2, <2>3 DEF FileInv
<1>7. LogTypes'
  <2>1. line_counts' \in HeaderLines..MaxLines /\ today' \in 1..day'
    BY <1>0, <1>1 DEF LogTypes, Constants
  <2>2. file' \in DOMAIN files' \cup {NoFile}
    BY <1>5
  <2> QED
    BY <1>0, <1>1, <1>2, <2>1, <2>2 DEF LogTypes
<1>8. LockInv'
  <2>1. line_counts' < MaxLines
    BY <1>0, <1>1 DEF Constants
  <2>2. lock' # Writer /\ (lock' = Main <=> stopper' \in {"quit", "broadcast"})
    BY <1>0, <1>1 DEF LockInv, Constants
  <2> QED
    BY <1>3, <2>1, <2>2 DEF LockInv
<1>9. QP!QueueInv' /\ Lines' = Lines
  BY <1>0, <1>1, QueueStays
<1>10. InHand' = InHand
  BY <1>1 DEF InHand
<1>11. Ordered'
  BY <1>0, <1>1, <1>4, <1>9, <1>10 DEF Ordered, UpTo
<1> QED
  BY <1>6, <1>7, <1>8, <1>9, <1>11 DEF LogInv

(* When that fails the mutex stays locked, and nothing is written any more.   *)
LEMMA FailsInOrder ==
  ASSUME LogInv, ReplaceFails
  PROVE  LogInv'
<1>0. QP!QueueInv /\ LogTypes /\ LockInv /\ FileInv /\ Constants
  BY ConstantsAre DEF LogInv
<1>1. /\ writer' = "test" /\ lock = NoBody /\ lock' = Writer /\ file' = NoFile
      /\ file_idx' = FirstFree(day, file_idx, DOMAIN files)
      /\ today' = day
      /\ UNCHANGED <<queueVars, accepted, quit, line, stopper, line_counts, files, day,
                     written>>
  BY DEF ReplaceFails
<1>2. file_idx' \in Nat \ {0}
  <2>1. IsFiniteSet(DOMAIN files) /\ file_idx \in Nat /\ file_idx >= 1
    BY <1>0 DEF FileInv, LogTypes
  <2>2. FirstFree(day, file_idx, DOMAIN files) \in Nat /\ FirstFree(day, file_idx, DOMAIN files) >= file_idx
    BY <2>1, FreeName
  <2> QED
    BY <1>1, <2>1, <2>2
<1>3. LogTypes'
  <2>1. today' \in 1..day'
    BY <1>0, <1>1 DEF LogTypes, Constants
  <2> QED
    BY <1>0, <1>1, <1>2, <2>1 DEF LogTypes
<1>4. LockInv' /\ FileInv' /\ Ordered'
  BY <1>0, <1>1 DEF LockInv, FileInv, Ordered, Constants
<1>5. QP!QueueInv'
  BY <1>0, <1>1, QueueStays
<1> QED
  BY <1>3, <1>4, <1>5 DEF LogInv

(* The steps that move no line and touch no file. *)
LEMMA OthersInOrder ==
  ASSUME LogInv, QP!QueueInv', Lines' = Lines,
         UNCHANGED <<accepted, fileVars>>,
         InHand' = InHand,
         quit' \in BOOLEAN, day' \in day..MaxDays,
         line' \in 0..MaxMessages,
         writer' \in {"test", "pop", "check", "put", "done"},
         stopper' \in {"running", "quit", "broadcast", "join", "stopped"},
         writer' = "put" => writer = "put" \/ (lock = NoBody /\ line_counts < MaxLines),
         \/ lock' = lock /\ (stopper' \in {"quit", "broadcast"} <=> stopper \in {"quit", "broadcast"})
         \/ lock = NoBody /\ lock' = Main /\ stopper' \in {"quit", "broadcast"}
         \/ lock = Main /\ lock' = NoBody /\ stopper' \notin {"quit", "broadcast"}
  PROVE  LogInv'
<1>0. LogTypes /\ LockInv /\ FileInv /\ Ordered /\ Constants
  BY ConstantsAre DEF LogInv
<1>1. LogTypes'
  BY <1>0 DEF LogTypes, fileVars, Constants
<1>2. LockInv'
  BY <1>0 DEF LockInv, fileVars, Constants
<1>3. FileInv' /\ Ordered'
  BY <1>0, FileStays, OrderStays DEF fileVars
<1> QED
  BY <1>1, <1>2, <1>3 DEF LogInv

LEMMA LogStep ==
  ASSUME LogInv, Next
  PROVE  LogInv'
<1>0. QP!QueueInv /\ LogTypes /\ LockInv /\ FileInv /\ Ordered /\ Constants
  BY ConstantsAre DEF LogInv
<1>a. /\ writer \in {"test", "pop", "check", "put", "done"} /\ quit \in BOOLEAN
      /\ stopper \in {"running", "quit", "broadcast", "join", "stopped"}
      /\ day \in day..MaxDays /\ line \in 0..MaxMessages /\ 0 \in 0..MaxMessages
  BY <1>0 DEF LogTypes, Constants
<1>1. CASE WriteLog
  BY <1>1, PushedInOrder
<1>2. CASE WriteLogFull
  <2>1. QP!QueueInv' /\ Lines' = Lines
    BY <1>0, <1>2, QueueWaits DEF WriteLogFull
  <2> QED
    BY <1>2, <1>a, <2>1, OthersInOrder DEF WriteLogFull, InHand
<1>3. CASE NextDay
  <2>1. QP!QueueInv' /\ Lines' = Lines
    BY <1>0, <1>3, QueueStays DEF NextDay
  <2>2. day' \in day..MaxDays
    BY <1>0, <1>3 DEF NextDay, LogTypes, Constants
  <2> QED
    BY <1>3, <1>a, <2>1, <2>2, OthersInOrder DEF NextDay, InHand
<1>4. CASE WriterWakes \/ WriterWaits
  <2>1. QP!QueueInv' /\ Lines' = Lines
    BY <1>0, <1>4, QueueWaits DEF WriterWakes, WriterWaits
  <2> QED
    BY <1>4, <1>a, <2>1, OthersInOrder DEF WriterWakes, WriterWaits, InHand
<1>5. CASE WriterTest
  <2>1. QP!QueueInv' /\ Lines' = Lines
    BY <1>0, <1>5, QueueStays DEF WriterTest
  <2>2. InHand' = InHand
    BY <1>5 DEF WriterTest, InHand
  <2>3. writer' \in {"done", "pop"}
    BY <1>5 DEF WriterTest
  <2> QED
    BY <1>5, <1>a, <2>1, <2>2, <2>3, OthersInOrder DEF WriterTest
<1>6. CASE WriterPops
  BY <1>6, PoppedInOrder
<1>7. CASE WriterReleased
  <2>1. QP!QueueInv' /\ Lines' = Lines
    BY <1>0, <1>7, QueueWaits DEF WriterReleased
  <2>2. InHand' = InHand
    BY <1>7 DEF WriterReleased, InHand
  <2> QED
    BY <1>7, <1>a, <2>1, <2>2, OthersInOrder DEF WriterReleased
<1>8. CASE KeepFile
  <2>1. QP!QueueInv' /\ Lines' = Lines
    BY <1>0, <1>8, QueueStays DEF KeepFile
  <2>2. InHand' = InHand
    BY <1>8 DEF KeepFile, InHand
  <2>3. lock = NoBody /\ line_counts < MaxLines
    BY <1>0, <1>8 DEF KeepFile, NeedsFile, LogTypes, Constants
  <2> QED
    BY <1>8, <1>a, <2>1, <2>2, <2>3, OthersInOrder DEF KeepFile
<1>9. CASE ReplaceFile
  BY <1>9, ReplacedInOrder
<1>10. CASE ReplaceFails
  BY <1>10, FailsInOrder
<1>11. CASE PutLine
  BY <1>11, PutInOrder
<1>12. CASE StopLock
  <2>1. QP!QueueInv' /\ Lines' = Lines
    BY <1>0, <1>12, QueueStays DEF StopLock
  <2> QED
    BY <1>12, <1>a, <2>1, OthersInOrder DEF StopLock, InHand
<1>13. CASE StopQuits
  <2>1. QP!QueueInv' /\ Lines' = Lines
    BY <1>0, <1>13, QueueWaits DEF StopQuits
  <2> QED
    BY <1>13, <1>a, <2>1, OthersInOrder DEF StopQuits, InHand
<1>14. CASE StopUnlocks
  <2>1. QP!QueueInv' /\ Lines' = Lines
    BY <1>0, <1>14, QueueWaits DEF StopUnlocks
  <2>2. lock = Main
    BY <1>0, <1>14 DEF StopUnlocks, LockInv
  <2> QED
    BY <1>14, <1>a, <2>1, <2>2, OthersInOrder DEF StopUnlocks, InHand
<1>15. CASE StopReturns
  <2>1. QP!QueueInv' /\ Lines' = Lines
    BY <1>0, <1>15, QueueStays DEF StopReturns
  <2> QED
    BY <1>15, <1>a, <2>1, OthersInOrder DEF StopReturns, InHand
<1> QED
  BY <1>1, <1>2, <1>3, <1>4, <1>5, <1>6, <1>7, <1>8, <1>9, <1>10, <1>11, <1>12, <1>13,
     <1>14, <1>15 DEF Next, WriterStep, Stop

LEMMA LogIdles ==
  ASSUME LogInv, UNCHANGED vars
  PROVE  LogInv'
<1>1. QP!QueueInv' /\ Lines' = Lines
  BY QueueStays DEF LogInv, vars
<1>2. LogTypes' /\ LockInv' /\ FileInv' /\ Ordered'
  BY <1>1 DEF LogInv, LogTypes, LockInv, FileInv, Ordered, InHand, UpTo, vars, fileVars
<1> QED
  BY <1>1, <1>2 DEF LogInv

LEMMA LogAlways == Spec => []LogInv
<1>1. Init => LogInv
  BY LogBegins
<1>2. LogInv /\ [Next]_vars => LogInv'
  BY LogStep, LogIdles
<1> QED
  BY <1>1, <1>2, PTL DEF Spec

LEMMA LogInvIsSafe == ASSUME LogInv PROVE TypeOK /\ InOrder
<1>1. TypeOK
  BY QueueTypes DEF LogInv, LogTypes, TypeOK
<1>2. InOrder
  BY DEF LogInv, Ordered, Lines, UpTo, InOrder
<1> QED
  BY <1>1, <1>2

(* Lines reach the files in the order the queue accepted them in, each of     *)
(* them once, and none is lost while a file is open.                          *)
THEOREM LinesInOrder == Spec => []InOrder
<1>1. LogInv => InOrder
  BY LogInvIsSafe
<1> QED
  BY <1>1, LogAlways, PTL

(* The lines in the files are as many as were written: a new file has none    *)
(* but its header, and a line is put behind the last of its file.             *)
SumInv ==
    /\ \A n \in DOMAIN files : files[n] \in HeaderLines..MaxLines
    /\ IsFiniteSet(LinesInFiles)
    /\ Cardinality(LinesInFiles) = Len(written)

LEMMA InFile ==
  ASSUME NEW n, NEW k
  PROVE  <<n, k>> \in LinesInFiles
             <=> n \in DOMAIN files /\ k \in (HeaderLines + 1)..files[n]
  BY DEF LinesInFiles

LEMMA FilesStay ==
  ASSUME SumInv, UNCHANGED <<files, written>> PROVE SumInv'
  BY DEF SumInv, LinesInFiles

LEMMA PutKeepsSum ==
  ASSUME LogInv, SumInv, PutLine PROVE SumInv'
<1>1. /\ LogTypes /\ LockInv /\ FileInv' /\ FileInv /\ HeaderLines = 2 /\ MaxLines \in Nat
  BY ConstantsAre, PutInOrder DEF LogInv, Constants
<1>2. /\ writer = "put"
      /\ files' = IF line # 0 THEN [files EXCEPT ![file] = @ + 1] ELSE files
      /\ written' = IF line # 0 THEN Append(written, line) ELSE written
  BY DEF PutLine
<1>3. CASE line = 0
  BY <1>2, <1>3, FilesStay
<1>4. CASE line # 0
  <2>1. file \in DOMAIN files /\ files[file] \in 2..MaxLines
    BY <1>1, <1>2 DEF LockInv, LogTypes, SumInv
  <2> DEFINE new == <<file, files[file] + 1>>
  <2>2. /\ DOMAIN files' = DOMAIN files
        /\ files'[file] = files[file] + 1
        /\ \A n \in DOMAIN files : n # file => files'[n] = files[n]
    BY <1>1, <1>2, <1>4, <2>1 DEF FileInv
  <2>3. files'[file] \in 2..MaxLines
    BY <1>1, <2>1, <2>2 DEF FileInv
  <2>4. LinesInFiles' = LinesInFiles \cup {new}
    <3>1. LinesInFiles' = UNION {{n} \X (3..files'[n]) : n \in DOMAIN files}
      BY <1>1, <2>2 DEF LinesInFiles, HeaderLines
    <3>2. LinesInFiles = UNION {{n} \X (3..files[n]) : n \in DOMAIN files}
      BY <1>1 DEF LinesInFiles, HeaderLines
    <3>3. 3..files'[file] = 3..files[file] \cup {files[file] + 1}
      BY <2>1, <2>2
    <3> QED
      BY <3>1, <3>2, <3>3, <2>1, <2>2
  <2>5. new \notin LinesInFiles
    <3>1. files[file] + 1 \notin (HeaderLines + 1)..files[file]
      BY <2>1
    <3> QED
      BY <3>1, InFile
  <2>6. IsFiniteSet(LinesInFiles') /\ Cardinality(LinesInFiles') = Cardinality(LinesInFiles) + 1
    BY <2>4, <2>5, FS_AddElement DEF SumInv
  <2>7. Len(written') = Len(written) + 1
    BY <1>1, <1>2, <1>4 DEF LogTypes
  <2>8. \A n \in DOMAIN files' : files'[n] \in HeaderLines..MaxLines
    BY <1>1, <2>2, <2>3 DEF SumInv
  <2> QED
    BY <2>6, <2>7, <2>8 DEF SumInv
<1> QED
  BY <1>3, <1>4

LEMMA ReplaceKeepsSum ==
  ASSUME LogInv, SumInv, ReplaceFile PROVE SumInv'
<1>1. LogTypes /\ FileInv /\ HeaderLines = 2 /\ MaxLines \in Nat /\ MaxLines > 2
  BY ConstantsAre DEF LogInv, Constants
<1>2. /\ file' = <<day, FirstFree(day, file_idx, DOMAIN files)>>
      /\ files' = NewFile(file') /\ written' = written
  BY DEF ReplaceFile, CreatFile
<1>3. file' \notin DOMAIN files
  BY <1>1, <1>2, FreeName DEF FileInv, LogTypes
<1> DEFINE name == file'
<1>4. files' = [n \in DOMAIN files \cup {name} |-> IF n = name THEN 2 ELSE files[n]]
  BY <1>1, <1>2 DEF NewFile
<1>5. name \notin DOMAIN files
  BY <1>3
<1> HIDE DEF name
<1>6. /\ DOMAIN files' = DOMAIN files \cup {name} /\ files'[name] = 2
      /\ \A n \in DOMAIN files : files'[n] = files[n]
  BY <1>4, <1>5
<1>7. LinesInFiles' = LinesInFiles
  <2>1. LinesInFiles' = UNION {{n} \X (3..files'[n]) : n \in DOMAIN files \cup {name}}
    BY <1>1, <1>6 DEF LinesInFiles, HeaderLines
  <2>2. LinesInFiles = UNION {{n} \X (3..files[n]) : n \in DOMAIN files}
    BY <1>1 DEF LinesInFiles, HeaderLines
  <2>3. 3..files'[name] = {}
    BY <1>6
  <2> QED
    BY <2>1, <2>2, <2>3, <1>6
<1>8. \A n \in DOMAIN files' : files'[n] \in HeaderLines..MaxLines
  BY <1>1, <1>6 DEF SumInv
<1> QED
  BY <1>2, <1>7, <1>8 DEF SumInv

LEMMA SumBegins == ASSUME Init PROVE SumInv
<1>1. files = [n \in {<<1, 1>>} |-> 2] /\ written = <<>> /\ MaxLines \in Nat /\ MaxLines > 2
      /\ HeaderLines = 2
  BY ConstantsAre DEF Init, Constants
<1>2. DOMAIN files = {<<1, 1>>} /\ files[<<1, 1>>] = 2
  BY <1>1
<1>3. LinesInFiles = {}
  BY <1>1, <1>2 DEF LinesInFiles
<1> QED
  BY <1>1, <1>2, <1>3, FS_EmptySet DEF SumInv

LEMMA SumStep ==
  ASSUME LogInv, SumInv, [Next]_vars PROVE SumInv'
<1>1. CASE PutLine
  BY <1>1, PutKeepsSum
<1>2. CASE ReplaceFile
  BY <1>2, ReplaceKeepsSum
<1>3. CASE ~PutLine /\ ~ReplaceFile
  <2>1. UNCHANGED <<files, written>>
    BY <1>3 DEF Next, WriterStep, Stop, WriteLog, WriteLogFull, NextDay, WriterWakes, WriterTest,
       WriterPops, WriterReleased, WriterWaits, KeepFile, ReplaceFails, StopLock, StopQuits,
       StopUnlocks, StopReturns, fileVars, vars
  <2> QED
    BY <2>1, FilesStay
<1> QED
  BY <1>1, <1>2, <1>3

(* No file is written over, whatever the days and the names that exist: the   *)
(* files hold as many lines as were written, and none more than the maximum.  *)
THEOREM FilesAreKept == Spec => []FilesKept
<1>1. Init => SumInv
  BY SumBegins
<1>2. LogInv /\ SumInv /\ [Next]_vars => SumInv'
  BY SumStep
<1>3. SumInv => FilesKept
  BY ConstantsAre DEF SumInv, FilesKept, Constants
<1> QED
  BY <1>1, <1>2, <1>3, LogAlways, PTL DEF Spec
-----------------------------------------------------------------------------
(***************************************************************************)
(* The signals.  The alarms in the socket pair, counted.                     *)
(***************************************************************************)
Signals == {"SIGALRM", "SIGINT"}
AlarmsIn(p) == {i \in DOMAIN p : p[i] = "SIGALRM"}

LEMMA AlarmsAreFinite ==
  ASSUME NEW p \in Seq(Signals)
  PROVE  IsFiniteSet(AlarmsIn(p)) /\ Cardinality(AlarmsIn(p)) \in Nat
<1>1. AlarmsIn(p) \in SUBSET (1..Len(p)) /\ IsFiniteSet(1..Len(p))
  BY FS_Interval DEF AlarmsIn
<1> QED
  BY <1>1, FS_Subset, FS_CardinalityType

LEMMA AlarmSent ==
  ASSUME NEW p \in Seq(Signals), NEW x \in Signals
  PROVE  Cardinality(AlarmsIn(Append(p, x)))
             = Cardinality(AlarmsIn(p)) + (IF x = "SIGALRM" THEN 1 ELSE 0)
<1> DEFINE q == Append(p, x)
           n == Len(p) + 1
<1>1. /\ n \notin AlarmsIn(p) /\ IsFiniteSet(AlarmsIn(p))
      /\ Cardinality(AlarmsIn(p)) \in Nat
  BY AlarmsAreFinite DEF AlarmsIn
<1>2. CASE x = "SIGALRM"
  <2>1. AlarmsIn(q) = AlarmsIn(p) \cup {n}
    BY <1>2 DEF AlarmsIn
  <2> QED
    BY <1>1, <1>2, <2>1, FS_AddElement
<1>3. CASE x # "SIGALRM"
  <2>1. AlarmsIn(q) = AlarmsIn(p)
    BY <1>3 DEF AlarmsIn
  <2> QED
    BY <1>1, <1>3, <2>1
<1> QED
  BY <1>2, <1>3

LEMMA AlarmReceived ==
  ASSUME NEW p \in Seq(Signals), p # <<>>
  PROVE  Cardinality(AlarmsIn(p))
             = Cardinality(AlarmsIn(Tail(p))) + (IF Head(p) = "SIGALRM" THEN 1 ELSE 0)
<1> DEFINE S == AlarmsIn(p)
           T == AlarmsIn(Tail(p))
           f == [i \in T |-> i + 1]
<1>0. Tail(p) \in Seq(Signals)
  OBVIOUS
<1>1. IsFiniteSet(S) /\ IsFiniteSet(T) /\ Cardinality(T) \in Nat
  BY <1>0, AlarmsAreFinite
<1>2. /\ T \subseteq Nat
      /\ \A i \in T : i + 1 \in S \ {1}
      /\ \A j \in S \ {1} : j - 1 \in T /\ j = (j - 1) + 1
      /\ (1 \in S <=> Head(p) = "SIGALRM")
  BY DEF AlarmsIn
<1>3. f \in Bijection(T, S \ {1})
  <2> HIDE DEF S, T
  <2>1. f \in [T -> S \ {1}]
    BY <1>2
  <2>2. \A i, j \in T : f[i] = f[j] => i = j
    BY <1>2
  <2>3. \A j \in S \ {1} : \E i \in T : f[i] = j
    BY <1>2
  <2> QED
    BY <2>1, <2>2, <2>3 DEF Bijection, Injection, Surjection, IsInjective
<1>4. Cardinality(S \ {1}) = Cardinality(T)
  BY <1>1, <1>3, FS_Bijection DEF ExistsBijection
<1>5. Cardinality(S) = Cardinality(S \ {1}) + (IF 1 \in S THEN 1 ELSE 0)
  <2>1. Cardinality(S \ {1}) = IF 1 \in S THEN Cardinality(S) - 1 ELSE Cardinality(S)
    BY <1>1, FS_RemoveElement
  <2>2. Cardinality(S) \in Nat
    BY <1>1, FS_CardinalityType
  <2> HIDE DEF S
  <2> QED
    BY <2>1, <2>2
<1> QED
  BY <1>2, <1>4, <1>5

(* A server's logger is a logger, whatever the signals. *)
THEOREM ServerLogs == ServerSpec => Spec
<1>1. ServerInit => Init
  BY DEF ServerInit
<1>2. ASSUME [ServerNext]_serverVars PROVE [Next]_vars
  <2>1. CASE UNCHANGED serverVars
    BY <2>1 DEF serverVars
  <2>2. CASE AlarmFires \/ Interrupt \/ EpollWait \/ MainStep
    BY <2>2 DEF AlarmFires, Interrupt, EpollWait, MainStep, RecvSignal, EndBatch, CloseSockets
  <2>3. CASE \/ Logging(LoggedByAny) \/ Logging(WriterStep)
             \/ mainAt = "stop" /\ Logging(Stop)
    BY <2>3 DEF Logging, LoggedByAny, Next
  <2> QED
    BY <1>2, <2>1, <2>2, <2>3 DEF ServerNext
<1> QED
  BY <1>1, <1>2, PTL DEF ServerSpec, Spec

One(b) == IF b THEN 1 ELSE 0
Alarms == Cardinality(AlarmsIn(pipe))

ServerTypes ==
    /\ armed \in BOOLEAN /\ timeout \in BOOLEAN /\ stop \in BOOLEAN
    /\ pipe \in Seq(Signals)
    /\ interrupts \in 0..MaxInterrupts
    /\ mainAt \in {"wait", "batch", "close", "stop"}
    /\ signalled \in BOOLEAN /\ (signalled => pipe # <<>>)

(* The chain of ticks has one link, in the loop and after it; besides its     *)
(* byte there is one for every interrupt; main is out of the loop for an       *)
(* interrupt, and stop() is called then.                                      *)
ChainInv ==
    /\ Alarms + One(armed) + One(timeout) = 1
    /\ Len(pipe) + One(armed) + One(timeout) <= interrupts + 1

StopInv ==
    /\ mainAt \in {"close", "stop"} => stop
    /\ stopper # "running" => mainAt = "stop"

LoopInv == ServerTypes /\ ChainInv /\ StopInv

LEMMA LoopBegins == ASSUME ServerInit PROVE LoopInv
<1>0. MaxInterrupts \in Nat
  BY ServerAssumption
<1>1. ServerTypes
  <2>1. pipe \in Seq(Signals)
    BY DEF ServerInit
  <2>2. signalled \in BOOLEAN /\ (signalled => pipe # <<>>)
    BY DEF ServerInit
  <2>3. /\ armed \in BOOLEAN /\ timeout \in BOOLEAN /\ stop \in BOOLEAN
        /\ mainAt \in {"wait", "batch", "close", "stop"}
    BY DEF ServerInit
  <2>4. interrupts \in 0..MaxInterrupts
    BY <1>0 DEF ServerInit
  <2> QED
    BY <2>1, <2>2, <2>3, <2>4, Zenon DEF ServerTypes
<1>2. Alarms = 0
  <2>1. AlarmsIn(pipe) = {}
    BY DEF ServerInit, AlarmsIn
  <2> QED
    BY <2>1, FS_EmptySet DEF Alarms
<1>3. ChainInv
  BY <1>2 DEF ServerInit, ChainInv, One
<1>4. StopInv
  BY DEF ServerInit, Init, StopInv
<1> QED
  BY <1>1, <1>3, <1>4 DEF LoopInv

LEMMA OneIs == ASSUME NEW b \in BOOLEAN PROVE One(b) \in 0..1 /\ (One(b) = 1 <=> b)
  BY DEF One

(* A signal is sent. *)
LEMMA SentKeeps ==
  ASSUME LoopInv, AlarmFires \/ Interrupt
  PROVE  LoopInv'
<1>0. ServerTypes /\ ChainInv /\ StopInv
  BY DEF LoopInv
<1>1. /\ armed \in BOOLEAN /\ timeout \in BOOLEAN /\ pipe \in Seq(Signals)
      /\ interrupts \in Nat /\ MaxInterrupts \in Nat /\ interrupts <= MaxInterrupts
  BY <1>0, ServerAssumption DEF ServerTypes
<1>2. Alarms \in Nat /\ Len(pipe) \in Nat
  BY <1>1, AlarmsAreFinite DEF Alarms
<1>3. One(armed) \in 0..1 /\ One(timeout) \in 0..1
  BY <1>1, OneIs
<1>4. UNCHANGED <<stopper, mainAt, signalled, timeout, stop>>
  BY DEF AlarmFires, Interrupt, vars
<1>5. CASE AlarmFires
  <2>1. /\ armed = TRUE /\ armed' = FALSE /\ pipe' = Append(pipe, "SIGALRM")
        /\ interrupts' = interrupts
    BY <1>1, <1>5 DEF AlarmFires
  <2>2. Cardinality(AlarmsIn(Append(pipe, "SIGALRM"))) = Cardinality(AlarmsIn(pipe)) + 1
    BY <1>1, AlarmSent DEF Signals
  <2>3. Alarms' = Alarms + 1
    BY <2>1, <2>2 DEF Alarms
  <2>4. Len(pipe') = Len(pipe) + 1 /\ pipe' \in Seq(Signals) /\ pipe' # <<>>
    BY <1>1, <2>1 DEF Signals
  <2>5. One(armed) = 1 /\ One(armed)' = 0 /\ One(timeout)' = One(timeout)
    BY <1>4, <2>1 DEF One
  <2>6. ChainInv'
    BY <1>0, <1>1, <1>2, <1>3, <2>1, <2>3, <2>4, <2>5 DEF ChainInv
  <2>7. ServerTypes'
    BY <1>0, <1>4, <2>1, <2>4 DEF ServerTypes
  <2> QED
    BY <1>0, <1>4, <2>6, <2>7 DEF LoopInv, StopInv
<1>6. CASE Interrupt
  <2>1. /\ pipe' = Append(pipe, "SIGINT") /\ interrupts < MaxInterrupts
        /\ interrupts' = interrupts + 1 /\ armed' = armed
    BY <1>6 DEF Interrupt
  <2>2. Cardinality(AlarmsIn(Append(pipe, "SIGINT"))) = Cardinality(AlarmsIn(pipe)) + 0
    BY <1>1, AlarmSent DEF Signals
  <2>3. Alarms' = Alarms
    BY <1>2, <2>1, <2>2 DEF Alarms
  <2>4. Len(pipe') = Len(pipe) + 1 /\ pipe' \in Seq(Signals) /\ pipe' # <<>>
    BY <1>1, <2>1 DEF Signals
  <2>5. One(armed)' = One(armed) /\ One(timeout)' = One(timeout)
    BY <1>4, <2>1 DEF One
  <2>6. ChainInv'
    BY <1>0, <1>1, <1>2, <1>3, <2>1, <2>3, <2>4, <2>5 DEF ChainInv
  <2>7. ServerTypes'
    BY <1>0, <1>1, <1>4, <2>1, <2>4 DEF ServerTypes
  <2> QED
    BY <1>0, <1>4, <2>6, <2>7 DEF LoopInv, StopInv
<1> QED
  BY <1>5, <1>6

(* It is received: an alarm becomes main's flag, which was not set. *)
LEMMA ReceivedKeeps ==
  ASSUME LoopInv, RecvSignal
  PROVE  LoopInv'
<1>0. ServerTypes /\ ChainInv /\ StopInv
  BY DEF LoopInv
<1>1. /\ armed \in BOOLEAN /\ timeout \in BOOLEAN /\ stop \in BOOLEAN
      /\ pipe \in Seq(Signals) /\ pipe # <<>> /\ interrupts \in Nat
  BY <1>0 DEF ServerTypes, RecvSignal
<1>2. Alarms \in Nat /\ Len(pipe) \in Nat
  BY <1>1, AlarmsAreFinite DEF Alarms
<1>3. One(armed) \in 0..1 /\ One(timeout) \in 0..1
  BY <1>1, OneIs
<1>4. /\ mainAt = "batch" /\ signalled' = FALSE /\ pipe' = Tail(pipe)
      /\ timeout' = (timeout \/ Head(pipe) = "SIGALRM")
      /\ stop' = (stop \/ Head(pipe) = "SIGINT")
      /\ UNCHANGED <<stopper, armed, interrupts, mainAt>>
  BY DEF RecvSignal, vars
<1>5. /\ Len(Tail(pipe)) = Len(pipe) - 1 /\ Tail(pipe) \in Seq(Signals)
  BY <1>1
<1>6. Cardinality(AlarmsIn(pipe))
          = Cardinality(AlarmsIn(Tail(pipe))) + (IF Head(pipe) = "SIGALRM" THEN 1 ELSE 0)
  BY <1>1, AlarmReceived
<1>7. Alarms' \in Nat /\ Alarms = Alarms' + (IF Head(pipe) = "SIGALRM" THEN 1 ELSE 0)
  <2>1. Cardinality(AlarmsIn(Tail(pipe))) \in Nat
    BY <1>5, AlarmsAreFinite
  <2> QED
    BY <1>4, <1>6, <2>1 DEF Alarms
<1>8. One(armed)' = One(armed)
  BY <1>4 DEF One
<1>9. ChainInv'
  <2>1. CASE Head(pipe) = "SIGALRM"
    <3>1. One(timeout) = 0 /\ One(armed) = 0
      BY <1>0, <1>2, <1>3, <1>7, <2>1 DEF ChainInv
    <3>2. One(timeout)' = 1
      BY <1>4, <2>1 DEF One
    <3>3. Alarms' = 0 /\ Alarms = 1
      <4>1. Alarms = 1
        BY <1>0, <1>2, <3>1 DEF ChainInv
      <4>2. Alarms = Alarms' + 1 /\ Alarms' \in Nat
        BY <1>7, <2>1
      <4>3. \A x \in Nat : 1 = x + 1 => x = 0
        OBVIOUS
      <4> QED
        BY <4>1, <4>2, <4>3, Zenon
    <3>4. Len(pipe') = Len(pipe) - 1 /\ interrupts' = interrupts
      BY <1>4, <1>5
    <3>5. Len(pipe) <= interrupts + 1
      BY <1>0, <1>1, <1>2, <3>1 DEF ChainInv
    <3>6. Len(pipe') + One(armed)' + One(timeout)' <= interrupts' + 1
      BY <1>1, <1>2, <1>8, <3>1, <3>2, <3>4, <3>5
    <3> QED
      BY <1>8, <3>1, <3>2, <3>3, <3>6 DEF ChainInv
  <2>2. CASE Head(pipe) # "SIGALRM"
    <3>1. One(timeout)' = One(timeout)
      BY <1>1, <1>4, <2>2, Zenon DEF One
    <3> QED
      BY <1>0, <1>1, <1>2, <1>3, <1>4, <1>5, <1>7, <1>8, <2>2, <3>1 DEF ChainInv
  <2> QED
    BY <2>1, <2>2
<1>10. ServerTypes'
  <2>1. timeout' \in BOOLEAN /\ stop' \in BOOLEAN
    BY <1>1, <1>4, Zenon
  <2> QED
    BY <1>0, <1>4, <1>5, <2>1 DEF ServerTypes
<1>11. StopInv'
  BY <1>0, <1>4 DEF StopInv
<1> QED
  BY <1>9, <1>10, <1>11 DEF LoopInv

(* The batch ends: the flag becomes the next alarm. *)
LEMMA BatchKeeps ==
  ASSUME LoopInv, EndBatch
  PROVE  LoopInv'
<1>0. ServerTypes /\ ChainInv /\ StopInv
  BY DEF LoopInv
<1>1. /\ armed \in BOOLEAN /\ timeout \in BOOLEAN /\ stop \in BOOLEAN
      /\ pipe \in Seq(Signals) /\ interrupts \in Nat
  BY <1>0 DEF ServerTypes
<1>2. Alarms \in Nat /\ Len(pipe) \in Nat
  BY <1>1, AlarmsAreFinite DEF Alarms
<1>3. One(armed) \in 0..1 /\ One(timeout) \in 0..1
  BY <1>1, OneIs
<1>4. /\ mainAt = "batch"
      /\ armed' = (armed \/ timeout) /\ timeout' = FALSE
      /\ mainAt' = IF stop THEN "close" ELSE "wait"
      /\ UNCHANGED <<stopper, pipe, interrupts, signalled, stop>>
  BY DEF EndBatch, vars
<1>5. One(armed)' = One(armed) + One(timeout) /\ One(timeout)' = 0
  <2>1. One(armed) + One(timeout) <= 1
    BY <1>0, <1>2, <1>3 DEF ChainInv
  <2>2. One(timeout)' = 0
    BY <1>4 DEF One
  <2>3. CASE armed
    <3>1. armed' = TRUE
      BY <1>4, <2>3, Zenon
    <3> QED
      BY <1>3, <2>1, <2>2, <2>3, <3>1 DEF One
  <2>4. CASE ~armed
    <3>1. armed' = timeout
      BY <1>1, <1>4, <2>4, Zenon
    <3>2. One(armed) = 0 /\ One(armed)' = One(timeout)
      BY <2>4, <3>1 DEF One
    <3> QED
      BY <1>3, <2>2, <3>2
  <2> QED
    BY <2>3, <2>4
<1>6. Alarms' = Alarms
  BY <1>4 DEF Alarms
<1>7. ChainInv'
  BY <1>0, <1>1, <1>2, <1>3, <1>4, <1>5, <1>6 DEF ChainInv
<1>8. ServerTypes'
  <2>1. armed' \in BOOLEAN /\ timeout' \in BOOLEAN
    BY <1>1, <1>4, Zenon
  <2> QED
    BY <1>0, <1>4, <2>1 DEF ServerTypes
<1>9. StopInv'
  BY <1>0, <1>4 DEF StopInv
<1> QED
  BY <1>7, <1>8, <1>9 DEF LoopInv

(* A step that neither sends nor receives, and goes no further than main.     *)
LEMMA LoopStays ==
  ASSUME LoopInv, UNCHANGED <<armed, pipe, interrupts, timeout, stop>>,
         mainAt' \in {"wait", "batch", "close", "stop"},
         signalled' \in BOOLEAN, signalled' => pipe # <<>>
  PROVE  ChainInv' /\ ServerTypes'
<1>1. ServerTypes'
  BY DEF LoopInv, ServerTypes
<1>2. Alarms' = Alarms /\ One(armed)' = One(armed) /\ One(timeout)' = One(timeout)
  BY DEF Alarms, One
<1> QED
  BY <1>1, <1>2 DEF LoopInv, ChainInv

LEMMA LoopStep ==
  ASSUME LoopInv, [ServerNext]_serverVars
  PROVE  LoopInv'
<1>0. ServerTypes /\ ChainInv /\ StopInv
  BY DEF LoopInv
<1>1. CASE AlarmFires \/ Interrupt
  BY <1>1, SentKeeps
<1>2. CASE EpollWait
  <2>1. ChainInv' /\ ServerTypes'
    BY <1>0, <1>2, LoopStays DEF EpollWait, ServerTypes
  <2>2. StopInv'
    BY <1>0, <1>2 DEF EpollWait, StopInv, vars
  <2> QED
    BY <2>1, <2>2 DEF LoopInv
<1>3. CASE RecvSignal
  BY <1>3, ReceivedKeeps
<1>4. CASE EndBatch
  BY <1>4, BatchKeeps
<1>5. CASE CloseSockets
  <2>1. ChainInv' /\ ServerTypes'
    BY <1>0, <1>5, LoopStays DEF CloseSockets, ServerTypes
  <2>2. StopInv'
    BY <1>0, <1>5 DEF CloseSockets, StopInv, vars
  <2> QED
    BY <2>1, <2>2 DEF LoopInv
<1>6. CASE Logging(LoggedByAny) \/ Logging(WriterStep) \/ UNCHANGED serverVars
  <2>1. UNCHANGED loopVars
    BY <1>6 DEF Logging, serverVars
  <2>2. stopper' = stopper
    BY <1>6 DEF Logging, LoggedByAny, WriterStep, WriteLog, WriteLogFull, NextDay, WriterWakes,
       WriterTest, WriterPops, WriterReleased, WriterWaits, KeepFile, ReplaceFile,
       ReplaceFails, PutLine, serverVars, vars
  <2>3. ChainInv' /\ ServerTypes'
    BY <1>0, <2>1, LoopStays DEF loopVars, ServerTypes
  <2>4. StopInv'
    BY <1>0, <2>1, <2>2 DEF StopInv, loopVars
  <2> QED
    BY <2>3, <2>4 DEF LoopInv
<1>7. CASE mainAt = "stop" /\ Logging(Stop)
  <2>1. UNCHANGED loopVars /\ mainAt = "stop"
    BY <1>7 DEF Logging
  <2>2. ChainInv' /\ ServerTypes'
    BY <1>0, <2>1, LoopStays DEF loopVars, ServerTypes
  <2>3. StopInv'
    BY <1>0, <2>1 DEF StopInv, loopVars
  <2> QED
    BY <2>2, <2>3 DEF LoopInv
<1> QED
  BY <1>1, <1>2, <1>3, <1>4, <1>5, <1>6, <1>7 DEF ServerNext, MainStep

LEMMA LoopAlways == ServerSpec => []LoopInv
  BY LoopBegins, LoopStep, PTL DEF ServerSpec

(* The variables of the loop and of the logger have their types: the socket   *)
(* pair holds a byte per interrupt and one for the alarm, and stop() is        *)
(* called by main alone, out of the loop.                                     *)
THEOREM TypesHold == ServerSpec => []ServerTypeOK
<1>1. LoopInv /\ LogInv => ServerTypeOK
  <2> SUFFICES ASSUME LoopInv, LogInv PROVE ServerTypeOK
    OBVIOUS
  <2>1. TypeOK
    BY LogInvIsSafe
  <2>2. One(armed) \in 0..1 /\ One(timeout) \in 0..1
    BY OneIs DEF LoopInv, ServerTypes
  <2>3. Len(pipe) \in Nat /\ interrupts \in Nat /\ interrupts <= MaxInterrupts
    BY ServerAssumption DEF LoopInv, ServerTypes
  <2>4. Len(pipe) <= MaxInterrupts + 1
    BY <2>2, <2>3, ServerAssumption DEF LoopInv, ChainInv
  <2>5. stopper # "running" => mainAt = "stop" /\ stop
    BY DEF LoopInv, StopInv
  <2> QED
    BY <2>1, <2>4, <2>5 DEF LoopInv, ServerTypes, Signals, ServerTypeOK
<1> QED
  BY <1>1, LoopAlways, LogAlways, ServerLogs, PTL

(* The ticks are a chain with one link: while main is in the loop, exactly    *)
(* one of the alarm, its byte and main's flag is on.                          *)
THEOREM OneTickAtATime == ServerSpec => []OneTick
<1>1. LoopInv => OneTick
  BY DEF LoopInv, ChainInv, Alarms, AlarmsIn, One, OneTick
<1> QED
  BY <1>1, LoopAlways, PTL

(* So the lines of a server are in order, and its files are kept.             *)
THEOREM ServerLinesInOrder == ServerSpec => []InOrder
  BY LinesInOrder, ServerLogs, PTL

THEOREM ServerFilesAreKept == ServerSpec => []FilesKept
  BY FilesAreKept, ServerLogs, PTL
=============================================================================
