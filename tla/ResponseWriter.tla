--------------------------- MODULE ResponseWriter ---------------------------
(***************************************************************************)
(* How a reply leaves an http_conn: process_write() describes it in one or  *)
(* two iovecs, and write() advances them by hand after every writev, over   *)
(* as many EPOLLOUT events as the client's window asks for.  The object is  *)
(* used for one reply after another and, when the descriptor number comes   *)
(* back, for one connection after another; init() resets what the writer    *)
(* keeps except _byte_to_send and the iovecs.                               *)
(*                                                                          *)
(* A byte is its address: the region it lies in and its offset there, so    *)
(* that bytes from outside a reply are seen for what they are.               *)
(***************************************************************************)
EXTENDS Integers, Sequences, SequencesExt

CONSTANTS
    HeadSizes,     \* lengths of what add_response puts into _write_buf
    BodySizes,     \* lengths of the file or page; 0: everything is in _write_buf
    MaxCuts,       \* kernel: times writev may stop inside the head of a reply
    MaxToSend      \* bound on _byte_to_send

ASSUME WriterAssumption ==
    /\ HeadSizes \subseteq Nat \ {0} /\ BodySizes \subseteq Nat
    /\ MaxCuts \in Nat /\ MaxToSend \in Nat

VARIABLES
    phase,         \* "closed", "reading", "armed" for EPOLLOUT, "writing"
    linger,        \* _linger
    write_idx,     \* _write_idx: the length of the head
    body,          \* the length of the body of the current reply
    iov,           \* _iv: a base offset and a length for each block
    iov_count,     \* _iv_count
    have_send,     \* _byte_hava_send
    to_send,       \* _byte_to_send
    wire,          \* the bytes of the current reply the kernel has taken
    cuts,          \* times writev stopped inside the head of the current reply
    residue        \* _byte_to_send before it: left by an unfinished reply

vars == <<phase, linger, write_idx, body, iov, iov_count, have_send, to_send,
          wire, cuts, residue>>

Init ==
    /\ phase = "closed"
    /\ linger = FALSE
    /\ write_idx = 0 /\ body = 0
    /\ iov = [i \in 0..1 |-> [base |-> 0, len |-> 0]]
    /\ iov_count = 0
    /\ have_send = 0
    /\ to_send = 0
    /\ wire = <<>> /\ cuts = 0 /\ residue = 0

Bytes(region, base, len) == [i \in 1..len |-> <<region, base + i - 1>>]
Reply == Bytes("head", 0, write_idx) \o Bytes("body", 0, body)
(* What write() takes the reply to be: when it has a block for the body, the  *)
(* bytes behind the body too, as many as an unfinished reply had left to send. *)
Expected ==
    Bytes("head", 0, write_idx)
        \o (IF iov_count = 2 THEN Bytes("body", 0, body + residue) ELSE <<>>)
Offered ==
    Bytes("head", iov[0].base, iov[0].len)
        \o (IF iov_count = 2 THEN Bytes("body", iov[1].base, iov[1].len) ELSE <<>>)
-----------------------------------------------------------------------------
(* The object gets a new connection, and init() forgets the old one. *)
Accept ==
    /\ phase = "closed"
    /\ phase' = "reading"
    /\ have_send' = 0
    /\ UNCHANGED <<linger, write_idx, body, iov, iov_count, to_send, wire, cuts, residue>>

(* Mutated: the length of the head is counted twice, or not at all. *)
ComposeCountsTwice(h, b) ==
    /\ phase = "reading"
    /\ to_send + h + b <= MaxToSend
    /\ linger' \in BOOLEAN
    /\ write_idx' = h /\ body' = b
    /\ iov' = [iov EXCEPT ![0] = [base |-> 0, len |-> h],
                          ![1] = IF b > 0 THEN [base |-> 0, len |-> b] ELSE @]
    /\ iov_count' = IF b > 0 THEN 2 ELSE 1
    /\ to_send' = to_send + h + h + b
    /\ wire' = <<>> /\ cuts' = 0 /\ residue' = to_send
    /\ phase' = "armed"
    /\ UNCHANGED have_send

ComposeBodyOnly(h, b) ==
    /\ phase = "reading"
    /\ to_send + h + b <= MaxToSend
    /\ linger' \in BOOLEAN
    /\ write_idx' = h /\ body' = b
    /\ iov' = [iov EXCEPT ![0] = [base |-> 0, len |-> h],
                          ![1] = IF b > 0 THEN [base |-> 0, len |-> b] ELSE @]
    /\ iov_count' = IF b > 0 THEN 2 ELSE 1
    /\ to_send' = to_send + IF b > 0 THEN b ELSE h
    /\ wire' = <<>> /\ cuts' = 0 /\ residue' = to_send
    /\ phase' = "armed"
    /\ UNCHANGED have_send

(* process() on a whole request: process_write(), then modfd(EPOLLOUT). *)
Compose(h, b) ==
    /\ phase = "reading"
    /\ to_send + h + b <= MaxToSend
    /\ linger' \in BOOLEAN
    /\ write_idx' = h /\ body' = b
    /\ iov' = [iov EXCEPT ![0] = [base |-> 0, len |-> h],
                          ![1] = IF b > 0 THEN [base |-> 0, len |-> b] ELSE @]
    /\ iov_count' = IF b > 0 THEN 2 ELSE 1
    /\ to_send' = to_send + h + b
    /\ wire' = <<>> /\ cuts' = 0 /\ residue' = to_send
    /\ phase' = "armed"
    /\ UNCHANGED have_send

(* EPOLLOUT: main calls write(). *)
EnterWrite ==
    /\ phase = "armed"
    /\ phase' = "writing"
    /\ UNCHANGED <<linger, write_idx, body, iov, iov_count, have_send, to_send,
                   wire, cuts, residue>>

(* Mutated: the body always advances by what this writev sent. *)
AdvanceByAll(k, total, rest) ==
    IF total < iov[0].len
    THEN [iov EXCEPT ![0] = [base |-> total, len |-> @.len - total]]
    ELSE IF iov_count = 1
    THEN [iov EXCEPT ![0] = [base |-> @.base, len |-> 0]]
    ELSE [iov EXCEPT ![0] = [base |-> @.base, len |-> 0],
                     ![1] = [base |-> @.base + k, len |-> rest]]

(* The iovecs after writev has sent k bytes, which makes it total of them,   *)
(* with rest to go.  A second block is followed while there is one.          *)
Advance(k, total, rest) ==
    IF total < iov[0].len
    THEN [iov EXCEPT ![0] = [base |-> total, len |-> @.len - total]]
    ELSE IF iov_count = 1
    THEN [iov EXCEPT ![0] = [base |-> @.base, len |-> 0]]
    ELSE [iov EXCEPT ![0] = [base |-> @.base, len |-> 0],
                     ![1] = [base |-> @.base + IF k < total - write_idx THEN k
                                               ELSE total - write_idx,
                             len |-> rest]]

(* writev takes k bytes of what it is offered, and the loop goes on unless   *)
(* everything is sent: then the connection is kept, and init() resets the     *)
(* object, or it is closed.  Offered nothing, writev returns 0.              *)
Writev(k) ==
    /\ phase = "writing"
    /\ IF Offered = <<>> THEN k = 0 ELSE k \in 1..Len(Offered)
    /\ k < iov[0].len => cuts < MaxCuts
    /\ cuts' = IF k < iov[0].len THEN cuts + 1 ELSE cuts
    /\ wire' = wire \o SubSeq(Offered, 1, k)
    /\ to_send' = to_send - k
    /\ iov' = Advance(k, have_send + k, to_send - k)
    /\ phase' = IF to_send > k THEN "writing" ELSE IF linger THEN "reading" ELSE "closed"
    /\ have_send' = IF phase' = "reading" THEN 0 ELSE have_send + k
    /\ UNCHANGED <<linger, write_idx, body, iov_count, residue>>

(* EAGAIN: modfd(EPOLLOUT) and another turn. *)
WouldBlock ==
    /\ phase = "writing" /\ Offered # <<>>
    /\ phase' = "armed"
    /\ UNCHANGED <<linger, write_idx, body, iov, iov_count, have_send, to_send,
                   wire, cuts, residue>>

(* Any other error of writev, a hangup, a failed read() or the heartbeat:    *)
(* main calls close_conn(), which leaves what the writer keeps as it is.     *)
Close ==
    /\ phase \in {"reading", "armed"} \/ (phase = "writing" /\ Offered # <<>>)
    /\ phase' = "closed"
    /\ UNCHANGED <<linger, write_idx, body, iov, iov_count, have_send, to_send,
                   wire, cuts, residue>>

Writing == \E k \in 0..Len(Offered) : Writev(k)

Next ==
    \/ Accept
    \/ \E h \in HeadSizes, b \in BodySizes : Compose(h, b)
    \/ EnterWrite
    \/ Writing
    \/ WouldBlock
    \/ Close

Spec == Init /\ [][Next]_vars

(* Main stays in the loop until write() returns. *)
FairSpec == Spec /\ WF_vars(Writing)
-----------------------------------------------------------------------------
(* The variables have their types. *)
TypeOK ==
    /\ phase \in {"closed", "reading", "armed", "writing"}
    /\ linger \in BOOLEAN /\ residue \in 0..MaxToSend
    /\ write_idx \in Nat /\ body \in Nat /\ cuts \in 0..MaxCuts
    /\ iov \in [0..1 -> [base : Int, len : Nat]]
    /\ iov_count \in 0..2
    /\ have_send \in Nat /\ to_send \in 0..MaxToSend
    /\ wire \in Seq({"head", "body"} \X Int)

(* What a client has received is a beginning of what write() takes the reply  *)
(* to be, and _byte_to_send is what is missing, wherever the kernel stopped,    *)
(* and on top of whatever an earlier reply has left: nothing is lost, repeated  *)
(* or out of order in a reply whose head the kernel did not cut twice.         *)
WirePrefix ==
    cuts <= 1 =>
        /\ IsPrefix(wire, Expected)
        /\ to_send = Len(Reply) + residue - Len(wire)

(* The replies write() does not get rid of: in one block, so that nothing is    *)
(* offered once it is sent, with a residue to send as well or a head cut twice. *)
ShortOfOffer == iov_count = 1 /\ (residue > 0 \/ cuts > 1)

(* In its loop write() has something to offer to writev, which would return 0   *)
(* for ever if it had not: on top of any residue, unless the reply is short.    *)
OffersTheRest == phase = "writing" /\ Offered = <<>> => ShortOfOffer

(* And so write() returns, and the main thread goes on to its next event.       *)
WriteReturns == phase = "writing" ~> phase # "writing" \/ ShortOfOffer

(* http_conn.cpp:485: the blocks of the head and of the body are written.       *)
SendsTheReply == residue = 0 => IsPrefix(wire, Reply)

(* http_conn.cpp:521: all that there was to send is sent means that write()  *)
(* is done.                                                                  *)
AllSentIsNoticed ==
    phase = "writing" => ~(write_idx > 0 /\ IsPrefix(Reply, wire))
=============================================================================
