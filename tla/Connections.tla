---------------------------- MODULE Connections ----------------------------
(***************************************************************************)
(* The path of a connection through the server: main.cpp's event loop, the  *)
(* http_conn object of every descriptor (http/http_conn.cpp), the epoll     *)
(* registration of its descriptor and the workers of the pool that run      *)
(* http_conn::process().  The pool itself is ThreadPool, instantiated with  *)
(* the objects as its requests.                                             *)
(*                                                                          *)
(* main.cpp keeps one http_conn per descriptor number, user[fd], so the     *)
(* object, the descriptor and the epoll entry of a connection share a name. *)
(* EPOLLONESHOT is what is to keep the main thread and the workers from     *)
(* working on one object together: an event disarms the descriptor, and     *)
(* only the thread that owns the object arms it again.                      *)
(***************************************************************************)
EXTENDS Integers, Sequences, FiniteSets

CONSTANTS
    Fds,             \* descriptor numbers accept() can return
    ListenFd,        \* the listening socket, NoFd the _sockfd of a closed object (-1)
    NoFd,
    Clients,         \* TCP connections; a client that comes back is another one
    NoClient,
    Workers,         \* threads of the pool
    MAX_FD,          \* MAX_FD of main.cpp
    MaxRequests,     \* _max_requests of the pool
    BufferSize,      \* READ_BUFFER_SIZE, in the pieces clients send
    ReplySize,       \* the length of a reply, in the pieces a writev sends
    MaxPieces,       \* bound: pieces a client sends for one request
    MaxAsks,         \* bound: requests a client makes on one connection
    BusyHeartbeat,   \* a heartbeat may expire while its object is queued or processed
    ComposeMayFail,  \* process_write may return false
    PlainReplies     \* process_write may fill one iovec only (error replies)

ASSUME ConnAssumption ==
    /\ IsFiniteSet(Fds) /\ IsFiniteSet(Workers) /\ Workers # {}
    /\ ListenFd \notin Fds /\ NoFd \notin Fds /\ NoFd # ListenFd
    /\ NoClient \notin Clients
    /\ MAX_FD \in Nat \ {0} /\ MAX_FD < Cardinality(Fds)
    /\ MaxRequests \in Nat \ {0}
    /\ BufferSize \in Nat \ {0} /\ ReplySize \in Nat \ {0}
    /\ MaxPieces \in Nat /\ MaxAsks \in Nat
    /\ BusyHeartbeat \in BOOLEAN /\ ComposeMayFail \in BOOLEAN
    /\ PlainReplies \in BOOLEAN

VARIABLES
    workqueue, queuestat, posting, at, request,   \* the pool: see ThreadPool
    stage,       \* stage[w]: where worker w is in process(), "idle" outside it
    saved,       \* saved[w]: the value worker w read for its _user_count--
    sockfd,      \* sockfd[f]: user[f]._sockfd
    text,        \* text[f]: what user[f] has read of its next request
    from,        \* from[f]: the clients whose pieces made the reply in user[f]._iv
    left,        \* left[f]: pieces of that reply not yet written
    residue,     \* the objects whose _byte_to_send is more than what is left
    linger,      \* the objects whose _linger is true
    user_count,  \* http_conn::_user_count
    miscounted,  \* history: a _user_count-- was lost, or made for nothing
    event,       \* event[f]: the event of this epoll_wait still to be handled
    dropped,     \* the objects whose append() was refused
    crossed,     \* history: the clients given an object that was still in use
    desc,        \* kernel: desc[f] is the connection behind descriptor f
    armed,       \* kernel: armed[f] is what epoll waits for on descriptor f
    peer,        \* peer[c]: the connection as the client sees it
    fin,         \* the clients that have closed their end
    inbox,       \* inbox[c]: pieces of c in the kernel's receive buffer
    full,        \* the clients whose send buffer in the kernel is full
    sent,        \* sent[c]: pieces c has sent for the request it is making
    waiting,     \* the clients whose request is sent and whose reply is not complete
    asks,        \* asks[c]: complete replies c got
    heard        \* heard[c]: the clients whose requests the bytes c got were made from

poolVars == <<workqueue, queuestat, posting, at, request>>
workVars == <<stage, saved>>
countVars == <<user_count, miscounted>>
objVars  == <<sockfd, text, from, left, residue, linger, countVars>>
mainVars == <<event, dropped, crossed>>
kernVars == <<desc, armed>>
peerVars == <<peer, fin, inbox, full, sent, waiting, asks, heard>>
vars == <<poolVars, workVars, objVars, mainVars, kernVars, peerVars>>

Pool == INSTANCE ThreadPool
    WITH Requests <- Fds, NoRequest <- NoFd, MaxPermits <- 0

Pieces == {"more", "last"}
Stages == {"idle", "read", "rearm", "compose", "test", "remove", "reset",
           "load", "store", "arm"}

Init ==
    /\ Pool!Init
    /\ stage = [w \in Workers |-> "idle"]
    /\ saved = [w \in Workers |-> 0]
    /\ sockfd = [f \in Fds |-> NoFd]
    /\ text = [f \in Fds |-> <<>>]
    /\ from = [f \in Fds |-> {}]
    /\ left = [f \in Fds |-> 0]
    /\ residue = {}
    /\ linger = {}
    /\ user_count = 0
    /\ miscounted = FALSE
    /\ event = [f \in Fds \cup {ListenFd} |-> "none"]
    /\ dropped = {}
    /\ crossed = {}
    /\ desc = [f \in Fds |-> NoClient]
    /\ armed = [f \in Fds |-> "off"]
    /\ peer = [c \in Clients |-> "out"]
    /\ fin = {}
    /\ inbox = [c \in Clients |-> <<>>]
    /\ full = {}
    /\ sent = [c \in Clients |-> 0]
    /\ waiting = {}
    /\ asks = [c \in Clients |-> 0]
    /\ heard = [c \in Clients |-> {}]
-----------------------------------------------------------------------------
(* Objects, descriptors and who is at work on them. *)

Queued(f) == \E i \in DOMAIN workqueue : workqueue[i] = f
Held(f)   == \E w \in Workers : request[w] = f
Open == {f \in Fds : desc[f] # NoClient}

(* process_read finds a whole request in what has been read. *)
IsLast(piece) == piece[2] = "last"
Complete(f) == \E i \in DOMAIN text[f] : IsLast(text[f][i])

(* The clients whose pieces the first whole request of user[f] consists of. *)
Askers(f) ==
    {text[f][i][1] : i \in {j \in DOMAIN text[f] :
                              \A k \in 1..(j - 1) : ~IsLast(text[f][k])}}

(* recv: everything in c's receive buffer, marked with its sender. *)
Received(c) == [i \in DOMAIN inbox[c] |-> <<c, inbox[c][i]>>]

(* epoll_ctl(MOD) on the descriptor an object names: without effect when the *)
(* object or the descriptor is closed.                                       *)
Modfd(s, ev) ==
    armed' = IF s \in Fds /\ desc[s] # NoClient
             THEN [armed EXCEPT ![s] = ev] ELSE armed

(* Mutated: init() forgets to empty the read buffer. *)
ResetLingerOnly(f) ==
    /\ linger' = linger \ {f}
    /\ UNCHANGED text

(* http_conn::init(): the request read so far and _linger are forgotten,     *)
(* _byte_to_send and the iovecs are not.                                     *)
ResetRequest(f) ==
    /\ text' = [text EXCEPT ![f] = <<>>]
    /\ linger' = linger \ {f}

(* removefd: the registration and the descriptor go; the client is told. *)
Removefd(s) ==
    IF s \in Fds /\ desc[s] # NoClient
    THEN /\ desc' = [desc EXCEPT ![s] = NoClient]
         /\ armed' = [armed EXCEPT ![s] = "off"]
         /\ peer' = [peer EXCEPT ![desc[s]] = "closed"]
         /\ inbox' = [inbox EXCEPT ![desc[s]] = <<>>]
         /\ full' = full \ {desc[s]}
         /\ waiting' = waiting \ {desc[s]}
    ELSE UNCHANGED <<desc, armed, peer, inbox, full, waiting>>

(* Mutated: close_conn without _sockfd = -1, and without _user_count--. *)
CloseConnKeepsSocket(f) ==
    /\ Removefd(sockfd[f])
    /\ UNCHANGED <<sockfd, countVars, dropped>>

CloseConnKeepsCount(f) ==
    /\ Removefd(sockfd[f])
    /\ sockfd' = [sockfd EXCEPT ![f] = NoFd]
    /\ dropped' = dropped \ {f}
    /\ UNCHANGED countVars

(* http_conn::close_conn as the main thread calls it.  When a worker in      *)
(* close_conn() has closed the descriptor already, both will count it.       *)
CloseConn(f) ==
    /\ Removefd(sockfd[f])
    /\ IF sockfd[f] # NoFd
       THEN /\ sockfd' = [sockfd EXCEPT ![f] = NoFd]
            /\ user_count' = user_count - 1
            /\ miscounted' = (miscounted \/ desc[f] = NoClient)
            /\ dropped' = dropped \ {f}
       ELSE UNCHANGED <<sockfd, countVars, dropped>>
-----------------------------------------------------------------------------
(* Clients (outside src/: what a peer of the server may do). *)

Connect(c) ==
    /\ peer[c] = "out"
    /\ peer' = [peer EXCEPT ![c] = "backlog"]
    /\ UNCHANGED <<poolVars, workVars, objVars, mainVars, kernVars,
                   fin, inbox, full, sent, waiting, asks, heard>>

(* The next piece of a request; nothing is sent behind a whole request. *)
Send(c, kind) ==
    /\ peer[c] \in {"backlog", "open"} /\ c \notin fin
    /\ c \notin waiting /\ asks[c] < MaxAsks /\ sent[c] < MaxPieces
    /\ inbox' = [inbox EXCEPT ![c] = Append(@, kind)]
    /\ sent' = [sent EXCEPT ![c] = @ + 1]
    /\ waiting' = IF kind = "last" THEN waiting \cup {c} ELSE waiting
    /\ UNCHANGED <<poolVars, workVars, objVars, mainVars, kernVars,
                   peer, fin, full, asks, heard>>

Drain(c) ==
    /\ c \in full /\ c \notin fin
    /\ full' = full \ {c}
    /\ UNCHANGED <<poolVars, workVars, objVars, mainVars, kernVars,
                   peer, fin, inbox, sent, waiting, asks, heard>>

Leave(c) ==
    /\ peer[c] \in {"backlog", "open"} /\ c \notin fin
    /\ fin' = fin \cup {c}
    /\ waiting' = waiting \ {c}
    /\ UNCHANGED <<poolVars, workVars, objVars, mainVars, kernVars,
                   peer, inbox, full, sent, asks, heard>>
-----------------------------------------------------------------------------
(* The main thread.  It handles the events of one epoll_wait one by one, and *)
(* finishes append() before the next of them.                                *)

ReadyEvent(f) ==
    CASE armed[f] = "off"                                 -> "none"
      [] armed[f] # "off" /\ desc[f] \in fin              -> "HUP"
      [] armed[f] = "IN" /\ desc[f] \notin fin            ->
            IF inbox[desc[f]] # <<>> THEN "IN" ELSE "none"
      [] armed[f] = "OUT" /\ desc[f] \notin fin           ->
            IF desc[f] \notin full THEN "OUT" ELSE "none"

Backlog == {c \in Clients : peer[c] = "backlog"}
BatchDone == ~posting /\ \A d \in Fds \cup {ListenFd} : event[d] = "none"

(* Mutated: registered without EPOLLONESHOT. *)
EpollWaitKeepsArmed ==
    /\ BatchDone
    /\ event' = [d \in Fds \cup {ListenFd} |->
                    IF d = ListenFd
                    THEN IF Backlog # {} THEN "IN" ELSE "none"
                    ELSE ReadyEvent(d)]
    /\ event' # event
    /\ UNCHANGED <<poolVars, workVars, objVars, dropped, crossed, kernVars, peerVars>>

(* epoll_wait returns what is ready; a reported descriptor is disarmed. *)
EpollWait ==
    /\ BatchDone
    /\ event' = [d \in Fds \cup {ListenFd} |->
                    IF d = ListenFd
                    THEN IF Backlog # {} THEN "IN" ELSE "none"
                    ELSE ReadyEvent(d)]
    /\ event' # event
    /\ armed' = [f \in Fds |-> IF ReadyEvent(f) # "none" THEN "off" ELSE armed[f]]
    /\ UNCHANGED <<poolVars, workVars, objVars, dropped, crossed, desc, peerVars>>

(* The main thread is between two handlers: not in append(), not in a write() *)
(* that never returns.                                                       *)
MainFree == ~posting /\ \A f \in Fds : event[f] # "stuck"

Handled(d) == event' = [event EXCEPT ![d] = "none"]

(* Somebody still has something to do with user[f]. *)
InUse(f) == Queued(f) \/ Held(f) \/ event[f] # "none"

(* accept() and user[connfd].init(connfd, ...): whoever had the descriptor   *)
(* last may have left the object in use.                                     *)
Accept(c, f) ==
    /\ event[ListenFd] = "IN" /\ MainFree
    /\ peer[c] = "backlog" /\ desc[f] = NoClient
    /\ user_count < MAX_FD
    /\ Handled(ListenFd)
    /\ peer' = [peer EXCEPT ![c] = "open"]
    /\ desc' = [desc EXCEPT ![f] = c]
    /\ armed' = [armed EXCEPT ![f] = "IN"]
    /\ sockfd' = [sockfd EXCEPT ![f] = f]
    /\ user_count' = user_count + 1
    /\ ResetRequest(f)
    /\ dropped' = dropped \ {f}
    /\ crossed' = IF InUse(f) THEN crossed \cup {c} ELSE crossed
    /\ UNCHANGED <<poolVars, workVars, from, left, residue, miscounted,
                   fin, inbox, full, sent, waiting, asks, heard>>

(* accept() and show_error(): told that the server is busy, and closed. *)
AcceptBusy(c, f) ==
    /\ event[ListenFd] = "IN" /\ MainFree
    /\ peer[c] = "backlog" /\ desc[f] = NoClient
    /\ user_count >= MAX_FD
    /\ Handled(ListenFd)
    /\ peer' = [peer EXCEPT ![c] = "closed"]
    /\ inbox' = [inbox EXCEPT ![c] = <<>>]
    /\ waiting' = waiting \ {c}
    /\ UNCHANGED <<poolVars, workVars, objVars, dropped, crossed, kernVars,
                   fin, full, sent, asks, heard>>

(* EPOLLRDHUP, EPOLLHUP or EPOLLERR: close_conn(). *)
Hangup(f) ==
    /\ event[f] = "HUP" /\ MainFree
    /\ Handled(f)
    /\ CloseConn(f)
    /\ UNCHANGED <<poolVars, workVars, text, from, left, residue, linger, crossed,
                   fin, sent, asks, heard>>

(* http_conn::read() returns true: what the kernel holds fits into the       *)
(* buffer, there is room to begin with, and the client has not closed.       *)
CanRead(f) ==
    /\ sockfd[f] \in Fds /\ desc[sockfd[f]] \in Clients \ fin
    /\ Len(text[f]) < BufferSize
    /\ Len(text[f]) + Len(inbox[desc[sockfd[f]]]) <= BufferSize

ReadInto(f) ==
    LET c == desc[sockfd[f]] IN
    /\ text' = [text EXCEPT ![f] = @ \o Received(c)]
    /\ inbox' = [inbox EXCEPT ![c] = <<>>]
    /\ UNCHANGED <<workVars, sockfd, from, left, residue, linger, countVars, crossed,
                   kernVars, peer, fin, full, sent, waiting, asks, heard>>

(* EPOLLIN: read() and append(), whose result is ignored. *)
Read(f) ==
    /\ event[f] = "IN" /\ MainFree
    /\ CanRead(f)
    /\ Handled(f)
    /\ ReadInto(f)
    /\ Pool!AppendRequest(f)
    /\ UNCHANGED dropped

ReadRefused(f) ==
    /\ event[f] = "IN" /\ MainFree
    /\ CanRead(f)
    /\ Handled(f)
    /\ ReadInto(f)
    /\ Pool!AppendRefused
    /\ dropped' = dropped \cup {f}

(* EPOLLIN and read() returns false: close_conn(). *)
ReadFails(f) ==
    /\ event[f] = "IN" /\ MainFree
    /\ ~CanRead(f)
    /\ Handled(f)
    /\ CloseConn(f)
    /\ UNCHANGED <<poolVars, workVars, text, from, left, residue, linger, crossed,
                   fin, sent, asks, heard>>

(* The post() at the end of append(). *)
Post ==
    /\ Pool!Post
    /\ UNCHANGED <<workVars, objVars, mainVars, kernVars, peerVars>>

(* EPOLLOUT and write() with nothing to send: back to reading. *)
WriteNothing(f) ==
    /\ event[f] = "OUT" /\ MainFree
    /\ left[f] = 0 /\ f \notin residue
    /\ Handled(f)
    /\ Modfd(sockfd[f], "IN")
    /\ ResetRequest(f)
    /\ UNCHANGED <<poolVars, workVars, sockfd, from, left, residue, countVars,
                   dropped, crossed, desc, peerVars>>

(* Mutated: EAGAIN without registering EPOLLOUT again. *)
WritePartAndForget(f) ==
    /\ event[f] = "OUT" /\ MainFree
    /\ sockfd[f] \in Fds /\ desc[sockfd[f]] \in Clients
    /\ LET c == desc[sockfd[f]] IN
       /\ \E k \in 1..(left[f] - 1) :
             /\ left' = [left EXCEPT ![f] = @ - k]
             /\ heard' = [heard EXCEPT ![c] = @ \cup from[f]]
       /\ full' = full \cup {c}
    /\ Handled(f)
    /\ UNCHANGED <<poolVars, workVars, sockfd, text, from, residue, linger, countVars,
                   dropped, crossed, kernVars, peer, fin, inbox, sent, waiting, asks>>

(* writev takes part of the reply, or nothing, and then reports EAGAIN. *)
WritePart(f) ==
    /\ event[f] = "OUT" /\ MainFree
    /\ sockfd[f] \in Fds /\ desc[sockfd[f]] \in Clients
    /\ LET c == desc[sockfd[f]] IN
       /\ \E k \in (IF c \in full THEN {0} ELSE 1..(left[f] - 1)) :
             /\ left[f] > 0
             /\ left' = [left EXCEPT ![f] = @ - k]
             /\ heard' = IF k > 0 THEN [heard EXCEPT ![c] = @ \cup from[f]] ELSE heard
       /\ full' = full \cup {c}
    /\ Handled(f)
    /\ Modfd(sockfd[f], "OUT")
    /\ UNCHANGED <<poolVars, workVars, sockfd, text, from, residue, linger, countVars,
                   dropped, crossed, desc, peer, fin, inbox, sent, waiting, asks>>

(* The last piece of the reply is written (or there was only a residue); a   *)
(* residue is written from whatever lies behind the reply.  Keep-alive goes  *)
(* back to reading, otherwise write() returns false and main closes.         *)
Answer(f, c) ==
    /\ left' = [left EXCEPT ![f] = 0]
    /\ heard' = IF left[f] > 0 THEN [heard EXCEPT ![c] = @ \cup from[f]] ELSE heard
    /\ asks' = IF c \in waiting THEN [asks EXCEPT ![c] = @ + 1] ELSE asks
    /\ sent' = IF c \in waiting THEN [sent EXCEPT ![c] = 0] ELSE sent

WriteAll(f) ==
    /\ event[f] = "OUT" /\ MainFree
    /\ left[f] > 0 \/ f \in residue
    /\ sockfd[f] \in Fds /\ desc[sockfd[f]] \in Clients \ full
    /\ Answer(f, desc[sockfd[f]])
    /\ residue' = residue \ {f}
    /\ Handled(f)
    /\ IF f \in linger
       THEN /\ ResetRequest(f)
            /\ Modfd(sockfd[f], "IN")
            /\ waiting' = waiting \ {desc[sockfd[f]]}
            /\ UNCHANGED <<sockfd, countVars, dropped, desc, peer, inbox, full>>
       ELSE /\ CloseConn(f)
            /\ UNCHANGED <<text, linger>>
    /\ UNCHANGED <<poolVars, workVars, from, crossed, fin>>

(* writev fails: the descriptor is closed, the client has closed, or the     *)
(* reply is out and the residue lies in unmapped memory.                     *)
WriteFails(f) ==
    /\ event[f] = "OUT" /\ MainFree
    /\ left[f] > 0 \/ f \in residue
    /\ IF sockfd[f] \notin Fds \/ desc[sockfd[f]] \in fin \cup {NoClient}
       THEN UNCHANGED <<left, heard, sent, asks>>
       ELSE /\ f \in residue /\ desc[sockfd[f]] \notin full
            /\ Answer(f, desc[sockfd[f]])
    /\ Handled(f)
    /\ CloseConn(f)
    /\ UNCHANGED <<poolVars, workVars, text, from, residue, linger, crossed, fin>>

(* A reply in one iovec and a residue behind it: when the iovec is written,  *)
(* writev returns 0 for ever, and write() waits for the rest to be sent.     *)
WriteSpins(f) ==
    /\ event[f] = "OUT" /\ MainFree
    /\ PlainReplies /\ f \in residue
    /\ sockfd[f] \in Fds /\ desc[sockfd[f]] \in Clients \ full
    /\ Answer(f, desc[sockfd[f]])
    /\ waiting' = waiting \ {desc[sockfd[f]]}
    /\ event' = [event EXCEPT ![f] = "stuck"]
    /\ UNCHANGED <<poolVars, workVars, sockfd, text, from, residue, linger, countVars,
                   dropped, crossed, kernVars, peer, fin, inbox, full>>

(* Timer::tick calls the callback of an expired heartbeat, close_conn(),     *)
(* between two batches.  Which heartbeats expire when is Heartbeat's subject;*)
(* here any may, at any time, but unless BusyHeartbeat it spares the objects *)
(* that are queued or being processed.                                       *)
HeartbeatExpires(f) ==
    /\ BatchDone
    /\ sockfd[f] # NoFd
    /\ BusyHeartbeat \/ ~(Queued(f) \/ Held(f))
    /\ CloseConn(f)
    /\ UNCHANGED <<poolVars, workVars, text, from, left, residue, linger, event,
                   crossed, fin, sent, asks, heard>>
-----------------------------------------------------------------------------
(* The workers: run() of the pool and, inside it, process(). *)

Goto(w, s) == stage' = [stage EXCEPT ![w] = s]

WorkerWait(w) ==
    /\ Pool!Wait(w)
    /\ UNCHANGED <<workVars, objVars, mainVars, kernVars, peerVars>>

(* The empty list that run() also provides for is unreachable here:          *)
(* sem_wait is restarted after a signal (SA_RESTART), see NoEmptyHands.      *)
WorkerTake(w) ==
    /\ Pool!Take(w)
    /\ Goto(w, "read")
    /\ UNCHANGED <<saved, objVars, mainVars, kernVars, peerVars>>

(* process_read(): NO_REQUEST, or any other result, with the _linger the     *)
(* headers ask for.                                                          *)
ProcessRead(w) ==
    /\ stage[w] = "read"
    /\ LET f == request[w] IN
       IF Complete(f)
       THEN /\ Goto(w, "compose")
            /\ linger' \in {linger \cup {f}, linger \ {f}}
       ELSE /\ Goto(w, "rearm")
            /\ UNCHANGED linger
    /\ UNCHANGED <<poolVars, saved, sockfd, text, from, left, residue, countVars,
                   mainVars, kernVars, peerVars>>

(* Mutated: NO_REQUEST returns without modfd(). *)
RearmNothing(w) ==
    /\ stage[w] = "rearm"
    /\ Goto(w, "idle")
    /\ Pool!Finish(w)
    /\ UNCHANGED <<saved, objVars, mainVars, kernVars, peerVars>>

(* NO_REQUEST: modfd(EPOLLIN) and return. *)
Rearm(w) ==
    /\ stage[w] = "rearm"
    /\ Modfd(sockfd[request[w]], "IN")
    /\ Goto(w, "idle")
    /\ Pool!Finish(w)
    /\ UNCHANGED <<saved, objVars, mainVars, desc, peerVars>>

(* Mutated: the reply is put behind what is left of an earlier one. *)
ComposeBehind(w) ==
    /\ stage[w] = "compose"
    /\ LET f == request[w] IN
       /\ from' = [from EXCEPT ![f] = Askers(f)]
       /\ left' = [left EXCEPT ![f] = @ + ReplySize]
    /\ Goto(w, "arm")
    /\ UNCHANGED <<poolVars, saved, sockfd, text, residue, linger, countVars,
                   mainVars, kernVars, peerVars>>

(* process_write() fills _iv and adds the length to _byte_to_send, on top of *)
(* what an earlier reply that was never finished left in it.                 *)
Compose(w) ==
    /\ stage[w] = "compose"
    /\ LET f == request[w] IN
       /\ from' = [from EXCEPT ![f] = Askers(f)]
       /\ left' = [left EXCEPT ![f] = ReplySize]
       /\ residue' = IF left[f] > 0 THEN residue \cup {f} ELSE residue
    /\ Goto(w, "arm")
    /\ UNCHANGED <<poolVars, saved, sockfd, text, linger, countVars,
                   mainVars, kernVars, peerVars>>

(* process_write() returns false: close_conn(), run by the worker, in the    *)
(* steps another thread may come between.                                    *)
ComposeFails(w) ==
    /\ stage[w] = "compose" /\ ComposeMayFail
    /\ Goto(w, "test")
    /\ UNCHANGED <<poolVars, saved, objVars, mainVars, kernVars, peerVars>>

CloseTest(w) ==
    /\ stage[w] = "test"
    /\ Goto(w, IF sockfd[request[w]] # NoFd THEN "remove" ELSE "arm")
    /\ UNCHANGED <<poolVars, saved, objVars, mainVars, kernVars, peerVars>>

(* removefd() of a descriptor that main has closed since the test does       *)
(* nothing, but the worker will count it.                                    *)
CloseRemove(w) ==
    /\ stage[w] = "remove"
    /\ LET s == sockfd[request[w]] IN
       /\ Removefd(s)
       /\ miscounted' = (miscounted \/ s \notin Open)
    /\ Goto(w, "reset")
    /\ UNCHANGED <<poolVars, saved, sockfd, text, from, left, residue, linger, user_count,
                   mainVars, fin, sent, asks, heard>>

CloseReset(w) ==
    /\ stage[w] = "reset"
    /\ sockfd' = [sockfd EXCEPT ![request[w]] = NoFd]
    /\ Goto(w, "load")
    /\ UNCHANGED <<poolVars, saved, text, from, left, residue, linger, countVars,
                   mainVars, kernVars, peerVars>>

CountLoad(w) ==
    /\ stage[w] = "load"
    /\ saved' = [saved EXCEPT ![w] = user_count]
    /\ Goto(w, "store")
    /\ UNCHANGED <<poolVars, objVars, mainVars, kernVars, peerVars>>

(* When another thread has counted since the load, one of the two is lost:   *)
(* main's "++" or "--" is a load and a store as well, and its store may come *)
(* last.                                                                     *)
CountStore(w) ==
    /\ stage[w] = "store"
    /\ \/ user_count' = saved[w] - 1
       \/ saved[w] # user_count /\ UNCHANGED user_count
    /\ miscounted' = (miscounted \/ saved[w] # user_count)
    /\ saved' = [saved EXCEPT ![w] = 0]
    /\ Goto(w, "arm")
    /\ UNCHANGED <<poolVars, sockfd, text, from, left, residue, linger,
                   mainVars, kernVars, peerVars>>

(* The end of process(): modfd(EPOLLOUT), after a failed process_write too.  *)
Arm(w) ==
    /\ stage[w] = "arm"
    /\ Modfd(sockfd[request[w]], "OUT")
    /\ Goto(w, "idle")
    /\ Pool!Finish(w)
    /\ UNCHANGED <<saved, objVars, mainVars, desc, peerVars>>
-----------------------------------------------------------------------------
ClientStep(c) ==
    Connect(c) \/ (\E kind \in Pieces : Send(c, kind)) \/ Drain(c) \/ Leave(c)

MainStep ==
    \/ EpollWait
    \/ Post
    \/ \E c \in Clients, f \in Fds : Accept(c, f) \/ AcceptBusy(c, f)
    \/ \E f \in Fds :
          \/ Hangup(f)
          \/ Read(f) \/ ReadRefused(f) \/ ReadFails(f)
          \/ WriteNothing(f) \/ WritePart(f) \/ WriteAll(f) \/ WriteFails(f)
          \/ WriteSpins(f)

WorkerStep(w) ==
    \/ WorkerWait(w) \/ WorkerTake(w)
    \/ ProcessRead(w) \/ Rearm(w) \/ Compose(w) \/ Arm(w)
    \/ ComposeFails(w) \/ CloseTest(w) \/ CloseRemove(w) \/ CloseReset(w)
    \/ CountLoad(w) \/ CountStore(w)

Next ==
    \/ \E c \in Clients : ClientStep(c)
    \/ MainStep
    \/ \E f \in Fds : HeartbeatExpires(f)
    \/ \E w \in Workers : WorkerStep(w)

Spec == Init /\ [][Next]_vars

(* The main thread and the workers are scheduled, and a client that waits    *)
(* for a reply reads what has come of it.  No heartbeat need ever expire.    *)
Fairness ==
    /\ WF_vars(MainStep)
    /\ \A w \in Workers : WF_vars(WorkerStep(w))
    /\ \A c \in Clients : WF_vars(Drain(c))

FairSpec == Spec /\ Fairness
-----------------------------------------------------------------------------
(* Every variable has its type; a worker is inside process() exactly while   *)
(* the pool has it process a request; _sockfd is the object's own descriptor *)
(* or -1; nothing is read past the end of the buffer; epoll watches open     *)
(* descriptors only.                                                         *)
TypeOK ==
    /\ Pool!TypeOK
    /\ stage \in [Workers -> Stages]
    /\ saved \in [Workers -> Int]
    /\ \A w \in Workers : stage[w] = "idle" <=> at[w] # "process"
    /\ sockfd \in [Fds -> Fds \cup {NoFd}]
    /\ \A f \in Fds : sockfd[f] \in {f, NoFd}
    /\ text \in [Fds -> Seq(Clients \X Pieces)]
    /\ \A f \in Fds : Len(text[f]) <= BufferSize
    /\ from \in [Fds -> SUBSET Clients]
    /\ left \in [Fds -> 0..ReplySize]
    /\ residue \subseteq Fds /\ linger \subseteq Fds /\ dropped \subseteq Fds
    /\ user_count \in Int /\ miscounted \in BOOLEAN
    /\ crossed \subseteq Clients
    /\ event \in [Fds \cup {ListenFd} -> {"none", "HUP", "IN", "OUT", "stuck"}]
    /\ desc \in [Fds -> Clients \cup {NoClient}]
    /\ armed \in [Fds -> {"off", "IN", "OUT"}]
    /\ \A f \in Fds : armed[f] # "off" => desc[f] # NoClient
    /\ peer \in [Clients -> {"out", "backlog", "open", "closed"}]
    /\ fin \subseteq Clients /\ full \subseteq Clients /\ waiting \subseteq Clients
    /\ inbox \in [Clients -> Seq(Pieces)]
    /\ sent \in [Clients -> 0..MaxPieces]
    /\ asks \in [Clients -> 0..MaxAsks]
    /\ heard \in [Clients -> SUBSET Clients]

(* A request popped from the list is always there to be popped: run()'s test *)
(* for an empty list never succeeds.                                         *)
NoEmptyHands ==
    Len(workqueue) = queuestat + Cardinality(Pool!Takers) + (IF posting THEN 1 ELSE 0)

(* EPOLLONESHOT at work, whoever closes connections and when: from accept() to *)
(* close(), a connection whose object was free when it was accepted is with   *)
(* the kernel (armed), or in the main thread's batch, or in the list of the   *)
(* pool, or with one worker, and in one of these places only once.            *)
Uncrossed(f) == desc[f] \in Clients \ crossed

OneHolder ==
    \A f \in Fds : Uncrossed(f) =>
        /\ armed[f] # "off" => event[f] = "none" /\ ~Queued(f) /\ ~Held(f)
        /\ event[f] # "none" => ~Queued(f) /\ ~Held(f)
        /\ Queued(f) => ~Held(f)
        /\ \A i, j \in DOMAIN workqueue : workqueue[i] = f /\ workqueue[j] = f => i = j
        /\ \A v, w \in Workers : request[v] = f /\ request[w] = f => v = w

(* The object and the descriptor of a connection are open together, but for  *)
(* a worker half-way through close_conn(), and for the object of a crossed   *)
(* client, which that worker resets although the descriptor is new.          *)
ObjectOwnsDescriptor ==
    \A f \in Fds :
        /\ sockfd[f] # NoFd /\ f \notin Open
              => \E w \in Workers : request[w] = f /\ stage[w] = "reset"
        /\ sockfd[f] = NoFd /\ f \in Open => desc[f] \in crossed

(* No connection is forgotten: an open descriptor that nobody holds is one   *)
(* whose append() the pool refused, or one that a worker's late              *)
(* "_sockfd = -1" took from a crossed client.                                *)
NoneForgotten ==
    \A f \in Open :
        \/ armed[f] # "off" \/ event[f] # "none" \/ Queued(f) \/ Held(f)
        \/ f \in dropped
        \/ sockfd[f] = NoFd /\ desc[f] \in crossed

(* Nobody gets an answer to somebody else's request, although objects are    *)
(* reused by whoever gets their descriptor number next: unless it was given  *)
(* the object before those at work on it were done.                          *)
RightReply == \A c \in Clients \ crossed : heard[c] \subseteq {c}

(* http_conn.h:124: _user_count counts the users: the open descriptors, and  *)
(* those for which a worker in close_conn() still owes a decrement.  There   *)
(* are three ways for it to go wrong, marked miscounted, and no other.  As    *)
(* long as none has happened, MAX_FD bounds the connections that are open.    *)
Owing == {w \in Workers : stage[w] \in {"reset", "load", "store"}}

CountExact ==
    ~miscounted => /\ user_count = Cardinality(Open) + Cardinality(Owing)
                   /\ user_count <= MAX_FD

(* While a worker has the object of an uncrossed client, nobody reopens it,  *)
(* takes an event of it or adds to its request (process_read's pointers into *)
(* the buffer stay good), except that the connection may be closed.          *)
WorkerAlone ==
    [][\A f \in Fds : Held(f) /\ Uncrossed(f) =>
          \/ UNCHANGED <<sockfd[f], text[f], desc[f], event[f]>>
          \/ f \notin Open']_vars

(* accept() never hands out an object in use, if heartbeats spare the busy   *)
(* objects and process_write() succeeds: then OneHolder, RightReply and      *)
(* WorkerAlone speak of every client.                                        *)
NobodyCrossed == crossed = {}

(* Who has sent a whole request gets a whole reply, or loses the connection. *)
RequestAnswered == \A c \in Clients : c \in waiting ~> c \notin waiting

(* What TLC refutes when process_write() may fail: that an open descriptor   *)
(* which was not refused is always in somebody's hands, and that _user_count *)
(* is always right.                                                          *)
OpenIsHeld ==
    \A f \in Open :
        armed[f] # "off" \/ event[f] # "none" \/ Queued(f) \/ Held(f) \/ f \in dropped

EveryUserCounted == user_count = Cardinality(Open) + Cardinality(Owing)

(* http_conn.cpp:70-71: oneshot is used so that no event fires while data is *)
(* being processed and no two threads process one connection.                *)
OneThreadPerConnection ==
    \A v, w \in Workers : request[v] = request[w] /\ request[w] # NoFd => v = w
=============================================================================
