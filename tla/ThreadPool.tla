---------------------------- MODULE ThreadPool ----------------------------
(***************************************************************************)
(* threadpool<T> (threadpool/threadpool.h): the main thread appends         *)
(* requests, detached workers take them.  The list is guarded by            *)
(* _queuelocker; _queuestat counts the requests a worker may come and take.  *)
(* append() unlocks the list before it posts, so between the two a request   *)
(* is in the list and not yet in the semaphore.                              *)
(***************************************************************************)
EXTENDS Naturals, Sequences, FiniteSets

CONSTANTS Workers,      \* the threads created by the constructor
          Requests,     \* the objects append() is called with
          NoRequest,    \* what a worker outside process() holds
          MaxRequests,  \* _max_requests
          MaxPermits    \* bound: sem_wait fails only while the semaphore is below it

ASSUME PoolAssumption ==
    /\ IsFiniteSet(Workers) /\ Workers # {}
    /\ NoRequest \notin Requests
    /\ MaxRequests \in Nat \ {0}
    /\ MaxPermits \in Nat

VARIABLES workqueue,  \* _workqueue
          queuestat,  \* the value of the semaphore _queuestat
          posting,    \* the appending thread is between push_back and post()
          at,         \* at[w]: where worker w is in run()
          request     \* request[w]: the local variable of run()

poolVars == <<workqueue, queuestat, posting, at, request>>

Init ==
    /\ workqueue = <<>>
    /\ queuestat = 0
    /\ posting = FALSE
    /\ at = [w \in Workers |-> "wait"]
    /\ request = [w \in Workers |-> NoRequest]

-----------------------------------------------------------------------------
(* Mutated forms of the operations below. *)

AppendUnbounded(r) ==
    /\ ~posting
    /\ workqueue' = Append(workqueue, r)
    /\ posting' = TRUE
    /\ UNCHANGED <<queuestat, at, request>>

AppendWithoutPost(r) ==
    /\ ~posting
    /\ Len(workqueue) <= MaxRequests
    /\ workqueue' = Append(workqueue, r)
    /\ UNCHANGED <<queuestat, posting, at, request>>

TakeNewest(w) ==
    /\ at[w] = "take"
    /\ workqueue # <<>>
    /\ request' = [request EXCEPT ![w] = workqueue[Len(workqueue)]]
    /\ workqueue' = SubSeq(workqueue, 1, Len(workqueue) - 1)
    /\ at' = [at EXCEPT ![w] = "process"]
    /\ UNCHANGED <<queuestat, posting>>
-----------------------------------------------------------------------------
(* append(): the size test and push_back, under _queuelocker. *)
AppendRequest(r) ==
    /\ ~posting
    /\ Len(workqueue) <= MaxRequests
    /\ workqueue' = Append(workqueue, r)
    /\ posting' = TRUE
    /\ UNCHANGED <<queuestat, at, request>>

(* append() returns false: the list is left as it was. *)
AppendRefused ==
    /\ ~posting
    /\ Len(workqueue) > MaxRequests
    /\ UNCHANGED poolVars

(* The end of append(): _queuestat.post(). *)
Post ==
    /\ posting
    /\ queuestat' = queuestat + 1
    /\ posting' = FALSE
    /\ UNCHANGED <<workqueue, at, request>>

(* run(): _queuestat.wait() returns true. *)
Wait(w) ==
    /\ at[w] = "wait"
    /\ queuestat > 0
    /\ queuestat' = queuestat - 1
    /\ at' = [at EXCEPT ![w] = "take"]
    /\ UNCHANGED <<workqueue, posting, request>>

(* sem_wait fails (EINTR); run() ignores the result and goes on. *)
WaitFails(w) ==
    /\ at[w] = "wait"
    /\ queuestat < MaxPermits
    /\ at' = [at EXCEPT ![w] = "take"]
    /\ UNCHANGED <<workqueue, queuestat, posting, request>>

(* run(): front() and pop_front() under _queuelocker. *)
Take(w) ==
    /\ at[w] = "take"
    /\ workqueue # <<>>
    /\ request' = [request EXCEPT ![w] = Head(workqueue)]
    /\ workqueue' = Tail(workqueue)
    /\ at' = [at EXCEPT ![w] = "process"]
    /\ UNCHANGED <<queuestat, posting>>

(* run(): the list is empty, back to wait(). *)
TakeNone(w) ==
    /\ at[w] = "take"
    /\ workqueue = <<>>
    /\ at' = [at EXCEPT ![w] = "wait"]
    /\ UNCHANGED <<workqueue, queuestat, posting, request>>

(* request->process() returns. *)
Finish(w) ==
    /\ at[w] = "process"
    /\ request' = [request EXCEPT ![w] = NoRequest]
    /\ at' = [at EXCEPT ![w] = "wait"]
    /\ UNCHANGED <<workqueue, queuestat, posting>>

Next ==
    \/ \E r \in Requests : AppendRequest(r)
    \/ AppendRefused
    \/ Post
    \/ \E w \in Workers :
          Wait(w) \/ WaitFails(w) \/ Take(w) \/ TakeNone(w) \/ Finish(w)

(* The main thread finishes append(); a worker that can move moves.  Nothing *)
(* is assumed of process(): it may never return.                             *)
Fairness ==
    /\ WF_poolVars(Post)
    /\ \A w \in Workers : WF_poolVars(Wait(w)) /\ WF_poolVars(Take(w) \/ TakeNone(w))

Spec == Init /\ [][Next]_poolVars /\ Fairness
-----------------------------------------------------------------------------
Takers == {w \in Workers : at[w] = "take"}

(* Every variable has its type, the list never holds more than               *)
(* _max_requests + 1 requests, and a worker holds a request exactly while it *)
(* is in process().                                                          *)
TypeOK ==
    /\ workqueue \in Seq(Requests)
    /\ Len(workqueue) <= MaxRequests + 1
    /\ queuestat \in Nat
    /\ posting \in BOOLEAN
    /\ at \in [Workers -> {"wait", "take", "process"}]
    /\ request \in [Workers -> Requests \cup {NoRequest}]
    /\ \A w \in Workers : at[w] = "process" <=> request[w] # NoRequest

(* No lost wakeup: every request in the list has a permit in the semaphore,  *)
(* a worker already on its way to the list, or the post() that append() has  *)
(* still to make.  run() tests the list again after wait(), so a failing     *)
(* sem_wait can only leave permits over, never a request without one.        *)
WakeupPerRequest ==
    Len(workqueue) <= queuestat + Cardinality(Takers) + (IF posting THEN 1 ELSE 0)

Abstract == INSTANCE TaskQueue
    WITH pending <- workqueue, running <- request, Capacity <- MaxRequests + 1

(* The pool is a work-conserving FIFO: requests start in the order append()  *)
(* accepted them, each once, and no request waits for ever while a worker is *)
(* outside process().                                                        *)
ImplementsTaskQueue == Abstract!Spec

(* threadpool.h:14: max_requests is the largest number of requests that may  *)
(* be waiting in the list.                                                   *)
AtMostMaxRequestsWait == Len(workqueue) <= MaxRequests
=============================================================================
