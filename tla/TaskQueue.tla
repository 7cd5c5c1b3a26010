----------------------------- MODULE TaskQueue -----------------------------
(***************************************************************************)
(* What the thread pool promises the main loop, without its semaphore: a    *)
(* bounded FIFO of requests, each handed to one idle worker, and no worker   *)
(* left idle for ever while a request is waiting.  ThreadPool implements it. *)
(***************************************************************************)
EXTENDS Naturals, Sequences

CONSTANTS Workers,    \* the threads of the pool
          Requests,   \* the objects that may be handed to append()
          NoRequest,  \* what an idle worker runs
          Capacity    \* how many requests may be waiting

VARIABLES pending,    \* the requests waiting, oldest first
          running     \* running[w]: the request worker w is in, or NoRequest

vars == <<pending, running>>

Init ==
    /\ pending = <<>>
    /\ running = [w \in Workers |-> NoRequest]

Submit(r) ==
    /\ Len(pending) < Capacity
    /\ pending' = Append(pending, r)
    /\ UNCHANGED running

Dispatch(w) ==
    /\ running[w] = NoRequest
    /\ pending # <<>>
    /\ running' = [running EXCEPT ![w] = Head(pending)]
    /\ pending' = Tail(pending)

Complete(w) ==
    /\ running[w] # NoRequest
    /\ running' = [running EXCEPT ![w] = NoRequest]
    /\ UNCHANGED pending

Next ==
    \/ \E r \in Requests : Submit(r)
    \/ \E w \in Workers : Dispatch(w) \/ Complete(w)

(* Work-conserving: a waiting request and an idle worker do not coexist for  *)
(* ever.                                                                     *)
Spec == Init /\ [][Next]_vars /\ WF_vars(\E w \in Workers : Dispatch(w))
=============================================================================
