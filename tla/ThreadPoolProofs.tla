------------------------- MODULE ThreadPoolProofs -------------------------
(***************************************************************************)
(* Theorems about ThreadPool, for any finite pool and any limit.            *)
(***************************************************************************)
EXTENDS ThreadPool, FiniteSetTheorems, TLAPS

LEMMA TypeInit == Init => TypeOK
<1> SUFFICES ASSUME Init PROVE TypeOK
  OBVIOUS
<1>1. /\ workqueue \in Seq(Requests)
      /\ Len(workqueue) = 0
      /\ MaxRequests \in Nat
  BY PoolAssumption DEF Init
<1>2. \A w \in Workers : at[w] = "process" <=> request[w] # NoRequest
  BY DEF Init
<1>3. Len(workqueue) <= MaxRequests + 1
  BY <1>1
<1> QED
  BY <1>1, <1>2, <1>3 DEF Init, TypeOK

(* Every step keeps the types, the length of the list below its limit and   *)
(* the match between a worker's place in run() and what it holds.           *)
LEMMA TypeNext == TypeOK /\ [Next]_poolVars => TypeOK'
<1> SUFFICES ASSUME TypeOK, [Next]_poolVars PROVE TypeOK'
  OBVIOUS
<1> USE PoolAssumption DEF TypeOK
<1>1. ASSUME NEW r \in Requests, AppendRequest(r) PROVE TypeOK'
  <2>1. /\ workqueue' \in Seq(Requests)
        /\ Len(workqueue') = Len(workqueue) + 1
    BY <1>1 DEF AppendRequest
  <2>2. Len(workqueue') <= MaxRequests + 1
    BY <1>1, <2>1 DEF AppendRequest
  <2> QED
    BY <1>1, <2>1, <2>2 DEF AppendRequest
<1>2. CASE AppendRefused
  BY <1>2 DEF AppendRefused, poolVars
<1>3. CASE Post
  <2>1. queuestat' \in Nat
    BY <1>3 DEF Post
  <2>2. posting' \in BOOLEAN
    BY <1>3, Zenon DEF Post
  <2> QED
    BY <1>3, <2>1, <2>2 DEF Post
<1>4. ASSUME NEW w \in Workers, Wait(w) PROVE TypeOK'
  BY <1>4 DEF Wait
<1>5. ASSUME NEW w \in Workers, WaitFails(w) PROVE TypeOK'
  BY <1>5 DEF WaitFails
<1>6. ASSUME NEW w \in Workers, Take(w) PROVE TypeOK'
  <2>1. /\ Head(workqueue) \in Requests
        /\ Tail(workqueue) \in Seq(Requests)
        /\ Len(Tail(workqueue)) = Len(workqueue) - 1
    BY <1>6 DEF Take
  <2> QED
    BY <1>6, <2>1 DEF Take
<1>7. ASSUME NEW w \in Workers, TakeNone(w) PROVE TypeOK'
  BY <1>7 DEF TakeNone
<1>8. ASSUME NEW w \in Workers, Finish(w) PROVE TypeOK'
  BY <1>8 DEF Finish
<1>9. CASE UNCHANGED poolVars
  BY <1>9 DEF poolVars
<1> QED
  BY <1>1, <1>2, <1>3, <1>4, <1>5, <1>6, <1>7, <1>8, <1>9 DEF Next

(* The types of the pool hold in every reachable state.                     *)
THEOREM PoolTypes == Spec => []TypeOK
  BY TypeInit, TypeNext, PTL DEF Spec
-----------------------------------------------------------------------------
(* How many workers are on their way to the list after each kind of step.   *)
LEMMA TakersFinite == IsFiniteSet(Takers) /\ Cardinality(Takers) \in Nat
  BY PoolAssumption, FS_Subset, FS_CardinalityType DEF Takers

LEMMA OneMoreTaker ==
  ASSUME TypeOK, NEW w \in Workers, at[w] = "wait", at' = [at EXCEPT ![w] = "take"]
  PROVE  Cardinality(Takers') = Cardinality(Takers) + 1
<1>1. Takers' = Takers \cup {w} /\ w \notin Takers
  BY DEF Takers, TypeOK
<1> QED
  BY <1>1, TakersFinite, FS_AddElement

LEMMA OneTakerLess ==
  ASSUME TypeOK, NEW w \in Workers, NEW p \in {"wait", "process"},
         at[w] = "take", at' = [at EXCEPT ![w] = p]
  PROVE  Cardinality(Takers') = Cardinality(Takers) - 1
<1>1. Takers' = Takers \ {w} /\ w \in Takers
  BY DEF Takers, TypeOK
<1> QED
  BY <1>1, TakersFinite, FS_RemoveElement

LEMMA SameTakers ==
  ASSUME TypeOK, NEW w \in Workers, at[w] = "process", at' = [at EXCEPT ![w] = "wait"]
  PROVE  Takers' = Takers
  BY DEF Takers, TypeOK

LEMMA WakeupNext ==
  TypeOK /\ WakeupPerRequest /\ [Next]_poolVars => WakeupPerRequest'
<1> SUFFICES ASSUME TypeOK, WakeupPerRequest, [Next]_poolVars
             PROVE  WakeupPerRequest'
  OBVIOUS
<1>0. /\ Len(workqueue) \in Nat
      /\ queuestat \in Nat
      /\ Cardinality(Takers) \in Nat
      /\ Len(workqueue) <= queuestat + Cardinality(Takers) + (IF posting THEN 1 ELSE 0)
      /\ posting \in BOOLEAN
  BY TakersFinite DEF TypeOK, WakeupPerRequest
<1>1. ASSUME NEW r \in Requests, AppendRequest(r) PROVE WakeupPerRequest'
  <2>1. Len(workqueue') = Len(workqueue) + 1 /\ Takers' = Takers
    BY <1>1 DEF AppendRequest, Takers, TypeOK
  <2> QED
    BY <1>0, <1>1, <2>1 DEF AppendRequest, WakeupPerRequest
<1>2. CASE AppendRefused
  BY <1>2 DEF AppendRefused, poolVars, WakeupPerRequest, Takers
<1>3. CASE Post
  <2>1. Takers' = Takers
    BY <1>3 DEF Post, Takers
  <2> QED
    BY <1>0, <1>3, <2>1 DEF Post, WakeupPerRequest
<1>4. ASSUME NEW w \in Workers, Wait(w) PROVE WakeupPerRequest'
  <2>1. Cardinality(Takers') = Cardinality(Takers) + 1
    BY <1>4, OneMoreTaker DEF Wait
  <2> QED
    BY <1>0, <1>4, <2>1 DEF Wait, WakeupPerRequest
<1>5. ASSUME NEW w \in Workers, WaitFails(w) PROVE WakeupPerRequest'
  <2>1. Cardinality(Takers') = Cardinality(Takers) + 1
    BY <1>5, OneMoreTaker DEF WaitFails
  <2> QED
    BY <1>0, <1>5, <2>1 DEF WaitFails, WakeupPerRequest
<1>6. ASSUME NEW w \in Workers, Take(w) PROVE WakeupPerRequest'
  <2>1. Cardinality(Takers') = Cardinality(Takers) - 1
    BY <1>6, OneTakerLess DEF Take
  <2>2. Len(workqueue') = Len(workqueue) - 1
    BY <1>6 DEF Take, TypeOK
  <2> QED
    BY <1>0, <1>6, <2>1, <2>2 DEF Take, WakeupPerRequest
<1>7. ASSUME NEW w \in Workers, TakeNone(w) PROVE WakeupPerRequest'
  <2>1. Cardinality(Takers') = Cardinality(Takers) - 1 /\ w \in Takers
    BY <1>7, OneTakerLess DEF TakeNone, Takers
  <2>2. Cardinality(Takers) >= 1
    BY <1>0, <2>1, TakersFinite, FS_EmptySet
  <2> QED
    BY <1>0, <1>7, <2>1, <2>2 DEF TakeNone, WakeupPerRequest
<1>8. ASSUME NEW w \in Workers, Finish(w) PROVE WakeupPerRequest'
  <2>1. Takers' = Takers
    BY <1>8, SameTakers DEF Finish
  <2> QED
    BY <1>0, <1>8, <2>1 DEF Finish, WakeupPerRequest
<1>9. CASE UNCHANGED poolVars
  BY <1>9 DEF poolVars, WakeupPerRequest, Takers
<1> QED
  BY <1>1, <1>2, <1>3, <1>4, <1>5, <1>6, <1>7, <1>8, <1>9 DEF Next

(* No lost wakeup, for every number of workers and every limit: a request in *)
(* the list is always matched by a permit, by a worker past wait(), or by    *)
(* the post() append() has still to make.                                    *)
THEOREM NoLostWakeup == Spec => []WakeupPerRequest
<1>1. Init => WakeupPerRequest
  <2>1. Init => Takers = {}
    BY DEF Init, Takers
  <2> QED
    BY <2>1, FS_EmptySet DEF Init, WakeupPerRequest
<1> QED
  BY <1>1, PoolTypes, WakeupNext, PTL DEF Spec
-----------------------------------------------------------------------------
(* Every step of the pool is a step of TaskQueue, or none of its steps: a    *)
(* request is accepted while there is room, handed in its turn to one worker *)
(* that has none, and given up by it; the semaphore does not show.            *)
LEMMA StepsOfTaskQueue ==
  TypeOK /\ [Next]_poolVars => [Abstract!Next]_(Abstract!vars)
<1> SUFFICES ASSUME TypeOK, Next PROVE Abstract!Next \/ UNCHANGED Abstract!vars
  BY DEF poolVars, Abstract!vars
<1>1. ASSUME NEW r \in Requests, AppendRequest(r) PROVE Abstract!Next
  <2>1. Len(workqueue) < MaxRequests + 1
    BY <1>1, PoolAssumption DEF AppendRequest, TypeOK
  <2>2. Abstract!Submit(r)
    BY <1>1, <2>1 DEF AppendRequest, Abstract!Submit
  <2> QED
    BY <2>2 DEF Abstract!Next
<1>2. CASE AppendRefused \/ Post
  BY <1>2 DEF AppendRefused, Post, poolVars, Abstract!vars
<1>3. ASSUME NEW w \in Workers, Wait(w) \/ WaitFails(w) \/ TakeNone(w)
      PROVE  UNCHANGED Abstract!vars
  BY <1>3 DEF Wait, WaitFails, TakeNone, Abstract!vars
<1>4. ASSUME NEW w \in Workers, Take(w) PROVE Abstract!Next
  <2>1. Abstract!Dispatch(w)
    BY <1>4 DEF Take, TypeOK, Abstract!Dispatch
  <2> QED
    BY <2>1 DEF Abstract!Next
<1>5. ASSUME NEW w \in Workers, Finish(w) PROVE Abstract!Next
  <2>1. Abstract!Complete(w)
    BY <1>5 DEF Finish, TypeOK, Abstract!Complete
  <2> QED
    BY <2>1 DEF Abstract!Next
<1> QED
  BY <1>1, <1>2, <1>3, <1>4, <1>5 DEF Next

(* The pool implements the safety part of TaskQueue, for any pool and limit: *)
(* requests start in the order append() accepted them, each once, on a worker *)
(* that is outside process().                                                *)
THEOREM PoolIsTaskQueue ==
  Spec => Abstract!Init /\ [][Abstract!Next]_(Abstract!vars)
<1>1. Init => Abstract!Init
  BY DEF Init, Abstract!Init
<1> QED
  BY <1>1, PoolTypes, StepsOfTaskQueue, PTL DEF Spec
=============================================================================
