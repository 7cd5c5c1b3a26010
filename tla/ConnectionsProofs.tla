------------------------- MODULE ConnectionsProofs -------------------------
(***************************************************************************)
(* Theorems about Connections, for any number of descriptors, clients and   *)
(* workers, whatever heartbeats and process_write() do.  In order: the pool  *)
(* (NoEmptyHands), the types, who holds an open object, the counter, the     *)
(* hands a connection is in from accept() to close(), and what its buffers   *)
(* hold.                                                                     *)
(***************************************************************************)
EXTENDS Connections, SequenceTheorems, FiniteSetTheorems, TLAPS

(***************************************************************************)
(* The pool, in every server: what main and the workers do to it.           *)
(***************************************************************************)
PoolStep ==
    \/ UNCHANGED poolVars
    \/ \E f \in Fds : Pool!AppendRequest(f)
    \/ Pool!Post
    \/ \E w \in Workers : Pool!Wait(w) \/ Pool!Take(w) \/ Pool!Finish(w)

LEMMA StepsOfThePool == [Next]_vars => PoolStep
<1>1. CASE UNCHANGED vars
  BY <1>1 DEF vars, PoolStep
<1>2. ASSUME NEW c \in Clients, ClientStep(c) PROVE PoolStep
  BY <1>2 DEF ClientStep, Connect, Send, Drain, Leave, PoolStep
<1>3. CASE MainStep
  <2>1. CASE EpollWait \/ Post
    BY <2>1 DEF EpollWait, Post, PoolStep
  <2>2. ASSUME NEW c \in Clients, NEW f \in Fds, Accept(c, f) \/ AcceptBusy(c, f)
        PROVE  PoolStep
    BY <2>2 DEF Accept, AcceptBusy, PoolStep
  <2>3. ASSUME NEW f \in Fds, Read(f) \/ ReadRefused(f) PROVE PoolStep
    BY <2>3 DEF Read, ReadRefused, Pool!AppendRefused, Pool!poolVars, poolVars, PoolStep
  <2>4. ASSUME NEW f \in Fds, \/ Hangup(f) \/ ReadFails(f) \/ WriteNothing(f)
                              \/ WritePart(f) \/ WriteAll(f) \/ WriteFails(f)
                              \/ WriteSpins(f)
        PROVE  PoolStep
    BY <2>4 DEF Hangup, ReadFails, WriteNothing, WritePart, WriteAll, WriteFails,
                WriteSpins, PoolStep
  <2> QED
    BY <1>3, <2>1, <2>2, <2>3, <2>4 DEF MainStep
<1>4. ASSUME NEW f \in Fds, HeartbeatExpires(f) PROVE PoolStep
  BY <1>4 DEF HeartbeatExpires, PoolStep
<1>5. ASSUME NEW w \in Workers, WorkerStep(w) PROVE PoolStep
  BY <1>5 DEF WorkerStep, WorkerWait, WorkerTake, ProcessRead, Rearm, Compose, Arm,
     ComposeFails, CloseTest, CloseRemove, CloseReset, CountLoad, CountStore, PoolStep
<1> QED
  BY <1>1, <1>2, <1>3, <1>4, <1>5 DEF Next

LEMMA PoolTypeInit == Init => Pool!TypeOK
<1> SUFFICES ASSUME Init PROVE Pool!TypeOK
  OBVIOUS
<1>1. workqueue = <<>> /\ queuestat = 0 /\ posting = FALSE
  BY DEF Init, Pool!Init
<1>2. /\ at = [w \in Workers |-> "wait"]
      /\ request = [w \in Workers |-> NoFd]
  BY DEF Init, Pool!Init
<1>3. workqueue \in Seq(Fds) /\ Len(workqueue) <= MaxRequests + 1
  BY <1>1, ConnAssumption
<1>4. \A w \in Workers : at[w] = "process" <=> request[w] # NoFd
  BY <1>2
<1>5. posting \in BOOLEAN
  BY <1>1
<1> QED
  BY <1>1, <1>2, <1>3, <1>4, <1>5 DEF Pool!TypeOK

LEMMA PoolTypeNext == ASSUME Pool!TypeOK, PoolStep PROVE Pool!TypeOK'
<1> USE ConnAssumption DEF Pool!TypeOK
<1>1. CASE UNCHANGED poolVars
  BY <1>1 DEF poolVars
<1>2. ASSUME NEW f \in Fds, Pool!AppendRequest(f) PROVE Pool!TypeOK'
  <2>1. /\ workqueue' \in Seq(Fds)
        /\ Len(workqueue') = Len(workqueue) + 1
    BY <1>2 DEF Pool!AppendRequest
  <2>2. Len(workqueue') <= MaxRequests + 1
    BY <1>2, <2>1 DEF Pool!AppendRequest
  <2> QED
    BY <1>2, <2>1, <2>2 DEF Pool!AppendRequest
<1>3. CASE Pool!Post
  <2>1. queuestat' \in Nat
    BY <1>3 DEF Pool!Post
  <2>2. posting' \in BOOLEAN
    BY <1>3, Zenon DEF Pool!Post
  <2> QED
    BY <1>3, <2>1, <2>2 DEF Pool!Post
<1>4. ASSUME NEW w \in Workers, Pool!Wait(w) PROVE Pool!TypeOK'
  BY <1>4 DEF Pool!Wait
<1>5. ASSUME NEW w \in Workers, Pool!Take(w) PROVE Pool!TypeOK'
  <2>1. /\ Head(workqueue) \in Fds
        /\ Tail(workqueue) \in Seq(Fds)
        /\ Len(Tail(workqueue)) = Len(workqueue) - 1
    BY <1>5 DEF Pool!Take
  <2> QED
    BY <1>5, <2>1 DEF Pool!Take
<1>6. ASSUME NEW w \in Workers, Pool!Finish(w) PROVE Pool!TypeOK'
  BY <1>6 DEF Pool!Finish
<1> QED
  BY <1>1, <1>2, <1>3, <1>4, <1>5, <1>6 DEF PoolStep

LEMMA PoolTypeAlways == Spec => []Pool!TypeOK
  BY PoolTypeInit, PoolTypeNext, StepsOfThePool, PTL DEF Spec

LEMMA TakersFinite == IsFiniteSet(Pool!Takers) /\ Cardinality(Pool!Takers) \in Nat
  BY ConnAssumption, FS_Subset, FS_CardinalityType DEF Pool!Takers

LEMMA HandsNext == ASSUME Pool!TypeOK, NoEmptyHands, PoolStep PROVE NoEmptyHands'
<1>0. /\ Len(workqueue) \in Nat /\ queuestat \in Nat /\ posting \in BOOLEAN
      /\ Cardinality(Pool!Takers) \in Nat
      /\ at \in [Workers -> {"wait", "take", "process"}]
  BY TakersFinite DEF Pool!TypeOK
<1>1. CASE UNCHANGED poolVars
  BY <1>1 DEF poolVars, NoEmptyHands, Pool!Takers
<1>2. ASSUME NEW f \in Fds, Pool!AppendRequest(f) PROVE NoEmptyHands'
  <2>1. Len(workqueue') = Len(workqueue) + 1 /\ Pool!Takers' = Pool!Takers
    BY <1>2 DEF Pool!AppendRequest, Pool!Takers, Pool!TypeOK
  <2> QED
    BY <1>0, <1>2, <2>1 DEF Pool!AppendRequest, NoEmptyHands
<1>3. CASE Pool!Post
  <2>1. Pool!Takers' = Pool!Takers
    BY <1>3 DEF Pool!Post, Pool!Takers
  <2> QED
    BY <1>0, <1>3, <2>1 DEF Pool!Post, NoEmptyHands
<1>4. ASSUME NEW w \in Workers, Pool!Wait(w) PROVE NoEmptyHands'
  <2>1. Pool!Takers' = Pool!Takers \cup {w} /\ w \notin Pool!Takers
    BY <1>0, <1>4 DEF Pool!Wait, Pool!Takers
  <2>2. Cardinality(Pool!Takers') = Cardinality(Pool!Takers) + 1
    BY <2>1, TakersFinite, FS_AddElement
  <2> QED
    BY <1>0, <1>4, <2>2 DEF Pool!Wait, NoEmptyHands
<1>5. ASSUME NEW w \in Workers, Pool!Take(w) PROVE NoEmptyHands'
  <2>1. Pool!Takers' = Pool!Takers \ {w} /\ w \in Pool!Takers
    BY <1>0, <1>5 DEF Pool!Take, Pool!Takers
  <2>2. Cardinality(Pool!Takers') = Cardinality(Pool!Takers) - 1
    BY <2>1, TakersFinite, FS_RemoveElement
  <2>3. Len(workqueue') = Len(workqueue) - 1
    BY <1>5 DEF Pool!Take, Pool!TypeOK
  <2> QED
    BY <1>0, <1>5, <2>2, <2>3 DEF Pool!Take, NoEmptyHands
<1>6. ASSUME NEW w \in Workers, Pool!Finish(w) PROVE NoEmptyHands'
  <2>1. Pool!Takers' = Pool!Takers
    BY <1>0, <1>6 DEF Pool!Finish, Pool!Takers
  <2> QED
    BY <1>0, <1>6, <2>1 DEF Pool!Finish, NoEmptyHands
<1> QED
  BY <1>1, <1>2, <1>3, <1>4, <1>5, <1>6 DEF PoolStep

(* run()'s test for an empty list never succeeds, in any server: each worker *)
(* past wait() has its own request in the list.                              *)
THEOREM ListIsNeverEmpty == Spec => []NoEmptyHands
<1>1. Init => NoEmptyHands
  <2> SUFFICES ASSUME Init PROVE NoEmptyHands
    OBVIOUS
  <2>1. Pool!Takers = {} /\ workqueue = <<>> /\ queuestat = 0 /\ posting = FALSE
    BY DEF Init, Pool!Init, Pool!Takers
  <2>2. Cardinality(Pool!Takers) = 0
    BY <2>1, FS_EmptySet
  <2> QED
    BY <2>1, <2>2 DEF NoEmptyHands
<1> QED
  BY <1>1, PoolTypeAlways, HandsNext, StepsOfThePool, PTL DEF Spec
-----------------------------------------------------------------------------
(***************************************************************************)
(* The types of the objects, the kernel and the clients.                    *)
(***************************************************************************)
WorkTypes ==
    /\ stage \in [Workers -> Stages]
    /\ saved \in [Workers -> Int]
    /\ \A w \in Workers : stage[w] = "idle" <=> at[w] # "process"

TableShape ==
    /\ sockfd \in [Fds -> Fds \cup {NoFd}]
    /\ \A f \in Fds : sockfd[f] \in {f, NoFd}
    /\ desc \in [Fds -> Clients \cup {NoClient}]
    /\ armed \in [Fds -> {"off", "IN", "OUT"}]
    /\ event \in [Fds \cup {ListenFd} -> {"none", "HUP", "IN", "OUT", "stuck"}]

ArmedIsOpen == \A f \in Fds : armed[f] # "off" => desc[f] # NoClient

ObjectTypes ==
    /\ text \in [Fds -> Seq(Clients \X Pieces)]
    /\ \A f \in Fds : Len(text[f]) <= BufferSize
    /\ from \in [Fds -> SUBSET Clients]
    /\ left \in [Fds -> 0..ReplySize]
    /\ residue \subseteq Fds /\ linger \subseteq Fds /\ dropped \subseteq Fds
    /\ user_count \in Int

HistoryTypes == miscounted \in BOOLEAN /\ crossed \subseteq Clients

(* Who waits for a reply has had fewer than MaxAsks.                        *)
PeerTypes ==
    /\ peer \in [Clients -> {"out", "backlog", "open", "closed"}]
    /\ fin \subseteq Clients /\ full \subseteq Clients /\ waiting \subseteq Clients
    /\ inbox \in [Clients -> Seq(Pieces)]
    /\ sent \in [Clients -> 0..MaxPieces]
    /\ asks \in [Clients -> 0..MaxAsks]
    /\ heard \in [Clients -> SUBSET Clients]
    /\ \A c \in waiting : asks[c] < MaxAsks

Types ==
    /\ Pool!TypeOK /\ WorkTypes /\ TableShape /\ ArmedIsOpen
    /\ ObjectTypes /\ HistoryTypes /\ PeerTypes

LEMMA TypesGiveTypeOK == Types => TypeOK
  BY DEF Types, WorkTypes, TableShape, ArmedIsOpen, ObjectTypes, HistoryTypes, PeerTypes,
     TypeOK

LEMMA TypesInit == Init => Types
<1> SUFFICES ASSUME Init PROVE Types
  OBVIOUS
<1>1. WorkTypes
  BY DEF Init, Pool!Init, WorkTypes, Stages
<1>2. TableShape /\ ArmedIsOpen
  BY DEF Init, TableShape, ArmedIsOpen
<1>3. ObjectTypes
  <2>1. text \in [Fds -> Seq(Clients \X Pieces)] /\ \A f \in Fds : Len(text[f]) <= BufferSize
    BY ConnAssumption DEF Init
  <2>2. left \in [Fds -> 0..ReplySize]
    BY ConnAssumption DEF Init
  <2> QED
    BY <2>1, <2>2 DEF Init, ObjectTypes
<1>4. PeerTypes
  <2>1. sent \in [Clients -> 0..MaxPieces] /\ asks \in [Clients -> 0..MaxAsks]
    BY ConnAssumption DEF Init
  <2> QED
    BY <2>1 DEF Init, PeerTypes
<1>5. HistoryTypes
  BY DEF Init, HistoryTypes
<1> QED
  BY <1>1, <1>2, <1>3, <1>4, <1>5, PoolTypeInit DEF Types
-----------------------------------------------------------------------------
(* A worker inside process() has an object.                                  *)
LEMMA BusyWorkerHasObject ==
  ASSUME Types, NEW w \in Workers, stage[w] # "idle"
  PROVE  request[w] \in Fds /\ request[w] # NoFd /\ Held(request[w]) /\ at[w] = "process"
  BY ConnAssumption DEF Types, WorkTypes, Pool!TypeOK, Held

LEMMA WorkTypesNext == ASSUME Types, [Next]_vars PROVE WorkTypes'
<1>0. WorkTypes /\ at \in [Workers -> {"wait", "take", "process"}]
      /\ user_count \in Int
  BY DEF Types, Pool!TypeOK, ObjectTypes
<1>1. CASE UNCHANGED <<stage, saved, at>>
  BY <1>0, <1>1 DEF WorkTypes
<1>2. CASE UNCHANGED vars
  BY <1>1, <1>2 DEF vars, poolVars, workVars
<1>3. ASSUME NEW c \in Clients, ClientStep(c) PROVE WorkTypes'
  BY <1>1, <1>3 DEF ClientStep, Connect, Send, Drain, Leave, poolVars, workVars
<1>4. CASE MainStep
  BY <1>1, <1>4, ZenonT(40) DEF MainStep, EpollWait, Post, Accept, AcceptBusy, Hangup, Read,
     ReadRefused, ReadFails, ReadInto, WriteNothing, WritePart, WriteAll, WriteFails,
     WriteSpins, Pool!Post, Pool!AppendRequest, Pool!AppendRefused, Pool!poolVars,
     poolVars, workVars
<1>5. ASSUME NEW f \in Fds, HeartbeatExpires(f) PROVE WorkTypes'
  BY <1>1, <1>5 DEF HeartbeatExpires, poolVars, workVars
<1>6. ASSUME NEW w \in Workers, WorkerStep(w) PROVE WorkTypes'
  <2>1. CASE WorkerWait(w)
    BY <1>0, <2>1 DEF WorkerWait, Pool!Wait, workVars, WorkTypes
  <2>2. CASE WorkerTake(w)
    BY <1>0, <2>2 DEF WorkerTake, Pool!Take, Goto, WorkTypes, Stages
  <2>3. CASE Rearm(w) \/ Arm(w)
    BY <1>0, <2>3 DEF Rearm, Arm, Pool!Finish, Goto, WorkTypes, Stages
  <2>4. ASSUME NEW s \in Stages \ {"idle"}, stage[w] # "idle", Goto(w, s),
               UNCHANGED poolVars, saved' \in [Workers -> Int]
        PROVE  WorkTypes'
    BY <1>0, <2>4 DEF Goto, WorkTypes, poolVars
  <2>5. CASE ProcessRead(w) \/ Compose(w) \/ ComposeFails(w) \/ CloseTest(w)
                \/ CloseRemove(w) \/ CloseReset(w)
    <3>1. UNCHANGED <<poolVars, saved>> /\ stage[w] # "idle"
      BY <2>5 DEF ProcessRead, Compose, ComposeFails, CloseTest, CloseRemove, CloseReset
    <3>2. \E s \in Stages \ {"idle"} : Goto(w, s)
      BY <2>5 DEF ProcessRead, Compose, ComposeFails, CloseTest, CloseRemove,
                  CloseReset, Stages
    <3> QED
      BY <1>0, <2>4, <3>1, <3>2 DEF WorkTypes
  <2>6. CASE CountLoad(w)
    BY <1>0, <2>4, <2>6 DEF CountLoad, Stages, WorkTypes
  <2>7. CASE CountStore(w)
    BY <1>0, <2>4, <2>7 DEF CountStore, Stages, WorkTypes
  <2> QED
    BY <1>6, <2>1, <2>2, <2>3, <2>5, <2>6, <2>7 DEF WorkerStep
<1> QED
  BY <1>2, <1>3, <1>4, <1>5, <1>6 DEF Next
-----------------------------------------------------------------------------
(* The tables: what each of the operations on them does.                     *)
Tables == TableShape /\ ArmedIsOpen

LEMMA TablesFrame ==
  ASSUME Tables, UNCHANGED <<sockfd, desc, armed, event>> PROVE Tables'
  BY DEF Tables, TableShape, ArmedIsOpen

LEMMA TablesAfterEvent ==
  ASSUME Tables, UNCHANGED <<sockfd, desc, armed>>, NEW d \in Fds \cup {ListenFd},
         NEW e \in {"none", "stuck"}, event' = [event EXCEPT ![d] = e]
  PROVE  Tables'
  BY DEF Tables, TableShape, ArmedIsOpen

LEMMA TablesAfterModfd ==
  ASSUME Tables, NEW s, NEW ev \in {"IN", "OUT"}, Modfd(s, ev),
         UNCHANGED <<sockfd, desc>>,
         event' \in [Fds \cup {ListenFd} -> {"none", "HUP", "IN", "OUT", "stuck"}]
  PROVE  Tables'
  BY DEF Tables, TableShape, ArmedIsOpen, Modfd

LEMMA TablesAfterRemove ==
  ASSUME Tables, NEW s, Removefd(s),
         \/ UNCHANGED sockfd
         \/ \E f \in Fds : sockfd' = [sockfd EXCEPT ![f] = NoFd],
         event' \in [Fds \cup {ListenFd} -> {"none", "HUP", "IN", "OUT", "stuck"}]
  PROVE  Tables'
<1>1. TableShape /\ ArmedIsOpen
  BY DEF Tables
<1>2. \/ UNCHANGED <<desc, armed>>
      \/ /\ s \in Fds
         /\ desc' = [desc EXCEPT ![s] = NoClient]
         /\ armed' = [armed EXCEPT ![s] = "off"]
  BY DEF Removefd
<1>3. ArmedIsOpen' /\ desc' \in [Fds -> Clients \cup {NoClient}]
      /\ armed' \in [Fds -> {"off", "IN", "OUT"}]
  BY <1>1, <1>2 DEF TableShape, ArmedIsOpen
<1>4. sockfd' \in [Fds -> Fds \cup {NoFd}] /\ \A f \in Fds : sockfd'[f] \in {f, NoFd}
  BY <1>1 DEF TableShape
<1> QED
  BY <1>3, <1>4 DEF Tables, TableShape

LEMMA TablesNext == ASSUME Types, [Next]_vars PROVE Tables'
<1> DEFINE EventType == event' \in
              [Fds \cup {ListenFd} -> {"none", "HUP", "IN", "OUT", "stuck"}]
<1>0. Tables /\ TableShape
  BY DEF Types, Tables
<1>1. CASE UNCHANGED vars
  BY <1>0, <1>1, TablesFrame DEF vars, objVars, mainVars, kernVars
<1>2. ASSUME NEW c \in Clients, ClientStep(c) PROVE Tables'
  BY <1>0, <1>2, TablesFrame
     DEF ClientStep, Connect, Send, Drain, Leave, objVars, mainVars, kernVars
<1>3. CASE EpollWait
  <2>1. \A f \in Fds : ReadyEvent(f) \in {"none", "HUP", "IN", "OUT"}
    BY <1>0 DEF ReadyEvent, TableShape
  <2>2. event' \in [Fds \cup {ListenFd} -> {"none", "HUP", "IN", "OUT", "stuck"}]
    BY <1>3, <2>1 DEF EpollWait
  <2>3. /\ armed' \in [Fds -> {"off", "IN", "OUT"}]
        /\ \A f \in Fds : armed'[f] # "off" => armed[f] # "off"
        /\ UNCHANGED <<sockfd, desc>>
    BY <1>0, <1>3 DEF EpollWait, TableShape, objVars
  <2> QED
    BY <1>0, <2>2, <2>3 DEF Tables, TableShape, ArmedIsOpen
<1>4. CASE Post
  BY <1>0, <1>4, TablesFrame DEF Post, objVars, mainVars, kernVars
<1>5. ASSUME NEW c \in Clients, NEW f \in Fds, Accept(c, f) PROVE Tables'
  <2>1. /\ sockfd' = [sockfd EXCEPT ![f] = f]
        /\ desc' = [desc EXCEPT ![f] = c]
        /\ armed' = [armed EXCEPT ![f] = "IN"]
        /\ event' = [event EXCEPT ![ListenFd] = "none"]
        /\ c # NoClient
    BY <1>5, ConnAssumption DEF Accept, Handled
  <2> QED
    BY <1>0, <2>1 DEF Tables, TableShape, ArmedIsOpen
<1>6. ASSUME NEW c \in Clients, NEW f \in Fds, AcceptBusy(c, f) PROVE Tables'
  BY <1>0, <1>6, TablesAfterEvent DEF AcceptBusy, Handled, objVars, kernVars
<1>7. ASSUME NEW f \in Fds, Handled(f) PROVE EventType
  BY <1>0, <1>7 DEF Handled, TableShape
<1>8. ASSUME NEW f \in Fds, Handled(f) \/ UNCHANGED event, CloseConn(f) PROVE Tables'
  <2>1. EventType
    BY <1>0, <1>7, <1>8 DEF TableShape
  <2>2. Removefd(sockfd[f]) /\ (UNCHANGED sockfd \/ sockfd' = [sockfd EXCEPT ![f] = NoFd])
    BY <1>8 DEF CloseConn
  <2> HIDE DEF EventType
  <2> QED
    BY <1>0, <2>1, <2>2, TablesAfterRemove DEF EventType
<1>9. ASSUME NEW f \in Fds, \/ Hangup(f) \/ ReadFails(f) \/ WriteFails(f)
                            \/ HeartbeatExpires(f)
      PROVE  Tables'
  BY <1>8, <1>9 DEF Hangup, ReadFails, WriteFails, HeartbeatExpires
<1>10. ASSUME NEW f \in Fds, Read(f) \/ ReadRefused(f) PROVE Tables'
  BY <1>0, <1>10, TablesAfterEvent DEF Read, ReadRefused, ReadInto, Handled, kernVars
<1>11. ASSUME NEW f \in Fds, WriteNothing(f) \/ WritePart(f) PROVE Tables'
  <2>1. EventType
    BY <1>7, <1>11 DEF WriteNothing, WritePart
  <2> QED
    BY <1>0, <1>11, <2>1, TablesAfterModfd DEF WriteNothing, WritePart
<1>12. ASSUME NEW f \in Fds, WriteAll(f) PROVE Tables'
  <2>1. EventType
    BY <1>7, <1>12 DEF WriteAll
  <2>2. CASE f \in linger
    BY <1>0, <1>12, <2>1, <2>2, TablesAfterModfd DEF WriteAll
  <2>3. CASE f \notin linger
    BY <1>8, <1>12, <2>3 DEF WriteAll
  <2> QED
    BY <2>2, <2>3
<1>13. ASSUME NEW f \in Fds, WriteSpins(f) PROVE Tables'
  BY <1>0, <1>13, TablesAfterEvent DEF WriteSpins, kernVars
<1>14. ASSUME NEW w \in Workers, WorkerStep(w) PROVE Tables'
  <2>1. CASE Rearm(w) \/ Arm(w)
    <3>1. UNCHANGED <<sockfd, desc>> /\ EventType
      BY <1>0, <2>1 DEF Rearm, Arm, objVars, mainVars, TableShape
    <3> QED
      BY <1>0, <2>1, <3>1, TablesAfterModfd DEF Rearm, Arm
  <2>2. CASE CloseRemove(w)
    <3>1. UNCHANGED sockfd /\ EventType
      BY <1>0, <2>2 DEF CloseRemove, objVars, mainVars, TableShape
    <3> QED
      BY <1>0, <2>2, <3>1, TablesAfterRemove DEF CloseRemove
  <2>3. CASE CloseReset(w)
    BY <1>0, <2>3, BusyWorkerHasObject
       DEF CloseReset, Tables, TableShape, ArmedIsOpen, mainVars, kernVars
  <2>4. CASE \/ WorkerWait(w) \/ WorkerTake(w) \/ ProcessRead(w) \/ Compose(w)
             \/ ComposeFails(w) \/ CloseTest(w) \/ CountLoad(w) \/ CountStore(w)
    BY <1>0, <2>4, TablesFrame
       DEF WorkerWait, WorkerTake, ProcessRead, Compose, ComposeFails, CloseTest,
           CountLoad, CountStore, objVars, mainVars, kernVars
  <2> QED
    BY <1>14, <2>1, <2>2, <2>3, <2>4 DEF WorkerStep
<1> QED
  BY <1>1, <1>2, <1>3, <1>4, <1>5, <1>6, <1>9, <1>10, <1>11, <1>12, <1>13, <1>14
     DEF Next, MainStep
-----------------------------------------------------------------------------
(* What the objects hold. *)
ObjectData == <<text, from, left, residue, linger, dropped, user_count>>

LEMMA ReceivedIsText ==
  ASSUME PeerTypes, NEW c \in Clients
  PROVE  Received(c) \in Seq(Clients \X Pieces) /\ Len(Received(c)) = Len(inbox[c])
<1>1. /\ inbox[c] \in Seq(Pieces)
      /\ DOMAIN inbox[c] = 1..Len(inbox[c])
      /\ Len(inbox[c]) \in Nat
      /\ \A i \in DOMAIN inbox[c] : inbox[c][i] \in Pieces
  BY DEF PeerTypes
<1> QED
  BY <1>1 DEF Received

LEMMA AskersAreClients ==
  ASSUME ObjectTypes, NEW f \in Fds PROVE Askers(f) \subseteq Clients
<1>1. text[f] \in Seq(Clients \X Pieces)
  BY DEF ObjectTypes
<1>2. \A i \in DOMAIN text[f] : text[f][i][1] \in Clients
  BY <1>1
<1> QED
  BY <1>2 DEF Askers

LEMMA ObjectTypesAfterRead ==
  ASSUME Types, NEW f \in Fds, CanRead(f), ReadInto(f), dropped' \subseteq Fds
  PROVE  ObjectTypes'
<1> DEFINE c == desc[f]
<1>0. ObjectTypes /\ PeerTypes /\ TableShape /\ BufferSize \in Nat
  BY ConnAssumption DEF Types
<1>1. /\ sockfd[f] = f /\ c \in Clients
      /\ text' = [text EXCEPT ![f] = text[f] \o Received(c)]
      /\ Len(text[f]) + Len(inbox[c]) <= BufferSize
      /\ UNCHANGED <<from, left, residue, linger, user_count>>
  BY <1>0, ConnAssumption DEF CanRead, ReadInto, TableShape, countVars
<1>2. Received(c) \in Seq(Clients \X Pieces) /\ Len(Received(c)) = Len(inbox[c])
  BY <1>0, <1>1, ReceivedIsText
<1>3. text[f] \in Seq(Clients \X Pieces)
  BY <1>0 DEF ObjectTypes
<1>4. /\ text[f] \o Received(c) \in Seq(Clients \X Pieces)
      /\ Len(text[f] \o Received(c)) = Len(text[f]) + Len(Received(c))
  BY <1>2, <1>3, ConcatProperties
<1>5. /\ text' \in [Fds -> Seq(Clients \X Pieces)]
      /\ \A g \in Fds : Len(text'[g]) <= BufferSize
  BY <1>0, <1>1, <1>2, <1>4 DEF ObjectTypes
<1> QED
  BY <1>0, <1>1, <1>5 DEF ObjectTypes

(* init(), and a reset of what is left of the reply. *)
LEMMA ObjectTypesAfterReset ==
  ASSUME ObjectTypes, NEW f \in Fds, ResetRequest(f) \/ UNCHANGED <<text, linger>>,
         from' = from, left' \in [Fds -> 0..ReplySize],
         residue' \subseteq Fds, dropped' \subseteq Fds, user_count' \in Int
  PROVE  ObjectTypes'
<1>1. CASE ResetRequest(f)
  <2>1. text' = [text EXCEPT ![f] = <<>>] /\ linger' \subseteq Fds
    BY <1>1 DEF ResetRequest, ObjectTypes
  <2>2. <<>> \in Seq(Clients \X Pieces) /\ Len(<<>>) = 0
    OBVIOUS
  <2>3. /\ text' \in [Fds -> Seq(Clients \X Pieces)]
        /\ \A g \in Fds : Len(text'[g]) <= BufferSize
    BY <2>1, <2>2, ConnAssumption DEF ObjectTypes
  <2> QED
    BY <2>1, <2>3 DEF ObjectTypes
<1>2. CASE UNCHANGED <<text, linger>>
  BY <1>2 DEF ObjectTypes
<1> QED
  BY <1>1, <1>2

LEMMA ObjectTypesNext == ASSUME Types, [Next]_vars PROVE ObjectTypes'
<1>0. ObjectTypes /\ ReplySize \in Nat
  BY ConnAssumption DEF Types
<1>1. CASE UNCHANGED ObjectData
  BY <1>0, <1>1 DEF ObjectTypes, ObjectData
<1>2. CASE UNCHANGED vars
  BY <1>1, <1>2 DEF vars, objVars, countVars, mainVars, ObjectData
<1>3. ASSUME NEW c \in Clients, ClientStep(c) PROVE ObjectTypes'
  BY <1>1, <1>3 DEF ClientStep, Connect, Send, Drain, Leave, objVars, countVars, mainVars, ObjectData
<1>4. CASE EpollWait \/ Post
  BY <1>1, <1>4 DEF EpollWait, Post, objVars, countVars, mainVars, ObjectData
<1>5. ASSUME NEW c \in Clients, NEW f \in Fds, Accept(c, f) PROVE ObjectTypes'
  <2>1. /\ dropped' \subseteq Fds /\ user_count' \in Int
        /\ ResetRequest(f) /\ UNCHANGED <<from, left, residue>>
    BY <1>0, <1>5 DEF Accept, ObjectTypes
  <2> QED
    BY <1>0, <2>1, ObjectTypesAfterReset DEF ObjectTypes
<1>6. ASSUME NEW c \in Clients, NEW f \in Fds, AcceptBusy(c, f) PROVE ObjectTypes'
  BY <1>1, <1>6 DEF AcceptBusy, objVars, countVars, ObjectData
<1>7. ASSUME NEW f \in Fds, CloseConn(f) PROVE dropped' \subseteq Fds /\ user_count' \in Int
  BY <1>0, <1>7 DEF CloseConn, countVars, ObjectTypes
<1>8. ASSUME NEW f \in Fds, \/ Hangup(f) \/ ReadFails(f) \/ HeartbeatExpires(f)
      PROVE  ObjectTypes'
  BY <1>0, <1>7, <1>8 DEF Hangup, ReadFails, HeartbeatExpires, ObjectTypes
<1>9. ASSUME NEW f \in Fds, Read(f) \/ ReadRefused(f) PROVE ObjectTypes'
  <2>1. dropped' \subseteq Fds
    BY <1>0, <1>9 DEF Read, ReadRefused, ObjectTypes
  <2> QED
    BY <1>9, <2>1, ObjectTypesAfterRead DEF Read, ReadRefused
<1>10. ASSUME NEW f \in Fds, WriteNothing(f) PROVE ObjectTypes'
  <2>1. ResetRequest(f) /\ UNCHANGED <<from, left, residue, user_count, dropped>>
    BY <1>10 DEF WriteNothing, countVars
  <2> QED
    BY <1>0, <2>1, ObjectTypesAfterReset DEF ObjectTypes
<1>11. ASSUME NEW f \in Fds, left' = [left EXCEPT ![f] = 0] \/ UNCHANGED left
       PROVE  left' \in [Fds -> 0..ReplySize]
  <2>1. left \in [Fds -> 0..ReplySize] /\ 0 \in 0..ReplySize
    BY <1>0 DEF ObjectTypes
  <2> QED
    BY <1>11, <2>1, Zenon
<1>12. ASSUME NEW f \in Fds, WritePart(f) PROVE ObjectTypes'
  <2>0. left[f] \in 0..ReplySize
    BY <1>0 DEF ObjectTypes
  <2>1. PICK k \in (IF desc[sockfd[f]] \in full THEN {0} ELSE 1..(left[f] - 1)) :
              left' = [left EXCEPT ![f] = left[f] - k]
    BY <1>12 DEF WritePart
  <2>2. left[f] - k \in 0..ReplySize /\ left' \in [Fds -> 0..ReplySize]
    BY <1>0, <2>0, <2>1 DEF ObjectTypes
  <2>3. UNCHANGED <<text, from, residue, linger, user_count, dropped>>
    BY <1>12 DEF WritePart, countVars
  <2> QED
    BY <1>0, <2>2, <2>3 DEF ObjectTypes
<1>13. ASSUME NEW f \in Fds, WriteAll(f) PROVE ObjectTypes'
  <2>1. left' \in [Fds -> 0..ReplySize] /\ residue' \subseteq Fds /\ from' = from
    BY <1>0, <1>11, <1>13 DEF WriteAll, Answer, ObjectTypes
  <2>2. CASE f \in linger
    BY <1>0, <1>13, <2>1, <2>2, ObjectTypesAfterReset DEF WriteAll, ObjectTypes, countVars
  <2>3. CASE f \notin linger
    BY <1>0, <1>7, <1>13, <2>1, <2>3 DEF WriteAll, ObjectTypes
  <2> QED
    BY <2>2, <2>3
<1>14. ASSUME NEW f \in Fds, WriteFails(f) PROVE ObjectTypes'
  <2>1. left' \in [Fds -> 0..ReplySize]
    BY <1>11, <1>14 DEF WriteFails, Answer
  <2> QED
    BY <1>0, <1>7, <1>14, <2>1 DEF WriteFails, ObjectTypes
<1>15. ASSUME NEW f \in Fds, WriteSpins(f) PROVE ObjectTypes'
  <2>1. left' \in [Fds -> 0..ReplySize]
    BY <1>11, <1>15 DEF WriteSpins, Answer
  <2> QED
    BY <1>0, <1>15, <2>1 DEF WriteSpins, ObjectTypes, countVars
<1>16. ASSUME NEW w \in Workers, WorkerStep(w) PROVE ObjectTypes'
  <2>1. CASE ProcessRead(w)
    BY <1>0, <2>1, BusyWorkerHasObject DEF ProcessRead, mainVars, countVars, ObjectTypes
  <2>2. CASE Compose(w)
    <3>1. request[w] \in Fds
      BY <2>2, BusyWorkerHasObject DEF Compose
    <3>2. Askers(request[w]) \subseteq Clients
      BY <1>0, <3>1, AskersAreClients
    <3> QED
      BY <1>0, <2>2, <3>1, <3>2 DEF Compose, mainVars, countVars, ObjectTypes
  <2>3. CASE CountStore(w)
    BY <1>0, <2>3 DEF CountStore, mainVars, ObjectTypes, Types, WorkTypes
  <2>4. CASE \/ WorkerWait(w) \/ WorkerTake(w) \/ Rearm(w) \/ Arm(w) \/ ComposeFails(w)
             \/ CloseTest(w) \/ CloseRemove(w) \/ CloseReset(w) \/ CountLoad(w)
    BY <1>1, <2>4
       DEF WorkerWait, WorkerTake, Rearm, Arm, ComposeFails, CloseTest, CloseRemove,
           CloseReset, CountLoad, objVars, countVars, mainVars, ObjectData
  <2> QED
    BY <1>16, <2>1, <2>2, <2>3, <2>4 DEF WorkerStep
<1> QED
  BY <1>2, <1>3, <1>4, <1>5, <1>6, <1>8, <1>9, <1>10, <1>12, <1>13, <1>14, <1>15, <1>16
     DEF Next, MainStep
-----------------------------------------------------------------------------
(* What the kernel and the clients hold. *)
LEMMA PeerFrame ==
  ASSUME PeerTypes, UNCHANGED peerVars PROVE PeerTypes'
  BY DEF PeerTypes, peerVars

LEMMA PeerAfterRemove ==
  ASSUME PeerTypes, TableShape, NEW s, Removefd(s), UNCHANGED <<fin, sent, asks, heard>>
  PROVE  PeerTypes'
<1>1. CASE s \in Fds /\ desc[s] # NoClient
  <2>1. /\ peer' = [peer EXCEPT ![desc[s]] = "closed"]
        /\ inbox' = [inbox EXCEPT ![desc[s]] = <<>>]
        /\ full' = full \ {desc[s]} /\ waiting' = waiting \ {desc[s]}
    BY <1>1 DEF Removefd
  <2>2. inbox' \in [Clients -> Seq(Pieces)]
    BY <2>1, <<>> \in Seq(Pieces) DEF PeerTypes
  <2> QED
    BY <2>1, <2>2 DEF PeerTypes
<1>2. CASE ~(s \in Fds /\ desc[s] # NoClient)
  BY <1>2 DEF Removefd, PeerTypes
<1> QED
  BY <1>1, <1>2

(* A reply that is complete: its client, if it waits, has one more of them   *)
(* and waits no more.                                                        *)
LEMMA PeerAfterAnswer ==
  ASSUME PeerTypes, ObjectTypes, NEW f \in Fds, NEW c \in Clients, Answer(f, c)
  PROVE  /\ asks' \in [Clients -> 0..MaxAsks] /\ sent' \in [Clients -> 0..MaxPieces]
         /\ heard' \in [Clients -> SUBSET Clients]
         /\ \A d \in waiting \ {c} : asks'[d] < MaxAsks
<1>1. MaxAsks \in Nat /\ MaxPieces \in Nat
  BY ConnAssumption
<1> QED
  BY <1>1 DEF Answer, PeerTypes, ObjectTypes

(* write() closes the connection after the reply. *)
LEMMA PeerAfterLastAnswer ==
  ASSUME PeerTypes, ObjectTypes, TableShape, NEW f \in Fds, sockfd[f] \in Fds,
         desc[sockfd[f]] \in Clients, Answer(f, desc[sockfd[f]]),
         Removefd(sockfd[f]), UNCHANGED fin
  PROVE  PeerTypes'
<1> DEFINE c == desc[sockfd[f]]
<1>1. /\ asks' \in [Clients -> 0..MaxAsks] /\ sent' \in [Clients -> 0..MaxPieces]
      /\ heard' \in [Clients -> SUBSET Clients]
      /\ \A d \in waiting \ {c} : asks'[d] < MaxAsks
  BY PeerAfterAnswer
<1>2. /\ peer' = [peer EXCEPT ![c] = "closed"]
      /\ inbox' = [inbox EXCEPT ![c] = <<>>]
      /\ full' = full \ {c} /\ waiting' = waiting \ {c}
  BY ConnAssumption DEF Removefd
<1>3. inbox' \in [Clients -> Seq(Pieces)]
  BY <1>2, <<>> \in Seq(Pieces) DEF PeerTypes
<1> QED
  BY <1>1, <1>2, <1>3 DEF PeerTypes

LEMMA PeerTypesNext == ASSUME Types, [Next]_vars PROVE PeerTypes'
<1>0. PeerTypes /\ ObjectTypes /\ TableShape
  BY DEF Types
<1>1. CASE UNCHANGED vars
  BY <1>0, <1>1, PeerFrame DEF vars
<1>2. ASSUME NEW c \in Clients, ClientStep(c) PROVE PeerTypes'
  <2>1. CASE Connect(c)
    BY <1>0, <2>1 DEF Connect, PeerTypes
  <2>2. ASSUME NEW kind \in Pieces, Send(c, kind) PROVE PeerTypes'
    <3>1. inbox' \in [Clients -> Seq(Pieces)]
      BY <1>0, <2>2 DEF Send, PeerTypes
    <3>2. sent' \in [Clients -> 0..MaxPieces]
      BY <1>0, <2>2, ConnAssumption DEF Send, PeerTypes
    <3>3. waiting' \subseteq Clients /\ \A d \in waiting' : asks[d] < MaxAsks
      BY <1>0, <2>2 DEF Send, PeerTypes
    <3> QED
      BY <1>0, <2>2, <3>1, <3>2, <3>3 DEF Send, PeerTypes
  <2>3. CASE Drain(c) \/ Leave(c)
    BY <1>0, <2>3 DEF Drain, Leave, PeerTypes
  <2> QED
    BY <1>2, <2>1, <2>2, <2>3 DEF ClientStep
<1>3. CASE EpollWait \/ Post
  BY <1>0, <1>3, PeerFrame DEF EpollWait, Post
<1>4. ASSUME NEW c \in Clients, NEW f \in Fds, Accept(c, f) PROVE PeerTypes'
  BY <1>0, <1>4 DEF Accept, PeerTypes
<1>5. ASSUME NEW c \in Clients, NEW f \in Fds, AcceptBusy(c, f) PROVE PeerTypes'
  <2>1. inbox' \in [Clients -> Seq(Pieces)]
    BY <1>0, <1>5, <<>> \in Seq(Pieces) DEF AcceptBusy, PeerTypes
  <2> QED
    BY <1>0, <1>5, <2>1 DEF AcceptBusy, PeerTypes
<1>6. ASSUME NEW f \in Fds, Hangup(f) \/ ReadFails(f) \/ HeartbeatExpires(f)
      PROVE  PeerTypes'
  <2>1. Removefd(sockfd[f]) /\ UNCHANGED <<fin, sent, asks, heard>>
    BY <1>6 DEF Hangup, ReadFails, HeartbeatExpires, CloseConn
  <2>2. UNCHANGED heard
    BY <1>6 DEF Hangup, ReadFails, HeartbeatExpires, CloseConn
  <2> QED
    BY <1>0, <2>1, <2>2, PeerAfterRemove
<1>7. ASSUME NEW f \in Fds, Read(f) \/ ReadRefused(f) PROVE PeerTypes'
  <2>1. /\ desc[sockfd[f]] \in Clients
        /\ UNCHANGED <<peer, fin, full, sent, waiting, asks, heard>>
    BY <1>7 DEF Read, ReadRefused, CanRead, ReadInto
  <2>2. inbox' \in [Clients -> Seq(Pieces)]
    BY <1>0, <1>7, <<>> \in Seq(Pieces) DEF Read, ReadRefused, ReadInto, PeerTypes
  <2> QED
    BY <1>0, <2>1, <2>2 DEF PeerTypes
<1>8. ASSUME NEW f \in Fds, WriteNothing(f) PROVE PeerTypes'
  BY <1>0, <1>8, PeerFrame DEF WriteNothing
<1>9. ASSUME NEW f \in Fds, WritePart(f) PROVE PeerTypes'
  <2>1. heard' \in [Clients -> SUBSET Clients] /\ full' \subseteq Clients
    BY <1>0, <1>9 DEF WritePart, PeerTypes, ObjectTypes
  <2> QED
    BY <1>0, <1>9, <2>1 DEF WritePart, PeerTypes
<1>10. ASSUME NEW f \in Fds, WriteAll(f) PROVE PeerTypes'
  <2>1. sockfd[f] \in Fds /\ desc[sockfd[f]] \in Clients /\ Answer(f, desc[sockfd[f]])
        /\ UNCHANGED fin
    BY <1>10 DEF WriteAll
  <2>2. CASE f \in linger
    <3>1. waiting' = waiting \ {desc[sockfd[f]]} /\ UNCHANGED <<peer, inbox, full>>
      BY <1>10, <2>2 DEF WriteAll
    <3> QED
      BY <1>0, <2>1, <3>1, PeerAfterAnswer DEF PeerTypes
  <2>3. CASE f \notin linger
    BY <1>0, <1>10, <2>1, <2>3, PeerAfterLastAnswer DEF WriteAll, CloseConn
  <2> QED
    BY <2>2, <2>3
<1>11. ASSUME NEW f \in Fds, WriteFails(f) PROVE PeerTypes'
  <2>1. Removefd(sockfd[f]) /\ UNCHANGED fin
    BY <1>11 DEF WriteFails, CloseConn
  <2>2. CASE sockfd[f] \notin Fds \/ desc[sockfd[f]] \in fin \cup {NoClient}
    BY <1>0, <1>11, <2>1, <2>2, PeerAfterRemove DEF WriteFails
  <2>3. CASE ~(sockfd[f] \notin Fds \/ desc[sockfd[f]] \in fin \cup {NoClient})
    <3>1. sockfd[f] \in Fds /\ desc[sockfd[f]] \in Clients /\ Answer(f, desc[sockfd[f]])
      BY <1>0, <1>11, <2>3 DEF WriteFails, TableShape
    <3> QED
      BY <1>0, <2>1, <3>1, PeerAfterLastAnswer
  <2> QED
    BY <2>2, <2>3
<1>12. ASSUME NEW f \in Fds, WriteSpins(f) PROVE PeerTypes'
  <2>1. /\ sockfd[f] \in Fds /\ desc[sockfd[f]] \in Clients
        /\ Answer(f, desc[sockfd[f]])
        /\ waiting' = waiting \ {desc[sockfd[f]]} /\ UNCHANGED <<peer, fin, inbox, full>>
    BY <1>12 DEF WriteSpins
  <2> QED
    BY <1>0, <2>1, PeerAfterAnswer DEF PeerTypes
<1>13. ASSUME NEW w \in Workers, WorkerStep(w) PROVE PeerTypes'
  <2>1. CASE CloseRemove(w)
    BY <1>0, <2>1, PeerAfterRemove DEF CloseRemove
  <2>2. CASE \/ WorkerWait(w) \/ WorkerTake(w) \/ ProcessRead(w) \/ Compose(w)
             \/ ComposeFails(w) \/ CloseTest(w) \/ CountLoad(w) \/ CountStore(w)
             \/ Rearm(w) \/ Arm(w) \/ CloseReset(w)
    BY <1>0, <2>2, PeerFrame
       DEF WorkerWait, WorkerTake, ProcessRead, Compose, ComposeFails, CloseTest,
           CountLoad, CountStore, Rearm, Arm, CloseReset
  <2> QED
    BY <1>13, <2>1, <2>2 DEF WorkerStep
<1> QED
  BY <1>1, <1>2, <1>3, <1>4, <1>5, <1>6, <1>7, <1>8, <1>9, <1>10, <1>11, <1>12, <1>13
     DEF Next, MainStep

(* The two histories. *)
LEMMA HistoryTypesNext == ASSUME HistoryTypes, [Next]_vars PROVE HistoryTypes'
<1>1. CASE UNCHANGED <<miscounted, crossed>>
  BY <1>1 DEF HistoryTypes
<1>2. CASE UNCHANGED vars
  BY <1>1, <1>2 DEF vars, objVars, countVars, mainVars
<1>3. ASSUME NEW c \in Clients, ClientStep(c) PROVE HistoryTypes'
  BY <1>1, <1>3 DEF ClientStep, Connect, Send, Drain, Leave, objVars, countVars, mainVars
<1>4. ASSUME NEW c \in Clients, NEW f \in Fds, Accept(c, f) PROVE HistoryTypes'
  BY <1>4 DEF Accept, HistoryTypes
<1>5. ASSUME NEW f \in Fds, CloseConn(f), UNCHANGED crossed PROVE HistoryTypes'
  <2>1. CASE sockfd[f] # NoFd
    <3>1. miscounted' = (miscounted \/ desc[f] = NoClient)
      BY <1>5, <2>1 DEF CloseConn
    <3> QED
      BY <1>5, <3>1, Zenon DEF HistoryTypes
  <2>2. CASE sockfd[f] = NoFd
    BY <1>1, <1>5, <2>2 DEF CloseConn, countVars
  <2> QED
    BY <2>1, <2>2
<1>6. ASSUME NEW f \in Fds, Hangup(f) \/ ReadFails(f) \/ WriteFails(f) \/ HeartbeatExpires(f)
      PROVE  HistoryTypes'
  BY <1>5, <1>6 DEF Hangup, ReadFails, WriteFails, HeartbeatExpires
<1>7. ASSUME NEW f \in Fds, WriteAll(f) PROVE HistoryTypes'
  BY <1>1, <1>5, <1>7 DEF WriteAll, countVars
<1>8. ASSUME NEW c \in Clients, NEW f \in Fds, AcceptBusy(c, f) PROVE HistoryTypes'
  BY <1>1, <1>8 DEF AcceptBusy, objVars, countVars, mainVars
<1>9. ASSUME NEW f \in Fds, \/ Read(f) \/ ReadRefused(f) \/ WriteNothing(f)
                            \/ WritePart(f) \/ WriteSpins(f)
      PROVE  HistoryTypes'
  BY <1>1, <1>9 DEF Read, ReadRefused, ReadInto, WriteNothing, WritePart, WriteSpins,
     countVars, mainVars
<1>11. CASE EpollWait \/ Post
  BY <1>1, <1>11 DEF EpollWait, Post, objVars, countVars, mainVars
<1>10. ASSUME NEW w \in Workers, WorkerStep(w) PROVE HistoryTypes'
  <2>1. CASE CloseRemove(w)
    BY <2>1, Zenon DEF CloseRemove, HistoryTypes, mainVars
  <2>2. CASE CountStore(w)
    BY <2>2, Zenon DEF CountStore, HistoryTypes, mainVars
  <2>3. CASE \/ WorkerWait(w) \/ WorkerTake(w) \/ ProcessRead(w) \/ Rearm(w) \/ Compose(w)
             \/ Arm(w) \/ ComposeFails(w) \/ CloseTest(w) \/ CloseReset(w) \/ CountLoad(w)
    BY <1>1, <2>3 DEF WorkerWait, WorkerTake, ProcessRead, Rearm, Compose, Arm,
       ComposeFails, CloseTest, CloseReset, CountLoad, objVars, countVars, mainVars
  <2> QED
    BY <1>10, <2>1, <2>2, <2>3 DEF WorkerStep
<1> QED
  BY <1>2, <1>3, <1>4, <1>6, <1>7, <1>8, <1>9, <1>10, <1>11 DEF Next, MainStep

LEMMA TypesAlways == Spec => []Types
<1>1. Types /\ [Next]_vars => Types'
  BY StepsOfThePool, PoolTypeNext, WorkTypesNext, TablesNext, ObjectTypesNext,
     HistoryTypesNext, PeerTypesNext DEF Types, Tables
<1> QED
  BY <1>1, TypesInit, PTL DEF Spec

(* Every variable has its type in every server, whatever its heartbeats and  *)
(* process_write() do.                                                       *)
THEOREM TypesHold == Spec => []TypeOK
  BY TypesAlways, TypesGiveTypeOK, PTL
-----------------------------------------------------------------------------
(***************************************************************************)
(* Who has an open object.  An object can be open while its descriptor is    *)
(* closed, when a worker is in the middle of close_conn(); modfd() is        *)
(* without effect then, but that worker has the object, and is about to      *)
(* close it.                                                                 *)
(***************************************************************************)
HalfClosed(f) == sockfd[f] # NoFd /\ desc[f] = NoClient
Closing(f) == \E w \in Workers : request[w] = f /\ stage[w] = "reset"
Kept(f) == armed[f] # "off" \/ event[f] # "none" \/ Queued(f) \/ Held(f) \/ f \in dropped

KeepInv ==
    \A f \in Fds : /\ HalfClosed(f) => Closing(f)
                   /\ sockfd[f] # NoFd => Kept(f)

LEMMA StillQueued ==
  ASSUME workqueue \in Seq(Fds), NEW g \in Fds, Queued(g)
  PROVE  /\ \A f \in Fds : workqueue' = Append(workqueue, f) => Queued(g)'
         /\ workqueue' = Tail(workqueue) => Queued(g)' \/ g = Head(workqueue)
<1>1. PICK i \in DOMAIN workqueue : workqueue[i] = g
  BY DEF Queued
<1>2. i \in 1..Len(workqueue) /\ Len(workqueue) \in Nat
  OBVIOUS
<1>3. ASSUME NEW f \in Fds, workqueue' = Append(workqueue, f) PROVE Queued(g)'
  <2>1. i \in DOMAIN workqueue' /\ workqueue'[i] = g
    BY <1>1, <1>2, <1>3
  <2> QED
    BY <2>1 DEF Queued
<1>4. ASSUME workqueue' = Tail(workqueue), g # Head(workqueue) PROVE Queued(g)'
  <2>1. i - 1 \in DOMAIN workqueue' /\ workqueue'[i - 1] = g
    BY <1>1, <1>2, <1>4
  <2> QED
    BY <2>1 DEF Queued
<1> QED
  BY <1>3, <1>4

LEMMA AppendQueues ==
  ASSUME workqueue \in Seq(Fds), NEW f \in Fds, workqueue' = Append(workqueue, f)
  PROVE  Queued(f)'
<1>1. /\ Len(workqueue) + 1 \in DOMAIN workqueue'
      /\ workqueue'[Len(workqueue) + 1] = f
  OBVIOUS
<1> QED
  BY <1>1 DEF Queued

(* What is left alone stays as it is. *)
LEMMA KeptFrame ==
  ASSUME KeepInv, NEW g \in Fds, UNCHANGED <<sockfd[g], desc[g], request, stage>>,
         Queued(g) => Queued(g)', g \in dropped => g \in dropped',
         armed[g] # "off" \/ event[g] # "none"
            => armed'[g] # "off" \/ event'[g] # "none" \/ Queued(g)' \/ g \in dropped'
  PROVE  /\ HalfClosed(g)' => Closing(g)'
         /\ sockfd'[g] # NoFd => Kept(g)'
  BY DEF KeepInv, HalfClosed, Closing, Kept, Held

(* close_conn() by main: the object is closed, and no other is touched. *)
LEMMA KeepAfterClose ==
  ASSUME KeepInv, TableShape, NEW f \in Fds, CloseConn(f),
         event' = [event EXCEPT ![f] = "none"] \/ UNCHANGED event,
         UNCHANGED <<workqueue, request, stage>>
  PROVE  KeepInv'
<1>1. sockfd'[f] = NoFd
  BY DEF CloseConn, TableShape
<1>2. ASSUME NEW g \in Fds, g # f
      PROVE  UNCHANGED <<sockfd[g], desc[g], armed[g], event[g]>>
             /\ (g \in dropped => g \in dropped')
  BY <1>2, ConnAssumption DEF CloseConn, Removefd, TableShape
<1>3. ASSUME NEW g \in Fds
      PROVE  /\ HalfClosed(g)' => Closing(g)'
             /\ sockfd'[g] # NoFd => Kept(g)'
  <2>1. CASE g = f
    BY <1>1, <2>1 DEF HalfClosed
  <2>2. CASE g # f
    BY <1>2, <2>2, KeptFrame DEF Queued
  <2> QED
    BY <2>1, <2>2
<1> QED
  BY <1>3 DEF KeepInv

(* modfd() on the object f by whoever handles an event of it: an open object  *)
(* is armed, or is being closed by a worker, who holds it.                    *)
LEMMA KeepAfterRearm ==
  ASSUME KeepInv, TableShape, NEW f \in Fds, NEW ev \in {"IN", "OUT"},
         Modfd(sockfd[f], ev), event' = [event EXCEPT ![f] = "none"],
         UNCHANGED <<workqueue, request, stage, sockfd, desc, dropped>>
  PROVE  KeepInv'
<1>1. ASSUME NEW g \in Fds
      PROVE  /\ HalfClosed(g)' => Closing(g)'
             /\ sockfd'[g] # NoFd => Kept(g)'
  <2>1. CASE g = f
    <3>1. CASE HalfClosed(f) \/ sockfd[f] = NoFd
      BY <2>1, <3>1 DEF KeepInv, HalfClosed, Closing, Kept, Held
    <3>2. CASE sockfd[f] = f /\ desc[f] # NoClient
      <4>1. armed'[f] = ev
        BY <3>2 DEF Modfd, TableShape
      <4> QED
        BY <2>1, <3>2, <4>1 DEF HalfClosed, Kept
    <3> QED
      BY <3>1, <3>2 DEF HalfClosed, TableShape
  <2>2. CASE g # f
    <3>1. armed'[g] = armed[g] /\ event'[g] = event[g]
      BY <2>2, ConnAssumption DEF Modfd, TableShape
    <3> QED
      BY <3>1, KeptFrame DEF Queued
  <2> QED
    BY <2>1, <2>2
<1> QED
  BY <1>1 DEF KeepInv

LEMMA MainKeepsThem == ASSUME Types, KeepInv, MainStep PROVE KeepInv'
<1>0. TableShape /\ workqueue \in Seq(Fds)
  BY DEF Types, Pool!TypeOK
<1> DEFINE Good(g) == (HalfClosed(g)' => Closing(g)') /\ (sockfd'[g] # NoFd => Kept(g)')
<1>1. CASE EpollWait
  <2>1. ASSUME NEW g \in Fds, armed[g] # "off" PROVE armed'[g] # "off" \/ event'[g] # "none"
    BY <1>0, <1>1, <2>1, ConnAssumption DEF EpollWait, TableShape
  <2>2. ASSUME NEW g \in Fds PROVE event[g] = "none"
    BY <1>1, <2>2 DEF EpollWait, BatchDone
  <2>3. UNCHANGED <<workqueue, request, stage, sockfd, desc, dropped>>
    BY <1>1 DEF EpollWait, poolVars, workVars, objVars
  <2>4. ASSUME NEW g \in Fds PROVE Good(g)
    BY <2>1, <2>2, <2>3, KeptFrame DEF Queued
  <2> QED
    BY <2>4 DEF KeepInv
<1>2. CASE Post
  <2>1. UNCHANGED <<workqueue, request, stage, sockfd, desc, dropped, armed, event>>
    BY <1>2 DEF Post, Pool!Post, workVars, objVars, mainVars, kernVars
  <2> QED
    BY <2>1 DEF KeepInv, HalfClosed, Closing, Kept, Queued, Held
<1>3. ASSUME NEW c \in Clients, NEW f \in Fds, Accept(c, f) PROVE KeepInv'
  <2>1. /\ sockfd' = [sockfd EXCEPT ![f] = f]
        /\ desc' = [desc EXCEPT ![f] = c] /\ c # NoClient
        /\ armed' = [armed EXCEPT ![f] = "IN"]
        /\ event' = [event EXCEPT ![ListenFd] = "none"]
        /\ dropped' = dropped \ {f}
        /\ UNCHANGED <<workqueue, request, stage>>
    BY <1>3, ConnAssumption DEF Accept, Handled, poolVars, workVars
  <2>2. ASSUME NEW g \in Fds PROVE Good(g)
    <3>1. CASE g = f
      BY <1>0, <2>1, <3>1 DEF HalfClosed, Kept, TableShape
    <3>2. CASE g # f
      <4>1. UNCHANGED <<sockfd[g], desc[g], armed[g], event[g], request, stage>>
            /\ (Queued(g) => Queued(g)') /\ (g \in dropped => g \in dropped')
        BY <1>0, <2>1, <3>2, ConnAssumption DEF TableShape, Queued
      <4> QED
        BY <4>1, KeptFrame
    <3> QED
      BY <3>1, <3>2
  <2> QED
    BY <2>2 DEF KeepInv
<1>4. ASSUME NEW c \in Clients, NEW f \in Fds, AcceptBusy(c, f) PROVE KeepInv'
  <2>1. /\ UNCHANGED <<workqueue, request, stage, sockfd, desc, dropped, armed>>
        /\ \A g \in Fds : event'[g] = event[g]
    BY <1>0, <1>4, ConnAssumption
       DEF AcceptBusy, Handled, TableShape, poolVars, workVars, objVars, kernVars
  <2> QED
    BY <2>1 DEF KeepInv, HalfClosed, Closing, Kept, Queued, Held
<1>5. ASSUME NEW f \in Fds, Hangup(f) \/ ReadFails(f) \/ WriteFails(f) PROVE KeepInv'
  BY <1>0, <1>5, KeepAfterClose
     DEF Hangup, ReadFails, WriteFails, Handled, poolVars, workVars
<1>6. ASSUME NEW f \in Fds, Read(f) \/ ReadRefused(f) PROVE KeepInv'
  <2>1. /\ UNCHANGED <<request, stage, sockfd, desc, armed>>
        /\ event' = [event EXCEPT ![f] = "none"]
        /\ \/ workqueue' = Append(workqueue, f) /\ dropped' = dropped
           \/ workqueue' = workqueue /\ dropped' = dropped \cup {f}
    BY <1>6 DEF Read, ReadRefused, ReadInto, Handled, Pool!AppendRequest,
                Pool!AppendRefused, Pool!poolVars, workVars, kernVars
  <2>2. Queued(f)' \/ f \in dropped'
    BY <1>0, <2>1, AppendQueues
  <2>3. ASSUME NEW g \in Fds PROVE Good(g)
    <3>1. Queued(g) => Queued(g)'
      BY <1>0, <2>1, StillQueued DEF Queued
    <3>2. g # f => event'[g] = event[g]
      BY <2>1
    <3> QED
      BY <2>1, <2>2, <3>1, <3>2, KeptFrame
  <2> QED
    BY <2>3 DEF KeepInv
<1>7. ASSUME NEW f \in Fds, WriteNothing(f) \/ WritePart(f) PROVE KeepInv'
  BY <1>0, <1>7, KeepAfterRearm
     DEF WriteNothing, WritePart, Handled, poolVars, workVars
<1>8. ASSUME NEW f \in Fds, WriteAll(f) PROVE KeepInv'
  <2>1. CASE f \in linger
    BY <1>0, <1>8, <2>1, KeepAfterRearm DEF WriteAll, Handled, poolVars, workVars
  <2>2. CASE f \notin linger
    BY <1>0, <1>8, <2>2, KeepAfterClose DEF WriteAll, Handled, poolVars, workVars
  <2> QED
    BY <2>1, <2>2
<1>9. ASSUME NEW f \in Fds, WriteSpins(f) PROVE KeepInv'
  <2>1. /\ UNCHANGED <<workqueue, request, stage, sockfd, desc, dropped, armed>>
        /\ event' = [event EXCEPT ![f] = "stuck"]
    BY <1>9 DEF WriteSpins, poolVars, workVars, kernVars
  <2>2. ASSUME NEW g \in Fds PROVE event[g] # "none" => event'[g] # "none"
    BY <1>0, <2>1 DEF TableShape
  <2> QED
    BY <2>1, <2>2 DEF KeepInv, HalfClosed, Closing, Kept, Queued, Held
<1> QED
  BY <1>1, <1>2, <1>3, <1>4, <1>5, <1>6, <1>7, <1>8, <1>9 DEF MainStep

(* A worker that goes on inside process(), and closes nothing. *)
LEMMA KeepAfterMove ==
  ASSUME KeepInv, Types, NEW w \in Workers, stage[w] # "reset", NEW s \in Stages,
         stage' = [stage EXCEPT ![w] = s],
         UNCHANGED <<workqueue, request, sockfd, desc, dropped, armed, event>>
  PROVE  KeepInv'
<1>1. ASSUME NEW f \in Fds, Closing(f) PROVE Closing(f)'
  BY <1>1 DEF Closing, Types, WorkTypes
<1> QED
  BY <1>1 DEF KeepInv, HalfClosed, Kept, Queued, Held

LEMMA WorkerKeepsThem ==
  ASSUME Types, KeepInv, NEW w \in Workers, WorkerStep(w) PROVE KeepInv'
<1> DEFINE Good(g) == (HalfClosed(g)' => Closing(g)') /\ (sockfd'[g] # NoFd => Kept(g)')
<1>0. /\ TableShape /\ workqueue \in Seq(Fds)
      /\ request \in [Workers -> Fds \cup {NoFd}] /\ stage \in [Workers -> Stages]
      /\ stage[w] = "idle" <=> at[w] # "process"
      /\ at[w] = "process" <=> request[w] # NoFd
  BY DEF Types, Pool!TypeOK, WorkTypes
<1>1. CASE WorkerWait(w)
  <2>1. UNCHANGED <<workqueue, request, stage, sockfd, desc, dropped, armed, event>>
    BY <1>1 DEF WorkerWait, Pool!Wait, workVars, objVars, mainVars, kernVars
  <2> QED
    BY <2>1 DEF KeepInv, HalfClosed, Closing, Kept, Queued, Held
<1>2. CASE WorkerTake(w)
  <2>1. /\ workqueue # <<>> /\ workqueue' = Tail(workqueue)
        /\ request' = [request EXCEPT ![w] = Head(workqueue)]
        /\ stage' = [stage EXCEPT ![w] = "read"]
        /\ request[w] = NoFd /\ stage[w] = "idle"
        /\ UNCHANGED <<sockfd, desc, dropped, armed, event>>
    BY <1>0, <1>2 DEF WorkerTake, Pool!Take, Goto, objVars, mainVars, kernVars
  <2>2. ASSUME NEW g \in Fds PROVE Good(g)
    <3>1. Closing(g) => Closing(g)'
      BY <1>0, <2>1 DEF Closing
    <3>2. Held(g) => Held(g)'
      BY <1>0, <2>1, ConnAssumption DEF Held
    <3>3. g = Head(workqueue) => Held(g)'
      BY <1>0, <2>1 DEF Held
    <3>4. Queued(g) => Queued(g)' \/ Held(g)'
      BY <1>0, <2>1, <3>3, StillQueued
    <3> QED
      BY <2>1, <3>1, <3>2, <3>4 DEF KeepInv, HalfClosed, Kept
  <2> QED
    BY <2>2 DEF KeepInv
<1>3. CASE Rearm(w) \/ Arm(w)
  <2> DEFINE f == request[w]
  <2>1. PICK ev \in {"IN", "OUT"} : Modfd(sockfd[f], ev)
    BY <1>3 DEF Rearm, Arm
  <2>2. /\ request' = [request EXCEPT ![w] = NoFd]
        /\ stage' = [stage EXCEPT ![w] = "idle"]
        /\ UNCHANGED <<workqueue, sockfd, desc, dropped, event>>
        /\ stage[w] \in {"rearm", "arm"} /\ f \in Fds
    BY <1>0, <1>3 DEF Rearm, Arm, Pool!Finish, Goto, objVars, mainVars
  <2>3. ASSUME NEW g \in Fds PROVE Good(g)
    <3>1. Closing(g) => Closing(g)' /\ Held(g)'
      BY <1>0, <2>2 DEF Closing, Held
    <3>2. CASE HalfClosed(g) \/ sockfd[g] = NoFd
      BY <2>2, <3>1, <3>2 DEF KeepInv, HalfClosed, Kept
    <3>3. CASE sockfd[g] = g /\ desc[g] # NoClient /\ g = f
      <4>1. armed'[g] = ev
        BY <1>0, <2>1, <3>3 DEF Modfd, TableShape
      <4> QED
        BY <2>2, <3>3, <4>1 DEF HalfClosed, Kept
    <3>4. CASE sockfd[g] = g /\ desc[g] # NoClient /\ g # f
      <4>1. armed'[g] = armed[g]
        BY <1>0, <2>1, <2>2, <3>4, ConnAssumption DEF Modfd, TableShape
      <4>2. Held(g) => Held(g)'
        BY <1>0, <2>2, <3>4 DEF Held
      <4> QED
        BY <2>2, <3>4, <4>1, <4>2 DEF KeepInv, HalfClosed, Kept, Queued
    <3> QED
      BY <1>0, <3>2, <3>3, <3>4 DEF HalfClosed, TableShape
  <2> QED
    BY <2>3 DEF KeepInv
<1>4. CASE CloseRemove(w)
  <2> DEFINE f == request[w]
  <2>1. /\ stage[w] = "remove" /\ f \in Fds
        /\ stage' = [stage EXCEPT ![w] = "reset"]
        /\ UNCHANGED <<workqueue, request, sockfd, dropped, event>>
        /\ Removefd(sockfd[f])
    BY <1>0, <1>4 DEF CloseRemove, Goto, poolVars, objVars, mainVars
  <2>2. ASSUME NEW g \in Fds PROVE Good(g)
    <3>1. Closing(g) => Closing(g)'
      BY <1>0, <2>1 DEF Closing
    <3>2. Held(g)' <=> Held(g)
      BY <2>1 DEF Held
    <3>3. CASE g = f
      <4>1. Closing(g)' /\ Held(g)'
        BY <1>0, <2>1, <3>3 DEF Closing, Held
      <4> QED
        BY <4>1 DEF Kept
    <3>4. CASE g # f
      <4>1. desc'[g] = desc[g] /\ armed'[g] = armed[g]
        BY <1>0, <2>1, <3>4, ConnAssumption DEF Removefd, TableShape
      <4> QED
        BY <2>1, <3>1, <3>2, <4>1 DEF KeepInv, HalfClosed, Kept, Queued
    <3> QED
      BY <3>3, <3>4
  <2> QED
    BY <2>2 DEF KeepInv
<1>5. CASE CloseReset(w)
  <2> DEFINE f == request[w]
  <2>1. /\ stage[w] = "reset" /\ f \in Fds
        /\ stage' = [stage EXCEPT ![w] = "load"]
        /\ sockfd' = [sockfd EXCEPT ![f] = NoFd]
        /\ UNCHANGED <<workqueue, request, desc, armed, dropped, event>>
    BY <1>0, <1>5 DEF CloseReset, Goto, poolVars, mainVars, kernVars
  <2>2. ASSUME NEW g \in Fds PROVE Good(g)
    <3>1. CASE g = f
      BY <1>0, <2>1, <3>1 DEF HalfClosed, TableShape
    <3>2. CASE g # f
      <4>1. Closing(g) => Closing(g)'
        BY <1>0, <2>1, <3>2 DEF Closing
      <4> QED
        BY <1>0, <2>1, <3>2, <4>1 DEF KeepInv, HalfClosed, Kept, Queued, Held, TableShape
    <3> QED
      BY <3>1, <3>2
  <2> QED
    BY <2>2 DEF KeepInv
<1>6. CASE \/ ProcessRead(w) \/ Compose(w) \/ ComposeFails(w) \/ CloseTest(w)
           \/ CountLoad(w) \/ CountStore(w)
  <2>1. stage[w] # "reset" /\ \E s \in Stages : stage' = [stage EXCEPT ![w] = s]
    BY <1>6 DEF ProcessRead, Compose, ComposeFails, CloseTest, CountLoad, CountStore,
                Goto, Stages
  <2>2. UNCHANGED <<workqueue, request, sockfd, desc, dropped, armed, event>>
    BY <1>6 DEF ProcessRead, Compose, ComposeFails, CloseTest, CountLoad, CountStore,
                poolVars, objVars, mainVars, kernVars
  <2> QED
    BY <2>1, <2>2, KeepAfterMove
<1> QED
  BY <1>1, <1>2, <1>3, <1>4, <1>5, <1>6 DEF WorkerStep

LEMMA KeepInvNext == ASSUME Types, KeepInv, [Next]_vars PROVE KeepInv'
<1>1. CASE UNCHANGED vars
  BY <1>1 DEF vars, poolVars, workVars, objVars, mainVars, kernVars, KeepInv, HalfClosed,
     Closing, Kept, Queued, Held
<1>2. ASSUME NEW c \in Clients, ClientStep(c) PROVE KeepInv'
  BY <1>2 DEF ClientStep, Connect, Send, Drain, Leave, poolVars, workVars, objVars,
     mainVars, kernVars, KeepInv, HalfClosed, Closing, Kept, Queued, Held
<1>3. ASSUME NEW f \in Fds, HeartbeatExpires(f) PROVE KeepInv'
  BY <1>3, KeepAfterClose DEF HeartbeatExpires, Types, poolVars, workVars
<1> QED
  BY <1>1, <1>2, <1>3, MainKeepsThem, WorkerKeepsThem DEF Next

LEMMA KeepInvAlways == Spec => []KeepInv
<1>1. Init => KeepInv
  BY DEF Init, KeepInv, HalfClosed
<1> QED
  BY <1>1, TypesAlways, KeepInvNext, PTL DEF Spec
-----------------------------------------------------------------------------
(***************************************************************************)
(* The counter.  Open descriptors and decrements still owed are finite sets  *)
(* that the steps of close_conn() take one element from or put one into.     *)
(***************************************************************************)
LEMMA OpenFinite == IsFiniteSet(Open) /\ Cardinality(Open) \in Nat
  BY ConnAssumption, FS_Subset, FS_CardinalityType DEF Open

LEMMA OwingFinite == IsFiniteSet(Owing) /\ Cardinality(Owing) \in Nat
  BY ConnAssumption, FS_Subset, FS_CardinalityType DEF Owing

LEMMA CountSame ==
  ASSUME CountExact, UNCHANGED <<user_count, miscounted, desc>>, Owing' = Owing
  PROVE  CountExact'
  BY DEF CountExact, Open

LEMMA CountAfterClose ==
  ASSUME Types, CountExact, NEW f \in Fds, CloseConn(f), UNCHANGED stage
  PROVE  CountExact'
<1>0. TableShape /\ user_count \in Int /\ Owing' = Owing
  BY DEF Types, ObjectTypes, Owing
<1>1. CASE sockfd[f] = NoFd
  BY <1>0, <1>1, ConnAssumption, CountSame DEF CloseConn, Removefd, countVars
<1>2. CASE sockfd[f] = f /\ desc[f] = NoClient
  BY <1>2, ConnAssumption DEF CloseConn, CountExact
<1>3. CASE sockfd[f] = f /\ desc[f] # NoClient
  <2>1. /\ user_count' = user_count - 1 /\ (miscounted' <=> miscounted)
        /\ desc' = [desc EXCEPT ![f] = NoClient]
    BY <1>3, ConnAssumption DEF CloseConn, Removefd
  <2>2. Open' = Open \ {f} /\ f \in Open
    BY <1>0, <1>3, <2>1 DEF Open, TableShape
  <2>3. Cardinality(Open') = Cardinality(Open) - 1
    BY <2>2, OpenFinite, FS_RemoveElement
  <2> QED
    BY <1>0, <2>1, <2>3, OpenFinite, OwingFinite, ConnAssumption DEF CountExact
<1> QED
  BY <1>0, <1>1, <1>2, <1>3 DEF TableShape

LEMMA CountAfterAccept ==
  ASSUME Types, CountExact, NEW c \in Clients, NEW f \in Fds, Accept(c, f)
  PROVE  CountExact'
<1>1. /\ desc' = [desc EXCEPT ![f] = c] /\ c # NoClient /\ desc[f] = NoClient
      /\ user_count' = user_count + 1 /\ user_count < MAX_FD
      /\ UNCHANGED miscounted /\ Owing' = Owing
      /\ TableShape /\ user_count \in Int
  BY ConnAssumption DEF Accept, workVars, Owing, Types, ObjectTypes
<1>2. Open' = Open \cup {f} /\ f \notin Open
  BY <1>1 DEF Open, TableShape
<1>3. Cardinality(Open') = Cardinality(Open) + 1
  BY <1>2, OpenFinite, FS_AddElement
<1> QED
  BY <1>1, <1>3, OpenFinite, OwingFinite, ConnAssumption DEF CountExact

LEMMA CountAfterWorker ==
  ASSUME Types, CountExact, NEW w \in Workers, WorkerStep(w) PROVE CountExact'
<1>0. /\ TableShape /\ user_count \in Int /\ saved \in [Workers -> Int]
      /\ stage \in [Workers -> Stages]
  BY DEF Types, ObjectTypes, WorkTypes
<1>1. ASSUME NEW s \in Stages, Goto(w, s), w \in Owing <=> s \in {"reset", "load", "store"}
      PROVE  Owing' = Owing
  BY <1>0, <1>1 DEF Goto, Owing
<1>2. CASE \/ WorkerWait(w) \/ WorkerTake(w) \/ ProcessRead(w) \/ Rearm(w) \/ Compose(w)
           \/ Arm(w) \/ ComposeFails(w) \/ CloseTest(w) \/ CloseReset(w) \/ CountLoad(w)
  <2>1. UNCHANGED <<user_count, miscounted, desc>>
    BY <1>2 DEF WorkerWait, WorkerTake, ProcessRead, Rearm, Compose, Arm, ComposeFails,
       CloseTest, CloseReset, CountLoad, objVars, countVars, kernVars
  <2>2. CASE WorkerWait(w)
    BY <2>1, <2>2, CountSame DEF WorkerWait, workVars, Owing
  <2>3. CASE CloseReset(w) \/ CountLoad(w)
    <3>1. Owing' = Owing
      BY <1>1, <2>3 DEF CloseReset, CountLoad, Stages, Owing
    <3> QED
      BY <2>1, <3>1, CountSame
  <2>4. CASE WorkerTake(w)
    <3>1. stage[w] = "idle"
      BY <2>4 DEF WorkerTake, Pool!Take, Types, WorkTypes
    <3>2. Owing' = Owing
      BY <1>1, <2>4, <3>1 DEF WorkerTake, Stages, Owing
    <3> QED
      BY <2>1, <3>2, CountSame
  <2>5. CASE \/ ProcessRead(w) \/ Rearm(w) \/ Compose(w) \/ Arm(w) \/ ComposeFails(w)
             \/ CloseTest(w)
    <3>1. stage[w] \in {"read", "rearm", "compose", "arm", "test"}
      BY <2>5 DEF ProcessRead, Rearm, Compose, Arm, ComposeFails, CloseTest
    <3>2. \E s \in {"compose", "rearm", "idle", "arm", "test", "remove"} : Goto(w, s)
      BY <2>5 DEF ProcessRead, Rearm, Compose, Arm, ComposeFails, CloseTest
    <3>3. Owing' = Owing
      BY <1>1, <3>1, <3>2 DEF Stages, Owing
    <3> QED
      BY <2>1, <3>3, CountSame
  <2> QED
    BY <1>2, <2>2, <2>3, <2>4, <2>5
<1>3. CASE CloseRemove(w)
  <2> DEFINE s == sockfd[request[w]]
  <2>1. /\ stage[w] = "remove" /\ stage' = [stage EXCEPT ![w] = "reset"]
        /\ UNCHANGED user_count /\ Removefd(s)
        /\ miscounted' = (miscounted \/ s \notin Open)
    BY <1>3 DEF CloseRemove, Goto
  <2>2. CASE s \notin Open
    BY <2>1, <2>2 DEF CountExact
  <2>3. CASE s \in Open
    <3>1. Open' = Open \ {s}
      BY <1>0, <2>1, <2>3 DEF Open, Removefd, TableShape
    <3>2. Owing' = Owing \cup {w} /\ w \notin Owing
      BY <1>0, <2>1 DEF Owing
    <3>3. /\ Cardinality(Open') = Cardinality(Open) - 1
          /\ Cardinality(Owing') = Cardinality(Owing) + 1
      BY <2>3, <3>1, <3>2, OpenFinite, OwingFinite, FS_AddElement, FS_RemoveElement
    <3>4. miscounted' <=> miscounted
      BY <2>1, <2>3
    <3> QED
      BY <1>0, <2>1, <3>3, <3>4, OpenFinite, OwingFinite DEF CountExact
  <2> QED
    BY <2>2, <2>3
<1>4. CASE CountStore(w)
  <2>1. /\ stage[w] = "store" /\ stage' = [stage EXCEPT ![w] = "arm"]
        /\ saved[w] = user_count => user_count' = saved[w] - 1
        /\ miscounted' = (miscounted \/ saved[w] # user_count)
        /\ Open' = Open
    BY <1>4 DEF CountStore, Goto, kernVars, Open
  <2>2. CASE saved[w] # user_count
    BY <2>1, <2>2 DEF CountExact
  <2>3. CASE saved[w] = user_count
    <3>1. Owing' = Owing \ {w} /\ w \in Owing
      BY <1>0, <2>1 DEF Owing
    <3>2. Cardinality(Owing') = Cardinality(Owing) - 1
      BY <3>1, OwingFinite, FS_RemoveElement
    <3>3. miscounted' <=> miscounted
      BY <2>1, <2>3
    <3> QED
      BY <1>0, <2>1, <2>3, <3>2, <3>3, OpenFinite, OwingFinite, ConnAssumption DEF CountExact
  <2> QED
    BY <2>2, <2>3
<1> QED
  BY <1>2, <1>3, <1>4 DEF WorkerStep

LEMMA CountNext == ASSUME Types, CountExact, [Next]_vars PROVE CountExact'
<1>0. UNCHANGED stage => Owing' = Owing
  BY DEF Owing
<1>1. CASE UNCHANGED <<user_count, miscounted, desc, stage>>
  BY <1>0, <1>1, CountSame
<1>2. CASE UNCHANGED vars
  BY <1>1, <1>2 DEF vars, objVars, countVars, kernVars, workVars
<1>3. ASSUME NEW c \in Clients, ClientStep(c) PROVE CountExact'
  BY <1>1, <1>3
     DEF ClientStep, Connect, Send, Drain, Leave, objVars, countVars, kernVars, workVars
<1>4. CASE EpollWait \/ Post
  BY <1>1, <1>4 DEF EpollWait, Post, objVars, countVars, kernVars, workVars
<1>5. ASSUME NEW c \in Clients, NEW f \in Fds, Accept(c, f) PROVE CountExact'
  BY <1>5, CountAfterAccept
<1>6. ASSUME NEW c \in Clients, NEW f \in Fds, AcceptBusy(c, f) PROVE CountExact'
  BY <1>1, <1>6 DEF AcceptBusy, objVars, countVars, kernVars, workVars
<1>7. ASSUME NEW f \in Fds, \/ Hangup(f) \/ ReadFails(f) \/ WriteFails(f)
                            \/ HeartbeatExpires(f)
      PROVE  CountExact'
  BY <1>7, CountAfterClose DEF Hangup, ReadFails, WriteFails, HeartbeatExpires, workVars
<1>8. ASSUME NEW f \in Fds, \/ Read(f) \/ ReadRefused(f) \/ WriteNothing(f)
                            \/ WritePart(f) \/ WriteSpins(f)
      PROVE  CountExact'
  BY <1>1, <1>8 DEF Read, ReadRefused, ReadInto, WriteNothing, WritePart, WriteSpins,
     countVars, kernVars, workVars
<1>9. ASSUME NEW f \in Fds, WriteAll(f) PROVE CountExact'
  BY <1>1, <1>9, CountAfterClose DEF WriteAll, countVars, workVars
<1>10. ASSUME NEW w \in Workers, WorkerStep(w) PROVE CountExact'
  BY <1>10, CountAfterWorker
<1> QED
  BY <1>2, <1>3, <1>4, <1>5, <1>6, <1>7, <1>8, <1>9, <1>10 DEF Next, MainStep

(* _user_count counts what it should until one of the three accidents that   *)
(* miscounted marks has happened, and MAX_FD bounds it: close_conn() run by   *)
(* main and by workers, in whatever order, has no fourth.                    *)
THEOREM UsersAreCounted == Spec => []CountExact
<1>1. Init => CountExact
  <2> SUFFICES ASSUME Init PROVE CountExact
    OBVIOUS
  <2>1. Open = {} /\ Owing = {} /\ user_count = 0
    BY DEF Init, Open, Owing
  <2> QED
    BY <2>1, FS_EmptySet, ConnAssumption DEF CountExact
<1> QED
  BY <1>1, TypesAlways, CountNext, PTL DEF Spec
-----------------------------------------------------------------------------
(***************************************************************************)
(* The hands a connection is in.  A connection whose object was free when it *)
(* was accepted owns its object: it is in one place, in the list at most     *)
(* once, with one worker at most, and no worker still has a part of an       *)
(* earlier close_conn() to run on it.                                        *)
(***************************************************************************)
OnceQueued(f) == \A i, j \in DOMAIN workqueue : workqueue[i] = f /\ workqueue[j] = f => i = j
OnceHeld(f) == \A v, w \in Workers : request[v] = f /\ request[w] = f => v = w
NotClosing(f) == \A w \in Workers :
                    request[w] = f => stage[w] \notin {"reset", "load", "store"}

Single(f) ==
    /\ sockfd[f] = f
    /\ armed[f] # "off" => event[f] = "none" /\ ~Queued(f) /\ ~Held(f)
    /\ event[f] # "none" => ~Queued(f) /\ ~Held(f)
    /\ Queued(f) => ~Held(f)
    /\ OnceQueued(f) /\ OnceHeld(f) /\ NotClosing(f)

Hands == \A f \in Fds : Uncrossed(f) => Single(f)

LEMMA HandsGiveOneHolder == Hands => OneHolder
  BY DEF Hands, Single, OnceQueued, OnceHeld, OneHolder

LEMMA HandsInit == Init => Hands
  BY ConnAssumption DEF Init, Hands, Uncrossed
-----------------------------------------------------------------------------
(* The list and the workers, after each operation of the pool.               *)
LEMMA AfterAppend ==
  ASSUME workqueue \in Seq(Fds), NEW f \in Fds, workqueue' = Append(workqueue, f)
  PROVE  /\ \A g \in Fds \ {f} : /\ Queued(g)' <=> Queued(g)
                                 /\ OnceQueued(g) => OnceQueued(g)'
         /\ ~Queued(f) => OnceQueued(f)'
<1>1. /\ Len(workqueue') = Len(workqueue) + 1
      /\ \A i \in 1..Len(workqueue) : workqueue'[i] = workqueue[i]
      /\ workqueue'[Len(workqueue) + 1] = f
      /\ DOMAIN workqueue = 1..Len(workqueue)
      /\ DOMAIN workqueue' = 1..Len(workqueue')
      /\ Len(workqueue) \in Nat
  OBVIOUS
<1>2. \A g \in Fds \ {f} : Queued(g)' <=> Queued(g)
  BY <1>1 DEF Queued
<1>3. \A g \in Fds \ {f} : OnceQueued(g) => OnceQueued(g)'
  BY <1>1 DEF OnceQueued
<1>4. ~Queued(f) => OnceQueued(f)'
  BY <1>1 DEF Queued, OnceQueued
<1> QED
  BY <1>2, <1>3, <1>4

LEMMA AfterPop ==
  ASSUME workqueue \in Seq(Fds), workqueue # <<>>, workqueue' = Tail(workqueue)
  PROVE  /\ Head(workqueue) \in Fds /\ Queued(Head(workqueue))
         /\ \A g \in Fds : OnceQueued(g) => OnceQueued(g)'
         /\ \A g \in Fds \ {Head(workqueue)} : Queued(g)' <=> Queued(g)
         /\ \A g \in Fds : g = Head(workqueue) /\ OnceQueued(g) => ~Queued(g)'
<1>1. /\ Len(workqueue') = Len(workqueue) - 1
      /\ \A i \in 1..Len(workqueue') : workqueue'[i] = workqueue[i + 1]
      /\ DOMAIN workqueue = 1..Len(workqueue)
      /\ DOMAIN workqueue' = 1..Len(workqueue')
      /\ Len(workqueue) \in Nat \ {0}
      /\ Head(workqueue) = workqueue[1]
      /\ Head(workqueue) \in Fds
  OBVIOUS
<1>2. ASSUME NEW g \in Fds, OnceQueued(g) PROVE OnceQueued(g)'
  <2> SUFFICES ASSUME NEW i \in DOMAIN workqueue', NEW j \in DOMAIN workqueue',
                      workqueue'[i] = g, workqueue'[j] = g
               PROVE  i = j
    BY DEF OnceQueued
  <2>1. /\ i + 1 \in DOMAIN workqueue /\ j + 1 \in DOMAIN workqueue
        /\ workqueue[i + 1] = g /\ workqueue[j + 1] = g
    BY <1>1
  <2>2. i + 1 = j + 1
    BY <1>2, <2>1 DEF OnceQueued
  <2> QED
    BY <1>1, <2>2
<1>3. ASSUME NEW g \in Fds, g # Head(workqueue), Queued(g) PROVE Queued(g)'
  BY <1>3, StillQueued
<1>4. ASSUME NEW g \in Fds, Queued(g)' PROVE Queued(g)
  BY <1>1, <1>4 DEF Queued
<1>5. Queued(Head(workqueue))
  BY <1>1 DEF Queued
<1>6. ASSUME NEW g \in Fds, g = Head(workqueue), OnceQueued(g) PROVE ~Queued(g)'
  <2> SUFFICES ASSUME NEW i \in DOMAIN workqueue', workqueue'[i] = g PROVE FALSE
    BY DEF Queued
  <2>1. /\ i + 1 \in DOMAIN workqueue /\ workqueue[i + 1] = g
        /\ 1 \in DOMAIN workqueue /\ workqueue[1] = g
    BY <1>1, <1>6
  <2>2. i + 1 = 1
    BY <1>6, <2>1 DEF OnceQueued
  <2> QED
    BY <1>1, <2>2
<1> QED
  BY <1>1, <1>2, <1>3, <1>4, <1>5, <1>6

(* A step that leaves f where it is, and its client behind it. *)
Unmoved(f) ==
    /\ UNCHANGED <<sockfd[f], desc[f], armed[f], event[f]>>
    /\ Queued(f)' <=> Queued(f)
    /\ Held(f)' <=> Held(f)
    /\ OnceQueued(f) => OnceQueued(f)'
    /\ OnceHeld(f) => OnceHeld(f)'
    /\ NotClosing(f) => NotClosing(f)'
    /\ crossed \subseteq crossed'

LEMMA SingleUnmoved ==
  ASSUME Hands, NEW f \in Fds, Uncrossed(f)', Unmoved(f) PROVE Single(f)'
<1>1. Uncrossed(f)
  BY DEF Unmoved, Uncrossed
<1> QED
  BY <1>1 DEF Hands, Single, Unmoved

(* Main, when it does not append. *)
LEMMA UnmovedByMain ==
  ASSUME NEW f \in Fds, UNCHANGED <<workqueue, request, stage>>, crossed \subseteq crossed',
         UNCHANGED <<sockfd[f], desc[f], armed[f], event[f]>>
  PROVE  Unmoved(f)
  BY DEF Unmoved, Queued, Held, OnceQueued, OnceHeld, NotClosing

(* close_conn() by main: whoever has the object, the connection is gone. *)
LEMMA SingleAfterClose ==
  ASSUME Types, Hands, NEW g \in Fds, CloseConn(g),
         event' = [event EXCEPT ![g] = "none"] \/ UNCHANGED event,
         UNCHANGED <<workqueue, request, stage, crossed>>,
         NEW f \in Fds, Uncrossed(f)'
  PROVE  Single(f)'
<1>0. TableShape
  BY DEF Types
<1>1. CASE f = g
  <2>1. desc[g] # NoClient
    BY <1>0, <1>1, ConnAssumption DEF CloseConn, Removefd, Uncrossed, TableShape
  <2>2. CASE sockfd[g] = g
    BY <1>0, <1>1, <2>1, <2>2, ConnAssumption DEF CloseConn, Removefd, Uncrossed, TableShape
  <2>3. CASE sockfd[g] = NoFd
    <3>1. desc' = desc
      BY <2>3, ConnAssumption DEF CloseConn, Removefd
    <3>2. sockfd[g] = g
      BY <1>1, <3>1 DEF Hands, Single, Uncrossed
    <3> QED
      BY <2>3, <3>2, ConnAssumption
  <2> QED
    BY <1>0, <2>2, <2>3 DEF TableShape
<1>2. CASE f # g
  <2>1. UNCHANGED <<sockfd[f], desc[f], armed[f], event[f]>>
    BY <1>0, <1>2, ConnAssumption DEF CloseConn, Removefd, TableShape
  <2> QED
    BY <2>1, UnmovedByMain, SingleUnmoved
<1> QED
  BY <1>1, <1>2

(* modfd() by whoever has the object: main, from an event ...                *)
LEMMA SingleAfterMainRearm ==
  ASSUME Types, Hands, NEW g \in Fds, event[g] # "none", NEW ev \in {"IN", "OUT"},
         Modfd(sockfd[g], ev), event' = [event EXCEPT ![g] = "none"],
         UNCHANGED <<workqueue, request, stage, sockfd, desc, crossed>>,
         NEW f \in Fds, Uncrossed(f)'
  PROVE  Single(f)'
<1>0. TableShape
  BY DEF Types
<1>1. CASE f = g
  <2>1. Single(f)
    BY DEF Hands, Uncrossed
  <2>2. event'[f] = "none" /\ ~Queued(f)' /\ ~Held(f)'
    BY <1>0, <1>1, <2>1 DEF Single, TableShape, Queued, Held
  <2> QED
    BY <2>1, <2>2 DEF Single, OnceQueued, OnceHeld, NotClosing
<1>2. CASE f # g
  <2>1. UNCHANGED <<armed[f], event[f]>>
    BY <1>0, <1>2, ConnAssumption DEF Modfd, TableShape
  <2> QED
    BY <2>1, UnmovedByMain, SingleUnmoved
<1> QED
  BY <1>1, <1>2

(* ... or a worker, at the end of process().                                 *)
LEMMA SingleAfterWorkerRearm ==
  ASSUME Types, Hands, NEW w \in Workers, stage[w] # "idle", NEW ev \in {"IN", "OUT"},
         Modfd(sockfd[request[w]], ev), Goto(w, "idle"), Pool!Finish(w),
         UNCHANGED <<sockfd, desc, event, crossed>>,
         NEW f \in Fds, Uncrossed(f)'
  PROVE  Single(f)'
<1> DEFINE g == request[w]
<1>0. /\ TableShape /\ g \in Fds /\ g # NoFd /\ Held(g)
      /\ request \in [Workers -> Fds \cup {NoFd}] /\ stage \in [Workers -> Stages]
  BY BusyWorkerHasObject DEF Types, Pool!TypeOK, WorkTypes
<1>1. /\ request' = [request EXCEPT ![w] = NoFd]
      /\ stage' = [stage EXCEPT ![w] = "idle"]
      /\ workqueue' = workqueue
  BY DEF Pool!Finish, Goto
<1>2. CASE f = g
  <2>1. Single(f)
    BY DEF Hands, Uncrossed
  <2>2. event[f] = "none" /\ ~Queued(f)
    BY <1>0, <1>2, <2>1 DEF Single
  <2>3. ~Held(f)'
    BY <1>0, <1>1, <1>2, <2>1, ConnAssumption DEF Single, OnceHeld, Held
  <2>4. OnceHeld(f)' /\ NotClosing(f)'
    BY <2>3 DEF OnceHeld, NotClosing, Held
  <2> QED
    BY <1>1, <2>1, <2>2, <2>3, <2>4 DEF Single, OnceQueued, Queued
<1>3. CASE f # g
  <2>1. armed'[f] = armed[f]
    BY <1>0, <1>3, ConnAssumption DEF Modfd, TableShape
  <2>2. /\ Held(f)' <=> Held(f)
        /\ OnceHeld(f) => OnceHeld(f)'
        /\ NotClosing(f) => NotClosing(f)'
    BY <1>0, <1>1, <1>3, ConnAssumption DEF Held, OnceHeld, NotClosing
  <2> QED
    BY <1>1, <2>1, <2>2, SingleUnmoved DEF Unmoved, Queued, OnceQueued
<1> QED
  BY <1>2, <1>3
-----------------------------------------------------------------------------
LEMMA EpollWaitKeepsHands ==
  ASSUME Types, Hands, EpollWait, NEW f \in Fds, Uncrossed(f)' PROVE Single(f)'
<1>1. UNCHANGED <<workqueue, request, stage, sockfd, desc, crossed>> /\ event[f] = "none"
  BY DEF EpollWait, BatchDone, poolVars, workVars, objVars
<1>2. Single(f)
  BY <1>1 DEF Hands, Uncrossed
<1>3. ReadyEvent(f) # "none" => armed[f] # "off"
  BY DEF ReadyEvent
<1>4. /\ event'[f] = ReadyEvent(f)
      /\ armed'[f] = IF ReadyEvent(f) # "none" THEN "off" ELSE armed[f]
  BY ConnAssumption DEF EpollWait
<1>5. Queued(f)' <=> Queued(f)
  BY <1>1 DEF Queued
<1>6. Held(f)' <=> Held(f)
  BY <1>1 DEF Held
<1>7. OnceQueued(f)' /\ OnceHeld(f)' /\ NotClosing(f)'
  BY <1>1, <1>2 DEF Single, OnceQueued, OnceHeld, NotClosing
<1> QED
  BY <1>1, <1>2, <1>3, <1>4, <1>5, <1>6, <1>7 DEF Single

(* accept(): an object that was free has one holder now, the kernel. *)
LEMMA AcceptKeepsHands ==
  ASSUME Types, Hands, NEW c \in Clients, NEW g \in Fds, Accept(c, g),
         NEW f \in Fds, Uncrossed(f)'
  PROVE  Single(f)'
<1>0. TableShape /\ HistoryTypes
  BY DEF Types
<1>1. /\ UNCHANGED <<workqueue, request, stage>>
      /\ sockfd' = [sockfd EXCEPT ![g] = g]
      /\ desc' = [desc EXCEPT ![g] = c]
      /\ armed' = [armed EXCEPT ![g] = "IN"]
      /\ event' = [event EXCEPT ![ListenFd] = "none"]
      /\ crossed' = IF InUse(g) THEN crossed \cup {c} ELSE crossed
  BY DEF Accept, Handled, poolVars, workVars
<1>2. CASE f = g
  <2>1. desc'[g] = c /\ sockfd'[g] = g /\ event'[g] = event[g]
    BY <1>0, <1>1, ConnAssumption DEF TableShape
  <2>2. ~InUse(g)
    BY <1>1, <1>2, <2>1 DEF Uncrossed
  <2>3. ~Queued(g)' /\ ~Held(g)' /\ event[g] = "none"
    BY <1>1, <2>2 DEF InUse, Queued, Held
  <2>4. OnceQueued(g)' /\ OnceHeld(g)' /\ NotClosing(g)'
    BY <2>3 DEF Queued, Held, OnceQueued, OnceHeld, NotClosing
  <2> QED
    BY <1>2, <2>1, <2>3, <2>4 DEF Single
<1>3. CASE f # g
  <2>1. UNCHANGED <<sockfd[f], desc[f], armed[f], event[f]>> /\ crossed \subseteq crossed'
    BY <1>0, <1>1, <1>3, ConnAssumption DEF TableShape
  <2> QED
    BY <1>1, <2>1, UnmovedByMain, SingleUnmoved
<1> QED
  BY <1>2, <1>3

(* EPOLLIN with something to process: from the batch to the list, or nowhere *)
(* when append() refuses.                                                    *)
LEMMA ReadKeepsHands ==
  ASSUME Types, Hands, NEW g \in Fds, Read(g) \/ ReadRefused(g), NEW f \in Fds, Uncrossed(f)'
  PROVE  Single(f)'
<1>0. TableShape /\ workqueue \in Seq(Fds)
  BY DEF Types, Pool!TypeOK
<1>1. /\ UNCHANGED <<request, stage, sockfd, desc, armed, crossed>>
      /\ event' = [event EXCEPT ![g] = "none"]
      /\ event[g] = "IN"
      /\ workqueue' = Append(workqueue, g) \/ workqueue' = workqueue
  BY DEF Read, ReadRefused, ReadInto, Handled, Pool!AppendRequest, Pool!AppendRefused,
         Pool!poolVars, workVars, kernVars
<1>2. Single(f) /\ event'[g] = "none"
  BY <1>0, <1>1 DEF Hands, Uncrossed, TableShape
<1>3. (Held(f)' <=> Held(f)) /\ OnceHeld(f)' /\ NotClosing(f)'
  BY <1>1, <1>2 DEF Single, Held, OnceHeld, NotClosing
<1>4. CASE workqueue' = workqueue
  <2>1. (Queued(f)' <=> Queued(f)) /\ OnceQueued(f)'
    BY <1>2, <1>4 DEF Single, Queued, OnceQueued
  <2>2. event'[f] # "none" => event[f] # "none"
    BY <1>0, <1>1 DEF TableShape
  <2> QED
    BY <1>1, <1>2, <1>3, <2>1, <2>2 DEF Single
<1>5. CASE workqueue' = Append(workqueue, g) /\ f = g
  <2>1. ~Held(f) /\ ~Queued(f) /\ armed[f] = "off"
    BY <1>1, <1>2, <1>5 DEF Single
  <2>2. OnceQueued(f)'
    BY <1>0, <1>5, <2>1, AfterAppend
  <2> QED
    BY <1>1, <1>2, <1>3, <1>5, <2>1, <2>2 DEF Single
<1>6. CASE workqueue' = Append(workqueue, g) /\ f # g
  <2>1. (Queued(f)' <=> Queued(f)) /\ OnceQueued(f)'
    BY <1>0, <1>2, <1>6, AfterAppend DEF Single
  <2>2. event'[f] = event[f]
    BY <1>1, <1>6
  <2> QED
    BY <1>1, <1>2, <1>3, <2>1, <2>2 DEF Single
<1> QED
  BY <1>1, <1>4, <1>5, <1>6

LEMMA MainKeepsHands ==
  ASSUME Types, Hands, MainStep, NEW f \in Fds, Uncrossed(f)' PROVE Single(f)'
<1>0. TableShape
  BY DEF Types
<1>1. CASE EpollWait
  BY <1>1, EpollWaitKeepsHands
<1>2. CASE Post
  <2>1. UNCHANGED <<workqueue, request, stage, sockfd, desc, armed, event, crossed>>
    BY <1>2 DEF Post, Pool!Post, workVars, objVars, kernVars, mainVars
  <2> QED
    BY <2>1, UnmovedByMain, SingleUnmoved
<1>3. ASSUME NEW c \in Clients, NEW g \in Fds, Accept(c, g) PROVE Single(f)'
  BY <1>3, AcceptKeepsHands
<1>4. ASSUME NEW c \in Clients, NEW g \in Fds, AcceptBusy(c, g) PROVE Single(f)'
  <2>1. /\ UNCHANGED <<workqueue, request, stage, sockfd, desc, armed, crossed>>
        /\ event'[f] = event[f]
    BY <1>0, <1>4, ConnAssumption
       DEF AcceptBusy, Handled, poolVars, workVars, objVars, kernVars, TableShape
  <2> QED
    BY <2>1, UnmovedByMain, SingleUnmoved
<1>5. ASSUME NEW g \in Fds, Hangup(g) \/ ReadFails(g) \/ WriteFails(g) PROVE Single(f)'
  BY <1>5, SingleAfterClose DEF Hangup, ReadFails, WriteFails, Handled, poolVars, workVars
<1>6. ASSUME NEW g \in Fds, Read(g) \/ ReadRefused(g) PROVE Single(f)'
  BY <1>6, ReadKeepsHands
<1>7. ASSUME NEW g \in Fds, WriteNothing(g) \/ WritePart(g) PROVE Single(f)'
  BY <1>7, SingleAfterMainRearm DEF WriteNothing, WritePart, Handled, poolVars, workVars
<1>8. ASSUME NEW g \in Fds, WriteAll(g) PROVE Single(f)'
  <2>1. CASE g \in linger
    BY <1>8, <2>1, SingleAfterMainRearm DEF WriteAll, Handled, poolVars, workVars
  <2>2. CASE g \notin linger
    BY <1>8, <2>2, SingleAfterClose DEF WriteAll, Handled, poolVars, workVars
  <2> QED
    BY <2>1, <2>2
<1>9. ASSUME NEW g \in Fds, WriteSpins(g) PROVE Single(f)'
  <2>1. /\ UNCHANGED <<workqueue, request, stage, sockfd, desc, armed, crossed>>
        /\ event' = [event EXCEPT ![g] = "stuck"] /\ event[g] = "OUT"
    BY <1>9 DEF WriteSpins, poolVars, workVars, kernVars
  <2>2. Single(f) /\ (event'[f] # "none" => event[f] # "none")
    BY <1>0, <2>1 DEF Hands, Uncrossed, TableShape
  <2> QED
    BY <2>1, <2>2 DEF Single, Queued, Held, OnceQueued, OnceHeld, NotClosing
<1> QED
  BY <1>1, <1>2, <1>3, <1>4, <1>5, <1>6, <1>7, <1>8, <1>9 DEF MainStep

(* The pool hands a request to a worker.                                     *)
LEMMA TakeKeepsHands ==
  ASSUME Types, Hands, NEW w \in Workers, WorkerTake(w), NEW f \in Fds, Uncrossed(f)'
  PROVE  Single(f)'
<1> DEFINE g == Head(workqueue)
<1>1. /\ UNCHANGED <<sockfd, desc, armed, event, crossed>>
      /\ stage' = [stage EXCEPT ![w] = "read"]
      /\ workqueue # <<>> /\ workqueue' = Tail(workqueue)
      /\ request' = [request EXCEPT ![w] = g] /\ request[w] = NoFd
  BY DEF WorkerTake, Pool!Take, Goto, objVars, kernVars, mainVars, Types, Pool!TypeOK
<1>2. /\ workqueue \in Seq(Fds) /\ request \in [Workers -> Fds \cup {NoFd}]
      /\ stage \in [Workers -> Stages]
  BY DEF Types, Pool!TypeOK, WorkTypes
<1>3. Single(f)
  BY <1>1 DEF Hands, Uncrossed
<1>4. g \in Fds /\ Queued(g) /\ OnceQueued(f)'
  BY <1>1, <1>2, <1>3, AfterPop DEF Single
<1>5. CASE f = g
  <2>1. ~Held(f) /\ armed[f] = "off" /\ event[f] = "none" /\ ~Queued(f)'
    BY <1>1, <1>2, <1>3, <1>4, <1>5, AfterPop DEF Single
  <2>2. OnceHeld(f)' /\ NotClosing(f)'
    BY <1>1, <1>2, <1>5, <2>1 DEF OnceHeld, NotClosing, Held
  <2> QED
    BY <1>1, <1>3, <1>4, <2>1, <2>2 DEF Single
<1>6. CASE f # g
  <2>1. (Queued(f)' <=> Queued(f)) /\ (Held(f)' <=> Held(f))
    BY <1>1, <1>2, <1>4, <1>6, AfterPop, ConnAssumption DEF Held
  <2>2. OnceHeld(f)' /\ NotClosing(f)'
    BY <1>1, <1>2, <1>3, <1>6, ConnAssumption DEF Single, OnceHeld, NotClosing
  <2> QED
    BY <1>1, <1>3, <1>4, <2>1, <2>2 DEF Single
<1> QED
  BY <1>5, <1>6

(* A worker that moves inside process(), not into the end of close_conn().   *)
LEMMA MoveKeepsHands ==
  ASSUME Types, Hands, NEW w \in Workers,
         NEW s \in Stages, Goto(w, s), s \notin {"reset", "load", "store"},
         UNCHANGED <<workqueue, request, sockfd, desc, armed, event, crossed>>,
         NEW f \in Fds, Uncrossed(f)'
  PROVE  Single(f)'
<1>1. NotClosing(f) => NotClosing(f)'
  BY DEF NotClosing, Goto, Types, WorkTypes
<1> QED
  BY <1>1, SingleUnmoved DEF Unmoved, Queued, Held, OnceQueued, OnceHeld

(* close_conn() by a worker: its connection is gone with removefd(), and an  *)
(* uncrossed connection has no worker in what follows.                       *)
LEMMA ClosingKeepsHands ==
  ASSUME Types, Hands, NEW w \in Workers, CloseRemove(w) \/ CloseReset(w) \/ CountLoad(w),
         NEW f \in Fds, Uncrossed(f)'
  PROVE  Single(f)'
<1> DEFINE g == request[w]
<1>0. TableShape /\ stage \in [Workers -> Stages]
  BY DEF Types, WorkTypes
<1>1. /\ UNCHANGED <<workqueue, request, event, crossed>>
      /\ \E s \in Stages : stage' = [stage EXCEPT ![w] = s]
      /\ stage[w] \in {"remove", "reset", "load"}
  BY DEF CloseRemove, CloseReset, CountLoad, Goto, Stages, poolVars, mainVars
<1>2. g \in Fds /\ Held(g)
  BY <1>1, BusyWorkerHasObject
<1>3. ASSUME f # g, UNCHANGED <<sockfd[f], desc[f], armed[f]>> PROVE Single(f)'
  <2>1. NotClosing(f) => NotClosing(f)'
    BY <1>0, <1>1, <1>3 DEF NotClosing
  <2> QED
    BY <1>1, <1>3, <2>1, SingleUnmoved DEF Unmoved, Queued, Held, OnceQueued, OnceHeld
<1>4. CASE CloseRemove(w)
  <2>1. UNCHANGED sockfd /\ Removefd(sockfd[g])
    BY <1>4 DEF CloseRemove
  <2>2. CASE f = g
    <3>1. Uncrossed(f)
      BY <1>0, <1>1, <2>1, <2>2, ConnAssumption DEF Removefd, Uncrossed, TableShape
    <3>2. sockfd[g] = g /\ desc[g] # NoClient
      BY <2>2, <3>1, ConnAssumption DEF Hands, Single, Uncrossed
    <3> QED
      BY <1>0, <1>2, <2>1, <2>2, <3>2, ConnAssumption DEF Removefd, Uncrossed, TableShape
  <2>3. CASE f # g
    <3>1. UNCHANGED <<desc[f], armed[f]>>
      BY <1>0, <1>2, <2>1, <2>3, ConnAssumption DEF Removefd, TableShape
    <3> QED
      BY <1>3, <2>1, <2>3, <3>1
  <2> QED
    BY <2>2, <2>3
<1>5. CASE CloseReset(w) \/ CountLoad(w)
  <2>1. UNCHANGED <<desc, armed>> /\ stage[w] \in {"reset", "load"}
    BY <1>5 DEF CloseReset, CountLoad, kernVars
  <2>2. Single(f)
    BY <1>1, <2>1 DEF Hands, Uncrossed
  <2>3. f # g
    BY <2>1, <2>2 DEF Single, NotClosing
  <2>4. UNCHANGED sockfd[f]
    BY <1>0, <1>2, <1>5, <2>3 DEF CloseReset, CountLoad, objVars, TableShape
  <2> QED
    BY <1>3, <2>1, <2>3, <2>4
<1> QED
  BY <1>4, <1>5

LEMMA WorkerKeepsHands ==
  ASSUME Types, Hands, NEW w \in Workers, WorkerStep(w), NEW f \in Fds, Uncrossed(f)'
  PROVE  Single(f)'
<1>1. CASE WorkerWait(w)
  <2>1. UNCHANGED <<workqueue, request, stage, sockfd, desc, armed, event, crossed>>
    BY <1>1 DEF WorkerWait, Pool!Wait, workVars, objVars, mainVars, kernVars
  <2> QED
    BY <2>1, UnmovedByMain, SingleUnmoved
<1>2. CASE WorkerTake(w)
  BY <1>2, TakeKeepsHands
<1>3. CASE Rearm(w) \/ Arm(w)
  BY <1>3, SingleAfterWorkerRearm DEF Rearm, Arm, objVars, mainVars
<1>4. CASE ProcessRead(w) \/ Compose(w) \/ ComposeFails(w) \/ CloseTest(w) \/ CountStore(w)
  <2>1. UNCHANGED <<workqueue, request, sockfd, desc, armed, event, crossed>>
    BY <1>4 DEF ProcessRead, Compose, ComposeFails, CloseTest, CountStore,
       poolVars, objVars, mainVars, kernVars
  <2>2. \E s \in {"compose", "rearm", "arm", "test", "remove"} : Goto(w, s)
    BY <1>4 DEF ProcessRead, Compose, ComposeFails, CloseTest, CountStore
  <2> QED
    BY <2>1, <2>2, MoveKeepsHands DEF Stages
<1>5. CASE CloseRemove(w) \/ CloseReset(w) \/ CountLoad(w)
  BY <1>5, ClosingKeepsHands
<1> QED
  BY <1>1, <1>2, <1>3, <1>4, <1>5 DEF WorkerStep

LEMMA HandsKept == ASSUME Types, Hands, [Next]_vars PROVE Hands'
<1> SUFFICES ASSUME NEW f \in Fds, Uncrossed(f)' PROVE Single(f)'
  BY DEF Hands
<1>1. CASE UNCHANGED vars
  BY <1>1, UnmovedByMain, SingleUnmoved
     DEF vars, poolVars, workVars, objVars, mainVars, kernVars
<1>2. ASSUME NEW c \in Clients, ClientStep(c) PROVE Single(f)'
  <2>1. UNCHANGED <<workqueue, request, stage, sockfd, desc, armed, event, crossed>>
    BY <1>2 DEF ClientStep, Connect, Send, Drain, Leave, poolVars, workVars, objVars,
       mainVars, kernVars
  <2> QED
    BY <2>1, UnmovedByMain, SingleUnmoved
<1>3. ASSUME NEW g \in Fds, HeartbeatExpires(g) PROVE Single(f)'
  BY <1>3, SingleAfterClose DEF HeartbeatExpires, poolVars, workVars
<1> QED
  BY <1>1, <1>2, <1>3, MainKeepsHands, WorkerKeepsHands DEF Next

LEMMA HandsAlways == Spec => []Hands
  BY HandsInit, TypesAlways, HandsKept, PTL DEF Spec

(* EPOLLONESHOT does its work: a connection that got a free object is never  *)
(* in two hands, whatever heartbeats and failing replies do to it and to     *)
(* others, and however many workers, descriptors and clients there are.      *)
THEOREM EveryConnectionHasOneHolder == Spec => []OneHolder
  BY HandsAlways, HandsGiveOneHolder, PTL

(* close_conn() by main and by workers never takes the object of an          *)
(* uncrossed connection, and leaves an object open with its descriptor       *)
(* closed only between removefd() and _sockfd = -1.                          *)
THEOREM DescriptorsMatch == Spec => []ObjectOwnsDescriptor
<1>1. ASSUME Types, KeepInv, Hands, NEW f \in Fds, sockfd[f] # NoFd, f \notin Open
      PROVE  \E w \in Workers : request[w] = f /\ stage[w] = "reset"
  BY <1>1 DEF Open, KeepInv, HalfClosed, Closing
<1>2. ASSUME Types, KeepInv, Hands, NEW f \in Fds, sockfd[f] = NoFd, f \in Open
      PROVE  desc[f] \in crossed
  BY <1>2, ConnAssumption DEF Types, TableShape, Open, Hands, Uncrossed, Single
<1>3. Types /\ KeepInv /\ Hands => ObjectOwnsDescriptor
  BY <1>1, <1>2 DEF ObjectOwnsDescriptor
<1> QED
  BY <1>3, TypesAlways, KeepInvAlways, HandsAlways, PTL

(* Every open connection is held, was refused, or lost its object to a late  *)
(* "_sockfd = -1" after it had been given an object in use.                  *)
THEOREM NothingIsForgotten == Spec => []NoneForgotten
<1>1. ASSUME Types, KeepInv, Hands, NEW f \in Open
      PROVE  \/ armed[f] # "off" \/ event[f] # "none" \/ Queued(f) \/ Held(f)
             \/ f \in dropped
             \/ sockfd[f] = NoFd /\ desc[f] \in crossed
  <2>1. CASE sockfd[f] # NoFd
    BY <1>1, <2>1 DEF Open, KeepInv, Kept
  <2>2. CASE sockfd[f] = NoFd
    BY <1>1, <2>2, ConnAssumption DEF Types, TableShape, Open, Hands, Uncrossed, Single
  <2> QED
    BY <2>1, <2>2
<1>2. Types /\ KeepInv /\ Hands => NoneForgotten
  BY <1>1 DEF NoneForgotten
<1> QED
  BY <1>2, TypesAlways, KeepInvAlways, HandsAlways, PTL
-----------------------------------------------------------------------------
(* What a connection's object has read belongs to the client behind the      *)
(* descriptor.  A closed object may still hold the text of its last client.  *)
TextInv ==
    /\ text \in [Fds -> Seq(Clients \X Pieces)]
    /\ inbox \in [Clients -> Seq(Pieces)]
    /\ \A f \in Fds : desc[f] # NoClient
                       => \A i \in DOMAIN text[f] : text[f][i][1] = desc[f]

(* Closing a connection empties its receive buffer and leaves the others.    *)
LEMMA CloseKeepsTextInv ==
  ASSUME TableShape, TextInv, NEW s, Removefd(s), UNCHANGED text
  PROVE  TextInv'
<1>1. CASE s \in Fds /\ desc[s] # NoClient
  <2>1. /\ inbox' = [inbox EXCEPT ![desc[s]] = <<>>]
        /\ desc' = [desc EXCEPT ![s] = NoClient]
    BY <1>1 DEF Removefd
  <2>2. inbox' \in [Clients -> Seq(Pieces)]
    BY <1>1, <2>1, <<>> \in Seq(Pieces) DEF TextInv
  <2> QED
    BY <1>1, <2>1, <2>2 DEF TableShape, TextInv
<1>2. CASE ~(s \in Fds /\ desc[s] # NoClient)
  BY <1>2 DEF Removefd, TextInv
<1> QED
  BY <1>1, <1>2

LEMMA ReadKeepsTextInv ==
  ASSUME TableShape, TextInv, NEW f \in Fds, CanRead(f), ReadInto(f)
  PROVE  TextInv'
<1> DEFINE c == desc[f]
<1>1. /\ sockfd[f] = f /\ c \in Clients /\ c # NoClient
      /\ text' = [text EXCEPT ![f] = text[f] \o Received(c)]
      /\ inbox' = [inbox EXCEPT ![c] = <<>>]
      /\ UNCHANGED desc
  BY ConnAssumption DEF CanRead, ReadInto, TableShape, kernVars
<1>2. /\ inbox[c] \in Seq(Pieces)
      /\ DOMAIN inbox[c] = 1..Len(inbox[c])
      /\ Len(inbox[c]) \in Nat
      /\ \A i \in DOMAIN inbox[c] : inbox[c][i] \in Pieces
  BY <1>1 DEF TextInv
<1>3. /\ Received(c) \in Seq(Clients \X Pieces)
      /\ \A i \in DOMAIN Received(c) : Received(c)[i][1] = c
  BY <1>1, <1>2 DEF Received
<1>4. text[f] \in Seq(Clients \X Pieces) /\ \A i \in DOMAIN text[f] : text[f][i][1] = c
  BY <1>1 DEF TextInv
<1>5. /\ text[f] \o Received(c) \in Seq(Clients \X Pieces)
      /\ \A i \in DOMAIN (text[f] \o Received(c)) : (text[f] \o Received(c))[i][1] = c
  <2> DEFINE s == text[f]  r == Received(c)
  <2>1. /\ s \o r \in Seq(Clients \X Pieces)
        /\ Len(s \o r) = Len(s) + Len(r)
        /\ \A i \in 1..(Len(s) + Len(r)) :
              (s \o r)[i] = IF i <= Len(s) THEN s[i] ELSE r[i - Len(s)]
    BY <1>3, <1>4, ConcatProperties
  <2>2. /\ Len(s) \in Nat /\ DOMAIN s = 1..Len(s)
        /\ Len(r) \in Nat /\ DOMAIN r = 1..Len(r)
        /\ DOMAIN (s \o r) = 1..(Len(s) + Len(r))
    BY <1>3, <1>4, <2>1, LenProperties
  <2>3. /\ \A i \in DOMAIN s : s[i][1] = c
        /\ \A i \in DOMAIN r : r[i][1] = c
    BY <1>3, <1>4
  <2> HIDE DEF s, r
  <2>4. \A i \in 1..(Len(s) + Len(r)) : (s \o r)[i][1] = c
    BY <2>1, <2>2, <2>3
  <2> QED
    BY <2>1, <2>2, <2>4 DEF s, r
<1>6. inbox' \in [Clients -> Seq(Pieces)]
  BY <1>1 DEF TextInv
<1> QED
  BY <1>1, <1>5, <1>6 DEF TextInv

LEMMA ResetKeepsTextInv ==
  ASSUME TextInv, NEW f \in Fds, ResetRequest(f), UNCHANGED inbox,
         \A g \in Fds \ {f} : UNCHANGED desc[g]
  PROVE  TextInv'
<1>1. text' = [text EXCEPT ![f] = <<>>] /\ <<>> \in Seq(Clients \X Pieces)
  BY DEF ResetRequest
<1>2. text' \in [Fds -> Seq(Clients \X Pieces)]
  BY <1>1 DEF TextInv
<1>3. ASSUME NEW g \in Fds, desc'[g] # NoClient, NEW i \in DOMAIN text'[g]
      PROVE  text'[g][i][1] = desc'[g]
  <2>1. CASE g = f
    <3>1. text'[f] = <<>>
      BY <1>1 DEF TextInv
    <3>2. Len(text'[f]) = 0 /\ DOMAIN text'[f] = 1..Len(text'[f])
      BY <3>1
    <3> QED
      BY <1>3, <2>1, <3>2
  <2>2. CASE g # f
    BY <1>1, <1>3, <2>2 DEF TextInv
  <2> QED
    BY <2>1, <2>2
<1> QED
  BY <1>2, <1>3 DEF TextInv

LEMMA SameText ==
  ASSUME TextInv, UNCHANGED <<text, inbox, desc>> PROVE TextInv'
  BY DEF TextInv

LEMMA TextInvNext == ASSUME Types, TextInv, [Next]_vars PROVE TextInv'
<1>0. TableShape
  BY DEF Types
<1>1. CASE UNCHANGED vars
  BY <1>1, SameText DEF vars, objVars, kernVars, peerVars
<1>2. ASSUME NEW c \in Clients, ClientStep(c) PROVE TextInv'
  <2>1. CASE \E kind \in Pieces : Send(c, kind)
    <3>1. UNCHANGED <<text, desc>> /\ inbox' \in [Clients -> Seq(Pieces)]
      BY <2>1 DEF Send, objVars, kernVars, TextInv
    <3> QED
      BY <3>1 DEF TextInv
  <2>2. CASE Connect(c) \/ Drain(c) \/ Leave(c)
    BY <2>2, SameText DEF Connect, Drain, Leave, objVars, kernVars
  <2> QED
    BY <1>2, <2>1, <2>2 DEF ClientStep
<1>3. ASSUME EpollWait \/ Post PROVE TextInv'
  BY <1>3, SameText DEF EpollWait, Post, objVars, kernVars, peerVars
<1>4. ASSUME NEW c \in Clients, NEW f \in Fds, Accept(c, f) PROVE TextInv'
  BY <1>0, <1>4, ResetKeepsTextInv DEF Accept, TableShape
<1>5. ASSUME NEW c \in Clients, NEW f \in Fds, AcceptBusy(c, f) PROVE TextInv'
  <2>1. UNCHANGED <<text, desc>> /\ inbox' = [inbox EXCEPT ![c] = <<>>]
    BY <1>5 DEF AcceptBusy, objVars, kernVars
  <2>2. inbox' \in [Clients -> Seq(Pieces)]
    BY <2>1 DEF TextInv
  <2> QED
    BY <2>1, <2>2 DEF TextInv
<1>6. ASSUME NEW f \in Fds, \/ Hangup(f) \/ ReadFails(f) \/ WriteFails(f)
                            \/ HeartbeatExpires(f)
      PROVE  TextInv'
  BY <1>0, <1>6, CloseKeepsTextInv
     DEF Hangup, ReadFails, WriteFails, HeartbeatExpires, CloseConn
<1>7. ASSUME NEW f \in Fds, Read(f) \/ ReadRefused(f) PROVE TextInv'
  BY <1>0, <1>7, ReadKeepsTextInv DEF Read, ReadRefused
<1>8. ASSUME NEW f \in Fds, WriteNothing(f) PROVE TextInv'
  BY <1>8, ResetKeepsTextInv DEF WriteNothing, peerVars
<1>9. ASSUME NEW f \in Fds, WritePart(f) \/ WriteSpins(f) PROVE TextInv'
  BY <1>9, SameText DEF WritePart, WriteSpins, kernVars
<1>10. ASSUME NEW f \in Fds, WriteAll(f) PROVE TextInv'
  <2>1. CASE f \in linger
    BY <1>10, <2>1, ResetKeepsTextInv DEF WriteAll
  <2>2. CASE f \notin linger
    BY <1>0, <1>10, <2>2, CloseKeepsTextInv DEF WriteAll, CloseConn
  <2> QED
    BY <2>1, <2>2
<1>11. ASSUME NEW w \in Workers, WorkerStep(w) PROVE TextInv'
  <2>1. CASE CloseRemove(w)
    BY <1>0, <2>1, CloseKeepsTextInv DEF CloseRemove
  <2>2. CASE \/ WorkerWait(w) \/ WorkerTake(w) \/ ProcessRead(w) \/ Rearm(w) \/ Compose(w)
             \/ Arm(w) \/ ComposeFails(w) \/ CloseTest(w) \/ CloseReset(w) \/ CountLoad(w)
             \/ CountStore(w)
    BY <2>2, SameText DEF WorkerWait, WorkerTake, ProcessRead, Rearm, Compose, Arm,
       ComposeFails, CloseTest, CloseReset, CountLoad, CountStore, objVars, kernVars,
       peerVars
  <2> QED
    BY <1>11, <2>1, <2>2 DEF WorkerStep
<1> QED
  BY <1>1, <1>2, <1>3, <1>4, <1>5, <1>6, <1>7, <1>8, <1>9, <1>10, <1>11
     DEF Next, MainStep

LEMMA TextInvAlways == Spec => []TextInv
<1>1. Init => TextInv
  BY DEF Init, TextInv
<1> QED
  BY <1>1, TypesAlways, TextInvNext, PTL DEF Spec
-----------------------------------------------------------------------------
(* What a step of main, or an expiring heartbeat, may do to an object a       *)
(* worker has: close it.                                                     *)
LEMMA CloseIsLocal ==
  ASSUME Types, Hands, NEW f \in Fds, Uncrossed(f), NEW g \in Fds, CloseConn(g),
         UNCHANGED text, event' = [event EXCEPT ![g] = "none"] \/ UNCHANGED event
  PROVE  UNCHANGED <<sockfd[f], text[f], desc[f], event[f]>> \/ f \notin Open'
<1>0. TableShape
  BY DEF Types
<1>1. CASE f = g
  <2>1. sockfd[g] = g /\ desc[g] # NoClient
    BY <1>1, ConnAssumption DEF Hands, Single, Uncrossed
  <2> QED
    BY <1>0, <1>1, <2>1 DEF CloseConn, Removefd, Open, TableShape
<1>2. CASE f # g
  BY <1>0, <1>2, ConnAssumption DEF CloseConn, Removefd, TableShape
<1> QED
  BY <1>1, <1>2

LEMMA MainLeavesHeldAlone ==
  ASSUME Types, Hands, MainStep, NEW f \in Fds, Held(f), Uncrossed(f)
  PROVE  UNCHANGED <<sockfd[f], text[f], desc[f], event[f]>> \/ f \notin Open'
<1> DEFINE Alone == UNCHANGED <<sockfd[f], text[f], desc[f], event[f]>> \/ f \notin Open'
<1>0. /\ armed[f] = "off" /\ event[f] = "none" /\ desc[f] # NoClient
      /\ TableShape /\ text \in [Fds -> Seq(Clients \X Pieces)]
  BY ConnAssumption DEF Hands, Single, Uncrossed, Types, ObjectTypes
<1>1. CASE EpollWait
  BY <1>0, <1>1, ConnAssumption DEF EpollWait, ReadyEvent, objVars
<1>2. CASE Post
  BY <1>2 DEF Post, objVars, mainVars, kernVars
<1>3. ASSUME NEW c \in Clients, NEW g \in Fds, Accept(c, g) PROVE Alone
  BY <1>0, <1>3, ConnAssumption DEF Accept, Handled, ResetRequest, TableShape
<1>4. ASSUME NEW c \in Clients, NEW g \in Fds, AcceptBusy(c, g) PROVE Alone
  BY <1>0, <1>4, ConnAssumption DEF AcceptBusy, Handled, TableShape, objVars, kernVars
<1>5. ASSUME NEW g \in Fds, Hangup(g) \/ ReadFails(g) \/ WriteFails(g) PROVE Alone
  BY <1>5, CloseIsLocal DEF Hangup, ReadFails, WriteFails, Handled
<1>6. ASSUME NEW g \in Fds, Read(g) \/ ReadRefused(g) PROVE Alone
  BY <1>0, <1>6 DEF Read, ReadRefused, ReadInto, Handled, TableShape, kernVars
<1>7. ASSUME NEW g \in Fds, WriteNothing(g) \/ WritePart(g) PROVE Alone
  BY <1>0, <1>7 DEF WriteNothing, WritePart, ResetRequest, Handled, TableShape
<1>8. ASSUME NEW g \in Fds, WriteAll(g) PROVE Alone
  <2>1. f # g /\ UNCHANGED event[f]
    BY <1>0, <1>8 DEF WriteAll, Handled, TableShape
  <2>2. CASE g \in linger
    BY <1>0, <1>8, <2>1, <2>2 DEF WriteAll, ResetRequest
  <2>3. CASE g \notin linger
    BY <1>8, <2>3, CloseIsLocal DEF WriteAll, Handled
  <2> QED
    BY <2>2, <2>3
<1>9. ASSUME NEW g \in Fds, WriteSpins(g) PROVE Alone
  BY <1>0, <1>9 DEF WriteSpins, TableShape, kernVars
<1> QED
  BY <1>1, <1>2, <1>3, <1>4, <1>5, <1>6, <1>7, <1>8, <1>9 DEF MainStep

LEMMA WorkerLeavesHeldAlone ==
  ASSUME Types, Hands, NEW w \in Workers, WorkerStep(w), NEW f \in Fds, Uncrossed(f)
  PROVE  UNCHANGED <<sockfd[f], text[f], desc[f], event[f]>> \/ f \notin Open'
<1>0. TableShape /\ Single(f) /\ (stage[w] # "idle" => request[w] \in Fds)
  BY BusyWorkerHasObject DEF Types, Hands
<1>1. CASE CloseRemove(w)
  BY <1>0, <1>1, ConnAssumption
     DEF CloseRemove, Removefd, Open, TableShape, mainVars
<1>2. CASE CloseReset(w)
  <2>1. request[w] # f
    BY <1>0, <1>2 DEF CloseReset, Single, NotClosing
  <2> QED
    BY <1>0, <1>2, <2>1 DEF CloseReset, TableShape, mainVars, kernVars
<1>3. CASE \/ WorkerWait(w) \/ WorkerTake(w) \/ ProcessRead(w) \/ Rearm(w) \/ Compose(w)
           \/ Arm(w) \/ ComposeFails(w) \/ CloseTest(w) \/ CountLoad(w) \/ CountStore(w)
  BY <1>3 DEF WorkerWait, WorkerTake, ProcessRead, Rearm, Compose, Arm, ComposeFails,
     CloseTest, CountLoad, CountStore, objVars, mainVars, kernVars
<1> QED
  BY <1>1, <1>2, <1>3 DEF WorkerStep

(* While a worker has the object of an uncrossed client, no step of any      *)
(* other thread changes its descriptor or the request it is parsing, except   *)
(* by closing the connection.                                                *)
THEOREM WorkersAreAlone == Spec => WorkerAlone
<1>1. ASSUME Types, Hands, Next, NEW f \in Fds, Held(f), Uncrossed(f)
      PROVE  UNCHANGED <<sockfd[f], text[f], desc[f], event[f]>> \/ f \notin Open'
  <2>1. ASSUME NEW c \in Clients, ClientStep(c)
        PROVE  UNCHANGED <<sockfd[f], text[f], desc[f], event[f]>>
    BY <2>1 DEF ClientStep, Connect, Send, Drain, Leave, objVars, mainVars, kernVars
  <2>2. ASSUME NEW g \in Fds, HeartbeatExpires(g)
        PROVE  UNCHANGED <<sockfd[f], text[f], desc[f], event[f]>> \/ f \notin Open'
    BY <1>1, <2>2, CloseIsLocal DEF HeartbeatExpires
  <2> QED
    BY <1>1, <2>1, <2>2, MainLeavesHeldAlone, WorkerLeavesHeldAlone DEF Next
<1>2. Types /\ Hands /\ [Next]_vars =>
        [\A f \in Fds : Held(f) /\ Uncrossed(f) =>
            \/ UNCHANGED <<sockfd[f], text[f], desc[f], event[f]>>
            \/ f \notin Open']_vars
  BY <1>1
<1> QED
  BY <1>2, TypesAlways, HandsAlways, PTL DEF Spec, WorkerAlone
-----------------------------------------------------------------------------
(* A reply is on its way out of user[f]: composed and not yet armed, waiting *)
(* for the socket, or about to be written.                                   *)
Replying(f) ==
    \/ armed[f] = "OUT"
    \/ event[f] = "OUT"
    \/ \E w \in Workers : request[w] = f /\ stage[w] = "arm"

(* It was made from requests of the client behind the descriptor only, unless *)
(* that client was given the object in use.                                  *)
ReplyInv ==
    /\ \A f \in Fds : Replying(f) /\ Uncrossed(f) => from[f] \subseteq {desc[f]}
    /\ RightReply

(* No reply begins, and none changes hands. *)
NoNewReply ==
    \A f \in Fds : Replying(f)' /\ Uncrossed(f)' => Replying(f) /\ UNCHANGED desc[f]

LEMMA ReplySame ==
  ASSUME ReplyInv, UNCHANGED <<from, heard>>, crossed \subseteq crossed', NoNewReply
  PROVE  ReplyInv'
  BY DEF ReplyInv, RightReply, NoNewReply, Uncrossed

(* write() on an EPOLLOUT event.                                             *)
LEMMA ReplyWritten ==
  ASSUME Types, Hands, ReplyInv, NEW f \in Fds, event[f] = "OUT", UNCHANGED <<from, crossed>>,
         \/ heard' = heard
         \/ /\ sockfd[f] \in Fds /\ desc[sockfd[f]] \in Clients
            /\ heard' = [heard EXCEPT ![desc[sockfd[f]]] = @ \cup from[f]],
         NoNewReply
  PROVE  ReplyInv'
<1>1. CASE heard' = heard
  BY <1>1, ReplySame
<1>2. CASE /\ sockfd[f] \in Fds /\ desc[sockfd[f]] \in Clients
           /\ heard' = [heard EXCEPT ![desc[sockfd[f]]] = @ \cup from[f]]
  <2>1. sockfd[f] = f /\ heard \in [Clients -> SUBSET Clients]
    BY <1>2, ConnAssumption DEF Types, TableShape, PeerTypes
  <2>2. Uncrossed(f) => from[f] \subseteq {desc[f]}
    BY DEF ReplyInv, Replying
  <2>3. RightReply'
    BY <1>2, <2>1, <2>2 DEF ReplyInv, RightReply, Uncrossed
  <2>4. \A g \in Fds : Replying(g)' /\ Uncrossed(g)' => from'[g] \subseteq {desc'[g]}
    BY DEF ReplyInv, NoNewReply, Uncrossed
  <2> QED
    BY <2>3, <2>4 DEF ReplyInv
<1> QED
  BY <1>1, <1>2

(* Closing ends the reply of that connection and no other.                   *)
LEMMA NoReplyAfterClose ==
  ASSUME Types, Hands, NEW f \in Fds, CloseConn(f),
         event' = [event EXCEPT ![f] = "none"] \/ UNCHANGED event,
         UNCHANGED <<request, stage, crossed>>
  PROVE  NoNewReply
<1> SUFFICES ASSUME NEW g \in Fds, Replying(g)', Uncrossed(g)'
             PROVE  Replying(g) /\ UNCHANGED desc[g]
  BY DEF NoNewReply
<1>0. TableShape
  BY DEF Types
<1>1. CASE desc'[f] = NoClient
  <2>1. g # f
    BY <1>1, ConnAssumption DEF Uncrossed
  <2>2. UNCHANGED <<desc[g], armed[g], event[g]>>
    BY <1>0, <2>1, ConnAssumption DEF CloseConn, Removefd, TableShape
  <2> QED
    BY <2>2 DEF Replying
<1>2. CASE desc'[f] # NoClient
  <2>1. desc' = desc /\ armed' = armed
    BY <1>0, <1>2, ConnAssumption DEF CloseConn, Removefd, TableShape
  <2>2. event'[g] = "OUT" => event[g] = "OUT"
    BY <1>0 DEF TableShape
  <2> QED
    BY <2>1, <2>2 DEF Replying
<1> QED
  BY <1>1, <1>2

(* The main thread's own modfd() ends it too, or leaves it on its way.       *)
LEMMA NoReplyAfterRearm ==
  ASSUME Types, NEW f \in Fds, event[f] = "OUT", NEW ev \in {"IN", "OUT"},
         Modfd(sockfd[f], ev), event' = [event EXCEPT ![f] = "none"],
         UNCHANGED <<request, stage, desc>>
  PROVE  NoNewReply
<1> SUFFICES ASSUME NEW g \in Fds, Replying(g)' PROVE Replying(g)
  BY DEF NoNewReply
<1>1. sockfd[f] \in {f, NoFd} /\ TableShape
  BY DEF Types, TableShape
<1>2. CASE g = f
  BY <1>2 DEF Replying
<1>3. CASE g # f
  BY <1>1, <1>3, ConnAssumption DEF Replying, Modfd, TableShape
<1> QED
  BY <1>2, <1>3

LEMMA NoReplyFrame ==
  ASSUME UNCHANGED <<desc, armed, event, request, stage>> PROVE NoNewReply
  BY DEF NoNewReply, Replying

LEMMA AskersAreTheClient ==
  ASSUME Types, TextInv, NEW f \in Fds, Uncrossed(f)
  PROVE  Askers(f) \subseteq {desc[f]}
<1>1. desc[f] # NoClient
  BY ConnAssumption DEF Uncrossed
<1> QED
  BY <1>1 DEF TextInv, Askers

(* The move of a worker between two places that are not "arm".               *)
LEMMA NoReplyAfterMove ==
  ASSUME Types, NEW w \in Workers, NEW s \in Stages, Goto(w, s),
         UNCHANGED <<desc, armed, event, request>>,
         s = "arm" => ~Uncrossed(request[w])'
  PROVE  NoNewReply
  BY DEF NoNewReply, Replying, Goto, Types, WorkTypes

LEMMA WorkerKeepsReplyInv ==
  ASSUME Types, Hands, TextInv, ReplyInv, NEW w \in Workers, WorkerStep(w)
  PROVE  ReplyInv'
<1>0. /\ TableShape /\ stage \in [Workers -> Stages]
      /\ request \in [Workers -> Fds \cup {NoFd}]
      /\ stage[w] # "idle" => request[w] \in Fds /\ Held(request[w])
  BY BusyWorkerHasObject DEF Types, WorkTypes, Pool!TypeOK
<1>1. CASE WorkerWait(w)
  BY <1>1, ReplySame, NoReplyFrame
     DEF WorkerWait, Pool!Wait, workVars, objVars, mainVars, kernVars, peerVars
<1>2. CASE WorkerTake(w)
  <2>1. NoNewReply
    BY <1>0, <1>2 DEF WorkerTake, Pool!Take, Goto, mainVars, kernVars, Replying, NoNewReply
  <2> QED
    BY <1>2, <2>1, ReplySame DEF WorkerTake, objVars, mainVars, peerVars
<1>3. CASE ProcessRead(w) \/ ComposeFails(w) \/ CountLoad(w)
  <2>1. \E s \in {"compose", "rearm", "test", "store"} : Goto(w, s)
    BY <1>3 DEF ProcessRead, ComposeFails, CountLoad
  <2>2. UNCHANGED <<desc, armed, event, request, from, heard, crossed>>
    BY <1>3 DEF ProcessRead, ComposeFails, CountLoad, poolVars, objVars, mainVars, kernVars,
       peerVars
  <2>3. NoNewReply
    BY <2>1, <2>2, NoReplyAfterMove DEF Stages
  <2> QED
    BY <2>2, <2>3, ReplySame
<1>4. CASE Rearm(w) \/ Arm(w)
  <2>1. ASSUME NEW g \in Fds, Replying(g)' PROVE Replying(g) /\ UNCHANGED desc[g]
    <3>1. CASE armed'[g] = "OUT"
      BY <1>0, <1>4, <2>1, <3>1, ConnAssumption
         DEF Rearm, Arm, Modfd, mainVars, Replying, TableShape
    <3>2. CASE armed'[g] # "OUT"
      BY <1>0, <1>4, <2>1, <3>2, ConnAssumption
         DEF Rearm, Arm, Goto, Pool!Finish, mainVars, Replying
    <3> QED
      BY <3>1, <3>2
  <2> QED
    BY <1>4, <2>1, ReplySame DEF Rearm, Arm, objVars, mainVars, peerVars, NoNewReply
<1>5. CASE Compose(w)
  <2> DEFINE f == request[w]
  <2>1. /\ stage[w] = "compose" /\ f \in Fds
        /\ from' = [from EXCEPT ![f] = Askers(f)]
        /\ stage' = [stage EXCEPT ![w] = "arm"]
        /\ UNCHANGED <<request, event, desc, armed, heard, crossed>>
    BY <1>0, <1>5 DEF Compose, Goto, poolVars, mainVars, kernVars, peerVars
  <2>2. from \in [Fds -> SUBSET Clients]
    BY DEF Types, ObjectTypes
  <2>3. ASSUME NEW g \in Fds, Replying(g)', Uncrossed(g)'
        PROVE  from'[g] \subseteq {desc'[g]}
    <3>0. Uncrossed(g)
      BY <2>1, <2>3 DEF Uncrossed
    <3>1. CASE g = f
      BY <2>1, <2>2, <3>0, <3>1, AskersAreTheClient
    <3>2. CASE g # f
      <4>1. Replying(g)
        BY <1>0, <2>1, <2>3, <3>2 DEF Replying
      <4> QED
        BY <2>1, <2>2, <3>0, <3>2, <4>1 DEF ReplyInv
    <3> QED
      BY <3>1, <3>2
  <2> QED
    BY <2>1, <2>3 DEF ReplyInv, RightReply
<1>6. CASE CloseTest(w) \/ CountStore(w)
  <2> DEFINE f == request[w]
  <2>1. /\ \E s \in {"remove", "arm"} : Goto(w, s)
        /\ UNCHANGED <<desc, armed, event, request, from, heard, crossed>>
    BY <1>6 DEF CloseTest, CountStore, poolVars, objVars, mainVars, kernVars, peerVars
  <2>2. f \in Fds
    BY <1>0, <1>6 DEF CloseTest, CountStore
  <2>3. Goto(w, "arm") => ~Uncrossed(f)'
    <3> SUFFICES ASSUME Goto(w, "arm"), Uncrossed(f)' PROVE FALSE
      OBVIOUS
    <3>1. Single(f) /\ f # NoFd
      BY <2>1, <2>2, ConnAssumption DEF Hands, Uncrossed
    <3>2. CASE CloseTest(w)
      BY <1>0, <3>1, <3>2 DEF CloseTest, Goto, Single
    <3>3. CASE CountStore(w)
      BY <3>1, <3>3 DEF CountStore, Single, NotClosing
    <3> QED
      BY <1>6, <3>2, <3>3
  <2>4. NoNewReply
    BY <2>1, <2>3, NoReplyAfterMove DEF Stages
  <2> QED
    BY <2>1, <2>4, ReplySame
<1>7. CASE CloseRemove(w)
  <2> DEFINE f == request[w]
  <2>1. /\ stage' = [stage EXCEPT ![w] = "reset"] /\ f \in Fds
        /\ Removefd(sockfd[f])
        /\ UNCHANGED <<event, request, from, heard, crossed>>
    BY <1>0, <1>7 DEF CloseRemove, Goto, poolVars, mainVars
  <2>2. ASSUME NEW g \in Fds, Replying(g)', Uncrossed(g)'
        PROVE  Replying(g) /\ UNCHANGED desc[g]
    <3>1. armed'[g] = "OUT" => armed[g] = "OUT"
      BY <1>0, <2>1 DEF Removefd, TableShape
    <3>2. desc'[g] = desc[g]
      BY <1>0, <2>1, <2>2, ConnAssumption DEF Removefd, Uncrossed, TableShape
    <3>3. \A v \in Workers : stage'[v] = "arm" => stage[v] = "arm"
      BY <1>0, <2>1
    <3> QED
      BY <2>1, <2>2, <3>1, <3>2, <3>3 DEF Replying
  <2> QED
    BY <2>1, <2>2, ReplySame DEF NoNewReply
<1>8. CASE CloseReset(w)
  <2>1. /\ Goto(w, "load")
        /\ UNCHANGED <<desc, armed, event, request, from, heard, crossed>>
    BY <1>8 DEF CloseReset, poolVars, mainVars, kernVars, peerVars
  <2>2. NoNewReply
    BY <2>1, NoReplyAfterMove DEF Stages
  <2> QED
    BY <2>1, <2>2, ReplySame
<1> QED
  BY <1>1, <1>2, <1>3, <1>4, <1>5, <1>6, <1>7, <1>8 DEF WorkerStep

LEMMA MainKeepsReplyInv ==
  ASSUME Types, Hands, ReplyInv, MainStep PROVE ReplyInv'
<1>0. TableShape
  BY DEF Types
<1>1. CASE EpollWait
  <2>1. ASSUME NEW f \in Fds, Replying(f)' PROVE Replying(f) /\ UNCHANGED desc[f]
    <3>1. UNCHANGED <<request, stage, desc>>
      BY <1>1 DEF EpollWait, poolVars, workVars
    <3>2. event'[f] = "OUT" => armed[f] = "OUT"
      <4>1. event'[f] = ReadyEvent(f)
        BY <1>1, ConnAssumption DEF EpollWait
      <4>2. ReadyEvent(f) = "OUT" => armed[f] = "OUT"
        BY <1>0 DEF ReadyEvent, TableShape
      <4> QED
        BY <4>1, <4>2
    <3>3. armed'[f] = "OUT" => armed[f] = "OUT"
      BY <1>1 DEF EpollWait
    <3> QED
      BY <2>1, <3>1, <3>2, <3>3 DEF Replying
  <2> QED
    BY <1>1, <2>1, ReplySame DEF EpollWait, objVars, peerVars, NoNewReply
<1>2. CASE Post
  BY <1>2, ReplySame, NoReplyFrame
     DEF Post, Pool!Post, workVars, objVars, mainVars, kernVars, peerVars
<1>3. ASSUME NEW c \in Clients, NEW f \in Fds, Accept(c, f) PROVE ReplyInv'
  <2>1. /\ desc' = [desc EXCEPT ![f] = c]
        /\ armed' = [armed EXCEPT ![f] = "IN"]
        /\ event' = [event EXCEPT ![ListenFd] = "none"]
        /\ UNCHANGED <<request, stage, from, heard>>
        /\ crossed \subseteq crossed'
        /\ InUse(f) => c \in crossed'
    BY <1>3 DEF Accept, Handled, poolVars, workVars
  <2>2. ASSUME NEW g \in Fds, Replying(g)', Uncrossed(g)'
        PROVE  Replying(g) /\ UNCHANGED desc[g]
    <3>1. CASE g = f
      <4>1. ~InUse(f) /\ event'[f] = event[f] /\ armed'[f] = "IN"
        BY <1>0, <2>1, <2>2, <3>1, ConnAssumption DEF Uncrossed, TableShape
      <4> QED
        BY <2>1, <2>2, <3>1, <4>1 DEF Replying, InUse, Held
    <3>2. CASE g # f
      BY <1>0, <2>1, <2>2, <3>2, ConnAssumption DEF Replying, TableShape
    <3> QED
      BY <3>1, <3>2
  <2> QED
    BY <2>1, <2>2, ReplySame DEF NoNewReply
<1>4. ASSUME NEW c \in Clients, NEW f \in Fds, AcceptBusy(c, f) PROVE ReplyInv'
  <2>1. ASSUME NEW g \in Fds, Replying(g)' PROVE Replying(g) /\ UNCHANGED desc[g]
    BY <1>0, <1>4, <2>1, ConnAssumption
       DEF AcceptBusy, Handled, TableShape, Replying, poolVars, workVars, kernVars
  <2> QED
    BY <1>4, <2>1, ReplySame DEF AcceptBusy, objVars, NoNewReply
<1>5. ASSUME NEW f \in Fds, Hangup(f) \/ ReadFails(f) PROVE ReplyInv'
  <2>1. NoNewReply
    BY <1>5, NoReplyAfterClose DEF Hangup, ReadFails, Handled, workVars, poolVars
  <2> QED
    BY <1>5, <2>1, ReplySame DEF Hangup, ReadFails
<1>6. ASSUME NEW f \in Fds, Read(f) \/ ReadRefused(f) PROVE ReplyInv'
  <2>1. /\ UNCHANGED <<request, stage, desc, armed, from, heard, crossed>>
        /\ event' = [event EXCEPT ![f] = "none"]
    BY <1>6 DEF Read, ReadRefused, ReadInto, Handled, Pool!AppendRequest,
       Pool!AppendRefused, Pool!poolVars, workVars, kernVars
  <2>2. NoNewReply
    BY <1>0, <2>1 DEF Replying, TableShape, NoNewReply
  <2> QED
    BY <2>1, <2>2, ReplySame
<1>7. ASSUME NEW f \in Fds, WriteNothing(f) PROVE ReplyInv'
  <2>1. NoNewReply
    BY <1>7, NoReplyAfterRearm DEF WriteNothing, Handled, poolVars, workVars
  <2> QED
    BY <1>7, <2>1, ReplySame DEF WriteNothing, peerVars
<1>8. ASSUME NEW f \in Fds, WritePart(f) PROVE ReplyInv'
  <2>1. NoNewReply
    BY <1>8, NoReplyAfterRearm DEF WritePart, Handled, poolVars, workVars
  <2>2. /\ sockfd[f] \in Fds /\ desc[sockfd[f]] \in Clients
        /\ \/ heard' = heard
           \/ heard' = [heard EXCEPT ![desc[sockfd[f]]] = @ \cup from[f]]
    BY <1>8 DEF WritePart
  <2>3. event[f] = "OUT" /\ UNCHANGED <<from, crossed>>
    BY <1>8 DEF WritePart
  <2> QED
    BY <2>1, <2>2, <2>3, ReplyWritten
<1>9. ASSUME NEW f \in Fds, WriteAll(f) PROVE ReplyInv'
  <2>1. NoNewReply
    <3>1. CASE f \in linger
      <4>1. /\ Modfd(sockfd[f], "IN") /\ event[f] = "OUT"
            /\ event' = [event EXCEPT ![f] = "none"]
            /\ UNCHANGED <<request, stage, desc>>
        BY <1>9, <3>1 DEF WriteAll, Handled, poolVars, workVars
      <4> QED
        BY <4>1, NoReplyAfterRearm
    <3>2. CASE f \notin linger
      BY <1>9, <3>2, NoReplyAfterClose DEF WriteAll, Handled, poolVars, workVars
    <3> QED
      BY <3>1, <3>2
  <2> QED
    BY <1>9, <2>1, ReplyWritten DEF WriteAll, Answer
<1>10. ASSUME NEW f \in Fds, WriteFails(f) PROVE ReplyInv'
  <2>1. NoNewReply
    BY <1>10, NoReplyAfterClose DEF WriteFails, Handled, poolVars, workVars
  <2>2. \/ heard' = heard
        \/ /\ sockfd[f] \in Fds /\ desc[sockfd[f]] \in Clients
           /\ heard' = [heard EXCEPT ![desc[sockfd[f]]] = @ \cup from[f]]
    BY <1>0, <1>10 DEF WriteFails, Answer, TableShape
  <2> QED
    BY <1>10, <2>1, <2>2, ReplyWritten DEF WriteFails
<1>11. ASSUME NEW f \in Fds, WriteSpins(f) PROVE ReplyInv'
  <2>1. NoNewReply
    BY <1>0, <1>11 DEF WriteSpins, Replying, TableShape, kernVars, poolVars, workVars,
       NoNewReply
  <2> QED
    BY <1>11, <2>1, ReplyWritten DEF WriteSpins, Answer
<1> QED
  BY <1>1, <1>2, <1>3, <1>4, <1>5, <1>6, <1>7, <1>8, <1>9, <1>10, <1>11 DEF MainStep

LEMMA ReplyInvNext ==
  ASSUME Types, Hands, TextInv, ReplyInv, [Next]_vars PROVE ReplyInv'
<1>1. CASE UNCHANGED vars
  BY <1>1, ReplySame, NoReplyFrame
     DEF vars, poolVars, workVars, objVars, mainVars, kernVars, peerVars
<1>2. ASSUME NEW c \in Clients, ClientStep(c) PROVE ReplyInv'
  BY <1>2, ReplySame, NoReplyFrame
     DEF ClientStep, Connect, Send, Drain, Leave, poolVars, workVars, objVars, mainVars,
         kernVars
<1>3. ASSUME NEW f \in Fds, HeartbeatExpires(f) PROVE ReplyInv'
  <2>1. NoNewReply
    BY <1>3, NoReplyAfterClose DEF HeartbeatExpires, workVars, poolVars
  <2> QED
    BY <1>3, <2>1, ReplySame DEF HeartbeatExpires
<1> QED
  BY <1>1, <1>2, <1>3, MainKeepsReplyInv, WorkerKeepsReplyInv DEF Next

(* Nobody whose object was free when it was accepted gets an answer to       *)
(* somebody else's request: whatever was left in the object by the client    *)
(* that had the descriptor before, the bytes written to a client are made    *)
(* from its own requests.                                                    *)
THEOREM RepliesGoToTheirClients == Spec => []RightReply
<1>1. Init => ReplyInv
  <2> SUFFICES ASSUME Init PROVE ReplyInv
    OBVIOUS
  <2>1. \A f \in Fds : from[f] = {}
    BY DEF Init
  <2> QED
    BY <2>1 DEF Init, ReplyInv, RightReply
<1>2. ReplyInv => RightReply
  BY DEF ReplyInv
<1> QED
  BY <1>1, <1>2, ReplyInvNext, TypesAlways, HandsAlways, TextInvAlways, PTL DEF Spec
=============================================================================
