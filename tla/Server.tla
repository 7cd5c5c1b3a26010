------------------------------- MODULE Server -------------------------------
(***************************************************************************)
(* The life of main() (main.cpp) around the event loop, with the signals      *)
(* (signal/SignalHandler.hpp) and the logger: a handler sends the number of   *)
(* the signal through a socket pair, main receives one byte of it per batch   *)
(* of events, ticks and sets the alarm anew when the batch is done, or leaves  *)
(* the loop and stops the logger.  The other events of a batch are those of    *)
(* Connections.                                                               *)
(***************************************************************************)
EXTENDS Log

CONSTANT MaxInterrupts    \* bound: how often ctrl-C is pressed

ASSUME ServerAssumption == MaxInterrupts \in Nat

VARIABLES
    armed,         \* an alarm() is running
    pipe,          \* the bytes in the socket pair
    interrupts,    \* SIGINTs so far
    mainAt,        \* where main is
    signalled,     \* the batch holds an event of the socket pair to come
    timeout, stop  \* main's flags

loopVars == <<armed, pipe, interrupts, mainAt, signalled, timeout, stop>>
serverVars == <<vars, loopVars>>

ServerInit ==
    /\ Init
    /\ armed = TRUE /\ pipe = <<>> /\ interrupts = 0
    /\ mainAt = "wait" /\ signalled = FALSE
    /\ timeout = FALSE /\ stop = FALSE

(* sigHandler(), in whatever thread. *)
AlarmFires ==
    /\ armed
    /\ armed' = FALSE
    /\ pipe' = Append(pipe, "SIGALRM")
    /\ UNCHANGED <<vars, interrupts, mainAt, signalled, timeout, stop>>

Interrupt ==
    /\ interrupts < MaxInterrupts
    /\ interrupts' = interrupts + 1
    /\ pipe' = Append(pipe, "SIGINT")
    /\ UNCHANGED <<vars, armed, mainAt, signalled, timeout, stop>>

(* epoll_wait() returns with what is ready, or with EINTR and nothing; the    *)
(* socket pair is level-triggered.                                            *)
EpollWait ==
    /\ mainAt = "wait"
    /\ mainAt' = "batch"
    /\ signalled' \in {FALSE, pipe # <<>>}
    /\ UNCHANGED <<vars, armed, pipe, interrupts, timeout, stop>>

(* Mutated: all the bytes are received and one is looked at. *)
RecvSignals ==
    /\ mainAt = "batch" /\ signalled
    /\ signalled' = FALSE
    /\ pipe' = <<>>
    /\ timeout' = (timeout \/ Head(pipe) = "SIGALRM")
    /\ stop' = (stop \/ Head(pipe) = "SIGINT")
    /\ UNCHANGED <<vars, armed, interrupts, mainAt>>

RecvSignal ==
    /\ mainAt = "batch" /\ signalled
    /\ signalled' = FALSE
    /\ pipe' = Tail(pipe)
    /\ timeout' = (timeout \/ Head(pipe) = "SIGALRM")
    /\ stop' = (stop \/ Head(pipe) = "SIGINT")
    /\ UNCHANGED <<vars, armed, interrupts, mainAt>>

(* Mutated: after a tick the flag stays. *)
EndBatchKeepsTimeout ==
    /\ mainAt = "batch" /\ ~signalled
    /\ armed' = (armed \/ timeout)
    /\ mainAt' = IF stop THEN "close" ELSE "wait"
    /\ UNCHANGED <<vars, pipe, interrupts, signalled, timeout, stop>>

(* tick() and alarm(), when it is time, and the loop's condition. *)
EndBatch ==
    /\ mainAt = "batch" /\ ~signalled
    /\ armed' = (armed \/ timeout)
    /\ timeout' = FALSE
    /\ mainAt' = IF stop THEN "close" ELSE "wait"
    /\ UNCHANGED <<vars, pipe, interrupts, signalled, stop>>

(* close(epollfd), close(listenfd), and then stop(). *)
CloseSockets ==
    /\ mainAt = "close"
    /\ mainAt' = "stop"
    /\ UNCHANGED <<vars, armed, pipe, interrupts, signalled, timeout, stop>>

MainStep == RecvSignal \/ EndBatch \/ CloseSockets

Logging(A) == A /\ UNCHANGED loopVars
LoggedByAny == WriteLog \/ WriteLogFull \/ NextDay \/ WriterWakes
StopGoesOn == StopQuits \/ StopUnlocks \/ StopReturns

ServerNext ==
    \/ AlarmFires \/ Interrupt
    \/ EpollWait \/ MainStep
    \/ Logging(LoggedByAny) \/ Logging(WriterStep)
    \/ mainAt = "stop" /\ Logging(Stop)

ServerSpec == ServerInit /\ [][ServerNext]_serverVars

(* Besides what Log assumes: an alarm fires, an event that stays ready is      *)
(* reported, and main goes on.                                                *)
ServerFairSpec ==
    /\ ServerSpec
    /\ WF_serverVars(AlarmFires)
    /\ SF_serverVars(EpollWait /\ signalled')
    /\ WF_serverVars(EpollWait) /\ WF_serverVars(MainStep)
    /\ SF_serverVars(Logging(WriterStep))
    /\ WF_serverVars(mainAt = "stop" /\ Logging(StopGoesOn))
-----------------------------------------------------------------------------
(* The variables have their types, and the logger is stopped by main alone.  *)
ServerTypeOK ==
    /\ TypeOK
    /\ armed \in BOOLEAN /\ timeout \in BOOLEAN /\ stop \in BOOLEAN
    /\ pipe \in Seq({"SIGALRM", "SIGINT"}) /\ Len(pipe) <= MaxInterrupts + 1
    /\ interrupts \in 0..MaxInterrupts
    /\ mainAt \in {"wait", "batch", "close", "stop"}
    /\ signalled \in BOOLEAN /\ (signalled => pipe # <<>>)
    /\ stopper # "running" => mainAt = "stop" /\ stop

(* main.cpp:204: the ticks are a chain, each of which sets the next alarm.    *)
(* While main is in the loop there is one link, never two and never none: an    *)
(* alarm that runs, its byte in the socket pair, or main's flag.               *)
OneTick ==
    LET alarms == Cardinality({i \in DOMAIN pipe : pipe[i] = "SIGALRM"}) IN
    mainAt \in {"wait", "batch"} =>
        alarms + (IF armed THEN 1 ELSE 0) + (IF timeout THEN 1 ELSE 0) = 1

(* main.cpp:123 and 163: a ctrl-C leads out of the loop, and an alarm to a    *)
(* tick, whatever other signals and events there are.                          *)
SignalsAreHeard ==
    /\ (\E i \in DOMAIN pipe : pipe[i] = "SIGINT") ~> mainAt = "stop"
    /\ armed ~> (timeout \/ mainAt = "stop")
=============================================================================
