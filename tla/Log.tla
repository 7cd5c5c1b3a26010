-------------------------------- MODULE Log --------------------------------
(***************************************************************************)
(* The logger (log/Log.cpp): any thread formats a line and pushes it onto   *)
(* _logQueue, a BlockQueue; one thread pops the lines and writes them to a   *)
(* file, which it replaces when it is full or the day has changed; main      *)
(* stops it at the end.  The lines are numbered in the order in which the    *)
(* queue accepted them.                                                      *)
(***************************************************************************)
EXTENDS Integers, Sequences, FiniteSets

CONSTANTS
    Writer,        \* the thread that runs threadFunc
    Main,          \* the thread that calls stop()
    NoBody,        \* owner of a free mutex
    NoFile,        \* the null FILE*
    MaxLines,      \* _maxLines
    QueueSize,     \* maxQueueSize
    CreateMayFail, \* fopen may fail
    MaxMessages,   \* bound: lines accepted by the queue
    MaxDays        \* bound: days the server runs

Messages == 1..MaxMessages

ASSUME LogAssumption ==
    /\ MaxLines \in Nat /\ MaxLines > 2 /\ QueueSize \in Nat \ {0}
    /\ MaxMessages \in Nat /\ MaxDays \in Nat \ {0}
    /\ CreateMayFail \in BOOLEAN
    /\ Writer # Main /\ NoBody \notin {Writer, Main}
    /\ NoFile \notin Nat \X Nat

VARIABLES
    array, size, front, back, exiting, mutex, at, timed, item, quitting,
    accepted,      \* lines the queue has accepted
    lock,          \* who holds Log::_mutex
    quit,          \* _quit
    writer,        \* where threadFunc is
    line,          \* its string s; 0 when pop() returned false
    stopper,       \* where stop() is
    file,          \* _fp, as the <<day, index>> of its name
    file_idx,      \* _fileIdx
    line_counts,   \* _lineCounts
    today,         \* _today
    files,         \* files[name]: the lines in the file, as far as they exist
    day,           \* the calendar
    written        \* the lines written, in order

queueVars == <<array, size, front, back, exiting, mutex, at, timed, item, quitting>>
fileVars == <<file, file_idx, line_counts, today, files, written>>
vars == <<queueVars, accepted, lock, quit, writer, line, stopper, fileVars, day>>

Queue == INSTANCE BlockQueue
    WITH Values <- Messages, NoValue <- 0, Consumers <- {Writer},
         Nobody <- NoBody, MaxSize <- QueueSize

HeaderLines == 2
FirstFree(d, idx, existing) ==
    CHOOSE i \in idx..(idx + Cardinality(existing)) :
        /\ <<d, i>> \notin existing
        /\ \A j \in idx..(i - 1) : <<d, j>> \in existing
NewFile(name) ==
    [n \in DOMAIN files \cup {name} |-> IF n = name THEN HeaderLines ELSE files[n]]

(* init() after the first creatFile(), and start(). *)
Init ==
    /\ Queue!Init
    /\ accepted = 0
    /\ lock = NoBody
    /\ quit = FALSE
    /\ writer = "test" /\ line = 0
    /\ stopper = "running"
    /\ file = <<1, 1>> /\ file_idx = 1 /\ line_counts = HeaderLines /\ today = 1
    /\ files = [n \in {<<1, 1>>} |-> HeaderLines]
    /\ day = 1
    /\ written = <<>>
-----------------------------------------------------------------------------
(* Any thread: writeLog(). *)
WriteLog ==
    /\ accepted < MaxMessages
    /\ Queue!Push(accepted + 1)
    /\ accepted' = accepted + 1
    /\ UNCHANGED <<lock, quit, writer, line, stopper, fileVars, day>>

WriteLogFull ==
    /\ Queue!PushFull
    /\ UNCHANGED <<accepted, lock, quit, writer, line, stopper, fileVars, day>>

NextDay ==
    /\ day < MaxDays
    /\ day' = day + 1
    /\ UNCHANGED <<queueVars, accepted, lock, quit, writer, line, stopper, fileVars>>
-----------------------------------------------------------------------------
(* The writer thread. *)

WriterTest ==
    /\ writer = "test"
    /\ writer' = IF quit THEN "done" ELSE "pop"
    /\ UNCHANGED <<queueVars, accepted, lock, quit, line, stopper, fileVars, day>>

(* pop() returns true, and s is the line; its result is not looked at. *)
WriterPops ==
    /\ writer = "pop"
    /\ Queue!PopAtOnce(Writer) \/ Queue!WakeTake(Writer)
    /\ line' = item'[Writer]
    /\ writer' = "check"
    /\ UNCHANGED <<accepted, lock, quit, stopper, fileVars, day>>

(* pop() returns false, and s is still empty. *)
WriterReleased ==
    /\ writer = "pop"
    /\ Queue!WakeExit(Writer)
    /\ line' = 0
    /\ writer' = "check"
    /\ UNCHANGED <<accepted, lock, quit, stopper, fileVars, day>>

WriterWaits ==
    /\ writer = "pop"
    /\ Queue!PopEmpty(Writer, FALSE) \/ Queue!Sleep(Writer) \/ Queue!WakeEmpty(Writer)
    /\ UNCHANGED <<accepted, lock, quit, writer, line, stopper, fileVars, day>>

WriterWakes ==
    /\ Queue!Spurious(Writer)
    /\ UNCHANGED <<accepted, lock, quit, writer, line, stopper, fileVars, day>>

(* Mutated: off by one; the name is not looked up. *)
NeedsFileLate == line_counts > MaxLines \/ day # today
CreatFileSameIndex ==
    /\ file' = <<day, file_idx>>
    /\ file_idx' = file_idx
    /\ files' = NewFile(file')
    /\ today' = day

NeedsFile == line_counts >= MaxLines \/ day # today

(* creatFile(): the first name that is not there yet. *)
CreatFile ==
    /\ file_idx' = FirstFree(day, file_idx, DOMAIN files)
    /\ file' = <<day, file_idx'>>
    /\ files' = NewFile(file')
    /\ today' = day

(* writeToFile(), under _mutex: the file is good, is replaced, or cannot be   *)
(* replaced; then it returns with the mutex locked.                           *)
KeepFile ==
    /\ writer = "check" /\ lock = NoBody
    /\ ~NeedsFile
    /\ writer' = "put"
    /\ UNCHANGED <<queueVars, accepted, lock, quit, line, stopper, fileVars, day>>

ReplaceFile ==
    /\ writer = "check" /\ lock = NoBody
    /\ NeedsFile
    /\ CreatFile
    /\ line_counts' = HeaderLines
    /\ writer' = "put"
    /\ UNCHANGED <<queueVars, accepted, lock, quit, line, stopper, day, written>>

ReplaceFails ==
    /\ writer = "check" /\ lock = NoBody
    /\ NeedsFile /\ CreateMayFail
    /\ file_idx' = FirstFree(day, file_idx, DOMAIN files)
    /\ today' = day
    /\ file' = NoFile
    /\ lock' = Writer
    /\ writer' = "test"
    /\ UNCHANGED <<queueVars, accepted, quit, line, stopper, line_counts, files,
                   day, written>>

(* fputs() outside the mutex, flush(), and round again. *)
PutLine ==
    /\ writer = "put"
    /\ files' = IF line # 0 THEN [files EXCEPT ![file] = @ + 1] ELSE files
    /\ written' = IF line # 0 THEN Append(written, line) ELSE written
    /\ line_counts' = line_counts + 1
    /\ writer' = "test"
    /\ UNCHANGED <<queueVars, accepted, lock, quit, line, stopper, file, file_idx,
                   today, day>>
-----------------------------------------------------------------------------
(* stop(), by main. *)

StopLock ==
    /\ stopper = "running" /\ lock = NoBody
    /\ lock' = Main
    /\ quit' = TRUE
    /\ stopper' = "quit"
    /\ UNCHANGED <<queueVars, accepted, writer, line, fileVars, day>>

StopQuits ==
    /\ stopper = "quit"
    /\ Queue!QuitFlag
    /\ stopper' = "broadcast"
    /\ UNCHANGED <<accepted, lock, quit, writer, line, fileVars, day>>

StopUnlocks ==
    /\ stopper = "broadcast"
    /\ Queue!QuitBroadcast
    /\ lock' = NoBody
    /\ stopper' = "join"
    /\ UNCHANGED <<accepted, quit, writer, line, fileVars, day>>

StopReturns ==
    /\ stopper = "join" /\ writer = "done"
    /\ stopper' = "stopped"
    /\ UNCHANGED <<queueVars, accepted, lock, quit, writer, line, fileVars, day>>

WriterStep ==
    \/ WriterTest \/ WriterPops \/ WriterReleased \/ WriterWaits
    \/ KeepFile \/ ReplaceFile \/ ReplaceFails \/ PutLine

Stop == StopLock \/ StopQuits \/ StopUnlocks \/ StopReturns

Next == WriteLog \/ WriteLogFull \/ NextDay \/ WriterWakes \/ WriterStep \/ Stop

Spec == Init /\ [][Next]_vars

(* The writer and a stop() that has begun are scheduled; whether stop() is   *)
(* called, lines are logged or days pass is up to others.                     *)
FairSpec ==
    /\ Spec
    /\ SF_vars(WriterStep)
    /\ WF_vars(StopQuits \/ StopUnlocks \/ StopReturns)
-----------------------------------------------------------------------------
(* The variables have their types. *)
TypeOK ==
    /\ Queue!TypeOK
    /\ accepted \in 0..MaxMessages
    /\ lock \in {NoBody, Writer, Main}
    /\ quit \in BOOLEAN
    /\ writer \in {"test", "pop", "check", "put", "done"}
    /\ line \in 0..MaxMessages
    /\ stopper \in {"running", "quit", "broadcast", "join", "stopped"}
    /\ file \in DOMAIN files \cup {NoFile}
    /\ file_idx \in Nat \ {0} /\ today \in 1..day /\ day \in 1..MaxDays
    /\ line_counts \in HeaderLines..MaxLines
    /\ written \in Seq(Messages)

(* Lines reach the files in the order they were accepted in, each of them    *)
(* once; between the queue and the file there is at most the writer's own,   *)
(* and none is lost while a file is open.                                     *)
InHand == IF writer \in {"check", "put"} /\ line # 0 THEN <<line>> ELSE <<>>
InOrder ==
    file # NoFile => written \o InHand \o Queue!Contents = [i \in 1..accepted |-> i]

(* The lines behind the headers, each by its file and its place there.        *)
LinesInFiles == UNION {{n} \X ((HeaderLines + 1)..files[n]) : n \in DOMAIN files}

(* No file is ever written over: there are as many lines as were written.    *)
(* And (log/日志的设计.md, requirement 5) when a file has the maximum of lines,  *)
(* another is begun.                                                          *)
FilesKept ==
    /\ Cardinality(LinesInFiles) = Len(written)
    /\ \A n \in DOMAIN files : files[n] <= MaxLines

(* log/日志的设计.md, requirement 1: a line the queue has accepted gets to its  *)
(* file in time, unless the logger is stopped or can open no file.            *)
LinesAreWritten ==
    \A k \in Messages :
        accepted >= k ~> (Len(written) >= k \/ quit \/ file = NoFile)

(* main.cpp:163: the server closes gracefully, so stop() gets to its end.    *)
StopEnds == stopper = "quit" ~> stopper = "stopped"
=============================================================================
