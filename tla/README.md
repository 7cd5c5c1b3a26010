# DzWeb in TLA+

DzWeb is an HTTP server in C++: one main thread around `epoll_wait`, a pool of
worker threads that parse requests and compose replies, a heap of heartbeats
that closes idle connections, an asynchronous logger, and a pool of MySQL
connections for the POST handlers. This directory holds TLA+ modules of the
parts of it in which order, sharing and reuse decide about correctness, the TLC
configurations that check them on small instances, and proofs for TLAPS of what
holds for every size.

## 1. Inventory

| component | source | state | operations |
|---|---|---|---|
| thread pool | `threadpool/threadpool.h`, `locker/` | `_workqueue`, `_queuestat` | `append` (main), `run` (workers) |
| event loop and connections | `main.cpp`, `http/http_conn.*` | one `http_conn` per descriptor number, `_user_count`, the epoll registrations | accept, hang-up, `read`, `write`, tick (main); `process` (workers) |
| timer | `timer/Timer.*`, `timer/Event.hpp` | `_heap`, `_pos` and `_time` of every event | `addTimer`, `delTimer`, `popTimer`, `adjustTimer`, `extendTime`, `tick` |
| heartbeats | `main.cpp`, `http_conn::init` | `_event` of every object, the timer | how main calls the timer |
| response writer | `http_conn::process_write`, `write` | `_iv`, `_iv_count`, `_byte_hava_send`, `_byte_to_send` | compose, `writev` and advance |
| blocking queue | `locker/BlockQueue.h` | a ring, `_mutex`, `_cond`, `_exit` | `push`, `pop`, `pop(timeout)`, `clear`, `quit` |
| logger | `log/Log.*` | a BlockQueue, `_fp`, `_fileIdx`, `_lineCounts`, `_today`, `_quit`, `_mutex` | `writeLog` (anyone), `threadFunc` (its thread), `stop` (main) |
| database connections | `sql/SqlConnectionPool.*` | a BlockQueue of `MYSQL*`, two counters, `_lock` | guard and `~guard` (workers), the destructor |
| request parser | `http_conn::read`, `parse_*`, `process_read`, `do_request`, `init` | `_read_buf`, `_read_idx`, `_checked_idx`, `_start_line`, `_check_state`, what the head said, `_content_buffer` | `read` (main), `process_read` (workers), `init` |
| form parser | `FormParser/` | `_pos`, `_lastBoundaryFound`, within one call | `parse` |
| POST handlers | `PostSolver/`, `sql/DataBase.*` | the table `DZmessage`, the image files, one database connection each | `Login`, `Upload`, `Search` (workers) |
| signals, shutdown | `signal/SignalHandler.hpp`, `main.cpp` | the socket pair, the alarm, `timeout`, `stop_server` | the handler (any thread), `recv`, tick and `alarm`, the end of `main` |
| `MinHeap.hpp`, `test.cpp` | | | unused; manual |

How they interact. Main and the workers share the `http_conn` objects. The only
thing that keeps them apart is EPOLLONESHOT: an event disarms a descriptor, main
hands the object to the pool through `append`, and the worker arms the
descriptor again at the end of `process`. The timer belongs to main; its
callbacks close connections. Workers call the connection pool for POST
requests, for which it parses the body, queries the database and saves files
before it gives the connection back; everybody calls the logger. The logger and
the connection pool are both built on BlockQueue. Signals reach main as bytes of
a socket pair, beside the other events of a batch.

What is hard: descriptor numbers, and with them objects, are reused at once;
`append` posts after unlocking; the heartbeat may close what a worker has;
`_user_count` has no lock; `_pos` is believed when it is stale or never
initialised; a reply may leave in any number of pieces and the arithmetic for
it is by hand; a request is parsed while it arrives, in pieces cut anywhere, into
an object that has parsed others; `quit()` takes no mutex; a destructor pops with
a lock held; uploads test and insert in two queries and save behind them; each
tick must set the next alarm, once.
`PROJECT.json` lists these hazards at their lines, with the properties that
would see them go wrong.

What makes each part correct: the pool loses no request and starts them in
order; a connection has one holder at a time, gets the replies to its own
requests, and is forgotten by nobody; the count and the limit of connections
are exact; the heap is a set of deadlines; a heartbeat fires exactly when no
data has flowed for a lease (the last three are not so in every case, and
section 3 says in which); what a client receives is a beginning of the reply;
the queue is one FIFO without lost wake-ups; each accepted line is written
once, in order; a database connection has one user; the verdict on a request and
the items of a form depend on the bytes alone; every row has its picture; the
ticks are one unbroken chain, and a ctrl-C is heard.

## 2. Modules

| module | is about | extends / instantiates |
|---|---|---|
| `TaskQueue` | what the pool promises: a work-conserving bounded FIFO | |
| `ThreadPool` | `append` and `run`, one action per stretch between two synchronisations | refines `TaskQueue` |
| `ThreadPoolProofs` | its invariants and the refinement, proved | extends `ThreadPool` |
| `Connections` | main, the objects, epoll, the clients and `process` in the workers | `Pool == INSTANCE ThreadPool` |
| `ConnectionsProofs` | its invariants, proved | extends `Connections` |
| `Deadlines` | what `Timer.h` promises: pending events and their times | |
| `Timer` | the heap with positions, as operators, and its use as documented | refines `Deadlines` |
| `Heartbeat` | its use by main and `http_conn` | extends `Timer` |
| `TimerProofs` | the heap, the refinement and the heartbeats, proved | extends `Heartbeat` |
| `ResponseWriter` | the iovecs of a reply, byte by byte | |
| `ResponseWriterProofs` | its invariants, proved | extends `ResponseWriter` |
| `BoundedFifo` | what BlockQueue promises | |
| `BlockQueue` | the ring, its mutex and its condition variable | refines `BoundedFifo` |
| `BlockQueueProofs` | its invariants and the refinement, proved | extends `BlockQueue` |
| `Log` | the logger | `Queue == INSTANCE BlockQueue` |
| `Server` | main around the event loop, the signals and `Log::stop` | extends `Log` |
| `ServerProofs` | the invariants of both, proved | extends `Server`, `QP == INSTANCE BlockQueueProofs` |
| `ConnectionPool` | the database connections | `Queue == INSTANCE BlockQueue` |
| `PostHandlers` | the POST requests that use them | extends `ConnectionPool` |
| `PostHandlersProofs` | the invariants of both, proved | `QP == INSTANCE BlockQueueProofs` |
| `FormParser` | `FormDataParser::parse`, as operators | |
| `HttpParser` | a request from the socket to `do_request` | extends `FormParser` |
| `HttpParserProofs` | its invariants, the one about forms among them, proved | extends `HttpParser` |
| `MC...` | symmetry, views and the requests TLC tries | |

State and actions correspond to the code as follows; `PROJECT.json`, "map",
gives the lines of every definition.

* **ThreadPool.** `workqueue` is `_workqueue`, `queuestat` the value of the
  semaphore, `posting` the gap between `unlock()` and `post()`. `at[w]` is where a
  worker is in `run()`. What happens under `_queuelocker` is one step. `WaitFails`
  is a `sem_wait` that returns an error, which `run()` ignores; `Connections`
  instantiates it out (`MaxPermits <- 0`), since the handlers are installed with
  SA_RESTART.
* **Connections.** An object, its descriptor and its epoll entry share the name
  `f`. `event[f]` is what the current batch of `epoll_wait` still holds for `f`;
  main's handlers are one action each, as nothing but the workers runs beside
  them and these are kept from the object by what `OneHolder` says. The exception
  is `append`, whose `post()` is a step of its own. `process()` is cut where
  another thread may matter: after reading, composing, each statement of
  `close_conn`, the load and the store of `_user_count--`, and `modfd`. Main's own
  `++` and `--` are single steps: where one falls between a worker's load and store, either
  of the two may be lost (`CountStore`). Data is
  abstracted to pieces: a request is some pieces "more" and one "last", each
  marked with its client; a reply is `ReplySize` pieces marked with the clients
  whose requests it was made from. `residue` and `WriteSpins` are what
  `ResponseWriter` shows in detail. The read buffer and the content buffer are
  one `text`. A heartbeat may fire at any time between two batches
  (`HeartbeatExpires`); `Heartbeat` says when. Two variables are history:
  `crossed`, the clients whom `accept` gave an object that was still in somebody's
  hands (`InUse`), and `miscounted`, that a `++` or `--` of `_user_count` was lost, or
  a `--` made twice for one closing.
* **Timer, Heartbeat.** A timer is a record of heap and positions, and each
  member function is an operator on it; loops are recursive functions of the
  timer and a position in it (`Places`). Times are modulo `Width`. In `Heartbeat` every call main makes to the timer within a
  handler is part of one action. `Garbage` is what an uninitialised `_pos`, an `int`,
  may be. A negative one passes the tests of `adjustTimer`, which then assigns to
  `_heap[_pos]` (`WritesBeforeHeap`): the model notes it in `wild` and ends there.
* **ResponseWriter.** A byte is its address (region and offset), so that a byte
  skipped, repeated or from outside the reply is seen. `Writev(k)` is one turn of
  the loop in `write()`. `residue` is what `_byte_to_send` was before the reply was
  added to it, and `Expected` what `write()` takes the reply to be: with a body, that
  many bytes behind it are sent, too.
* **BlockQueue.** A member function that locks, works and unlocks is a step;
  `pop()` keeps the mutex from its test of `_size` to its sleep; `quit()` is two
  steps without mutex. Spurious wake-ups are allowed.
* **Log, ConnectionPool.** Their queue actions are those of `BlockQueue`,
  conjoined with what the caller does next.
* **Server.** `pipe` is what the signal handler has sent and main has not
  received. `EpollWait` reports the socket pair or, with other events or EINTR, does
  not; it is level-triggered, so that what one batch leaves is reported again.
  `RecvSignal` is the branch of main for it, which receives one byte;
  `EndBatch` is the tick and the `alarm` behind the batch and the loop's condition. What a
  tick closes is in `Connections` and `Heartbeat`.
* **PostHandlers.** `Begin` is the end of the guard's constructor and the choice of
  the handler by `_url`, `End` the push in `~ConnectionGuard`. In between, each query and each file operation is a step: other workers,
  with other connections, run between them. A path is the microsecond it was
  made from, any of `Times`: two workers may read the same, and the clock may be
  set back. `rows`, `images` and `lost` are outside the program; `DataBase`'s `query()`
  and `execute()` succeed or throw (`DatabaseFails`, which is caught), and `Throw`
  is what is not caught: it ends the process. The pages are left out.
* **HttpParser.** Bytes are tokens: CR, LF, the words a line may begin with, and
  stretches without either. `Read(k)` is `read()` of whatever part of the request has
  arrived; between two of them the worker runs one action per turn of the loop in
  `process_read()`. `parse_line` is the operators `Mark` and `LineOK`. `Reset` is
  `init()`, for the next request of the same client or of another on the same
  object, with any request next. In `do_request()` the body of a POST goes through
  `FormParser`. `Overrun` is the `memcpy` of `parse_content()` when more came behind
  the head than was announced: it writes behind `_content_buffer`, and the model ends
  there.
* **FormParser.** `NextLine` is `getNextLine()`; the loops that look for a line are
  minima over the lines' starts; `Items` is `parse()`, whose loop is a recursive
  function of `_pos`, and `Behind` is where the loop goes on, or `atEndOfData()`.
  `IsForm` says what a client encodes: where in the body the boundary lines are
  (`request.at`) and that a part is between each two of them, as far as the body goes,
  and that no other line is a boundary, which RFC 2046 asks of the client that
  chooses the boundary.

Operators marked "Mutated" are deliberate errors of the definition that follows
them. No specification uses them; they show that the properties notice.

## 3. Runs

Passing runs:

| run | shows | instance |
|---|---|---|
| `pool` | `TypeOK`, `WakeupPerRequest`, refinement of `TaskQueue` with its fairness | 2 workers, 2 requests, list of 3, failing `sem_wait` |
| `conn` | `RightReply`, `NobodyCrossed`, `RequestAnswered` while heartbeats spare busy objects and `process_write` succeeds | 2 clients, 3 descriptors, 2 workers, requests of up to 2 pieces; 399,877 states |
| `conn_compose` | `TypeOK`, `NoEmptyHands`, `NoneForgotten`, `ObjectOwnsDescriptor`, `OneHolder`, `CountExact`, `WorkerAlone` under every condition | 3 clients, 3 descriptors, 2 workers, MAX_FD 2, a list of 2, pieces, buffer and reply of 1, heartbeats on busy objects, failing `process_write`, one-block replies; 3,715,377 states |
| `timer` | `TypeOK`, refinement of `Deadlines` | 6 events (three levels), a clock of 3, lease 1 |
| `heartbeat` | `HeartbeatTypeOK`, `SoundUntilWild` (positions and order), `TickExact`, `TickClosesTheIdle` | 2 connections, 4 events, `_pos` from {-1, 0, 1, 9}; 556,975 states |
| `writer` | `TypeOK`, `WirePrefix` (with the countdown of `_byte_to_send`), `OffersTheRest`, `WriteReturns` | heads of 1, 3 and 4 bytes, bodies of 0, 1 and 3, two stops inside a head, replies on top of unfinished ones; 73,865 states |
| `sqlpool` | `PostTypeOK`, `OneUser`, `CountsSettle`, `QueueSound`, `CopiesBounded`, `RowsHaveImages`, `ConnectionsInTurn` (refinement of `BoundedFifo` in use) | 3 workers, 2 database connections, 1 name, 2 times, counters modulo 8; 5,841,179 states |
| `log` | `ServerTypeOK`, `InOrder`, `FilesKept`, `OneTick`, `LinesAreWritten`, `SignalsAreHeard` | 6 lines, 2 days, files of 4 lines (2 are a header), queue of 2, 2 ctrl-C, failing `fopen`; 39,987 states |
| `request` | `TypeOK`, `VerdictOfBytes`, `FitsIsRead`, `FormOfBody` | heads of up to 3 lines with good and broken ends, bodies longer than announced, forms of 0 to 2 parts whole and cut off, two boundaries, a buffer of 22 tokens, every cut; 57,175 states |

Runs that TLC finds violated: what a comment or a document says and the code does
not do (`PROJECT.json`, "findings", quotes the lines).

| run | what TLC shows |
|---|---|
| `conn_two_threads` | `OneThreadPerConnection`: a heartbeat closes a busy object, its descriptor is reused, and two workers process it |
| `heartbeat_early` | `ClosesOnlyIdle`: an event left behind closes an active connection. In TLC's trace it is the one that `init()` replaced after a keep-alive reply; one that a hang-up leaves (`CloseOnly`) does the same to the next connection of the descriptor |
| `log_stop` | `StopEnds`, in `Server` after a ctrl-C: `quit()` misses the writer on its way to sleep, and main waits in `Log::stop()` for ever |

Further configurations, with the same modules, that are not runs of
`PROJECT.json`. TLC refutes every property of each (where there are several, with
`tlc -continue`, or one at a time); they mark the edge of what the runs above claim.

| configuration | what TLC shows |
|---|---|
| `MCThreadPoolLimit` | `AtMostMaxRequestsWait`: max_requests + 1 requests wait (`threadpool.h:14` promises max_requests) |
| `MCConnectionsCount` | `EveryUserCounted`: `_user_count--` in a worker loses main's update (`http_conn.cpp:90`) |
| `MCConnectionsLost` | `OpenIsHeld`: a worker in `close_conn()` has closed the descriptor, main accepts it again and initialises the object, and the worker sets `_sockfd` to -1 (`http_conn.cpp:89`): nobody reads, writes or closes the new connection any more |
| `MCTimerWrap` | `ExtendsForward`: near the wrap of the 32-bit clock, extending an event makes it expire (`Timer.cpp:126`) |
| `MCHeartbeatLost` | `HasHeartbeat`: `extendTime` after `delTimer` (`main.cpp:194`-`197`) overwrites another connection's event |
| `MCResponseWriterCuts` | `SendsTheReply`: a head cut twice by `writev` reaches the client with bytes missing (`http_conn.cpp:518`) |
| `MCResponseWriterStale` | `AllSentIsNoticed`: `_byte_to_send` survives an unfinished reply; the next is sent and `write()` does not return |
| `MCConnectionPoolClose` | `DestructorEnds`: the destructor sleeps in `pop()` with the lock the workers need |
| `MCConnectionPoolCount` | `FreeIsInRange`: `_freeConn` passes below zero |
| `MCPostHandlersEdges` | `NoDuplicates`: two uploads of one name both find it absent (`PostSolver.cpp:157` says it is tested first); `NamesDoNotRepeat`: two uploads in one microsecond write one file (the same line says the time prevents it); `FoundIsThere`: a search shows a picture that is not saved yet, or never will be |
| `MCHttpParserEdges` | `BodyHasItsOwnBuffer`: a full `_read_buf` refuses the body, which would go to another buffer (`http_conn.cpp:172`); `BodyFitsItsBuffer`: more of a body than was announced is copied behind the end of `_content_buffer` (`http_conn.cpp:342`); `NoForeignBoundary`: `init()` keeps `_boundary`, and a form without Content-Type is cut at an earlier one |

Two more pass. `MCBlockQueue`: the queue by itself with 2 consumers and a ring of 3,
every member function and `pop(timeout)` included, refines `BoundedFifo`, and what is
pushed is taken. `MCPostHandlersServed`: `WaitersAreServed`, with 3 workers and one
database connection (95,604 states): a worker does not wait for ever beside a free
connection, under `PostFairSpec`. It is by itself because liveness cannot use the
symmetry that `sqlpool` needs.

What holds under which condition is said in one of two ways. By constants where the
condition is one on the world: `BusyHeartbeat` (heartbeats on busy objects),
`ComposeMayFail` (process_write fails, and the worker's `close_conn` with it) and
`PlainReplies` (replies of one block, which can spin). By history variables where
it is one on what has happened to a single connection or counter, so that the
property speaks of all others: `crossed`, `miscounted`, `cuts`, `residue`, `wild`.

A client is crossed when `accept` gives it an object that is queued, in main's
batch or with a worker. `conn` shows that this takes a heartbeat on a busy object or
a failing `process_write` (`NobodyCrossed`); both happen in the program, and
`conn_two_threads` shows what becomes of the object then. `conn_compose` allows both,
and checks that a connection which was not crossed is safe all the same: its
object is in one place (`OneHolder`), its worker is alone (`WorkerAlone`), nobody
forgets it (`NoneForgotten`); that nobody else's replies reach it (`RightReply`) is
proved for this case, too (section 4). Of a crossed client nothing is claimed: a worker's late
`_sockfd = -1` takes its connection away (`MCConnectionsLost`), and a late
`modfd(_sockfd, EPOLLOUT)` (`http_conn.cpp:692`) may have main's `write()` send it what
was left of an earlier reply, or, with nothing left, have `init()` drop its request.
`RequestAnswered` is therefore claimed in `conn` only. `_user_count` is exact until a
worker's load and store have another thread's change between them, or until main and a
worker both count one closing (`CountExact`); while it is exact, MAX_FD bounds the
connections. In `writer` `cuts` counts the stops inside the head: `WirePrefix` speaks of
replies with at most one, `OffersTheRest` and `WriteReturns` of all but those of one
block that have a residue or were cut twice, for which `write()` spins.
`TickClosesTheIdle` promises a closing to who has its event in the heap, since
extending a deleted event may overwrite another's (`MCHeartbeatLost`), and spares who is
not idle unless an event was left behind or the clock wraps.

**Bounds and why they are enough.** Two workers are enough for two of them to
meet on one object or one wake-up. A client is one connection. In `conn` the second
of two may get the object of the first or one beside it; three clients in
`conn_compose` are one more than MAX_FD allows, so that `accept` turns clients
away, objects are reused while others are open, and the list of two is full when
a third request comes. All safety properties of `Connections` but `NobodyCrossed` are
proved for every number of clients, descriptors and workers (section 4). Buffer and
reply of two pieces, in `conn`, have the empty, the partial and the full case; in
`conn_compose` a buffer of one makes requests that do not fit. Six events
give the heap an inner node with two children whose parent is not the root,
which is where a replaced event must be able to go up; the clock of three in
`timer` lets the order be anything, those of `heartbeat` are larger than twice
the lease. `Steps`, up to which idleness is counted, is one more than `Lease`, so that
"idle for a lease" is seen exactly and the closing that is due then can come late. Six lines fill three files of two lines each (the
header takes two of the four); two days let the date change with and without a
full file. Two ctrl-C make a second byte that finds the loop left. Two database
connections and three workers are two uploads that race and one worker more who waits
and may overtake; `CopiesBounded` is reached with equality, and the theorem says it
of any number. Two times make names that collide and names that do not. Counters modulo 8 wrap below zero as those modulo
2^32 do. In `request` the buffer of 22 tokens is twice the head of a form: forms
cut off early fit it with their heads and one of them fills it exactly, whole ones go
beyond it and must go on in the buffer for the body; the texts of the parts are those that
look like a line end or a boundary, or end in half of one; every request is
followed by every other on the same object.
Where `CHECK_DEADLOCK` is off, the
system may rightly stop: clients need not send, logging may end, the process may
have ended, or done what is undefined.

**Fairness and why the code justifies it.** The threads are scheduled: weak
fairness for main's step and for each worker in `Connections`, and for
`ThreadPool`'s `Post`, `Wait` and `Take`. Nothing is assumed of `process()` in
`ThreadPool`. A client that waits for a reply reads what has come (`Drain`);
otherwise TCP may hold the reply for ever. No heartbeat, connect or further
request is assumed to happen. Where a thread competes for a mutex (`BlockQueue`,
`Log`, `Server`, `ConnectionPool`, `PostHandlers`), strong fairness of the thread's step stands for a
mutex that does not starve anyone; pthread mutexes promise no such thing, but no
thread of this program takes a mutex in a loop that excludes the others. A
worker is assumed to return its database connection (`Working`), a stop or a
destructor that has begun is assumed to go on, and nobody is assumed to begin
one. In `Server` an alarm that has been set fires (`WF` of `AlarmFires`), main is
scheduled (`WF` of its steps), and a level-triggered descriptor that is ready
again and again is reported some time (`SF` of an `EpollWait` with the socket pair);
no ctrl-C, line or day is assumed to come. `write()` is assumed to be run while main is in it (`FairSpec` of
`ResponseWriter`).

`RequestAnswered` is checked with a list in the pool long enough for all
connections and with `PlainReplies = FALSE`. With a refused `append()` the client
waits for the heartbeat, and with a residue under a one-block reply main
does not return from `write()` (`MCResponseWriterStale`).

## 4. Proofs

All proofs are checked by tlapm for every value of the constants that satisfies
the named assumptions of the modules, which are about types and finiteness, of a
clock longer than a lease, and of what a token stands for. None of them excludes what
the kernel, a heartbeat, a client or a failing function may do: where that matters, it
is a hypothesis in the property itself. Every invariant and action property that a
passing run checks, but `NobodyCrossed`, is also a theorem.

| module | theorems |
|---|---|
| `ThreadPoolProofs` | `PoolTypes`, `NoLostWakeup`, `PoolIsTaskQueue` |
| `ConnectionsProofs` | `TypesHold`, `ListIsNeverEmpty`, `NothingIsForgotten`, `DescriptorsMatch`, `UsersAreCounted`, `EveryConnectionHasOneHolder`, `WorkersAreAlone`, `RepliesGoToTheirClients` |
| `TimerProofs` | `TimerTypes`, `TimerIsDeadlines`, `HeartbeatTypes`, `HeapStaysSound`, `TicksAreExact`, `TicksCloseTheIdle` |
| `ResponseWriterProofs` | `TypesHold`, `RepliesArrive`, `WritevIsOffered` |
| `BlockQueueProofs` | `RingAgrees`, `NobodyOversleeps`, `QueueIsFifo` |
| `ServerProofs` | of `Log`: `LinesInOrder`, `FilesAreKept`; of `Server`: `ServerLogs`, `ServerLinesInOrder`, `ServerFilesAreKept`, `TypesHold`, `OneTickAtATime` |
| `PostHandlersProofs` | `HandlersUseThePool`, `ConnectionsHaveOneUser`, `QueueStaysSound`, `ConnectionsGoInTurn`, `CountersSettle`, `PostTypes`, `CopiesAreBounded`, `RowsKeepImages` |
| `HttpParserProofs` | `TypesHold`, `CutsDoNotMatter`, `FittingRequestsAreRead`, `FormsAreRead` |

**Thread pool.** The types are inductive. For the wake-ups the proof counts the set
of takers when one worker joins or leaves it; finiteness of the workers is all
that is needed. `PoolIsTaskQueue` is the safety half of the refinement: `append`,
`Take` and `Finish` are the steps of `TaskQueue`, and everything else, the posts and
waits among it, is a stutter.

**Connections.** Everything is proved of every server, heartbeats on busy objects and
failing replies included. A worker that gets through the semaphore finds a request
(`NoEmptyHands`): the pool's count of permits again, now with main and `process()`
around it.

Who has an open object (`KeepInv`): `close_conn` by a worker takes several steps, and in
between an object has no descriptor and yet a socket number. Only an object some
worker is just resetting is in that state, and each object with a socket number is
armed, reported, queued, held or was dropped by a full list. So the object may lose its
socket number too early, never too late.

The counter is exact up to the first accident: `Open` and `Owing` are finite sets which
each step of `close_conn` takes one element from or puts one into, main's in one step,
a worker's in four; the three steps in which the sum is wrong are those that set
`miscounted`. The bound by MAX_FD is then the guard of `Accept`.

`OneHolder` is not inductive by itself. A step may arm a descriptor only because the object was
held by who arms it, so the invariant must say of each place that it excludes the
others. `Hands` says it of every connection that is not crossed (`Single`), and
besides that its object has its own descriptor's number, and that no worker on it is
behind the removal in `close_conn()` (`NotClosing`): such a worker would reset the object
later. It becomes true at `Accept`, when nobody has the object, by the definition of
`crossed`; and as a descriptor that is open is nobody else's to accept, it stays
true until the connection is closed. Those who then still have the object are why
the next client is crossed. With `Hands`, `NoneForgotten` and `ObjectOwnsDescriptor` say of `KeepInv` what
the descriptor sees, and `WorkerAlone` follows action by action: an action that changes
what it speaks of has a guard on `event` or `desc` that `Single` refutes for an object a
worker has.

`RightReply` is strengthened by where a client's name may be: what an open object has
read is its client's (`TextInv`); and while a reply is to be written, because the
object is armed for it, or has the event, or a worker is about to arm it (`Replying`), it
was made from requests of the client behind the descriptor, unless that one was
crossed (`ReplyInv`).

**Timer and heartbeats.** The percolations and `tick()` are recursive functions, and
a recursive definition has a meaning only if such a function exists. Lemma
`Recursion` shows it for any function that looks at itself only where a measure
falls, by taking the least measure at which two solutions would differ, or none
would exist; the percolations fall towards the root or the leaves and `tick`
shrinks the heap. What they compute is shown the same way, without an
induction principle as a parameter. While `up` works, a heap may be out of order
only at one place, towards its parent (`RisesFrom`), while `down` works, only from one
place towards its children (`FallsFrom`); when each ends, it is in order, holds the
same events, and every event knows its place. So `AddIs`, `DelIs`, `PopIs`, `AdjustIs`
and `TickIs` say of each member function what it does to the set of pending events
and their times, and with these every action is one of `Deadlines`.

Main does not use the timer as documented: it extends events that it deleted or
never added, with a `_pos` that is stale or was never initialised. The member
functions' tests of `_pos` against the size are enough for the heap to stay sound
(`HeapSound`: places and events are inverse to each other, and the order holds),
as some event of the heap is what they move. A negative `_pos` passes these tests, and
`SoundUntilWild` says nothing of what follows. `TickClosesTheIdle` needs the time of the
event (`DueAfterLease`: a lease after data last flowed), that every
open object refers to an event that closes this object and no other
(`OpenHaveEvents`), so that extending one changes nobody else's time, the exactness of
the tick (`TicksAreExact`), and arithmetic modulo `Width`, for the turn of the clock
(`ModShift`, `DueSooner`): a deadline that is not behind the turn is compared with
the clock as it should be.

**Response writer.** That writev is never offered more than `_byte_to_send`
(`SafeInv`, with the types) is inductive for any number of stops, and on top of an
unfinished reply. `WireInv` adds, while the head was cut at most once, that the
iovecs point to exactly the bytes that come next in `Expected`, and that
`_byte_to_send` is what is left of it and of the residue; a stop inside the
head leaves the second iovec where it is, a stop in the body moves it. With a second
stop inside the head the first iovec is moved by the sum of both
(`MCResponseWriterCuts`), which is why `WirePrefix` speaks of one. For `OffersTheRest` no
such limit is needed (`SecondBlockFull`): whatever the arithmetic has done to the first
block, once it is empty the second is given all of `_byte_to_send`. Only a reply without a
second block can be left with something to send and nothing to offer.

**Blocking queue.** That nobody sleeps beside a value is not inductive, as it does
not say why a consumer that is about to sleep may do so. The strengthening
(`TestsEmpty`) is that while a consumer is between its test of `_size` and its sleep,
which it spends with the mutex, the queue is empty. For the FIFO, `RingInv` says
that `_back` is `_size` places behind the oldest value and that these places hold
values. The ring lemmas work out the remainders for a capacity that is a parameter
(no position is more than once around): different places have different slots, a
`push` appends and a `pop` takes the head. Every action is then one of
`BoundedFifo`'s or leaves contents and items alone.

**Logger and main.** `InOrder` is strengthened (`LogInv`) by where a line can be on its
way: what is written, what the writer has in its hand and what is in the queue, in
this order, are the accepted lines. Together with the queue's invariant, whose
action lemmas are instantiated through `QP`, this is inductive. For `FilesKept` the
lines in the files are a set of pairs of file and line; `SumInv` says that it has as
many members as lines were written, which it keeps because `creatFile` finds a name
that no file has (a set of numbers without a largest one is not finite). `OneTick`
is counted (`ChainInv`): the alarm, its bytes in the socket pair and main's flag are
together one, however many ctrl-C are in the socket pair beside them. `ServerLogs` hands the logger's
theorems to main: stopping and logging are the logger's actions, all others leave
its variables alone.

**POST handlers.** The pool's queue is an instance of
`BlockQueue`, but its callers are restricted, it starts full and its consumers
include the destructor, so that its behaviours are not those of `BlockQueue`'s
`Spec`; the action lemmas of `BlockQueueProofs` are used through `QP` instead, step by
step. `OneUser` needs to be said of the ring's contents (pairwise different), of the
items in workers' hands, and of `closed` together: a `push` of a connection that is in
nobody else's hand keeps the contents different. The ring has twice as many slots as
there are connections, and a release is never refused: the contents, being
different connections, are at most `MaxConn`. The counters are,
modulo `Width`, sums: `freeConn` is `_size` plus the workers that have taken and not
counted minus those that have returned and not counted, whatever wraps on the
way; when there are none of these, the sums are the numbers. A handler's
steps leave the pool alone (`HandlersUseThePool`), and for `CopiesBounded` the rows
of a name and the workers that are about to insert one are counted together: the
latter hold different connections, so that they inject into `Conns`, and a query
that lets one more in has seen no row. Assumed are finitely many workers, at least
one connection, and fewer connections than the range of `unsigned`.

**Request parser.** `VerdictOfBytes` compares the state of a parser that has seen a
part of a request, cut anywhere, with what the whole bytes say. The invariant
relates the two: `readBuf` is what has been received, up to `_start_line` the lines
have been read and were good, and from there to `_checked_idx` there is no line
end (`LineInv`); a parser that has stopped has stopped for a reason in the bytes
(`StuckInv`); in the body, `_content_buffer` is what follows the empty line
(`BodyInv`). The part where cuts could matter is `parse_line` that has seen a CR and not
the byte behind it: it must look at the CR again. Assumed (`ParserAssumption`) is only what
the tokens stand for, that a stretch without line ends is one token. A client may
send more of a body than it has announced: if more than that is copied at once, the
buffer is overrun, and the theorem says that it is such a request; if the rest comes
later, it is not read into the buffer.

**Forms.** `FormsAreRead` is about every form of any number of parts with any texts,
and about every body that begins like one: there is an item for exactly the parts whose
head is in the body with at least a byte behind it, and each has the part's name and
text, but for the last item of a body that ends before its form, which may have no
length. A closing line that is cut behind its CR counts as such an end (`IsWhole`), as
`getNextLine` then leaves the CR in the line. What the lines of a body are follows
from `IsForm` and from lines alone: a text may look like a line end or a boundary
within a line, it may end in half a line end, or be empty; only a line of it that is
a boundary is excluded. So the first boundary behind a part is its own
(`BoundaryIs`), the head ends where it should (`HeaderEndIs`), and the one line end
taken off is not the text's (`ItemOfPart`). `parse()` is a recursive function, which
exists because each turn goes forward (`FormRecursion`); that the items are those
of the parts is shown from the last part to the first (`ReadFromAll`), by taking the
largest number of a part from which on they would not be, as induction is not to be
had. That a body of the request reaches `parse()` unharmed is `BodyIsReceived`, from the
parser's invariant; that it is cut at its own boundary is `BoundaryKept`, which is
needed because `init()` does not reset `_boundary`: once the Content-Type line is behind
`_start_line`, the object has this request's boundary. Without that header it need
not (`NoForeignBoundary`, refuted). `PostsAreForms` has TLC check that the forms of
`request` satisfy the hypothesis.

**Only model-checked.** The liveness properties (`RequestAnswered`, `WriteReturns`,
`LinesAreWritten`, `SignalsAreHeard`, and off the runs `WaitersAreServed`) and the fairness
half of the refinement of `TaskQueue`: fairness is about ENABLED, which is out of the
prover's reach. `NobodyCrossed`, which is about two values of constants.

## 5. What is not modelled, and why

* `accept()` that fails (main then initialises `user[-1]`) and the constructor of
  the pool, which writes behind an array of one `pthread_t`: undefined behaviour
  whose outcomes cannot be enumerated. So is reading `_time` of an event that
  `delTimer` has just freed, which takes a stale `_pos` in the last position: the
  model takes the outcome in which nothing else moves. What a write before the heap
  (`WritesBeforeHeap`) or behind the content buffer (`Overrun`) does to the process is not
  modelled either: they are steps after which the model ends, or the object does nothing.
* An `epoll_wait` that fails otherwise than by EINTR (`main.cpp:124`-`128`), which ends
  the loop as a ctrl-C does.
* `close_conn()` also frees `_content_buffer`, under a worker that may be copying into it
  when a heartbeat closes its connection. That use after free is not modelled; in
  `Connections` the worker goes on with the object of a closed connection.
* Pipelining: a client sends nothing behind a whole request before it has the
  reply. `init()` would drop it.
* What follows the end of `main`: its locals (the objects, the thread pool, the
  timer) are destroyed while detached workers may use them, which is undefined.
  The destructor of the database connections is modelled with workers at work,
  up to the end of the process. `cancalSig` is called by nobody.
* Texts: which request lines, header lines and file names are well formed
  (`strpbrk`, `atol`, `regex`), the HTML of the replies, the lines of the log and the
  time in them. They are data: good, bad, or one of a few kinds. How a file is found
  and mapped, and the life of `_file_address`, is left out with them.
* The MySQL client, and `DataBase`'s constructor that connects by itself, which
  nothing uses; `query()` and `execute()` are steps that succeed or throw.
* `Log::init` that fails, and its destructor, which runs behind `stop()`.
* `MinHeap.hpp` (not included anywhere) and `test.cpp` (asserts nothing).

## 6. Plan

In this order, the most important behaviour first.

1. `ThreadPool` with `TaskQueue`, its invariants proved. Done.
2. `Connections` over it, its invariants proved of every server. Done.
3. `Timer`, `Deadlines`, `Heartbeat`, `ResponseWriter`, and their proofs. Done.
4. `BlockQueue`, `BoundedFifo`, `Log`, `ConnectionPool`. Done.
5. `HttpParser` with `FormParser`: the verdict and the form do not depend on how
   the input is cut. Done, and proved.
6. `PostHandlers` over the connection pool. Done.
7. `Server`: signals, ticks and the end of main over the logger. Done.
8. Proofs of `BlockQueue`, `ConnectionPool` and `PostHandlers`, of `Log` and `Server`,
   and of the safety half of `ThreadPool`'s refinement. Done.
9. Left: what still holds of a crossed client (its own text, and whose reply it may
   get); `NobodyCrossed` as a theorem under its two conditions.
