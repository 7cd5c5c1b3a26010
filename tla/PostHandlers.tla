---------------------------- MODULE PostHandlers ----------------------------
(***************************************************************************)
(* A POST in http_conn::do_request(): the worker gets a connection, a        *)
(* PostSolver (PostSolver/PostSolver.cpp) parses the form and queries the     *)
(* database over it, an upload inserts a row and saves a file, and the guard  *)
(* gives the connection back.  The table and the files are the world's; every *)
(* query commits by itself.                                                 *)
(***************************************************************************)
EXTENDS ConnectionPool

CONSTANTS
    Names,         \* what pictures are called (dz_describe)
    NoName,
    Times,         \* the microseconds the clock shows
    NoFile         \* no path: none of these

ASSUME HandlerAssumption == NoName \notin Names /\ NoFile \notin Times

VARIABLES
    kind,          \* kind[w]: the handler _url names
    step,          \* step[w]: where it is
    dzName,        \* dzName[w]: the name in the form
    file,          \* file[w]: the path it made or found; a path is its time
    rows,          \* DZmessage: the rows, oldest first
    images,        \* the paths of the files there are
    lost,          \* the paths of the files that could not be written
    aborted        \* an exception has ended the process

jobVars == <<kind, step, dzName, file>>
worldVars == <<rows, images, lost>>
handlerVars == <<jobVars, worldVars, aborted>>
postVars == <<vars, handlerVars>>

Kinds == {"upload", "search", "login", "other"}

PostInit ==
    /\ Init
    /\ kind = [w \in Workers |-> "other"]
    /\ step = [w \in Workers |-> "done"]
    /\ dzName = [w \in Workers |-> NoName]
    /\ file = [w \in Workers |-> NoFile]
    /\ rows = <<>> /\ images = {} /\ lost = {}
    /\ aborted = FALSE

GoOn(w, s) == step' = [step EXCEPT ![w] = s]
Finds(w) == {i \in DOMAIN rows : rows[i].name = dzName[w]}
-----------------------------------------------------------------------------
(* The guard's constructor is done, and process() looks at _url. *)
Begin(w) ==
    /\ GetCounts(w)
    /\ \E k \in Kinds, n \in Names :
          /\ kind' = [kind EXCEPT ![w] = k]
          /\ dzName' = [dzName EXCEPT ![w] = n]
          /\ GoOn(w, IF k = "other" THEN "done" ELSE "parse")
    /\ UNCHANGED <<file, worldVars, aborted>>

(* The form has the items it needs, or is answered with a page that says it   *)
(* has not, or that a text is too long... *)
Parse(w) ==
    /\ step[w] = "parse"
    /\ \/ GoOn(w, "query")
       \/ GoOn(w, "done")
    /\ UNCHANGED <<vars, kind, dzName, file, worldVars, aborted>>

(* ... or it throws what nobody catches: getContent() of an item of length -1, *)
(* at(1) of a login with one item, substr(-1) of a file name without a dot.     *)
Throw(w) ==
    /\ step[w] \in {"parse", "name"}
    /\ aborted' = TRUE
    /\ UNCHANGED <<vars, jobVars, worldVars>>

(* Mutated: the rows found are not looked at. *)
QueryBlindly(w) ==
    /\ step[w] = "query"
    /\ GoOn(w, IF kind[w] = "upload" THEN "name" ELSE "done")
    /\ UNCHANGED <<vars, kind, dzName, file, worldVars, aborted>>

(* DataBase::query().  An upload goes on if there is no such row; a search     *)
(* shows the first; a login reads another table, which nobody writes.          *)
Query(w) ==
    /\ step[w] = "query"
    /\ GoOn(w, IF kind[w] = "upload" /\ Finds(w) = {} THEN "name" ELSE "done")
    /\ file' = [file EXCEPT ![w] =
                   IF kind[w] = "search" /\ Finds(w) # {}
                   THEN rows[CHOOSE i \in Finds(w) : \A j \in Finds(w) : i <= j].path
                   ELSE NoFile]
    /\ UNCHANGED <<vars, kind, dzName, worldVars, aborted>>

(* A MySQLException, of the query or of the insert, is caught. *)
DatabaseFails(w) ==
    /\ step[w] \in {"query", "insert"}
    /\ GoOn(w, "done")
    /\ UNCHANGED <<vars, kind, dzName, file, worldVars, aborted>>

(* The picture is named by system_clock, which may be set back, and which two  *)
(* workers may read in the same microsecond.                                  *)
MakeName(w) ==
    /\ step[w] = "name"
    /\ \E t \in Times : file' = [file EXCEPT ![w] = t]
    /\ GoOn(w, "insert")
    /\ UNCHANGED <<vars, kind, dzName, worldVars, aborted>>

(* Mutated: the picture is not saved. *)
InsertOnly(w) ==
    /\ step[w] = "insert"
    /\ rows' = Append(rows, [name |-> dzName[w], path |-> file[w]])
    /\ GoOn(w, "done")
    /\ UNCHANGED <<vars, kind, dzName, file, images, lost, aborted>>

(* DataBase::execute(), and the row is there. *)
Insert(w) ==
    /\ step[w] = "insert"
    /\ rows' = Append(rows, [name |-> dzName[w], path |-> file[w]])
    /\ GoOn(w, "save")
    /\ UNCHANGED <<vars, kind, dzName, file, images, lost, aborted>>

(* saveContentToFile(), whose stream may fail: nobody looks, and the reply    *)
(* says that the upload has succeeded.                                        *)
Save(w) ==
    /\ step[w] = "save"
    /\ \/ images' = images \cup {file[w]} /\ UNCHANGED lost
       \/ lost' = lost \cup {file[w]} /\ UNCHANGED images
    /\ GoOn(w, "done")
    /\ UNCHANGED <<vars, kind, dzName, file, rows, aborted>>

(* The PostSolver goes, and then the guard. *)
End(w) ==
    /\ step[w] = "done"
    /\ Release(w)
    /\ kind' = [kind EXCEPT ![w] = "other"]
    /\ dzName' = [dzName EXCEPT ![w] = NoName]
    /\ file' = [file EXCEPT ![w] = NoFile]
    /\ UNCHANGED <<step, worldVars, aborted>>
-----------------------------------------------------------------------------
Pool(A) == A /\ UNCHANGED handlerVars

Handler(w) ==
    Parse(w) \/ Throw(w) \/ Query(w) \/ DatabaseFails(w) \/ MakeName(w)
        \/ Insert(w) \/ Save(w)

PostWorker(w) ==
    /\ closer # "gone" /\ ~aborted
    /\ \/ Pool(GetConnection(w)) \/ Pool(GetWaits(w)) \/ Pool(ReleaseCounts(w))
       \/ Begin(w) \/ Handler(w) \/ End(w)

PostCloser == ~aborted /\ Pool(CloserStep)

PostNext ==
    \/ \E w \in Workers : PostWorker(w)
    \/ ~aborted /\ Pool(CloseBegin)
    \/ PostCloser
    \/ ~aborted /\ \E c \in Workers \cup {Closer} : Pool(SpuriousWake(c))

PostSpec == PostInit /\ [][PostNext]_postVars

(* As in ConnectionPool: who has begun goes on. *)
PostFairSpec ==
    /\ PostSpec
    /\ \A w \in Workers : SF_postVars(state[w] # "idle" /\ PostWorker(w))
    /\ SF_postVars(PostCloser)
-----------------------------------------------------------------------------
(* The variables have their types. *)
PostTypeOK ==
    /\ TypeOK
    /\ kind \in [Workers -> Kinds]
    /\ step \in [Workers -> {"parse", "query", "name", "insert", "save", "done"}]
    /\ dzName \in [Workers -> Names \cup {NoName}]
    /\ file \in [Workers -> Times \cup {NoFile}]
    /\ rows \in Seq([name : Names, path : Times])
    /\ images \subseteq Times /\ lost \subseteq Times
    /\ aborted \in BOOLEAN
    /\ \A w \in Workers : step[w] # "done" => state[w] = "using"

(* Uploads of one name race between the query that finds no row and the       *)
(* insert, and each holds a connection from one to the other: whoever gets a   *)
(* connection later sees the row.  So NoDuplicates, which fails, fails by no   *)
(* more rows of one name than there are connections.                          *)
CopiesBounded ==
    \A n \in Names :
        Cardinality({i \in DOMAIN rows : rows[i].name = n}) <= MaxConn

(* PostSolver.cpp:157: the picture is saved after the row is stored.  Every   *)
(* row has its picture, or is about to get it, or saving has failed; and no    *)
(* picture is without a row.                                                  *)
RowsHaveImages ==
    LET paths == {rows[i].path : i \in DOMAIN rows} IN
    /\ \A p \in paths :
          p \in images \cup lost \/ \E w \in Workers : step[w] = "save" /\ file[w] = p
    /\ images \subseteq paths

(* BlockQueue under several consumers and producers: the ring agrees with     *)
(* _size, and nobody sleeps while there is a connection.                      *)
QueueSound == Queue!RingMatchesSize /\ Queue!NobodySleepsOnValues

(* The queue of the pool is a bounded FIFO: every connection goes to one      *)
(* worker, the one that has been free longest first.                          *)
ConnectionsInTurn == [][Queue!Fifo!Next]_<<Queue!Contents, item>>

(* A connection does not stay free while a worker waits for one: the worker   *)
(* gets it or another has been faster, unless the process is about to end.     *)
WaitersAreServed ==
    \A w \in Workers :
        (state[w] = "popping" /\ size > 0)
            ~> (state[w] # "popping" \/ size = 0 \/ closer # "no" \/ aborted)

(* PostSolver.cpp:157: first it is tested whether the database has such a      *)
(* picture.                                                                   *)
NoDuplicates == \A i, j \in DOMAIN rows : rows[i].name = rows[j].name => i = j

(* PostSolver.cpp:157: named by the time, which guarantees no repetition.     *)
NamesDoNotRepeat == \A i, j \in DOMAIN rows : rows[i].path = rows[j].path => i = j

(* What a search finds can be shown. *)
FoundIsThere ==
    \A w \in Workers : kind[w] = "search" /\ file[w] # NoFile => file[w] \in images
=============================================================================
