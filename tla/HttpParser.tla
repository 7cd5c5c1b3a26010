----------------------------- MODULE HttpParser -----------------------------
(***************************************************************************)
(* A request on its way through an http_conn (http/http_conn.cpp): read() by *)
(* main, in pieces cut anywhere, process_read() and the parse functions by a *)
(* worker, do_request(), and init() for the next.                            *)
(*                                                                          *)
(* Bytes are tokens: "CR", "LF", and stretches without either.  A request    *)
(* line is one of "GET" and "POST" when it is good.  "LENGTH" is a           *)
(* Content-Length header, whose value the client's request has beside it;    *)
(* "LINGER" is Connection: keep-alive, and "TYPE" is Content-Type with the   *)
(* request's boundary.                                                       *)
(***************************************************************************)
EXTENDS FormParser

CONSTANTS
    Requests,          \* what a client may send
    NoBoundary,        \* _boundary before the first "TYPE"
    READ_BUFFER_SIZE
-----------------------------------------------------------------------------
(* What a text p means, whoever reads it and in however many pieces: its line *)
(* ends, the marks that are none, the empty line behind the head.              *)
LineEnds(p) == {i \in 0..(Len(p) - 2) : p[i + 1] = "CR" /\ p[i + 2] = "LF"}
Broken(p) ==
    {i \in 0..(Len(p) - 1) :
        \/ p[i + 1] = "CR" /\ i + 1 < Len(p) /\ p[i + 2] # "LF"
        \/ p[i + 1] = "LF" /\ i - 1 \notin LineEnds(p)}
EmptyLines(p) == {i \in LineEnds(p) : i - 2 \in LineEnds(p)}
First(p, ends) == ends # {} /\ ~\E i \in Broken(p) : i < Min(ends)
HeadIsComplete(p) == First(p, EmptyLines(p))
HeadOf(p) == SubSeq(p, 1, Min(EmptyLines(p)))
HasHeader(p, h) == \E i \in 3..Len(HeadOf(p)) : p[i] = h

(* A stretch is not followed by another one within a head, so that a header   *)
(* is one token.                                                              *)
ASSUME ParserAssumption ==
    /\ READ_BUFFER_SIZE \in Nat \ {0}
    /\ \A r \in Requests :
          /\ r.bytes \in Seq(STRING) /\ r.length \in Nat
          /\ HeadIsComplete(r.bytes) =>
                \A i \in 1..(Min(EmptyLines(r.bytes)) - 1) :
                    r.bytes[i] \in {"CR", "LF"} \/ r.bytes[i + 1] \in {"CR", "LF"}
-----------------------------------------------------------------------------
VARIABLES
    request, received, \* the client's request, and how much of it has been read
    readBuf,           \* _read_buf; _read_idx is its length
    checkedIdx, startLine, checkState,
    method, linger, contentLength, boundary,
    content,           \* _content_buffer; _content_have_read is its length
    stage,             \* who has the object
    verdict,           \* the result of process_read()
    items              \* what the form parser returned

clientVars == <<request, received>>
indexVars == <<checkedIdx, startLine>>
headVars == <<method, linger, contentLength, boundary>>
vars == <<clientVars, readBuf, indexVars, checkState, headVars, content, stage,
          verdict, items>>

Init ==
    /\ request \in Requests /\ received = 0
    /\ readBuf = <<>> /\ checkedIdx = 0 /\ startLine = 0
    /\ checkState = "REQUESTLINE"
    /\ method = "GET" /\ linger = FALSE /\ contentLength = 0
    /\ boundary = NoBoundary
    /\ content = <<>>
    /\ stage = "armed" /\ verdict = "NO_REQUEST" /\ items = <<>>
-----------------------------------------------------------------------------
(* read(), with k more bytes in the socket.  The buffer that is read into     *)
(* must have room for all of them: recv() of 0 bytes returns 0 while there is *)
(* something to read, and that is taken for the end of the connection.        *)
InContent == checkState = "CONTENT"
Room == IF InContent THEN contentLength - Len(content)
        ELSE READ_BUFFER_SIZE - Len(readBuf)

(* Mutated: a buffer that would become full is refused. *)
CanReadBelow(k) == Len(readBuf) < READ_BUFFER_SIZE /\ k < Room

CanRead(k) == Len(readBuf) < READ_BUFFER_SIZE /\ k <= Room

Read(k) ==
    LET new == SubSeq(request.bytes, received + 1, received + k) IN
    /\ stage = "armed" /\ CanRead(k)
    /\ received' = received + k
    /\ IF InContent THEN content' = content \o new /\ UNCHANGED readBuf
       ELSE readBuf' = readBuf \o new /\ UNCHANGED content
    /\ stage' = "parsing"
    /\ UNCHANGED <<request, indexVars, checkState, headVars, verdict, items>>

ReadFails(k) ==
    /\ stage = "armed" /\ ~CanRead(k)
    /\ stage' = "closed"
    /\ UNCHANGED <<clientVars, readBuf, indexVars, checkState, headVars, content,
                   verdict, items>>
-----------------------------------------------------------------------------
(* parse_line(): the first CR or LF decides. *)
Marks == {i \in checkedIdx..(Len(readBuf) - 1) : readBuf[i + 1] \in {"CR", "LF"}}
Mark == IF Marks = {} THEN Len(readBuf) ELSE Min(Marks)

LineOK ==
    /\ Marks # {}
    /\ \/ /\ readBuf[Mark + 1] = "CR"
          /\ Mark + 1 < Len(readBuf) /\ readBuf[Mark + 2] = "LF"
       \/ /\ readBuf[Mark + 1] = "LF"
          /\ Mark > 1 /\ readBuf[Mark] = "CR"

Line == SubSeq(readBuf, startLine + 1, Mark)
NextLineBegins ==
    /\ checkedIdx' = Mark + 2
    /\ startLine' = Mark + 2

Parsing == stage = "parsing" /\ ~InContent
Answered(v) == verdict' = v /\ stage' = "judged"
StillParsing == UNCHANGED <<clientVars, readBuf, boundary, content, items>>

(* parse_request_line() *)
RequestLine ==
    /\ Parsing /\ LineOK /\ checkState = "REQUESTLINE"
    /\ NextLineBegins
    /\ IF Line \in {<<"GET">>, <<"POST">>}
       THEN /\ checkState' = "HEADER" /\ method' = Line[1]
            /\ UNCHANGED <<stage, verdict>>
       ELSE Answered("BAD_REQUEST") /\ UNCHANGED <<checkState, method>>
    /\ UNCHANGED <<linger, contentLength>>
    /\ StillParsing

(* parse_headers(), with a header and with the empty line behind them. *)
Header ==
    /\ Parsing /\ LineOK /\ checkState = "HEADER" /\ Line # <<>>
    /\ NextLineBegins
    /\ contentLength' = IF Line[1] = "LENGTH" THEN request.length ELSE contentLength
    /\ linger' = (linger \/ Line = <<"LINGER">>)
    /\ boundary' = IF Line[1] = "TYPE" THEN request.boundary ELSE boundary
    /\ UNCHANGED <<clientVars, readBuf, checkState, method, content, stage, verdict,
                   items>>

HeadersEnd ==
    /\ Parsing /\ LineOK /\ checkState = "HEADER" /\ Line = <<>>
    /\ NextLineBegins
    /\ IF contentLength # 0 THEN checkState' = "CONTENT" /\ UNCHANGED <<stage, verdict>>
       ELSE Answered("GET_REQUEST") /\ UNCHANGED checkState
    /\ UNCHANGED <<method, linger, contentLength>>
    /\ StillParsing

(* Mutated: all that has been looked at is passed, a CR at the end included. *)
NoLinePast ==
    /\ Parsing /\ ~LineOK
    /\ checkedIdx' = Len(readBuf)
    /\ stage' = "armed"
    /\ UNCHANGED <<startLine, checkState, headVars, verdict>>
    /\ UNCHANGED <<clientVars, readBuf, content, items>>

(* parse_line() is LINE_OPEN, or LINE_BAD, which is never answered: both are   *)
(* NO_REQUEST, and more is read.                                              *)
NoLine ==
    /\ Parsing /\ ~LineOK
    /\ checkedIdx' = Mark
    /\ stage' = "armed"
    /\ UNCHANGED <<startLine, checkState, headVars, verdict>>
    /\ UNCHANGED <<clientVars, readBuf, content, items>>

(* Mutated: what is copied is copied again. *)
ContentAgain ==
    /\ stage = "parsing" /\ InContent
    /\ content' = content \o SubSeq(readBuf, checkedIdx + 1, Len(readBuf))
    /\ UNCHANGED checkedIdx
    /\ startLine' = checkedIdx
    /\ IF Len(content') >= contentLength THEN Answered("GET_REQUEST")
       ELSE stage' = "armed" /\ UNCHANGED verdict
    /\ UNCHANGED <<clientVars, readBuf, checkState, headVars, items>>

(* _content_buffer has room for what came behind the head. *)
Fits == Len(content) + (Len(readBuf) - checkedIdx) <= contentLength

(* parse_content(): what came with the head is copied behind nothing, and     *)
(* later nothing behind what read() has put there.                            *)
Content ==
    /\ stage = "parsing" /\ InContent /\ Fits
    /\ content' = content \o SubSeq(readBuf, checkedIdx + 1, Len(readBuf))
    /\ checkedIdx' = Len(readBuf)
    /\ startLine' = checkedIdx
    /\ IF Len(content') >= contentLength THEN Answered("GET_REQUEST")
       ELSE stage' = "armed" /\ UNCHANGED verdict
    /\ UNCHANGED <<clientVars, readBuf, checkState, headVars, items>>

(* memcpy() is not told how long _content_buffer is, and writes behind it.     *)
(* What the process does from then on is not defined, and not modelled.        *)
Overrun ==
    /\ stage = "parsing" /\ InContent /\ ~Fits
    /\ stage' = "overrun"
    /\ UNCHANGED <<clientVars, readBuf, indexVars, checkState, headVars, content,
                   verdict, items>>

(* do_request(): a POST is given to a PostSolver, whose handlers parse it. *)
DoRequest ==
    /\ stage = "judged"
    /\ items' = IF verdict = "GET_REQUEST" /\ method = "POST"
                THEN Items(content, boundary) ELSE <<>>
    /\ stage' = "replying"
    /\ UNCHANGED <<clientVars, readBuf, indexVars, checkState, headVars, content,
                   verdict>>

(* Mutated: init() leaves _check_state as it is. *)
ResetKeepsState ==
    /\ stage \in {"replying", "closed"}
    /\ request' \in Requests /\ received' = 0
    /\ readBuf' = <<>> /\ checkedIdx' = 0 /\ startLine' = 0
    /\ method' = "GET" /\ linger' = FALSE /\ contentLength' = 0
    /\ content' = <<>>
    /\ stage' = "armed" /\ verdict' = "NO_REQUEST" /\ items' = <<>>
    /\ UNCHANGED <<boundary, checkState>>

(* init(): the next request, of this client or, when the connection has been *)
(* closed, of another.  _boundary stays.                                     *)
Reset ==
    /\ stage \in {"replying", "closed"}
    /\ request' \in Requests /\ received' = 0
    /\ readBuf' = <<>> /\ checkedIdx' = 0 /\ startLine' = 0
    /\ checkState' = "REQUESTLINE"
    /\ method' = "GET" /\ linger' = FALSE /\ contentLength' = 0
    /\ content' = <<>>
    /\ stage' = "armed" /\ verdict' = "NO_REQUEST" /\ items' = <<>>
    /\ UNCHANGED boundary

Next ==
    \/ \E k \in 1..(Len(request.bytes) - received) : Read(k) \/ ReadFails(k)
    \/ RequestLine \/ Header \/ HeadersEnd \/ NoLine \/ Content \/ Overrun
    \/ DoRequest \/ Reset

Spec == Init /\ [][Next]_vars
-----------------------------------------------------------------------------
(* The variables have their types, and the indexes are in order: the line     *)
(* that is being looked for begins before the byte that is looked at.          *)
TypeOK ==
    /\ request \in Requests /\ received \in 0..Len(request.bytes)
    /\ readBuf \in Seq(STRING) /\ Len(readBuf) <= READ_BUFFER_SIZE
    /\ checkedIdx \in 0..Len(readBuf) /\ startLine \in 0..checkedIdx
    /\ checkState \in {"REQUESTLINE", "HEADER", "CONTENT"}
    /\ method \in {"GET", "POST"} /\ linger \in BOOLEAN
    /\ contentLength \in {0, request.length}
    /\ content \in Seq(STRING) /\ Len(content) <= contentLength
    /\ stage \in {"armed", "parsing", "judged", "replying", "closed", "overrun"}
    /\ verdict \in {"NO_REQUEST", "BAD_REQUEST", "GET_REQUEST"}

(* What a text p of this request means. *)
Length(p) == IF HasHeader(p, "LENGTH") THEN request.length ELSE 0
Smallest(a, b) == IF a < b THEN a ELSE b
Body(p) == LET start == Min(EmptyLines(p)) + 2
           IN  SubSeq(p, start + 1, Smallest(Len(p), start + Length(p)))

(* It announces a body, and more than that is behind its head.                *)
Overlong(p) ==
    /\ HeadIsComplete(p) /\ Length(p) # 0
    /\ Len(p) > Min(EmptyLines(p)) + 2 + Length(p)

Meaning(p) ==
    IF ~First(p, LineEnds(p)) THEN "NO_REQUEST"
    ELSE IF SubSeq(p, 1, Min(LineEnds(p))) \notin {<<"GET">>, <<"POST">>} THEN "BAD_REQUEST"
    ELSE IF HeadIsComplete(p) /\ Len(Body(p)) >= Length(p) THEN "GET_REQUEST"
    ELSE "NO_REQUEST"

(* A request that arrives in pieces, cut anywhere, means what it would mean   *)
(* in one piece: the worker's verdict, and what it has got out of the head     *)
(* and the body, are those of the bytes received, and what the object's last    *)
(* request was does not matter.  The body's buffer is overrun when more than it *)
(* holds came with the head (http_conn.cpp:342), and by no other request.       *)
VerdictOfBytes ==
    LET p == SubSeq(request.bytes, 1, received) IN
    /\ stage \in {"armed", "judged", "replying"} =>
           /\ verdict = Meaning(p)
           /\ verdict = "GET_REQUEST" =>
                  /\ method = p[1]
                  /\ linger = HasHeader(p, "LINGER")
                  /\ content = Body(p) /\ ~Overlong(p)
    /\ stage = "overrun" => Overlong(p)

(* http_conn.cpp:188: the buffer is full.  A request that fits it whole is read *)
(* to its end, however it is cut: only a longer one may be refused, or one that *)
(* sends more of a body than it has announced.                                  *)
FitsIsRead ==
    stage = "closed" => Len(request.bytes) > READ_BUFFER_SIZE \/ Overlong(request.bytes)

(* FormDataParser.h: the items are the parts of the form that the client has  *)
(* encoded in the body, with their names and their bytes.  Of a body that ends  *)
(* too early, they are those whose head is in it, and more behind it, and the   *)
(* last may have no length.                                                    *)
FormOfBody ==
    LET parts == request.parts
        body == Body(request.bytes)
        whole == IsWhole(body, request.at[Len(parts) + 1])
    IN
    /\ stage = "replying" /\ verdict = "GET_REQUEST" /\ method = "POST"
    /\ HasHeader(request.bytes, "TYPE")
    /\ IsForm(body, request.boundary, parts, request.at)
    =>  /\ Len(items) <= Len(parts)
        /\ \A i \in 1..Len(parts) : i <= Len(items) <=> request.at[i] + 8 < Len(body)
        /\ \A i \in DOMAIN items :
              /\ items[i].file = parts[i].file
              /\ \/ /\ items[i].len = Len(parts[i].text)
                    /\ SubSeq(content, items[i].start + 1, items[i].start + items[i].len)
                           = parts[i].text
                 \/ ~whole /\ i = Len(items) /\ items[i].len = -1

(* http_conn.cpp:176: the body and the head are in different memory, so a     *)
(* head that has filled its own does not stop the body.                       *)
BodyHasItsOwnBuffer == stage = "closed" => checkState # "CONTENT"

(* http_conn.cpp:342: the rest of what has been read is copied behind what is   *)
(* already in the body's buffer, which is as long as the body was announced.    *)
BodyFitsItsBuffer == stage # "overrun"

(* FormDataParser.cpp:7: a form is cut at the boundary of its own request.    *)
NoForeignBoundary ==
    stage = "replying" /\ items # <<>> => HasHeader(request.bytes, "TYPE")
=============================================================================
