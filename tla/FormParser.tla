----------------------------- MODULE FormParser -----------------------------
(***************************************************************************)
(* FormDataParser (FormParser/FormDataParser.cpp): the items of a           *)
(* multipart/form-data body.  A body is a sequence of tokens: "CR", "LF",    *)
(* "--", the text of the boundary (with its leading hyphens, as in           *)
(* _boundary), and stretches of other bytes.  Positions count from 0.        *)
(***************************************************************************)
EXTENDS Integers, Sequences, FiniteSetsExt

LineFeeds(d, pos) == {i \in pos..(Len(d) - 1) : d[i + 1] = "LF"}

(* getNextLine() with _pos = pos: where the line starts, its length without  *)
(* the line end, and the new _pos.                                           *)
NextLine(d, pos) ==
    LET open == LineFeeds(d, pos) = {}
        i == IF open THEN Len(d) ELSE Min(LineFeeds(d, pos))
        cr == ~open /\ i > pos /\ d[i] = "CR"
    IN  [start |-> pos, len |-> i - pos - (IF cr THEN 1 ELSE 0),
         next |-> IF open THEN i ELSE i + 1]

(* Where getNextLine() starts, again and again from pos on. *)
LineStarts(d, pos) == {s \in pos..(Len(d) - 1) : s = pos \/ d[s] = "LF"}
Text(d, s) == LET l == NextLine(d, s) IN SubSeq(d, s + 1, s + l.len)

AtLastBoundary(d, b, s) == Text(d, s) = <<b, "--">>
AtBoundaryLine(d, b, s) == Text(d, s) = <<b>> \/ AtLastBoundary(d, b, s)

(* The first line from pos on that is a boundary, or the end of the data. *)
BoundaryFrom(d, b, pos) ==
    Min({s \in LineStarts(d, pos) : AtBoundaryLine(d, b, s)} \cup {Len(d)})

(* parseHeader(): up to the empty line; _pos afterwards. *)
HeaderEnd(d, pos) ==
    LET blank == {s \in LineStarts(d, pos) : NextLine(d, s).len = 0}
    IN  IF blank = {} THEN Len(d) ELSE NextLine(d, Min(blank)).next

(* getDispositionValue(): the file name the last Content-Disposition gives. *)
Dispositions == {"NAME", "FILE"}
FileName(d, pos) ==
    LET lines == {s \in LineStarts(d, pos) :
                     s < HeaderEnd(d, pos) /\ \E x \in Dispositions : Text(d, s) = <<x>>}
    IN  IF lines = {} THEN "NAME" ELSE Text(d, Max(lines))[1]

(* Mutated: only the line feed before the boundary is taken off. *)
ItemKeepsReturn(d, b, pos, file) ==
    LET end == BoundaryFrom(d, b, pos) IN
    [start |-> pos, file |-> file, len |-> IF end = Len(d) THEN -1 ELSE end - 1 - pos]

(* paresFormData() with _pos = pos, and the FormItem: the line end before the *)
(* boundary does not belong to the data; -1 if there is no boundary.          *)
Item(d, b, pos, file) ==
    LET end == BoundaryFrom(d, b, pos)
        cut == IF d[end - 1] = "CR" THEN 2 ELSE 1
    IN  [start |-> pos, file |-> file,
         len |-> IF end = Len(d) THEN -1 ELSE end - cut - pos]

(* Where parse() goes on behind the boundary at s: at the end behind the last. *)
Behind(d, b, s) ==
    IF s = Len(d) \/ AtLastBoundary(d, b, s) THEN Len(d) ELSE NextLine(d, s).next

(* parse(): an item behind every boundary but the last. *)
Items(d, b) ==
    LET from[pos \in 0..Len(d)] ==
            LET s == HeaderEnd(d, pos) IN
            IF s = Len(d) THEN <<>>
            ELSE <<Item(d, b, s, FileName(d, pos))>>
                     \o from[Behind(d, b, BoundaryFrom(d, b, s))]
    IN  from[Behind(d, b, BoundaryFrom(d, b, 0))]
-----------------------------------------------------------------------------
(* What a client encodes, as far as it is in d: boundary lines at the places  *)
(* at[1], at[2], ..., the last of them closed, and between two of them a part.  *)
(* No other line is a boundary.                                                *)
Stands(d, pos, text) ==
    \A k \in 1..Len(text) : pos + k <= Len(d) => d[pos + k] = text[k]

IsForm(d, b, parts, at) ==
    /\ parts \in Seq([file : Dispositions, text : Seq(STRING)])
    /\ at \in [1..(Len(parts) + 1) -> Nat] /\ at[1] = 0
    /\ b \notin {"CR", "LF"}
    /\ \A i \in 1..Len(parts) :
          LET text == parts[i].text IN
          /\ Stands(d, at[i], <<b, "CR", "LF", parts[i].file, "CR", "LF", "CR", "LF">>)
          /\ Stands(d, at[i] + 8, text)
          /\ Stands(d, at[i] + 8 + Len(text), <<"CR", "LF">>)
          /\ at[i + 1] = at[i] + 8 + Len(text) + 2
    /\ Stands(d, at[Len(parts) + 1], <<b, "--", "CR", "LF">>)
    /\ \A s \in LineStarts(d, 0) :
          AtBoundaryLine(d, b, s) => \E i \in DOMAIN at : s = at[i]

(* The form is in d as a whole, up to the closing boundary at last.           *)
IsWhole(d, last) == Len(d) = last + 2 \/ Len(d) >= last + 4
=============================================================================
