---------------------------- MODULE MCHttpParser ----------------------------
EXTENDS HttpParser, SequencesExt

CRLF == <<"CR", "LF">>
(* Where the boundaries of a form are: a part has ten tokens besides its text. *)
Places(parts) ==
    [i \in 1..(Len(parts) + 1) |->
        FoldLeft(LAMBDA pos, part : pos + 10 + Len(part.text), 0, SubSeq(parts, 1, i - 1))]
Request(bytes, length, parts, b) ==
    [bytes |-> bytes, length |-> length, parts |-> parts, at |-> Places(parts),
     boundary |-> b]

(* Heads of up to three lines, some of them not ended as they should be. *)
Ends == {CRLF, <<"LF">>, <<"CR", "WORD">>}
Heads == {<<l>> \o e \o h \o f \o CRLF :
              l \in {"GET", "POST", "WORD"}, e \in Ends,
              h \in {<<>>, <<"LINGER">>, <<"WORD">>}, f \in Ends}
         \cup {CRLF \o <<"GET">> \o CRLF \o CRLF}

(* Forms, as a browser encodes them. *)
Part(file, text) == [file |-> file, text |-> text]
Texts(b) == {<<>>, <<"WORD">>, <<"CR">>, <<"LF">>, <<"CR", "LF">>, <<"WORD", "CR">>,
             <<"WORD", b>>, <<b, "WORD">>, <<"LF", "--">>}
Forms(b) ==
    {<<>>} \cup {<<Part("FILE", t)>> : t \in Texts(b)}
    \cup {<<Part("NAME", t), Part("FILE", <<"WORD">>)>> : t \in Texts(b)}
Encoded(b, parts) ==
    FlattenSeq([i \in DOMAIN parts |->
        <<b>> \o CRLF \o <<parts[i].file>> \o CRLF \o CRLF \o parts[i].text \o CRLF])
    \o <<b, "--">>

PostHead == <<"POST">> \o CRLF \o <<"TYPE">> \o CRLF \o <<"LENGTH">> \o CRLF \o CRLF
Post(body, parts, b) == Request(PostHead \o body, Len(body), parts, b)
Posts ==
    {Post(Encoded(b, f) \o e, f, b) :
        b \in {"b1"}, f \in Forms("b1"), e \in {<<>>, CRLF}}
    \cup {Post(Encoded("b2", f), f, "b2") :
             f \in {<<Part("FILE", <<"WORD">>)>>, <<Part("FILE", <<"LF", "b1">>)>>}}
    \cup LET f == <<Part("NAME", <<"WORD">>), Part("FILE", <<"LF">>)>>
         IN  {Post(SubSeq(Encoded("b1", f) \o CRLF, 1, n), f, "b1") : n \in 1..26}

(* They are forms, so that FormOfBody speaks of each. *)
ASSUME PostsAreForms ==
    \A r \in Posts : IsForm(SubSeq(r.bytes, Len(PostHead) + 1, Len(r.bytes)),
                           r.boundary, r.parts, r.at)

(* A form whose Content-Type is missing. *)
Untyped ==
    LET f == <<Part("FILE", <<"WORD">>)>>  body == Encoded("b1", f)
    IN  Request(<<"POST">> \o CRLF \o <<"LENGTH">> \o CRLF \o CRLF \o body,
                Len(body), f, "b1")

(* Bodies that are longer than announced, and a head that announces none. *)
Overlongs ==
    LET f == <<Part("FILE", <<"WORD">>)>>
        body == Encoded("b1", f)
    IN  {Request(PostHead \o body \o e, n, f, "b1") :
             e \in {<<"WORD">>, CRLF}, n \in {0, 1, Len(body)}}

MCRequests == Overlongs \cup {Request(h, 0, <<>>, "b1") : h \in Heads} \cup Posts \cup {Untyped}
=============================================================================
