------------------------------ MODULE MCParsers ------------------------------
(***************************************************************************)
(* The conversions of text, each against a reference: the chunk decoder     *)
(* (MCChunkedDecoder), the header parser, the form parsers, the reply       *)
(* writer and SHA-1.  A behaviour decodes one chunked input, or looks at    *)
(* one sample and, if that is a request, at what one wrong byte makes of it.*)
(***************************************************************************)
EXTENDS MCChunkedDecoder

VARIABLE sample

Header == INSTANCE RequestParser WITH MaxHeaders <- 2
Form == INSTANCE Forms
Reply == INSTANCE Replies
Sha == INSTANCE Sha1

ASSUME HeadersAssumption == Header!MaxHeadersAssumption

AtMost(n, S) == UNION {[1..k -> S] : k \in 0..n}

-----------------------------------------------------------------------------
(* Requests: as a client writes them, tidily or with all that is allowed. *)
Fields == {<< <<"A">>, <<"a", ":">> >>, << <<"a">>, <<"a", " ", "1">> >>, << <<"path">>, <<>> >>}
Style(blank, gap, pad, eol, path) ==
    [blank |-> blank, gap |-> gap, pad |-> pad, eol |-> eol, path |-> path]
Styles == {Style(<<>>, <<" ">>, <<>>, <<CR, LF>>, <<"/", "a">>),
           Style(<<CR, LF>>, <<" ", " ">>, <<"HT">>, <<LF>>, <<"/">>)}

TooMany == [i \in 1..3 |-> << <<"A">>, <<"a">> >>]     \* MaxHeaders is 2

(* A request, a response or the header lines alone. *)
HeaderText(of, style, fields) ==
    LET FieldText(f) == f[1] \o <<":">> \o style.pad \o f[2] \o style.pad \o style.eol
    IN  (CASE of = "request" -> style.blank \o <<"A">> \o style.gap \o style.path \o style.gap
                                \o <<"HTTP/1.", "1">> \o style.eol
           [] of = "response" -> <<"HTTP/1.", "1">> \o style.gap \o <<"1", "0", "1", " ">> \o style.pad
                                 \o style.eol
           [] of = "headers" -> <<>>)
        \o FlattenSeq([i \in DOMAIN fields |-> FieldText(fields[i])]) \o style.eol

HeaderSamples ==
    {[kind |-> "header", whole |-> TRUE, of |-> of, style |-> st, fields |-> f,
      text |-> HeaderText(of, st, f)] :
        of \in {"request", "response", "headers"}, st \in Styles, f \in AtMost(2, Fields) \cup {TooMany}}

(* One byte more, less or another one, in a header of few fields. *)
Damage == /\ sample.kind = "header" /\ sample.whole /\ Len(sample.fields) # 2
          /\ \E i \in DOMAIN sample.text :
                \E t \in {ReplaceAt(sample.text, i, c) : c \in Header!Symbols}
                         \cup {RemoveAt(sample.text, i), InsertAt(sample.text, i, " ")} :
                    sample' = [sample EXCEPT !.text = t, !.whole = FALSE]
          /\ UNCHANGED vars

FirstBytes(n) == SubSeq(sample.text, 1, n)
Parse(text, last_len) ==
    CASE sample.of = "request"  -> Header!phr_parse_request(text, last_len)
      [] sample.of = "response" -> Header!phr_parse_response(text, last_len)
      [] sample.of = "headers"  -> Header!phr_parse_headers(text, last_len)
Verdict(n) == Parse(FirstBytes(n), 0)

(* A header may arrive in any parts, and the parser is called anew with     *)
(* each: once it has given a result or an error, more bytes do not change   *)
(* it.  last_len, the length of an earlier incomplete call, decides nothing *)
(* but how early an error shows; except that with it phr_parse_headers does *)
(* not see the end of header lines that are none.                           *)
VerdictStable ==
    sample.kind = "header" =>
        /\ \A n \in 1..Len(sample.text) :
              Verdict(n - 1).at # Header!Incomplete => Verdict(n) = Verdict(n - 1)
        /\ \A n \in 1..(Len(sample.text) - 1) :
              LET quick == Parse(sample.text, Header!Bytes(FirstBytes(n)))
                  full  == Verdict(Len(sample.text))
                  none  == sample.of = "headers" /\ sample.text[1] \in {CR, LF}
              IN  Verdict(n).at = Header!Incomplete /\ ~none =>
                      quick = full \/ (quick.at < 0 /\ full.at < 0)

(* parse_web_headers reads back what a client has written, whatever the     *)
(* style, and consumes exactly the header; a field named like the path does *)
(* not hide the path; of two fields with one name the first is found.  More *)
(* fields than there is room for are an error.                              *)
RequestReadBack ==
    /\ sample.kind = "header" /\ sample.whole =>
           ((Verdict(Len(sample.text)).at = Header!Error) <=> sample.fields = TooMany)
    /\ sample.kind = "header" /\ sample.whole /\ sample.of = "request" /\ sample.fields # TooMany =>
        LET r == Header!parse_web_headers(sample.text)
            named == {i \in DOMAIN sample.fields : sample.fields[i][1] \in {<<"A">>, <<"a">>}}
        IN  /\ r.at = Len(sample.text) + 1
            /\ Header!get(r.members, <<"path">>) = sample.style.path
            /\ named # {} => Header!get(r.members, <<"a">>) = sample.fields[Min(named)][2]

-----------------------------------------------------------------------------
(* Forms and queries *)
Letter == <<"u1", "u2", "u3">>
Pairs == {<<"a">>, Letter} \X {<<>>, <<"a", "=">>, <<"&", "a">>, <<"a">> \o Letter}
Escape(v) == [i \in DOMAIN v |-> CASE v[i] = "=" -> "%3D" [] v[i] = "&" -> "%26" [] OTHER -> v[i]]
PairsText(p) == FlattenSeq([i \in DOMAIN p |->
    (IF i = 1 THEN <<>> ELSE <<"&">>) \o Escape(p[i][1]) \o <<"=">> \o Escape(p[i][2])])

Parts == [name : {<<"a">>, Letter}, file : BOOLEAN,
          value : {<<"a", "a">>, <<"a">> \o Letter \o <<"a">>, <<CR, LF, CR, LF, "a">>, <<"a">>}]
PartText(p) == <<"--B", CR, LF, "disposition", Form!NameIs>> \o p.name \o <<Form!Quote>>
               \o (IF p.file THEN <<";", " ", "f", "i", "lename">> ELSE <<>>)
               \o <<CR, LF, CR, LF>> \o p.value \o <<CR, LF>>
PartsText(ps) == FlattenSeq([i \in DOMAIN ps |-> PartText(ps[i])]) \o <<"--B", "--", CR, LF>>

FormSamples == [kind : {"pairs"}, pairs : AtMost(2, Pairs), utf8 : BOOLEAN]
               \cup [kind : {"parts"}, parts : AtMost(2, Parts), utf8 : BOOLEAN]

Charset(s) == IF sample.utf8 THEN Form!UTF8ToGBK(s) ELSE s
LastValue(k) == LET i == Max({h \in DOMAIN sample.pairs : sample.pairs[h][1] = k})
                IN  Charset(sample.pairs[i][2])

(* The pairs of a query and of a form reach the callbacks once per name,    *)
(* with the last value, in the charset of the server.                       *)
PairsReadBack ==
    sample.kind = "pairs" =>
        LET body  == PairsText(sample.pairs)
            query == Form!parse_form_query(<<"/", "?">> \o body, sample.utf8)
            form  == Form!parsed_body("urlencoded", body, sample.utf8)
        IN  /\ form.json = query
            /\ {query[i][1] : i \in DOMAIN query} = {Charset(sample.pairs[i][1]) : i \in DOMAIN sample.pairs}
            /\ Cardinality({query[i][1] : i \in DOMAIN query}) = Len(query)
            /\ \A i \in DOMAIN sample.pairs :
                  Form!Key(sample.pairs[i][1], sample.utf8) \in {query[h][1] : h \in
                      {g \in DOMAIN query : query[g][2] = LastValue(sample.pairs[i][1])}}

(* The values of parts that this claims something of. *)
Claimed(v) == Len(v) >= 2
Arrives(p, got) == \E i \in 1..2, j \in (Len(p.value) - 1)..Len(p.value) :
    LET kept == SubSeq(p.value, i, j)
    IN  got = IF p.file THEN Form!base64_encode(kept) ELSE Charset(kept)

(* The parts of a multipart body reach the callbacks in order, each under   *)
(* its own name, with all that stands between the first and the last byte   *)
(* of its value and with nothing of its neighbours, empty lines inside a    *)
(* value or not.  Those two bytes are left out of the claim, and so are     *)
(* values that have no more: http1.cc:204-208 loses the two and throws for  *)
(* a value of one byte or none.  A code that keeps them has this property   *)
(* as well.                                                                 *)
PartsStayApart ==
    sample.kind = "parts" /\ (\A i \in DOMAIN sample.parts : Claimed(sample.parts[i].value)) =>
        \E r \in {Form!parsed_body("form-data", PartsText(sample.parts), sample.utf8)} :
            /\ ~r.throws
            /\ Len(r.json) = Len(sample.parts)
            /\ \A i \in DOMAIN sample.parts :
                  /\ r.json[i][1] = Charset(sample.parts[i].name)
                  /\ Arrives(sample.parts[i], r.json[i][2])

(* Queries and urlencoded forms reach the callbacks as they were sent, and  *)
(* the parts of a multipart form but for the ends of their values.          *)
FormsReadBack == PairsReadBack /\ PartsStayApart

-----------------------------------------------------------------------------
(* Replies *)
ReplySamples ==
    LET One == [body : {<<"a">>, <<"g1", "g2", "a">>, <<"a", "NUL", "a">>, <<>>},
                status : {200, 404, 600}, utf8 : BOOLEAN]
    IN  [kind : {"replies"}, upgrade : BOOLEAN, replies : One \X One]

Shown(r) == IF r.utf8 THEN Reply!GBKToUTF8(r.body) ELSE Reply!c_str(r.body)
RepliesText ==
    LET Text(r) == Reply!send_msg(r.body, r.status, r.utf8)
    IN  (IF sample.upgrade THEN Reply!upgrade_to_websocket("accepted", TRUE) ELSE <<>>)
        \o Text(sample.replies[1]) \o Text(sample.replies[2])

(* A client takes as many bytes for the body as the header announces, none  *)
(* behind a 101, and all that follows if the header does not say.           *)
ClientReads(s) ==
    LET read[i \in Nat] ==
            IF i > Len(s) THEN <<>>
            ELSE IF s[i].line # "status" THEN <<"garbage">>
            ELSE LET blank == CHOOSE j \in i..Len(s) :
                                  s[j].line = "blank" /\ \A k \in i..(j - 1) : s[k].line # "blank"
                     said  == {h \in i..blank : s[h].line = "header" /\ s[h].name = "Content-Length"}
                     n     == IF said # {} THEN s[Min(said)].value
                              ELSE IF s[i].status = 101 THEN 0 ELSE Len(s) - blank
                 IN  <<[k \in 1..n |-> s[blank + k]]>> \o read[blank + n + 1]
    IN  read[1]

(* Replies stand back to back on a connection: a client that reads them     *)
(* finds the bodies that were given to send_msg, provided none but the last *)
(* is empty (an empty reply announces no length).                           *)
RepliesFramed ==
    sample.kind = "replies" /\ sample.replies[1].body # <<>> =>
        LET Body(r) == [i \in DOMAIN Shown(r) |-> [line |-> "body", byte |-> Shown(r)[i]]]
        IN  ClientReads(RepliesText) = (IF sample.upgrade THEN << <<>> >> ELSE <<>>)
                                       \o <<Body(sample.replies[1]), Body(sample.replies[2])>>

-----------------------------------------------------------------------------
(* SHA-1 of n times the letter a, and of the key and the fixed text in the  *)
(* example of RFC 6455, 1.3.                                                *)
RfcKey == <<100, 71, 104, 108, 73, 72, 78, 104, 98, 88, 66, 115, 90, 83, 66, 117, 98, 50,
            53, 106, 90, 81, 61, 61, 50, 53, 56, 69, 65, 70, 65, 53, 45, 69, 57, 49, 52, 45,
            52, 55, 68, 65, 45, 57, 53, 67, 65, 45, 67, 53, 65, 66, 48, 68, 67, 56, 53, 66, 49, 49>>
Known == {<<RfcKey,
                <<<<45946, 20268>>, <<49250, 20246>>, <<37110, 17926>>, <<53048, 22853>>, <<45758, 50410>>>>>>,
          <<[i \in 1..0 |-> 97],
                <<<<55865, 41966>>, <<24171, 19213>>, <<12885, 49135>>, <<38240, 6288>>, <<45016, 1801>>>>>>,
          <<[i \in 1..55 |-> 97],
                <<<<49608, 48092>>, <<8825, 28200>>, <<49377, 20835>>, <<53768, 39350>>, <<22049, 54874>>>>>>,
          <<[i \in 1..56 |-> 97],
                <<<<49883, 13071>>, <<24707, 34124>>, <<39380, 46527>>, <<46824, 62111>>, <<8219, 59033>>>>>>,
          <<[i \in 1..64 |-> 97],
                <<<<152, 47746>>, <<19292, 5698>>, <<31703, 41234>>, <<10842, 17450>>, <<9708, 25677>>>>>>,
          <<[i \in 1..120 |-> 97],
                <<<<62284, 5256>>, <<14419, 18085>>, <<22281, 47621>>, <<28125, 2088>>, <<3540, 50902>>>>>>}

ShaSamples == UNION {[kind : {"sha"}, message : {k[1]}, digest : {k[2]},
                      cut : {1, 55, 63, 64} \cap 0..Len(k[1])] : k \in Known}

(* The digest is that of the standard, at every length where the padding    *)
(* changes its form, and does not depend on the pieces that update gets.    *)
DigestRight ==
    sample.kind = "sha" =>
        LET m == sample.message
            pieces == Sha!update(Sha!update(Sha!init, SubSeq(m, 1, sample.cut)),
                                 SubSeq(m, sample.cut + 1, Len(m)))
        IN  Sha!finish(pieces) = sample.digest

-----------------------------------------------------------------------------
NoSample == [kind |-> "none"]
Quiet == CHOOSE i \in MCInputs : i.text = <<>>

MCInit == /\ Init
          /\ \/ sample = NoSample
             \/ /\ input = Quiet
                /\ sample \in HeaderSamples \cup FormSamples \cup ReplySamples \cup ShaSamples
MCNext == \/ Next /\ UNCHANGED sample
          \/ Damage
MCSpec == MCInit /\ [][MCNext]_<<vars, sample>> /\ WF_vars(Next)
=============================================================================
