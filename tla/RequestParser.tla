---------------------------- MODULE RequestParser ----------------------------
(***************************************************************************)
(* The header parser: phr_parse_request, phr_parse_headers and              *)
(* phr_parse_response (picohttpparser.c) and what parse_web_headers         *)
(* (http1.cc) makes of their result, over sequences of byte classes.        *)
(*                                                                          *)
(* A parser of a part takes the text s (s[1] is buf_start, Len(s) + 1 is    *)
(* buf_end) and a position, and returns a record: at is the position behind *)
(* the part, or the verdict -1 or -2; the other fields are its results.     *)
(***************************************************************************)
LOCAL INSTANCE Integers
LOCAL INSTANCE Sequences
LOCAL INSTANCE SequencesExt

CONSTANT MaxHeaders         \* max_headers (http1.h)
MaxHeadersAssumption == MaxHeaders \in Nat

(* Byte classes.  "HTTP/1." stands for its seven bytes, NUL for control     *)
(* bytes and DEL, "/" for bytes that are no token characters, "path" for    *)
(* its four letters; it and the rest are token characters.                  *)
CR == "CR"
LF == "LF"
Blank == {" ", "HT"}
Control == {"NUL", CR, LF, "HT"}
Symbols == {"A", "a", "path", "0", "1", "HTTP/1.", "/", ":", " ", "HT", "NUL", CR, LF}
token_char_map == {"A", "a", "path", "0", "1"}
IS_DIGIT == {"0", "1"}
Width(c) == CASE c = "HTTP/1." -> 7 [] c = "path" -> 4 [] OTHER -> 1
Bytes(s) == FoldSeq(LAMBDA c, n : n + Width(c), 0, s)

Error == -1
Incomplete == -2

Stop(verdict) == [at |-> verdict]
Then(r, F(_)) == IF r.at < 0 THEN r ELSE F(r)
CheckEof(s, i) == IF i > Len(s) THEN Stop(Incomplete) ELSE [at |-> i]
ExpectChar(s, i, c) == Then(CheckEof(s, i), LAMBDA r :
                           IF s[i] = c THEN [at |-> i + 1] ELSE Stop(Error))

(* The first position from i on with one of these bytes, or the end. *)
Find(s, i, bytes) == CHOOSE j \in i..(Len(s) + 1) :
                        /\ j <= Len(s) => s[j] \in bytes
                        /\ \A k \in i..(j - 1) : s[k] \notin bytes

(* A CR at the end of the text is taken for the line break. *)
Bug_NewLine(s, i) == Then(CheckEof(s, i), LAMBDA r :
    IF s[i] = CR THEN (IF i = Len(s) THEN [at |-> i + 1] ELSE ExpectChar(s, i + 1, LF))
    ELSE IF s[i] = LF THEN [at |-> i + 1] ELSE Stop(Error))

(* A line break, CR LF or LF, or what is wrong with it. *)
NewLine(s, i) == Then(CheckEof(s, i), LAMBDA r :
                     IF s[i] = CR THEN ExpectChar(s, i + 1, LF)
                     ELSE IF s[i] = LF THEN [at |-> i + 1] ELSE Stop(Error))

SkipSpaces(s, i) == CheckEof(s, Find(s, i, Symbols \ {" "}))

parse_token(s, i, next_char) ==
    LET j == Find(s, i, (Symbols \ token_char_map) \cup {next_char})
    IN  Then(CheckEof(s, j), LAMBDA r :
            IF s[j] = next_char THEN [at |-> j, token |-> SubSeq(s, i, j - 1)] ELSE Stop(Error))

(* The macro ADVANCE_TOKEN. *)
AdvanceToken(s, i) ==
    LET j == Find(s, i, {" "} \cup Control)
    IN  Then(CheckEof(s, j), LAMBDA r :
            IF s[j] = " " THEN [at |-> j, token |-> SubSeq(s, i, j - 1)] ELSE Stop(Error))

get_token_to_eol(s, i) ==
    LET j == Find(s, i, Control \ {"HT"})
    IN  Then(NewLine(s, j), LAMBDA r : [at |-> r.at, token |-> SubSeq(s, i, j - 1)])

parse_http_version(s, i) ==
    IF Bytes(SubSeq(s, i, Len(s))) < 9 THEN Stop(Incomplete)
    ELSE IF s[i] # "HTTP/1." \/ s[i + 1] \notin IS_DIGIT THEN Stop(Error)
    ELSE [at |-> i + 2, minor_version |-> s[i + 1]]

(* Blanks behind a value stay. *)
Bug_RightTrim(v) == v
RightTrim(v) == LET ends == {n \in 0..Len(v) : \A k \in (n + 1)..Len(v) : v[k] \in Blank}
                IN  SubSeq(v, 1, CHOOSE n \in ends : \A m \in ends : n <= m)

(* The name of a header at i and the blanks behind its colon.  A line that  *)
(* begins with a blank continues the header before it and has no name.      *)
HeaderName(s, i, num_headers) ==
    IF num_headers # 0 /\ s[i] \in Blank THEN [at |-> i, token |-> <<>>]
    ELSE Then(parse_token(s, i, ":"), LAMBDA n :
             IF n.token = <<>> THEN Stop(Error)
             ELSE Then(CheckEof(s, Find(s, n.at + 1, Symbols \ Blank)), LAMBDA b :
                      [at |-> b.at, token |-> n.token]))

parse_headers(s, i) ==
    LET rest[j \in 1..(Len(s) + 1), found \in Seq(Seq(Symbols) \X Seq(Symbols))] ==
            IF CheckEof(s, j).at < 0 THEN CheckEof(s, j)
            ELSE IF s[j] \in {CR, LF}
            THEN Then(NewLine(s, j), LAMBDA r : [at |-> r.at, headers |-> found])
            ELSE IF Len(found) = MaxHeaders THEN Stop(Error)
            ELSE Then(HeaderName(s, j, Len(found)), LAMBDA n :
                     Then(get_token_to_eol(s, n.at), LAMBDA v :
                         rest[v.at, Append(found, <<n.token, RightTrim(v.token)>>)]))
    IN  rest[i, <<>>]

parse_request(s) ==
    Then(IF s # <<>> /\ s[1] \in {CR, LF} THEN NewLine(s, 1) ELSE CheckEof(s, 1), LAMBDA r0 :
    Then(parse_token(s, r0.at, " "), LAMBDA m :
    Then(SkipSpaces(s, m.at + 1), LAMBDA r1 :
    Then(AdvanceToken(s, r1.at), LAMBDA p :
    Then(SkipSpaces(s, p.at + 1), LAMBDA r2 :
    IF m.token = <<>> \/ p.token = <<>> THEN Stop(Error) ELSE
    Then(parse_http_version(s, r2.at), LAMBDA v :
    Then(NewLine(s, v.at), LAMBDA r3 :
    Then(parse_headers(s, r3.at), LAMBDA h :
        [at |-> h.at, method |-> m.token, path |-> p.token,
         minor_version |-> v.minor_version, headers |-> h.headers]))))))))

parse_response(s) ==
    Then(parse_http_version(s, 1), LAMBDA v :
    IF s[v.at] # " " THEN Stop(Error) ELSE
    Then(SkipSpaces(s, v.at + 1), LAMBDA r1 :
    IF Bytes(SubSeq(s, r1.at, Len(s))) < 4 THEN Stop(Incomplete)
    ELSE IF \E k \in 0..2 : s[r1.at + k] \notin IS_DIGIT THEN Stop(Error) ELSE
    Then(get_token_to_eol(s, r1.at + 3), LAMBDA msg :
    IF msg.token # <<>> /\ msg.token[1] # " " THEN Stop(Error) ELSE
    Then(parse_headers(s, msg.at), LAMBDA h :
        [at |-> h.at, minor_version |-> v.minor_version, headers |-> h.headers,
         msg |-> SubSeq(msg.token, Find(msg.token, 1, Symbols \ {" "}), Len(msg.token))]))))

(* The position of the byte number n, counted from 0. *)
PositionOf(s, n) == CHOOSE i \in 1..(Len(s) + 1) :
                        /\ Bytes(SubSeq(s, 1, i - 1)) <= n
                        /\ i <= Len(s) => n < Bytes(SubSeq(s, 1, i))

(* Two line breaks in a row, looked for from three bytes before last_len. *)
is_complete(s, last_len) ==
    LET scan[i \in 1..(Len(s) + 1), ret_cnt \in 0..2] ==
            IF ret_cnt = 2 THEN [at |-> i]
            ELSE IF CheckEof(s, i).at < 0 THEN CheckEof(s, i)
            ELSE IF s[i] \in {CR, LF} THEN Then(NewLine(s, i), LAMBDA r : scan[r.at, ret_cnt + 1])
            ELSE scan[i + 1, 0]
    IN  scan[IF last_len < 3 THEN 1 ELSE PositionOf(s, last_len - 3), 0]

(* The result: at minus the start is the number of bytes consumed. *)
Parsed(parse(_), s, last_len) ==
    Then(IF last_len # 0 THEN is_complete(s, last_len) ELSE [at |-> 1], LAMBDA r : parse(s))

phr_parse_request(s, last_len)  == Parsed(parse_request, s, last_len)
phr_parse_response(s, last_len) == Parsed(parse_response, s, last_len)
phr_parse_headers(s, last_len)  == Parsed(LAMBDA t : parse_headers(t, 1), s, last_len)

tolower(name) == [i \in DOMAIN name |-> IF name[i] = "A" THEN "a" ELSE name[i]]

(* The members that parse_web_headers adds to the Json of the request, in   *)
(* order; members are added without a look at what is there.                *)
parse_web_headers(s) ==
    Then(phr_parse_request(s, 0), LAMBDA r :
        [at |-> r.at,
         members |-> << << <<"method">>, r.method>>, << <<"path">>, r.path>>,
                        << <<"version">>, <<IF r.minor_version = "0" THEN "HTTP/1.0" ELSE "HTTP/1.1">> >> >>
                     \o [i \in DOMAIN r.headers |-> <<tolower(r.headers[i][1]), r.headers[i][2]>>]])

(* Json::get: the first member of that name. *)
get(members, name) ==
    LET named == {i \in DOMAIN members : members[i][1] = name}
    IN  IF named = {} THEN "null" ELSE members[CHOOSE i \in named : \A j \in named : i <= j][2]
=============================================================================
