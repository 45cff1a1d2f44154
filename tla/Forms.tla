-------------------------------- MODULE Forms --------------------------------
(***************************************************************************)
(* What on_body (web.cc) makes of a request's body and query: the parsers   *)
(* of http1.cc over texts.                                                   *)
(*                                                                          *)
(* A text is a sequence of bytes; longer runs of bytes that the parsers     *)
(* treat as one are one symbol.  A Json object is the sequence of its       *)
(* members <<name, value>>.                                                 *)
(***************************************************************************)
LOCAL INSTANCE Integers
LOCAL INSTANCE Sequences
INSTANCE Encode

CR == "CR"
LF == "LF"
NameIs == " name=<"         \* the seven bytes in front of a field's name
Quote == ">"                \* and the one behind it
npos == -1

(* fastring::find, which is strstr: the first occurrence of t in s from     *)
(* position i on, and none behind a NUL.                                    *)
FindText(s, t, i) ==
    LET places == {j \in i..(Len(s) - Len(t) + 1) :
                       /\ SubSeq(s, j, j + Len(t) - 1) = t
                       /\ \A k \in i..j : s[k] # "NUL"}
    IN  IF places = {} THEN npos ELSE CHOOSE j \in places : \A k \in places : j <= k

(* find of a byte, which is memchr. *)
FindByte(s, c, i) ==
    LET places == {j \in i..Len(s) : s[j] = c}
    IN  IF places = {} THEN npos ELSE CHOOSE j \in places : \A k \in places : j <= k

Key(s, isUTF8) == c_str(ToServer(s, isUTF8))

(* "%3D" and "%26" are the escapes of "=" and "&"; a "%" that begins no     *)
(* escape makes the result empty.                                           *)
url_decode(s) == IF \E i \in DOMAIN s : s[i] = "%" THEN <<>>
                 ELSE [i \in DOMAIN s |-> CASE s[i] = "%3D" -> "=" [] s[i] = "%26" -> "&"
                                            [] OTHER -> s[i]]
base64_encode(s) == <<"base64">> \o s

(* Json::set replaces the first member of that name, add_member does not    *)
(* look.                                                                    *)
add_member(j, k, v) == Append(j, <<k, v>>)
(* Nothing is replaced. *)
Bug_set(j, k, v) == add_member(j, k, v)
set(j, k, v) ==
    IF \A i \in DOMAIN j : j[i][1] # k THEN add_member(j, k, v)
    ELSE LET first == CHOOSE i \in DOMAIN j : j[i][1] = k /\ \A h \in 1..(i - 1) : j[h][1] # k
         IN  [j EXCEPT ![first] = <<k, v>>]

(* The loop that parse_form_query and parse_form_urlencoded share: pairs    *)
(* from position k_ptr of the text on.                                      *)
PairsFrom(text, start, isUTF8) ==
    LET Raw(i, j) == url_decode(SubSeq(text, i, j))
        Pair(j, k, e, last) == set(j, Key(Raw(k, e - 1), isUTF8), ToServer(Raw(e + 1, last), isUTF8))
        loop[k_ptr \in 1..(Len(text) + 2), j \in Seq(Seq(Seq(STRING)))] ==
            LET eq  == FindText(text, <<"=">>, k_ptr)
                amp == FindText(text, <<"&">>, eq + 1)
            IN  IF eq = npos THEN j
                ELSE IF amp = npos THEN Pair(j, k_ptr, eq, Len(text))
                ELSE loop[amp + 1, Pair(j, k_ptr, eq, amp - 1)]
    IN  loop[start, <<>>]

parse_form_query(path, isUTF8) ==
    LET ptr == FindText(path, <<"?">>, 1)
    IN  IF ptr = npos THEN <<>> ELSE PairsFrom(path, ptr + 1, isUTF8)

parse_form_urlencoded(body, isUTF8) == PairsFrom(body, 1, isUTF8)

(* The name and the value of the next part of a multipart body, found from  *)
(* position i on, and whether the loop goes on.  The value begins one byte  *)
(* behind the empty line and ends one byte before the line break; a length  *)
(* below zero wraps around, and the append throws.                          *)
NoPart == [more |-> FALSE, throws |-> FALSE]
NextPart(body, form_name, i) ==
    LET name  == FindText(body, <<NameIs>>, i) + 1
        quote == FindByte(body, Quote, name)
        blank == FindText(body, <<CR, LF, CR, LF>>, quote)
        value == blank + 5
        end   == FindText(body, form_name, value)
        len   == end - 3 - value
    IN  IF \/ FindText(body, <<NameIs>>, i) = npos \/ quote = npos
           \/ blank = npos \/ end = npos
        THEN NoPart
        ELSE IF len < 0 THEN [more |-> FALSE, throws |-> TRUE]
        ELSE [more |-> TRUE, throws |-> FALSE,
              name |-> SubSeq(body, name, quote - 1),
              value |-> SubSeq(body, value, value + len - 1),
              isFile |-> body[quote + 1] = ";" /\ body[quote + 3] = "f" /\ body[quote + 4] = "i",
              next |-> value + len + 2]

(* A field's name and value are converted to the server's charset, a file's *)
(* value is not; it goes out in base64.                                     *)
parse_form_data(body, utf8) ==
    LET name_len == FindText(body, <<CR, LF>>, 1)
        loop[i \in 1..(Len(body) + 1), r \in Seq(Seq(Seq(STRING)))] ==
            LET part == NextPart(body, SubSeq(body, 1, name_len - 1), i)
            IN  IF part.throws THEN [throws |-> TRUE]
                ELSE IF ~part.more THEN [throws |-> FALSE, json |-> r]
                ELSE loop[part.next, add_member(r, Key(part.name, utf8),
                                                IF part.isFile THEN base64_encode(part.value)
                                                ELSE Key(part.value, utf8))]
    IN  IF name_len = npos THEN [throws |-> FALSE, json |-> <<>>] ELSE loop[name_len, <<>>]

(* on_body up to the callbacks: the body by its type.                       *)
(* parse_form_urlencoded moves the body out of the request; a Json body is  *)
(* converted the other way round.                                           *)
parsed_body(type, body, isUTF8) ==
    CASE type = "json" ->
            LET text == IF isUTF8 THEN GBKToUTF8(body) ELSE body
            IN  [throws |-> FALSE, json |-> << <<"json">>, text >>, body_bin |-> text]
      [] type = "form-data" ->
            LET r == parse_form_data(body, isUTF8)
            IN  IF r.throws THEN r ELSE [throws |-> FALSE, json |-> r.json, body_bin |-> body]
      [] type = "urlencoded" ->
            [throws |-> FALSE, json |-> parse_form_urlencoded(body, isUTF8), body_bin |-> <<>>]
      [] OTHER -> [throws |-> FALSE, json |-> <<>>, body_bin |-> body]
=============================================================================
