------------------------------- MODULE Replies -------------------------------
(***************************************************************************)
(* The text of replies: web::RES and REQ::send_msg (http1.cc), and the      *)
(* handshake of a websocket (ws.cpp).  A reply is a sequence of pieces:     *)
(* records for the status line and the header lines, BlankLine, and the     *)
(* bytes of the body.                                                       *)
(***************************************************************************)
LOCAL INSTANCE Integers
LOCAL INSTANCE Sequences
LOCAL INSTANCE FiniteSets
INSTANCE Encode

BlankLine == [line |-> "blank"]
StatusLine(version, status, text) ==
    [line |-> "status", version |-> version, status |-> status, text |-> text]
HeaderLine(k, v) == [line |-> "header", name |-> k, value |-> v]

(* The text of a status is named by the status it belongs to; the others in *)
(* the table are empty.                                                     *)
create_status_table ==
    LET named == {100, 101} \cup (200..206) \cup (300..305) \cup {307} \cup (400..417) \cup (500..505)
    IN  [i \in 0..511 |-> IF i \in named THEN i ELSE 0]
status_str(n) == create_status_table[IF 100 <= n /\ n <= 511 THEN n ELSE 500]

(* A RES is its status, its header lines and its body. *)
add_header(res, k, v) == [res EXCEPT !.header = Append(@, HeaderLine(k, v))]
(* Content-Length counts characters. *)
Bug_get(res) ==
    <<StatusLine("HTTP/1.1", res.status, status_str(res.status))>> \o res.header
    \o (IF res.body # <<>>
         THEN <<HeaderLine("Content-Length", Cardinality({i \in DOMAIN res.body : res.body[i] \notin {"u2", "u3"}}))>>
         ELSE <<>>)
    \o <<BlankLine>> \o [i \in DOMAIN res.body |-> [line |-> "body", byte |-> res.body[i]]]
get(res) ==
    <<StatusLine("HTTP/1.1", res.status, status_str(res.status))>> \o res.header
    \o (IF res.body # <<>> THEN <<HeaderLine("Content-Length", Len(res.body))>> ELSE <<>>)
    \o <<BlankLine>> \o [i \in DOMAIN res.body |-> [line |-> "body", byte |-> res.body[i]]]

send_msg(body, code, utf8) ==
    LET res == add_header([status |-> code, header |-> <<>>, body |-> <<>>], "content-type",
                          IF utf8 THEN "text/html; charset=UTF-8" ELSE "text/html")
    IN  get([res EXCEPT !.body = IF utf8 THEN GBKToUTF8(body) ELSE c_str(body)])

(* accept: the SHA-1 of what Sec-WebSocket-Key says and a fixed text, in     *)
(* base64.  Any sub-protocol is answered by a word.                         *)
upgrade_to_websocket(accept, hasProtocol) ==
    <<StatusLine("HTTP/1.1", 101, 101), HeaderLine("Upgrade", "WebSocket"),
      HeaderLine("Connection", "Upgrade"), HeaderLine("Sec-WebSocket-Accept", accept)>>
    \o (IF hasProtocol THEN <<HeaderLine("Sec-WebSocket-Protocol", "protocal_str")>> ELSE <<>>)
    \o <<BlankLine>>
=============================================================================
