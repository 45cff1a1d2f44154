--------------------------- MODULE HttpConnection ---------------------------
(***************************************************************************)
(* ServerImpl::on_connection (web.cc), one coroutine per connection, with   *)
(* the hooks of web::Server it calls, the client, and web::REQ: its reply   *)
(* sender in its abstract form (ReplyChannel), and how its destructor and   *)
(* the sender's coroutine part.                                             *)
(*                                                                          *)
(* The client's bytes are abstracted to tokens: request n is the sequence   *)
(* <<n, 1>>, <<n, 2>>, ...: hdr(n) tokens of header, the first of them one  *)
(* byte, and then the body.  recv returns any non-empty part of what has    *)
(* arrived.  A step of the handler is the code between two calls that can   *)
(* block or run a hook; `pc` names the place it has reached, the labels of  *)
(* the code (recv_err, closed, ...) included.                               *)
(*                                                                          *)
(* A definition named Bug_X differs from X by a plausible slip in the code; *)
(* no behaviour specification uses it.  It shows that a property can fail.  *)
(***************************************************************************)
EXTENDS Integers, Sequences, FiniteSets

CONSTANTS
    Kinds,          \* the kinds of requests clients send, see KindsAssumption
    MaxRequests,    \* bound on the requests of the connection
    MaxHeader,      \* FLG_web_max_header_size, in tokens
    Patience        \* does the client wait for its replies? the answers allowed

(* hdr, body: tokens of header and body;                                    *)
(* chunked: Transfer-Encoding is given, instead of a Content-Length;        *)
(* large: the body does not fit in the buffer as it is after the header;    *)
(* routed: ROUTE::get finds the path;                                       *)
(* connection: what the Connection field makes the server do;               *)
(* websocket: the Upgrade field starts with w or W;                         *)
(* wsrouted: ROUTE::get_ws finds the path.                                  *)
ASSUME KindsAssumption ==
    Kinds \subseteq [hdr : Nat \ {0}, body : Nat, chunked : BOOLEAN,
                     large : BOOLEAN, routed : BOOLEAN,
                     connection : {"keep-alive", "upgrade", "other"},
                     websocket : BOOLEAN, wsrouted : BOOLEAN]
ASSUME BoundsAssumption == /\ MaxRequests \in Nat
                           /\ MaxHeader \in Nat
ASSUME PatienceAssumption == Patience \subseteq BOOLEAN

VARIABLES
    patient,        \* the client reads its replies, each before its next request
    reqs,           \* the kinds of the requests sent so far
    inbox,          \* tokens sent and not yet received
    fin,            \* the client has closed its side
    stopped,        \* ServerImpl::_stopped
    pc,             \* where the handler is
    buf,            \* the receive buffer
    cur,            \* the request being handled, 0 if none
    size,           \* tokens of buf already decoded, 0 before the body loops
    keep_alive,     \* set by a keep-alive request and never cleared
    route_ok,       \* result of on_header for the current request
    body_bin,       \* REQ::body_bin
    vec, wsvec,     \* REQ::p_callback_vector and p_wscalback_vector, 0 is NULL
    live,           \* callback vectors allocated and not deleted
    hook,           \* last of the hooks on_connect, on_err, on_close to run
    conn,           \* the connection: "open", "closed" or "reset"
    queue, wire, status,    \* the reply channel
    exit,           \* REQ::exit: 1 running, 0 asked to stop, -1 stopped
    sender,         \* the sender coroutine: in its "loop", or "done"
    dispatched      \* history: requests given to their callbacks, and bodies

clientVars == <<patient, reqs, inbox, fin>>
parseVars  == <<buf, cur, size, keep_alive, route_ok, body_bin>>
vecVars    == <<vec, wsvec, live>>
chanVars   == <<queue, wire, status>>
reqVars    == <<exit, sender>>
vars == <<clientVars, stopped, pc, parseVars, vecVars, hook, conn, chanVars,
          reqVars, dispatched>>

Reply == (1..MaxRequests) \X {"200", "404"}

(* web::REQ with its sender coroutine, as ReplySender shows it to behave.   *)
Channel == INSTANCE ReplyChannel

-----------------------------------------------------------------------------
(* Requests as tokens *)

Garbage == <<0, 0>>             \* bytes that no client sent
hdr(n)  == reqs[n].hdr
ContentLength(n) == IF reqs[n].chunked THEN 0 ELSE reqs[n].body
Terminator(n) == <<n, reqs[n].hdr + reqs[n].body + 1>>      \* the last chunk
TokensOf(q, n) == [i \in 1..(q.hdr + q.body + (IF q.chunked THEN 1 ELSE 0))
                      |-> <<n, i>>]
HeaderOf(n) == [i \in 1..hdr(n) |-> <<n, i>>]
BodyOf(n) == [i \in 1..reqs[n].body |-> <<n, hdr(n) + i>>]

First(s, k) == SubSeq(s, 1, k)
Drop(s, k)  == SubSeq(s, k + 1, Len(s))
Min2(a, b)  == IF a < b THEN a ELSE b

-----------------------------------------------------------------------------
(* The client and the server's owner *)

Answered(n) == \E i \in 1..Len(wire) : wire[i][1] = n

(* No request follows one that asks to leave HTTP for a websocket. *)
IsWebsocket(q) == q.connection = "upgrade" /\ q.websocket

SendRequest(q) ==
    /\ ~fin /\ Len(reqs) < MaxRequests
    /\ patient => \A n \in 1..Len(reqs) : Answered(n)
    /\ \A n \in 1..Len(reqs) : ~IsWebsocket(reqs[n])
    /\ reqs' = Append(reqs, q)
    /\ inbox' = inbox \o TokensOf(q, Len(reqs) + 1)
    /\ UNCHANGED <<patient, fin, stopped, pc, parseVars, vecVars, hook, conn,
                   chanVars, reqVars, dispatched>>

ClientCloses ==
    /\ ~fin
    /\ fin' = TRUE
    /\ UNCHANGED <<patient, reqs, inbox, stopped, pc, parseVars, vecVars, hook,
                   conn, chanVars, reqVars, dispatched>>

(* ServerImpl::exit *)
Exit ==
    /\ ~stopped
    /\ stopped' = TRUE
    /\ UNCHANGED <<clientVars, pc, parseVars, vecVars, hook, conn, chanVars,
                   reqVars, dispatched>>

-----------------------------------------------------------------------------
(* The sender coroutine of REQ.  It ends when it finds `exit` changed, and   *)
(* whether it still touches a REQ that is gone is ReplySender's concern:    *)
(* once the destructor is through, it takes no step here.                   *)

Sending == sender = "loop" /\ pc # "done"

Transmit ==
    /\ Sending /\ conn = "open"
    /\ \E k \in 1..Len(queue) : Channel!Transmit(k)
    /\ UNCHANGED <<clientVars, stopped, pc, parseVars, vecVars, hook, conn,
                   reqVars, dispatched>>

(* A failed send, and the -1 it stores.  None gets through on a connection  *)
(* that is closed; on one that the 101 reply found broken, what is queued   *)
(* stays there.                                                             *)
TransmitFails ==
    /\ Sending
    /\ \/ \E j \in 1..Len(queue) : \E k \in 0..(j - 1) :
             (conn # "open" => k = 0) /\ Channel!Break(j, k)
       \/ /\ status = "down" /\ exit # -1 /\ queue # <<>>
          /\ UNCHANGED chanVars
    /\ exit' = -1
    /\ UNCHANGED <<clientVars, stopped, pc, parseVars, vecVars, hook, conn,
                   sender, dispatched>>


(* exit is not 1 any more: the loop is over, and -1 is stored behind it. *)
SenderStops ==
    /\ Sending /\ exit # 1
    /\ exit' = -1
    /\ sender' = "done"
    /\ UNCHANGED <<clientVars, stopped, pc, parseVars, vecVars, hook, conn,
                   chanVars, dispatched>>

-----------------------------------------------------------------------------
(* The handler *)

Init == /\ patient \in Patience
        /\ reqs = <<>> /\ inbox = <<>> /\ fin = FALSE
        /\ stopped = FALSE
        /\ pc = "connect"
        /\ buf = <<>> /\ cur = 0 /\ size = 0
        /\ keep_alive = FALSE /\ route_ok = FALSE
        /\ body_bin = <<>>
        /\ vec = 0 /\ wsvec = 0 /\ live = {}
        /\ hook = "none"
        /\ conn = "open"
        /\ queue = <<>> /\ wire = <<>> /\ status = "up"
        /\ exit = 1 /\ sender = "loop"
        /\ dispatched = <<>>

(* The handler reaches a label and changes nothing else. *)
Goto(label) == /\ pc' = label
               /\ UNCHANGED <<clientVars, stopped, parseVars, vecVars, hook, conn,
                              chanVars, reqVars, dispatched>>

(* _on_connect: the user's `connected` hook may refuse the connection. *)
OnConnect ==
    /\ pc = "connect"
    /\ hook' = "connect"
    /\ pc' \in {"recv_first", "closed"}
    /\ UNCHANGED <<clientVars, stopped, parseVars, vecVars, conn, chanVars,
                   reqVars, dispatched>>

(* What a handler waits for in recv: the first byte of a connection, more   *)
(* of a header, of a body of known length, or of a chunked body.            *)
HeaderTooLong == pc = "recv_header" /\ Len(buf) > MaxHeader
Receiving == /\ pc \in {"recv_first", "recv_header", "recv_body", "recv_stale",
                        "recv_chunk"}
             /\ ~HeaderTooLong

(* Room for the call of recv: `sub` bytes for a body, else the buffer grows. *)
Wanted == CASE pc = "recv_first" -> 1
            [] pc \in {"recv_body", "recv_stale"} ->
                 hdr(cur) + ContentLength(cur) - Len(buf)
            [] OTHER -> Len(inbox)

Resume == CASE pc = "recv_first" -> "recv_header"
            [] pc = "recv_header" -> "parse"
            [] pc \in {"recv_body", "recv_stale"} -> "body"
            [] pc = "recv_chunk" -> "chunk_again"

Junk(k) == [i \in 1..k |-> Garbage]

(* At recv_stale the address was taken before buf grew: if the buffer moved, *)
(* what arrives is not in it, and it counts uninitialized bytes as received. *)
Recv == /\ Receiving
        /\ \E k \in 1..Min2(Wanted, Len(inbox)) :
              /\ \/ buf' = buf \o First(inbox, k)
                 \/ pc = "recv_stale" /\ buf' = buf \o Junk(k)
              /\ inbox' = Drop(inbox, k)
        /\ pc' = Resume
        /\ UNCHANGED <<patient, reqs, fin, stopped, cur, size, keep_alive, route_ok,
                       body_bin, vecVars, hook, conn, chanVars, reqVars,
                       dispatched>>

(* recv = 0 *)
RecvZero == Receiving /\ inbox = <<>> /\ fin /\ Goto("recv_zero_err")

(* recv < 0 and co::timeout() is false: the connection has failed. *)
RecvFails == Receiving /\ Goto("recv_err")

(* A stopped server returns at once. *)
Bug_WhenStopped == "done"
WhenStopped == "end"        \* goto end

(* The wait for the first byte times out after web_conn_idle_sec.  The      *)
(* number of connections, and so what is done about it, is not ours.        *)
TimeoutFirst ==
    /\ pc = "recv_first"
    /\ inbox = <<>> /\ ~fin
    /\ \/ stopped /\ conn' = "reset" /\ pc' = WhenStopped
       \/ ~stopped /\ pc' = "idle_err" /\ UNCHANGED conn
    /\ UNCHANGED <<clientVars, stopped, parseVars, vecVars, hook, chanVars,
                   reqVars, dispatched>>

(* The other waits have no time limit once a request asked for keep-alive,  *)
(* except in a chunked body.                                                *)
TimeoutLater ==
    /\ Receiving /\ pc # "recv_first"
    /\ inbox = <<>> /\ ~fin
    /\ ~keep_alive \/ pc = "recv_chunk"
    /\ \/ Goto("idle_err")
       \/ Goto(IF buf = <<>> THEN "recv_first" ELSE "recv_err")

HeaderLimit == HeaderTooLong /\ Goto("header_too_long_err")

(* parse_web_headers: the request the buffer starts with, if its header is  *)
(* there; "more" if it may become one; "bad" otherwise.  What is left of a  *)
(* request whose beginning was dropped may be either of the last two.       *)
Started == buf[1][2] = 1
HasHeader == LET n == buf[1][1]
             IN  Started /\ Len(buf) >= hdr(n) /\ First(buf, hdr(n)) = HeaderOf(n)
ParseResults ==
    IF HasHeader THEN {"done"} ELSE IF Started THEN {"more"} ELSE {"more", "bad"}

ParseHeader ==
    /\ pc = "parse"
    /\ \E result \in ParseResults :
          /\ pc' = CASE result = "done" -> "header"
                     [] result = "more" -> "recv_header"
                     [] result = "bad"  -> "recv_zero_err"
          /\ cur' = IF result = "done" THEN buf[1][1] ELSE 0
    /\ UNCHANGED <<clientVars, stopped, buf, size, keep_alive, route_ok, body_bin,
                   vecVars, hook, conn, chanVars, reqVars, dispatched>>

(* Server::on_header: the callbacks of the path, in a vector of their own.  *)
OnHeader ==
    /\ pc = "header"
    /\ route_ok' = reqs[cur].routed
    /\ IF reqs[cur].routed
       THEN vec' = cur /\ live' = live \cup {<<"http", cur>>}
       ELSE UNCHANGED <<vec, live>>
    /\ pc' = "connection"
    /\ UNCHANGED <<clientVars, stopped, buf, cur, size, keep_alive, body_bin,
                   wsvec, hook, conn, chanVars, reqVars, dispatched>>

(* || for &&, or the reply forgotten *)
Bug_Reply404(keep) == ~route_ok \/ keep
Bug_NoReply(keep) == FALSE
Reply404(keep) == ~route_ok /\ keep

(* The Connection field; a request without a route is answered 404 on a     *)
(* keep-alive connection and ends any other, unless it is an upgrade.       *)
ConnectionField ==
    LET q == reqs[cur]
        keep == keep_alive \/ q.connection = "keep-alive"
    IN  /\ pc = "connection"
        /\ keep_alive' = keep
        /\ IF Reply404(keep) THEN Channel!Submit(<<cur, "404">>)
                             ELSE UNCHANGED chanVars
        /\ pc' = IF ~route_ok /\ q.connection # "upgrade" /\ ~keep
                 THEN "closed" ELSE "body"
        /\ UNCHANGED <<clientVars, stopped, buf, cur, size, route_ok, body_bin,
                       vecVars, hook, conn, reqVars, dispatched>>

(* The body is all that was received behind the header. *)
Bug_Body == Drop(buf, hdr(cur))
Body == SubSeq(buf, hdr(cur) + 1, hdr(cur) + ContentLength(cur))

(* The loop over a body of known length; the first pass has to enlarge the  *)
(* buffer for a large body.                                                 *)
BodyLoop ==
    LET len == ContentLength(cur)
        enough == Len(buf) - hdr(cur) >= len
    IN  /\ pc = "body"
        /\ IF len > 0 /\ enough
           THEN body_bin' = Body
           ELSE UNCHANGED body_bin
        /\ pc' = IF len > 0 /\ ~enough
                 THEN IF size = 0 /\ reqs[cur].large THEN "recv_stale"
                                                    ELSE "recv_body"
                 ELSE IF reqs[cur].chunked THEN "chunk" ELSE "upgrade"
        /\ size' = hdr(cur)
        /\ UNCHANGED <<clientVars, stopped, buf, cur, keep_alive, route_ok,
                       vecVars, hook, conn, chanVars, reqVars, dispatched>>

(* The loop over a chunked body.  phr_decode_chunked is given the start of  *)
(* what is new and the size of ALL of buf, `size` tokens too many: unless   *)
(* the last chunk is among what has arrived it goes on, behind that, into   *)
(* whatever the memory holds.  From then on its state and its verdicts are  *)
(* open: an error, "more", or an end found too early.                       *)
New == Drop(buf, size)
HasTerminator == \E i \in 1..Len(New) : New[i] = Terminator(cur)
DataLength == (CHOOSE i \in 1..Len(New) : New[i] = Terminator(cur)) - 1

Decoded(data) == /\ buf' = First(buf, size) \o data
                 /\ size' = size + Len(data)

ChunkDone(data) == /\ Decoded(data)
                   /\ body_bin' = Drop(First(buf, size) \o data, hdr(cur))
                   /\ pc' = "upgrade"

ChunkMore(data) == /\ Decoded(data)
                   /\ pc' = "recv_chunk"
                   /\ UNCHANGED body_bin

ChunkError == /\ pc' = "chunk_err"
              /\ UNCHANGED <<buf, size, body_bin>>

ChunkLoop ==
    /\ pc \in {"chunk", "chunk_again"}
    /\ IF pc = "chunk" /\ HasTerminator
       THEN ChunkDone(First(New, DataLength))
       ELSE \/ ChunkError
            \/ HasTerminator /\ ChunkDone(First(New, DataLength))
            \/ \E g \in 0..size : ChunkMore(New \o Junk(g))
            \/ \E g \in 1..size : ChunkDone(New \o Junk(g))
    /\ UNCHANGED <<clientVars, stopped, cur, keep_alive, route_ok, vecVars, hook,
                   conn, chanVars, reqVars, dispatched>>

(* A websocket upgrade: Server::on_wsupgrade looks the path up, and the     *)
(* handler itself sends the 101 reply, past the sender's queue.             *)
Upgrade ==
    LET q == reqs[cur]
    IN  /\ pc = "upgrade"
        /\ IF IsWebsocket(q)
           THEN IF q.wsrouted
                THEN /\ wsvec' = cur
                     /\ live' = live \cup {<<"ws", cur>>}
                     /\ pc' = "switch"
                ELSE pc' = "closed" /\ UNCHANGED <<wsvec, live>>
           ELSE pc' = "dispatch" /\ UNCHANGED <<wsvec, live>>
        /\ UNCHANGED <<clientVars, stopped, parseVars, vec, hook, conn, chanVars,
                       reqVars, dispatched>>

(* conn.send of the 101; its result is not looked at.  On a connection that *)
(* fails here no later send gets through either.                            *)
SwitchProtocols ==
    /\ pc = "switch"
    /\ \/ status = "up" /\ wire' = Append(wire, <<cur, "101">>) /\ UNCHANGED status
       \/ status' = "down" /\ UNCHANGED wire
    /\ pc' = "websocket"
    /\ UNCHANGED <<clientVars, stopped, parseVars, vecVars, hook, conn, queue,
                   reqVars, dispatched>>

(* ws::handle serves the websocket and returns -1 after it closed the       *)
(* connection, whatever ended the session.                                  *)
WsHandle ==
    /\ pc = "websocket"
    /\ conn' = "closed"
    /\ pc' = "closed"
    /\ UNCHANGED <<clientVars, stopped, parseVars, vecVars, hook, chanVars,
                   reqVars, dispatched>>

(* Server::on_body: takes the callbacks out of the REQ, deletes the vector  *)
(* and runs them; they reply through REQ::send.  So does the before_req     *)
(* hook when it refuses the request and the callbacks do not run.           *)
OnBody ==
    /\ pc = "dispatch"
    /\ IF route_ok /\ vec # 0
       THEN /\ live' = live \ {<<"http", vec>>}
            /\ vec' = 0
            /\ \/ dispatched' = Append(dispatched, [req |-> cur, body |-> body_bin])
               \/ UNCHANGED dispatched
            /\ Channel!Submit(<<cur, "200">>)
       ELSE UNCHANGED <<vec, live, dispatched, chanVars>>
    /\ pc' = "next"
    /\ UNCHANGED <<clientVars, stopped, parseVars, wsvec, hook, conn, reqVars>>

(* buf.resize(0) is missing. *)
Bug_Cleared == buf
Cleared == <<>>

(* The buffer and the request are cleared for the next request. *)
NextRequest ==
    /\ pc = "next"
    /\ buf' = Cleared /\ cur' = 0 /\ size' = 0 /\ body_bin' = <<>>
    /\ pc' = IF keep_alive THEN "recv_header" ELSE "linger"
    /\ UNCHANGED <<clientVars, stopped, keep_alive, route_ok, vecVars, hook, conn,
                   chanVars, reqVars, dispatched>>

(* co::sleep(60000), the time a reply has to get out. *)
Linger == pc = "linger" /\ Goto("closed")

(* The labels behind the loop. *)
RecvZeroErr == pc = "recv_zero_err" /\ Goto("end")

OnErr ==
    /\ pc \in {"idle_err", "header_too_long_err", "recv_err", "chunk_err"}
    /\ hook' = "err"
    /\ pc' = "reset_conn"
    /\ UNCHANGED <<clientVars, stopped, parseVars, vecVars, conn, chanVars,
                   reqVars, dispatched>>

ResetConn ==
    /\ pc \in {"reset_conn", "closed"}
    /\ conn' = "reset"
    /\ pc' = "end"
    /\ UNCHANGED <<clientVars, stopped, parseVars, vecVars, hook, chanVars,
                   reqVars, dispatched>>

(* The vector of websocket callbacks is forgotten. *)
Bug_Deleted == {<<"http", vec>>}
Deleted == {<<"http", vec>>, <<"ws", wsvec>>}

(* Server::on_close deletes the callback vectors that are left. *)
OnClose ==
    /\ pc = "end"
    /\ hook' = "close"
    /\ live' = live \ Deleted
    /\ vec' = 0 /\ wsvec' = 0
    /\ pc' = "destroy"
    /\ UNCHANGED <<clientVars, stopped, parseVars, conn, chanVars, reqVars, dispatched>>

(* ~REQ asks the coroutine to stop and polls until it has answered: each    *)
(* access to `exit` is a step of its own, and a -1 stored between the test  *)
(* and the 0 is overwritten.  Behind ~REQ, the connection closes.           *)
Return == /\ pc' = "done"
          /\ conn' = IF conn = "open" THEN "closed" ELSE conn

(* if (exit == 1) *)
DtorTest ==
    /\ pc = "destroy"
    /\ \/ exit = 1 /\ pc' = "set" /\ UNCHANGED conn
       \/ exit # 1 /\ Return
    /\ UNCHANGED <<clientVars, stopped, parseVars, vecVars, hook, chanVars,
                   reqVars, dispatched>>

(* exit = 0 *)
DtorSet ==
    /\ pc = "set"
    /\ exit' = 0
    /\ pc' = "wait"
    /\ UNCHANGED <<clientVars, stopped, parseVars, vecVars, hook, conn, chanVars,
                   sender, dispatched>>

(* while (exit == 0) co::sleep(10) is over *)
DtorReturn ==
    /\ pc = "wait" /\ exit # 0
    /\ Return
    /\ UNCHANGED <<clientVars, stopped, parseVars, vecVars, hook, chanVars,
                   reqVars, dispatched>>

HandlerNext ==
    \/ OnConnect
    \/ Recv \/ RecvZero \/ TimeoutLater \/ HeaderLimit
    \/ ParseHeader \/ OnHeader \/ ConnectionField
    \/ BodyLoop \/ ChunkLoop
    \/ Upgrade \/ SwitchProtocols
    \/ OnBody \/ NextRequest \/ Linger
    \/ RecvZeroErr \/ OnErr \/ ResetConn \/ OnClose
    \/ DtorTest \/ DtorSet \/ DtorReturn

Next == \/ HandlerNext
        \/ RecvFails \/ TimeoutFirst \/ WsHandle
        \/ \E q \in Kinds : SendRequest(q)
        \/ ClientCloses
        \/ Exit
        \/ Transmit \/ TransmitFails \/ SenderStops

Spec == Init /\ [][Next]_vars

(* The scheduler runs a coroutine that can go on; timers fire.  Nothing     *)
(* makes a connection fail or the server crowded, and ws::handle has no     *)
(* time limit: it returns if the peer closes.  The sender coroutine is held *)
(* up in conn.send by a peer that does not read, as long as the connection  *)
(* is open and there is something to send; else it looks at `exit`.         *)
Unhindered == patient \/ conn # "open" \/ queue = <<>>

Fairness == /\ WF_vars(HandlerNext)
            /\ WF_vars(TimeoutFirst /\ stopped)
            /\ WF_vars(WsHandle /\ fin)
            /\ WF_vars(Transmit /\ patient)
            /\ WF_vars(SenderStops /\ Unhindered)

FairSpec == Spec /\ Fairness

-----------------------------------------------------------------------------
(* Properties *)

Token == (0..MaxRequests) \X Nat
Pcs == {"connect", "recv_first", "recv_header", "recv_body", "recv_stale",
        "recv_chunk", "parse", "header", "connection", "body", "chunk",
        "chunk_again", "upgrade", "switch", "websocket", "dispatch", "next",
        "linger", "recv_zero_err", "idle_err", "header_too_long_err",
        "recv_err", "chunk_err", "reset_conn", "closed", "end", "destroy", "set",
        "wait", "done"}
BehindClose == {"destroy", "set", "wait", "done"}   \* on_close has run

TypeOK ==
    /\ patient \in BOOLEAN
    /\ reqs \in Seq(Kinds) /\ Len(reqs) <= MaxRequests
    /\ inbox \in Seq(Token)
    /\ fin \in BOOLEAN /\ stopped \in BOOLEAN
    /\ pc \in Pcs
    /\ buf \in Seq(Token)
    /\ cur \in 0..Len(reqs)
    /\ size \in Nat
    /\ keep_alive \in BOOLEAN /\ route_ok \in BOOLEAN
    /\ body_bin \in Seq(Token)
    /\ vec \in 0..Len(reqs) /\ wsvec \in 0..Len(reqs)
    /\ live \subseteq {"http", "ws"} \X (1..Len(reqs))
    /\ hook \in {"none", "connect", "err", "close"}
    /\ conn \in {"open", "closed", "reset"}
    /\ queue \in Seq(Reply)
    /\ wire \in Seq(Reply \cup ((1..MaxRequests) \X {"101"}))
    /\ status \in {"up", "down"}
    /\ exit \in {-1, 0, 1} /\ sender \in {"loop", "done"}
    /\ dispatched \in Seq([req : 1..Len(reqs), body : Seq(Token)])

(* REQ's two pointers own exactly the callback vectors that exist: none is  *)
(* leaked by a second request on the connection or an early exit, none is   *)
(* deleted twice or used after its deletion; and on_close leaves none.      *)
(* Types are right throughout.                                              *)
VectorsOwned ==
    /\ TypeOK
    /\ live = (IF vec = 0 THEN {} ELSE {<<"http", vec>>})
                \cup (IF wsvec = 0 THEN {} ELSE {<<"ws", wsvec>>})
    /\ pc \in BehindClose => live = {}

(* The callbacks run at most once for a request, in the order the requests  *)
(* were sent, and only for requests with a route: neither the loop back     *)
(* to the header nor a pipelined or half received request breaks that.      *)
DispatchedInOrder ==
    /\ \A i, j \in 1..Len(dispatched) :
          i < j => dispatched[i].req < dispatched[j].req
    /\ \A i \in 1..Len(dispatched) : reqs[dispatched[i].req].routed

(* The body the callbacks see is the body the client sent, however it was   *)
(* cut up on the way and whatever was sent behind it.                       *)
BodyIntact ==
    \A i \in 1..Len(dispatched) : dispatched[i].body = BodyOf(dispatched[i].req)

(* Replies leave in the order of their requests, one per request: a 404     *)
(* excludes a 200.  The 101 of an upgrade, which bypasses the queue, is     *)
(* left out.                                                                *)
Replies == wire \o queue
Queued(r) == r[2] # "101"
RepliesInOrder ==
    \A i, j \in 1..Len(Replies) :
        i < j /\ Queued(Replies[i]) /\ Queued(Replies[j])
            => Replies[i][1] < Replies[j][1]

(* on_connect comes first, on_err at most once and never without on_close   *)
(* behind it, on_close exactly once on every way out of the handler, and    *)
(* requests are dispatched in between only.                                 *)
HooksInOrder ==
    [][/\ hook' # hook => <<hook, hook'>> \in {<<"none", "connect">>,
                              <<"connect", "err">>, <<"connect", "close">>,
                              <<"err", "close">>}
       /\ pc = "end" => hook # "close"
       /\ pc' \in BehindClose => hook' = "close"
       /\ dispatched' # dispatched => hook = "connect"]_<<pc, hook, dispatched>>

(* The connection as RequestService has it.  Between two requests, the last *)
(* that was passed is the one before the first whose start is ahead.        *)
Phase == CASE pc = "connect" -> "new"
           [] pc = "done" -> "over"
           [] pc \in {"websocket", "recv_zero_err", "idle_err", "header_too_long_err",
                      "recv_err", "chunk_err", "reset_conn", "closed", "end",
                      "destroy", "set", "wait"} -> "ending"
           [] OTHER -> "serving"
Ahead == IF cur = 0 THEN buf \o inbox ELSE inbox
Starts == {n \in 1..Len(reqs) : \E i \in 1..Len(Ahead) : Ahead[i] = <<n, 1>>}
Passed == IF cur # 0 THEN cur
          ELSE CHOOSE p \in 0..Len(reqs) :
                  /\ \A n \in Starts : p < n
                  /\ p < Len(reqs) => p + 1 \in Starts
HasReply == /\ cur # 0 /\ pc \notin {"header", "connection"}
            /\ IF route_ok THEN pc = "next" ELSE keep_alive
Handled == [i \in 1..Len(dispatched) |-> dispatched[i].req]
Service == INSTANCE RequestService
             WITH phase <- Phase, sent <- Len(reqs), current <- cur, passed <- Passed,
                  answered <- HasReply, handled <- Handled

(* Whatever client, network and hooks do, in whatever pieces requests come  *)
(* in and however the connection ends, it keeps what RequestService         *)
(* promises: requests are taken in order, none before the last is finished, *)
(* each is answered at most once, and nothing is sent when all is over.     *)
ServiceKept == Service!Spec

(* A client that waits for its replies gets one for each request, or the    *)
(* connection ends, or a send has failed (which nobody tells the handler).  *)
RequestAnswered ==
    \A n \in 1..MaxRequests :
        (patient /\ Len(reqs) >= n) ~> (Answered(n) \/ pc = "done" \/ status = "down")

(* ~REQ waits for a coroutine that has ended: its -1, stored after a failed *)
(* send, was overwritten by the destructor's 0.                             *)
Stranded == pc = "wait" /\ exit = 0 /\ sender = "done" /\ status = "down"

(* ~REQ waits for a coroutine that sends to a peer which need not read. *)
Stalled == pc = "wait" /\ conn = "open" /\ ~patient /\ queue # <<>>


(* web.h on Server::exit: "the server will reset previously established     *)
(* connections": their handlers leave the loop and run on_close.            *)
ExitResets == stopped ~> (hook = "close")
=============================================================================
