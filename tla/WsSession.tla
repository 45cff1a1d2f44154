----------------------------- MODULE WsSession -----------------------------
(***************************************************************************)
(* A websocket connection after the upgrade: ws::handle (ws.cpp), the       *)
(* callbacks Server::on_wsbody runs (web.cc), ws::REQ with its sender in    *)
(* its abstract form (ReplyChannel; the code is that of web::REQ), and the  *)
(* client.                                                                  *)
(*                                                                          *)
(* The client's bytes are abstracted to tokens <<n, i>>, i = 1, 2, ... of   *)
(* frame n.  A header has a token for each of its first two bytes, one for  *)
(* a 16-bit length or two for a 64-bit one, and one for the mask; a token   *)
(* follows for each byte of payload.                                        *)
(*                                                                          *)
(* A definition named Bug_X differs from X by a plausible slip in the code; *)
(* no behaviour specification uses it.  It shows that a property can fail.  *)
(***************************************************************************)
EXTENDS WsFrame, Sequences

CONSTANTS
    Frames,         \* the frames clients send: [opcode, fin, length]
    Messages,       \* the messages callbacks send: [length, code]
    MaxFrames,      \* bound on the frames the client sends
    MaxMessages,    \* bound on the messages of all callbacks
    MaxShort, MaxMedium,    \* longest payload of a short (125) and a medium frame
    Capacity,       \* size of the receive buffer
    Pace, Delivery  \* the clients and the networks allowed, see below

Header == [short |-> 3, medium |-> 4, long |-> 5]   \* ws_head_len, in tokens

ASSUME FramesAssumption ==
    /\ Frames \subseteq [opcode : 0..15, fin : BOOLEAN, length : Nat]
    /\ Messages \subseteq [length : Nat, code : 0..15]
ASSUME SizesAssumption ==
    /\ MaxFrames \in Nat /\ MaxMessages \in Nat
    /\ MaxShort \in Nat /\ MaxMedium \in Nat /\ Capacity \in Nat
    /\ MaxShort >= Header["long"] /\ MaxMedium > MaxShort
    /\ Capacity >= Header["short"] + MaxShort /\ Capacity >= 2 * Header["long"]
(* Pace: is the client slow, sending a frame when the last was dealt with?  *)
(* Delivery: do frames arrive whole, none cut by a recv?                    *)
ASSUME PaceAssumption == Pace \subseteq BOOLEAN /\ Delivery \subseteq BOOLEAN

VARIABLES
    slow, whole,    \* the kind of client and network
    sent,           \* the frames sent so far
    inbox,          \* tokens sent and not yet received
    fin,            \* the client has closed its side
    pc,             \* where ws::handle is: "recv", "frame", "callback" or "done"
    buf,            \* what the last recv received
    body, code_,    \* the members of ws::REQ
    conn,           \* the connection: "open" or "closed"
    queue, wire, status,    \* the channel of ws::REQ
    said,           \* history: the messages sent by callbacks
    calls           \* history: calls of the callbacks, counted to MaxFrames + 1

clientVars == <<slow, whole, sent, inbox, fin>>
reqVars    == <<body, code_>>
chanVars   == <<queue, wire, status>>
vars == <<clientVars, pc, buf, reqVars, conn, chanVars, said, calls>>

Encoded == {encode_msg(msg) : msg \in Messages}
Channel == INSTANCE ReplyChannel WITH Reply <- Encoded

-----------------------------------------------------------------------------
(* Frames as tokens *)

Garbage == <<0, 0>>             \* bytes the client did not send, or not there
Form(length) == IF length <= MaxShort THEN "short"
                ELSE IF length <= MaxMedium THEN "medium" ELSE "long"
HeaderSize(f) == Header[Form(f.length)]
TokensOf(f, n) == [i \in 1..(HeaderSize(f) + f.length) |-> <<n, i>>]
Payload(n) == [i \in 1..sent[n].length |-> <<n, HeaderSize(sent[n]) + i>>]

First(s, k) == SubSeq(s, 1, k)
Drop(s, k)  == SubSeq(s, k + 1, Len(s))
Min2(a, b)  == IF a < b THEN a ELSE b

-----------------------------------------------------------------------------
(* The client *)

(* As the protocol demands: a continuation continues a message, a new       *)
(* message waits for the end of the last one, nothing follows a close.      *)
DataFrames == {n \in 1..Len(sent) : sent[n].opcode < 8}
Unfinished == \E n \in DataFrames : ~sent[n].fin /\ \A m \in DataFrames : m <= n
MaySend(f) == /\ f.opcode = 0 => Unfinished
              /\ f.opcode \in 1..7 => ~Unfinished
              /\ \A n \in 1..Len(sent) : sent[n].opcode # 8

SendFrame(f) ==
    /\ ~fin /\ Len(sent) < MaxFrames
    /\ MaySend(f)
    /\ slow => inbox = <<>> /\ pc = "recv"
    /\ sent' = Append(sent, f)
    /\ inbox' = inbox \o TokensOf(f, Len(sent) + 1)
    /\ UNCHANGED <<slow, whole, fin, pc, buf, reqVars, conn, chanVars, said, calls>>

ClientCloses ==
    /\ ~fin
    /\ fin' = TRUE
    /\ UNCHANGED <<slow, whole, sent, inbox, pc, buf, reqVars, conn, chanVars, said,
                   calls>>

(* ws::REQ's sender works while the connection is open. *)
Transmit ==
    /\ conn = "open"
    /\ \/ \E k \in 1..Len(queue) : Channel!Transmit(k)
       \/ \E j \in 1..Len(queue) : \E k \in 0..(j - 1) : Channel!Break(j, k)
    /\ UNCHANGED <<clientVars, pc, buf, reqVars, conn, said, calls>>

-----------------------------------------------------------------------------
(* ws::handle *)

Init == /\ slow \in Pace /\ whole \in Delivery
        /\ sent = <<>> /\ inbox = <<>> /\ fin = FALSE
        /\ pc = "recv"
        /\ buf = <<>> /\ body = <<>> /\ code_ = WS_ERROR_FRAME
        /\ conn = "open"
        /\ queue = <<>> /\ wire = <<>> /\ status = "up"
        /\ said = <<>> /\ calls = 0

(* conn.close() and return -1 *)
Close == conn' = "closed" /\ pc' = "done"

(* A recv takes what has arrived, up to the capacity of buf. *)
AtFrameEnd(k) == k < Len(inbox) => inbox[k + 1][2] = 1
Recv == /\ pc = "recv"
        /\ \E k \in 1..Min2(Capacity, Len(inbox)) :
              /\ whole => AtFrameEnd(k)
              /\ buf' = First(inbox, k)
              /\ inbox' = Drop(inbox, k)
        /\ pc' = "frame"
        /\ UNCHANGED <<slow, whole, sent, fin, reqVars, conn, chanVars, said, calls>>

(* recv returns 0 or less: the client has closed, or the connection failed. *)
RecvEnds == /\ pc = "recv"
            /\ inbox = <<>> /\ fin
            /\ Close
            /\ UNCHANGED <<clientVars, buf, reqVars, chanVars, said, calls>>

RecvFails == /\ pc = "recv"
             /\ Close
             /\ UNCHANGED <<clientVars, buf, reqVars, chanVars, said, calls>>

(* What parse_header may read out of buf: the fields of the frame that      *)
(* starts there; anything if the second byte is not there yet, or if what   *)
(* is there is the middle of a frame; of the opcodes, one that closes the   *)
(* session and one that does not then stand for all.                        *)
AtFrameStart == buf[1][2] = 1 /\ Len(buf) >= 2
Headers ==
    IF AtFrameStart
    THEN LET f == sent[buf[1][1]]
         IN  {[opcode |-> f.opcode, fin |-> f.fin, form |-> Form(f.length),
               length |-> f.length]}
    ELSE [opcode : {2, 8}, fin : {TRUE}, form : {"short"}, length : 0..MaxShort]
         \cup [opcode : {2, 8}, fin : {TRUE}, form : {"medium", "long"},
               length : 0..(MaxMedium + 1)]

Accepted(h) == HeaderComplete(h.form, Len(buf), Header)
Whole(h)    == ~Incomplete(h.length, Len(buf))

(* The bytes behind the header, unmasked: those of the frame, as far as     *)
(* they were received, and then what buf holds from before.                 *)
Unmasked(h) ==
    LET start == Header[h.form]
    IN  [i \in 1..h.length |->
            IF AtFrameStart /\ start + i <= Len(buf) THEN buf[start + i] ELSE Garbage]

(* conn.close() for a close frame is missing: the callbacks get it. *)
Bug_IsClose(type) == FALSE
IsClose(type) == type = WS_CLOSE_FRAME

(* What one recv received is one frame: what is behind it is dropped, and   *)
(* so is a frame whose header is not accepted.                              *)
Frame ==
    /\ pc = "frame"
    /\ \E h \in Headers :
          IF Accepted(h)
          THEN /\ body' = IF Whole(h) THEN Unmasked(h) ELSE <<>>
               /\ code_' = IF Whole(h) THEN FrameType(h.opcode, h.fin)
                                       ELSE WS_INCOMPLETE_FRAME
               /\ IF IsClose(code_') THEN Close
                                     ELSE pc' = "callback" /\ UNCHANGED conn
          ELSE pc' = "recv" /\ UNCHANGED <<reqVars, conn>>
    /\ UNCHANGED <<clientVars, buf, chanVars, said, calls>>

(* ws::REQ::send_msg *)
send_msg(msg) == encode_msg(msg)

(* Server::on_wsbody: the callbacks of the path run with the frame, and may *)
(* send a message.                                                          *)
OnWsBody ==
    /\ pc = "callback"
    /\ calls' = IF calls <= MaxFrames THEN calls + 1 ELSE calls
    /\ \/ UNCHANGED <<chanVars, said>>
       \/ \E msg \in Messages :
             /\ Len(said) < MaxMessages
             /\ Channel!Submit(send_msg(msg))
             /\ said' = Append(said, msg)
    /\ pc' = "recv"
    /\ UNCHANGED <<clientVars, buf, reqVars, conn>>

HandlerNext == Recv \/ RecvEnds \/ Frame \/ OnWsBody

Next == \/ HandlerNext \/ RecvFails
        \/ \E f \in Frames : SendFrame(f)
        \/ ClientCloses
        \/ Transmit

Spec == Init /\ [][Next]_vars

(* The scheduler runs the handler whenever it can go on.  Nothing makes the *)
(* client send or close.                                                    *)
FairSpec == Spec /\ WF_vars(HandlerNext)

-----------------------------------------------------------------------------
(* Properties *)

Token == (0..MaxFrames) \X Nat

TypeOK ==
    /\ slow \in BOOLEAN /\ whole \in BOOLEAN /\ fin \in BOOLEAN
    /\ sent \in Seq(Frames) /\ Len(sent) <= MaxFrames
    /\ inbox \in Seq(Token) /\ buf \in Seq(Token) /\ body \in Seq(Token)
    /\ code_ \in FrameTypes \cup {WS_ERROR_FRAME}
    /\ pc \in {"recv", "frame", "callback", "done"}
    /\ conn \in {"open", "closed"}
    /\ queue \in Seq(Encoded) /\ wire \in Seq(Encoded) /\ status \in {"up", "down"}
    /\ said \in Seq(Messages)
    /\ calls \in 0..(MaxFrames + 1)

(* However a recv cuts the stream, parse_payload reads nothing outside the  *)
(* receive buffer, though it may read behind what was received; and what it *)
(* leaves behind is in the types.                                           *)
ReadsInBuffer ==
    /\ TypeOK
    /\ pc = "frame" =>
        \A h \in Headers : Accepted(h) /\ Whole(h) => Header[h.form] + h.length <= Capacity

(* What ws_define.h says of the values of ws_frame_type: "128 + 1 ==        *)
(* WS_FRAGMENT_FIN | WS_OPCODE_TEXT".  A continuation has the opcode of the *)
(* frame before it.                                                         *)
Opcode[n \in 0..MaxFrames] ==
    IF n = 0 THEN 0
    ELSE IF sent[n].opcode \in 1..7 THEN sent[n].opcode ELSE Opcode[n - 1]
Expected(n) ==
    [code |-> (IF sent[n].fin THEN 128 ELSE 0)
              + (IF sent[n].opcode = 0 THEN Opcode[n] ELSE sent[n].opcode),
     body |-> Payload(n)]

(* If the client is slower than the server and no frame is cut on the way,  *)
(* the n-th call of the callbacks is for the n-th frame, with its payload   *)
(* and its type: none is lost, repeated or altered.                         *)
MessagesIntact ==
    slow /\ whole /\ pc = "callback" =>
        /\ calls < Len(sent)
        /\ [code |-> code_, body |-> body] = Expected(calls + 1)

(* A client reads the frames of ws::REQ::send_msg as the messages the       *)
(* callbacks sent, in their order, whatever form their length takes.        *)
RepliesReadable ==
    /\ Len(wire) <= Len(said)
    /\ \A i \in 1..Len(wire) : ReadsAs(wire[i], said[i])

(* Every frame of such a client is handled, unless the session ends. *)
FramesHandled ==
    \A n \in 1..MaxFrames :
        slow /\ whole /\ Len(sent) >= n ~> calls >= n \/ pc = "done"

(* A close frame that arrives whole, or the client's end of the connection, *)
(* ends the session.                                                        *)
SessionEnds ==
    /\ fin ~> pc = "done"
    /\ (slow /\ whole /\ \E n \in 1..Len(sent) : sent[n].opcode = 8) ~> pc = "done"
=============================================================================
