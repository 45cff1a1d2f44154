------------------------------ MODULE WsFrame ------------------------------
(***************************************************************************)
(* The websocket frame codec (ws.cpp): encode_msg for what the server       *)
(* sends, parse_header and parse_payload for what it receives.              *)
(*                                                                          *)
(* A payload is its length.  A multi-byte field is the number it holds in   *)
(* network order: htons, htobe64 and their inverses are what makes it so.   *)
(*                                                                          *)
(* A definition named Bug_X differs from X by a plausible slip in the code; *)
(* nothing else uses it.  It shows that a property can fail.                *)
(***************************************************************************)
EXTENDS Integers

UINT16_MAX == 65535

-----------------------------------------------------------------------------
(* encode_msg: always a final frame, never masked.                          *)

(* 126 is taken for a length that fits in the first field. *)
Bug_SendForm(length) == IF length <= 126 THEN "short"
                        ELSE IF length <= UINT16_MAX THEN "medium" ELSE "long"

(* The three branches: a length of its own, of 16 or of 64 bits. *)
SendForm(length) == IF length < 126 THEN "short"
                    ELSE IF length <= UINT16_MAX THEN "medium" ELSE "long"

(* msg_header_[1] *)
LengthField(length) == CASE SendForm(length) = "short"  -> length
                         [] SendForm(length) = "medium" -> 126
                         [] SendForm(length) = "long"   -> 127

(* The bytes behind it; static_cast<uint16_t> may cut the length. *)
Extension(length) ==
    CASE SendForm(length) = "short"  -> [bytes |-> 0, value |-> 0]
      [] SendForm(length) = "medium" -> [bytes |-> 2, value |-> length % (UINT16_MAX + 1)]
      [] SendForm(length) = "long"   -> [bytes |-> 8, value |-> length]

(* msg = [length, code] *)
encode_msg(msg) == [first   |-> 128 + msg.code,
                    second  |-> LengthField(msg.length),
                    ext     |-> Extension(msg.length),
                    payload |-> msg.length]

(* The reader at the other end, RFC 6455 section 5.2: what it makes of a    *)
(* frame, the frame and nothing behind it being the payload it announces.   *)
AnnouncedLength(frame) == IF frame.second < 126 THEN frame.second ELSE frame.ext.value
ExtensionBytes(frame) == CASE frame.second = 126 -> 2
                           [] frame.second = 127 -> 8
                           [] OTHER -> 0
ReadsAs(frame, msg) == /\ frame.first = 128 + msg.code
                       /\ frame.second \in 0..127
                       /\ frame.ext.bytes = ExtensionBytes(frame)
                       /\ AnnouncedLength(frame) = frame.payload
                       /\ frame.payload = msg.length

-----------------------------------------------------------------------------
(* parse_header and parse_payload, for frames with a mask, as a client has  *)
(* to send them.                                                            *)

(* The header is taken to be complete (left_header_len_ = 0): for the two   *)
(* long forms the code compares the size of the header with the size of     *)
(* everything received.                                                     *)
Bug_HeaderComplete(form, size, header) == header[form] = size
HeaderComplete(form, size, header) == form = "short" \/ header[form] = size

(* The length of the payload is compared with the same size, which counts   *)
(* the header too.                                                          *)
Bug_Incomplete(length, size) == FALSE
Incomplete(length, size) == length > size

(* The values of ws_frame_type. *)
WS_ERROR_FRAME == 65280
WS_INCOMPLETE_FRAME == 65024
WS_TEXT_FRAME   == 129
WS_BINARY_FRAME == 130
WS_CLOSE_FRAME  == 136
WS_PING_FRAME   == 137
WS_PONG_FRAME   == 138
WS_INCOMPLETE_TEXT_FRAME   == 1
WS_INCOMPLETE_BINARY_FRAME == 2
FrameTypes == {WS_INCOMPLETE_FRAME, WS_TEXT_FRAME, WS_BINARY_FRAME, WS_CLOSE_FRAME,
               WS_PING_FRAME, WS_PONG_FRAME, WS_INCOMPLETE_TEXT_FRAME,
               WS_INCOMPLETE_BINARY_FRAME}

(* FIN is tested the wrong way round. *)
Bug_FrameType(opcode, fin) ==
    CASE opcode \in {0, 1} -> IF fin THEN WS_INCOMPLETE_TEXT_FRAME ELSE WS_TEXT_FRAME
      [] opcode = 2  -> IF fin THEN WS_INCOMPLETE_BINARY_FRAME ELSE WS_BINARY_FRAME
      [] opcode = 8  -> WS_CLOSE_FRAME
      [] opcode = 9  -> WS_PING_FRAME
      [] opcode = 10 -> WS_PONG_FRAME
      [] OTHER -> WS_BINARY_FRAME

(* A continuation counts as text, and an unknown opcode as binary. *)
FrameType(opcode, fin) ==
    CASE opcode \in {0, 1} -> IF fin THEN WS_TEXT_FRAME ELSE WS_INCOMPLETE_TEXT_FRAME
      [] opcode = 2  -> IF fin THEN WS_BINARY_FRAME ELSE WS_INCOMPLETE_BINARY_FRAME
      [] opcode = 8  -> WS_CLOSE_FRAME
      [] opcode = 9  -> WS_PING_FRAME
      [] opcode = 10 -> WS_PONG_FRAME
      [] OTHER -> WS_BINARY_FRAME
=============================================================================
