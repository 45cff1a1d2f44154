-------------------------- MODULE WsSession_proofs --------------------------
(***************************************************************************)
(* Proofs about WsFrame and WsSession, for any frames, messages and bounds: *)
(* what goes out reads, at the other end, as the messages the callbacks     *)
(* sent; what comes in is parsed within the buffer; and where a callback    *)
(* gets the frames the client sent.                                         *)
(***************************************************************************)
EXTENDS WsSession, SequenceLemmas, TLAPS

-----------------------------------------------------------------------------
(* The frame encoder *)

(* Whatever the length of a message, a reader of RFC 6455 finds in the      *)
(* frame of encode_msg the message and where it ends: the forms meet at 125 *)
(* / 126 and 65535 / 65536 without a gap, and no length is cut to 16 bits.  *)
THEOREM EncodedIsReadable ==
    ASSUME NEW length \in Nat, NEW code \in 0..15
    PROVE  LET msg == [length |-> length, code |-> code]
           IN  ReadsAs(encode_msg(msg), msg)
  <1> DEFINE msg == [length |-> length, code |-> code]
             frame == encode_msg(msg)
  <1> USE DEF encode_msg, ReadsAs, AnnouncedLength, ExtensionBytes, LengthField,
              Extension, SendForm, UINT16_MAX
  <1>1. CASE length < 126
    BY <1>1
  <1>2. CASE length >= 126 /\ length <= UINT16_MAX
    <2>1. length % (UINT16_MAX + 1) = length
      BY <1>2
    <2>2. QED  BY <1>2, <2>1
  <1>3. CASE length > UINT16_MAX
    BY <1>3
  <1>4. QED  BY <1>1, <1>2, <1>3

-----------------------------------------------------------------------------
(* The replies of a session *)

(* What is on the wire, and until a send fails what is queued behind it,    *)
(* are the messages of the callbacks, each in a frame.                      *)
FrameFor(i) == encode_msg(said[i])

ChannelTypes == /\ said \in Seq(Messages)
                /\ wire \in Seq(Encoded)
                /\ queue \in Seq(Encoded)

WireInv == /\ Len(wire) <= Len(said)
           /\ \A i \in 1..Len(wire) : wire[i] = FrameFor(i)

QueueInv == status = "up" =>
                /\ Len(wire) + Len(queue) = Len(said)
                /\ \A i \in 1..Len(queue) : queue[i] = FrameFor(Len(wire) + i)

SaidInv == ChannelTypes /\ WireInv /\ QueueInv

-----------------------------------------------------------------------------
(* The two parts of a queue that is cut after k frames. *)
LEMMA QueueCut ==
    ASSUME SaidInv, NEW k \in 0..Len(queue)
    PROVE  /\ SubSeq(queue, 1, k) \in Seq(Encoded)
           /\ Len(SubSeq(queue, 1, k)) = k
           /\ \A i \in 1..k : SubSeq(queue, 1, k)[i] = queue[i]
           /\ Channel!Rest(queue, k) \in Seq(Encoded)
           /\ Len(Channel!Rest(queue, k)) = Len(queue) - k
           /\ \A i \in 1..(Len(queue) - k) : Channel!Rest(queue, k)[i] = queue[k + i]
  <1>1. queue \in Seq(Encoded) /\ Len(queue) \in Nat
    BY LenProperties DEF SaidInv, ChannelTypes
  <1>2. /\ SubSeq(queue, 1, k) \in Seq(Encoded)
        /\ Len(SubSeq(queue, 1, k)) = k
        /\ \A i \in 1..k : SubSeq(queue, 1, k)[i] = queue[i]
    BY <1>1, SubSeqType
  <1>3. \A i \in (k + 1)..Len(queue) : queue[i] \in Encoded
    BY <1>1, ElementOfSeq
  <1> DEFINE r == SubSeq(queue, k + 1, Len(queue))
  <1>4. /\ r \in Seq(Encoded)
        /\ Len(r) = IF k + 1 <= Len(queue) THEN Len(queue) - (k + 1) + 1 ELSE 0
        /\ \A i \in 1..(Len(queue) - (k + 1) + 1) : r[i] = queue[k + 1 + i - 1]
    BY <1>1, <1>3, SubSeqProperties
  <1> HIDE DEF r
  <1>5. /\ Len(r) = Len(queue) - k
        /\ \A i \in 1..(Len(queue) - k) : r[i] = queue[k + i]
    BY <1>1, <1>4
  <1>6. QED  BY <1>2, <1>4, <1>5 DEF r, Channel!Rest

(* The k oldest frames of the queue behind those on the wire: frames of the *)
(* messages still.                                                          *)
LEMMA WireGrows ==
    ASSUME SaidInv, status = "up", NEW k \in 0..Len(queue),
           wire' = wire \o SubSeq(queue, 1, k), said' = said
    PROVE  /\ wire' \in Seq(Encoded)
           /\ Len(wire') = Len(wire) + k
           /\ WireInv'
  <1> DEFINE q == SubSeq(queue, 1, k)
  <1>1. q \in Seq(Encoded) /\ Len(q) = k /\ \A i \in 1..k : q[i] = queue[i]
    BY QueueCut
  <1>2. /\ wire \in Seq(Encoded)
        /\ Len(wire) \in Nat /\ Len(queue) \in Nat /\ Len(said) \in Nat
    BY LenProperties DEF SaidInv, ChannelTypes
  <1> HIDE DEF q
  <1>3. /\ wire' \in Seq(Encoded)
        /\ Len(wire') = Len(wire) + k
        /\ \A i \in 1..(Len(wire) + k) :
              wire'[i] = IF i <= Len(wire) THEN wire[i] ELSE q[i - Len(wire)]
    <2>1. wire' = wire \o q
      BY DEF q
    <2>2. QED  BY <1>1, <1>2, <2>1, ConcatProperties
  <1>4. ASSUME NEW i \in 1..Len(wire')
        PROVE  wire'[i] = encode_msg(said[i])
    <2>1. CASE i <= Len(wire)
      <3>1. wire[i] = encode_msg(said[i])
        BY <2>1, <1>2, <1>3 DEF SaidInv, WireInv, FrameFor
      <3>2. QED  BY <3>1, <2>1, <1>2, <1>3
    <2>2. CASE ~(i <= Len(wire))
      <3> DEFINE j == i - Len(wire)
      <3>1. j \in 1..k /\ j \in 1..Len(queue) /\ Len(wire) + j = i
        BY <2>2, <1>2, <1>3
      <3>2. wire'[i] = q[j]
        BY <2>2, <1>2, <1>3
      <3> HIDE DEF j
      <3>3. queue[j] = encode_msg(said[Len(wire) + j])
        BY <3>1 DEF SaidInv, QueueInv, FrameFor
      <3>4. QED  BY <3>1, <3>2, <3>3, <1>1
    <2>3. QED  BY <2>1, <2>2
  <1>5. Len(wire') <= Len(said)
    BY <1>2, <1>3 DEF SaidInv, QueueInv
  <1>6. QED  BY <1>3, <1>4, <1>5 DEF WireInv, FrameFor

-----------------------------------------------------------------------------
(* The sender moves frames from the queue to the wire. *)
LEMMA TransmitStep ==
    ASSUME SaidInv, NEW k \in 1..Len(queue), Channel!Transmit(k), said' = said
    PROVE  SaidInv'
  <1>1. /\ status = "up" /\ status' = "up"
        /\ wire' = wire \o SubSeq(queue, 1, k)
        /\ queue' = Channel!Rest(queue, k)
    BY DEF Channel!Transmit
  <1>2. Len(wire) \in Nat /\ Len(queue) \in Nat /\ Len(said) \in Nat
    BY LenProperties DEF SaidInv, ChannelTypes
  <1>3. /\ wire' \in Seq(Encoded)
        /\ Len(wire') = Len(wire) + k
        /\ WireInv'
    <2>1. k \in 0..Len(queue)
      BY <1>2
    <2>2. QED  BY <2>1, <1>1, WireGrows
  <1>4. /\ queue' \in Seq(Encoded)
        /\ Len(queue') = Len(queue) - k
        /\ \A i \in 1..(Len(queue) - k) : queue'[i] = queue[k + i]
    <2>1. k \in 0..Len(queue)
      BY <1>2
    <2>2. QED  BY <2>1, <1>1, QueueCut
  <1>5. \A i \in 1..Len(queue') : queue'[i] = encode_msg(said[Len(wire') + i])
    <2> SUFFICES ASSUME NEW i \in 1..Len(queue')
                 PROVE  queue'[i] = encode_msg(said[Len(wire') + i])
      OBVIOUS
    <2>1. k + i \in 1..Len(queue) /\ Len(wire) + (k + i) = Len(wire') + i
      BY <1>2, <1>3, <1>4
    <2>2. queue[k + i] = encode_msg(said[Len(wire) + (k + i)])
      BY <2>1, <1>1 DEF SaidInv, QueueInv, FrameFor
    <2>3. QED  BY <2>1, <2>2, <1>4
  <1>6. Len(wire') + Len(queue') = Len(said)
    <2>1. Len(wire) + Len(queue) = Len(said)
      BY <1>1 DEF SaidInv, QueueInv
    <2>2. Len(wire') = Len(wire) + k /\ Len(queue') = Len(queue) - k
      BY <1>3, <1>4
    <2>3. QED  BY <2>1, <2>2, <1>2
  <1>7. QED
    BY <1>3, <1>4, <1>5, <1>6 DEF SaidInv, ChannelTypes, QueueInv, FrameFor

(* A batch that fails takes the promise about the queue with it. *)
LEMMA BreakStep ==
    ASSUME SaidInv, NEW j \in 1..Len(queue), NEW k \in 0..(j - 1),
           Channel!Break(j, k), said' = said
    PROVE  SaidInv'
  <1>1. /\ status = "up" /\ status' = "down"
        /\ wire' = wire \o SubSeq(queue, 1, k)
        /\ queue' = Channel!Rest(queue, j)
    BY DEF Channel!Break
  <1>2. Len(queue) \in Nat
    BY LenProperties DEF SaidInv, ChannelTypes
  <1>3. wire' \in Seq(Encoded) /\ WireInv'
    <2>1. k \in 0..Len(queue)
      BY <1>2
    <2>2. QED  BY <1>1, <2>1, WireGrows
  <1>4. queue' \in Seq(Encoded)
    BY <1>1, QueueCut
  <1>5. QED  BY <1>1, <1>3, <1>4 DEF SaidInv, ChannelTypes, QueueInv

(* A message of a callback joins the messages and, encoded, the queue. *)
LEMMA SubmitStep ==
    ASSUME SaidInv, NEW msg \in Messages, Channel!Submit(send_msg(msg)),
           said' = Append(said, msg)
    PROVE  SaidInv'
  <1> DEFINE frame == encode_msg(msg)
  <1>1. queue' = Append(queue, frame) /\ wire' = wire /\ status' = status
    BY DEF Channel!Submit, send_msg
  <1>2. /\ frame \in Encoded
        /\ said \in Seq(Messages) /\ queue \in Seq(Encoded) /\ wire \in Seq(Encoded)
        /\ Len(wire) \in Nat /\ Len(queue) \in Nat /\ Len(said) \in Nat
    BY LenProperties DEF SaidInv, ChannelTypes, Encoded
  <1>3. frame = encode_msg(msg)
    OBVIOUS
  <1> HIDE DEF frame
  <1>4. /\ queue' \in Seq(Encoded) /\ Len(queue') = Len(queue) + 1
        /\ \A i \in 1..Len(queue) : queue'[i] = queue[i]
        /\ queue'[Len(queue) + 1] = frame
    BY <1>1, <1>2, AppendProperties
  <1>5. /\ said' \in Seq(Messages) /\ Len(said') = Len(said) + 1
        /\ \A i \in 1..Len(said) : said'[i] = said[i]
        /\ said'[Len(said) + 1] = msg
    BY <1>2, AppendProperties
  <1>6. WireInv'
    <2>1. ASSUME NEW i \in 1..Len(wire)
          PROVE  wire[i] = encode_msg(said'[i])
      <3>1. i \in 1..Len(said) /\ wire[i] = encode_msg(said[i])
        BY <1>2 DEF SaidInv, WireInv, FrameFor
      <3>2. QED  BY <3>1, <1>5
    <2>2. Len(wire) <= Len(said')
      BY <1>2, <1>5 DEF SaidInv, WireInv
    <2>3. QED  BY <2>1, <2>2, <1>1 DEF WireInv, FrameFor
  <1>7. QueueInv'
    <2> SUFFICES ASSUME status = "up"
                 PROVE  /\ Len(wire) + Len(queue') = Len(said')
                        /\ \A i \in 1..Len(queue') :
                              queue'[i] = encode_msg(said'[Len(wire) + i])
      BY <1>1 DEF QueueInv, FrameFor
    <2>0. Len(wire) \in Nat /\ Len(queue) \in Nat /\ Len(said) \in Nat
      BY <1>2
    <2>1. Len(wire) + Len(queue) = Len(said)
      BY DEF SaidInv, QueueInv
    <2>4. Len(queue') = Len(queue) + 1 /\ Len(said') = Len(said) + 1
      BY <1>4, <1>5
    <2>2. ASSUME NEW i \in 1..Len(queue')
          PROVE  queue'[i] = encode_msg(said'[Len(wire) + i])
      <3>1. CASE i \in 1..Len(queue)
        <4>1. Len(wire) + i \in 1..Len(said)
          BY <3>1, <2>0, <2>1
        <4>2. queue[i] = encode_msg(said[Len(wire) + i])
          BY <3>1 DEF SaidInv, QueueInv, FrameFor
        <4>3. QED  BY <3>1, <4>1, <4>2, <1>4, <1>5
      <3>2. CASE i = Len(queue) + 1
        <4>1. Len(wire) + i = Len(said) + 1
          BY <3>2, <2>0, <2>1
        <4>2. queue'[i] = frame
          BY <3>2, <1>4
        <4>3. said'[Len(wire) + i] = msg
          BY <4>1, <1>5
        <4>4. QED  BY <4>2, <4>3, <1>3
      <3>3. i \in 1..Len(queue) \/ i = Len(queue) + 1
        BY <2>0, <2>4
      <3>4. QED  BY <3>1, <3>2, <3>3
    <2>3. Len(wire) + Len(queue') = Len(said')
      BY <2>0, <2>1, <2>4
    <2>5. QED  BY <2>2, <2>3
  <1>8. QED  BY <1>1, <1>2, <1>4, <1>5, <1>6, <1>7 DEF SaidInv, ChannelTypes

(* Every step of the session preserves the invariant. *)
LEMMA SaidInvStep ==
    ASSUME SaidInv, [Next]_vars
    PROVE  SaidInv'
  <1> DEFINE Same == UNCHANGED <<queue, wire, status, said>>
  <1>1. ASSUME Same PROVE SaidInv'
    BY <1>1 DEF SaidInv, ChannelTypes, WireInv, QueueInv, FrameFor
  <1>2. CASE Recv \/ RecvEnds \/ RecvFails
    <2>1. Same
      BY <1>2 DEF Recv, RecvEnds, RecvFails, chanVars
    <2>2. QED  BY <2>1, <1>1
  <1>3. CASE Frame
    <2>1. Same
      BY <1>3 DEF Frame, chanVars
    <2>2. QED  BY <2>1, <1>1
  <1>4. CASE OnWsBody
    <2>1. CASE UNCHANGED <<chanVars, said>>
      <3>1. Same
        BY <2>1 DEF chanVars
      <3>2. QED  BY <3>1, <1>1
    <2>2. ASSUME NEW msg \in Messages, Channel!Submit(send_msg(msg)),
                 said' = Append(said, msg)
          PROVE  SaidInv'
      BY <2>2, SubmitStep
    <2>3. QED  BY <1>4, <2>1, <2>2 DEF OnWsBody
  <1>5. ASSUME NEW f \in Frames, SendFrame(f)
        PROVE  SaidInv'
    <2>1. Same
      BY <1>5 DEF SendFrame, chanVars
    <2>2. QED  BY <2>1, <1>1
  <1>6. CASE ClientCloses
    <2>1. Same
      BY <1>6 DEF ClientCloses, chanVars
    <2>2. QED  BY <2>1, <1>1
  <1>7. CASE Transmit
    <2>1. said' = said
      BY <1>7 DEF Transmit
    <2>2. QED  BY <2>1, <1>7, TransmitStep, BreakStep DEF Transmit
  <1>8. CASE UNCHANGED vars
    <2>1. Same
      BY <1>8 DEF vars, chanVars
    <2>2. QED  BY <2>1, <1>1
  <1>9. QED
    BY <1>2, <1>3, <1>4, <1>5, <1>6, <1>7, <1>8 DEF Next, HandlerNext

(* The peer of a websocket can read what it was sent, as the messages the   *)
(* callbacks passed to send_msg, in their order, whatever their lengths.    *)
THEOREM ClientReadsReplies == Spec => []RepliesReadable
  <1>1. Init => SaidInv
    BY EmptySeq DEF Init, SaidInv, ChannelTypes, WireInv, QueueInv
  <1>2. SaidInv /\ [Next]_vars => SaidInv'
    BY SaidInvStep
  <1>3. SaidInv => RepliesReadable
    <2> SUFFICES ASSUME SaidInv, NEW i \in 1..Len(wire)
                 PROVE  ReadsAs(wire[i], said[i])
      BY DEF SaidInv, WireInv, RepliesReadable
    <2>1. Len(wire) \in Nat /\ Len(said) \in Nat /\ Len(wire) <= Len(said)
      BY LenProperties DEF SaidInv, ChannelTypes, WireInv
    <2>2. said[i] \in Messages
      BY <2>1, ElementOfSeq DEF SaidInv, ChannelTypes
    <2>3. wire[i] = encode_msg(said[i])
      BY DEF SaidInv, WireInv, FrameFor
    <2>4. said[i] \in [length : Nat, code : 0..15]
      BY <2>2, FramesAssumption
    <2>5. ReadsAs(encode_msg(said[i]), said[i])
      <3> DEFINE l == said[i].length
                 c == said[i].code
      <3>1. l \in Nat /\ c \in 0..15 /\ said[i] = [length |-> l, code |-> c]
        BY <2>4
      <3> HIDE DEF l, c
      <3>2. QED  BY <3>1, EncodedIsReadable
    <2>6. QED  BY <2>3, <2>5
  <1>4. QED  BY <1>1, <1>2, <1>3, PTL DEF Spec

-----------------------------------------------------------------------------
(* The receive buffer *)

(* A token of a frame that was sent. *)
FrameToken == (1..Len(sent)) \X Nat

BufferInv == /\ TypeOK
             /\ inbox \in Seq(FrameToken) /\ buf \in Seq(FrameToken)
             /\ pc = "frame" => Len(buf) > 0

(* What was sent, cut at any place. *)
LEMMA CutFacts ==
    ASSUME NEW S, NEW s \in Seq(S), NEW k \in 1..Len(s)
    PROVE  /\ First(s, k) \in Seq(S) /\ Len(First(s, k)) = k
           /\ \A i \in 1..k : First(s, k)[i] = s[i]
           /\ Drop(s, k) \in Seq(S) /\ Len(Drop(s, k)) = Len(s) - k
  <1>1. k \in Nat /\ k <= Len(s)
    BY LenProperties
  <1>2. QED  BY <1>1, SubSeqType, RestFacts DEF First, Drop

(* A header has a length in tokens. *)
LEMMA HeaderFacts ==
    /\ Header["short"] = 3 /\ Header["medium"] = 4 /\ Header["long"] = 5
    /\ \A f \in Frames : /\ f.length \in Nat /\ f.opcode \in 0..15 /\ f.fin \in BOOLEAN
                         /\ Form(f.length) \in {"short", "medium", "long"}
                         /\ HeaderSize(f) \in 3..5
                         /\ Form(f.length) = "short" => f.length <= MaxShort
  <1>1. Header["short"] = 3 /\ Header["medium"] = 4 /\ Header["long"] = 5
    BY DEF Header
  <1>2. ASSUME NEW f \in Frames
        PROVE  /\ f.length \in Nat /\ f.opcode \in 0..15 /\ f.fin \in BOOLEAN
               /\ Form(f.length) \in {"short", "medium", "long"}
               /\ HeaderSize(f) \in 3..5
               /\ Form(f.length) = "short" => f.length <= MaxShort
    <2>1. f.length \in Nat /\ f.opcode \in 0..15 /\ f.fin \in BOOLEAN
      BY FramesAssumption
    <2>2. /\ Form(f.length) \in {"short", "medium", "long"}
          /\ Form(f.length) = "short" => f.length <= MaxShort
      BY DEF Form
    <2>3. HeaderSize(f) \in 3..5
      BY <1>1, <2>2 DEF HeaderSize
    <2>4. QED  BY <2>1, <2>2, <2>3
  <1>3. QED  BY <1>1, <1>2

(* What a frame of the client adds to the stream. *)
LEMMA TokensFacts ==
    ASSUME NEW f \in Frames, NEW n \in Nat \ {0}
    PROVE  /\ TokensOf(f, n) \in Seq((1..n) \X Nat)
           /\ Len(TokensOf(f, n)) = HeaderSize(f) + f.length
           /\ \A i \in 1..(HeaderSize(f) + f.length) : TokensOf(f, n)[i] = <<n, i>>
  <1> DEFINE m == HeaderSize(f) + f.length
             s == [i \in 1..m |-> <<n, i>>]
  <1>1. m \in Nat
    BY HeaderFacts
  <1>2. TokensOf(f, n) = s
    BY DEF TokensOf
  <1>3. \A i \in 1..m : <<n, i>> \in (1..n) \X Nat
    BY <1>1
  <1> HIDE DEF m
  <1>4. s \in Seq((1..n) \X Nat) /\ Len(s) = m /\ \A i \in 1..m : s[i] = <<n, i>>
    BY <1>1, <1>3
  <1>5. QED  BY <1>2, <1>4 DEF m

(* The tokens of the frames sent are tokens. *)
LEMMA FrameTokens ==
    ASSUME TypeOK PROVE Len(sent) \in Nat /\ FrameToken \subseteq Token
  <1>1. Len(sent) \in Nat /\ Len(sent) <= MaxFrames /\ MaxFrames \in Nat
    BY LenProperties, SizesAssumption DEF TypeOK
  <1>2. QED  BY <1>1 DEF FrameToken, Token

LEMMA SendFrameStep ==
    ASSUME BufferInv, NEW f \in Frames, SendFrame(f)
    PROVE  BufferInv'
  <1>1. /\ sent \in Seq(Frames) /\ Len(sent) \in Nat /\ MaxFrames \in Nat
        /\ Len(sent) < MaxFrames
    BY LenProperties, SizesAssumption DEF BufferInv, TypeOK, SendFrame
  <1>2. /\ sent' = Append(sent, f)
        /\ inbox' = inbox \o TokensOf(f, Len(sent) + 1)
        /\ UNCHANGED <<slow, whole, fin, pc, buf, reqVars, conn, chanVars, said, calls>>
    BY DEF SendFrame
  <1>3. sent' \in Seq(Frames) /\ Len(sent') = Len(sent) + 1
    BY <1>1, <1>2, AppendProperties
  <1>4. FrameToken \subseteq FrameToken' /\ FrameToken' = (1..(Len(sent) + 1)) \X Nat
    BY <1>1, <1>3 DEF FrameToken
  <1> DEFINE T == (1..(Len(sent) + 1)) \X Nat
             t == TokensOf(f, Len(sent) + 1)
  <1>5. t \in Seq(T)
    BY <1>1, TokensFacts
  <1>6. FrameToken \subseteq T /\ T = FrameToken'
    BY <1>4
  <1> HIDE DEF T, t
  <1>7. \A s \in Seq(FrameToken) : s \in Seq(T)
    BY <1>6, SeqMonotone
  <1>8. inbox \in Seq(T) /\ buf \in Seq(T)
    BY <1>7 DEF BufferInv
  <1>9. inbox' \in Seq(T) /\ buf' \in Seq(T)
    <2>1. inbox' = inbox \o t
      BY <1>2 DEF t
    <2>2. QED  BY <2>1, <1>2, <1>5, <1>8, ConcatProperties
  <1>10. T \subseteq Token
    BY <1>1, <1>4, <1>6 DEF Token
  <1>11. \A s \in Seq(T) : s \in Seq(Token)
    BY <1>10, SeqMonotone
  <1>12. TypeOK'
    <2>1. inbox' \in Seq(Token) /\ buf' \in Seq(Token)
      BY <1>9, <1>11
    <2>2. sent' \in Seq(Frames) /\ Len(sent') <= MaxFrames
      BY <1>1, <1>3
    <2>3. QED  BY <1>2, <2>1, <2>2 DEF BufferInv, TypeOK, reqVars, chanVars
  <1>13. QED  BY <1>2, <1>6, <1>9, <1>12 DEF BufferInv

LEMMA RecvStep ==
    ASSUME BufferInv, Recv
    PROVE  BufferInv'
  <1>1. PICK k \in 1..Min2(Capacity, Len(inbox)) :
            buf' = First(inbox, k) /\ inbox' = Drop(inbox, k)
    BY DEF Recv
  <1>2. Len(inbox) \in Nat /\ inbox \in Seq(FrameToken) /\ inbox \in Seq(Token)
    BY LenProperties DEF BufferInv, TypeOK
  <1>3. k \in 1..Len(inbox)
    BY <1>2, SizesAssumption DEF Min2
  <1>4. /\ buf' \in Seq(FrameToken) /\ Len(buf') = k /\ inbox' \in Seq(FrameToken)
        /\ buf' \in Seq(Token) /\ inbox' \in Seq(Token)
    <2>1. buf' \in Seq(FrameToken) /\ Len(buf') = k /\ inbox' \in Seq(FrameToken)
      BY <1>1, <1>2, <1>3, CutFacts
    <2>2. buf' \in Seq(Token) /\ inbox' \in Seq(Token)
      BY <1>1, <1>2, <1>3, CutFacts
    <2>3. QED  BY <2>1, <2>2
  <1>5. /\ pc' = "frame"
        /\ UNCHANGED <<slow, whole, sent, fin, reqVars, conn, chanVars, said, calls>>
    BY DEF Recv
  <1>6. TypeOK'
    BY <1>4, <1>5 DEF BufferInv, TypeOK, reqVars, chanVars
  <1>7. FrameToken' = FrameToken
    BY <1>5 DEF FrameToken
  <1>8. QED  BY <1>3, <1>4, <1>5, <1>6, <1>7 DEF BufferInv

(* What parse_header can read. *)
LEMMA HeadersFacts ==
    ASSUME BufferInv, pc = "frame", NEW h \in Headers
    PROVE  /\ h.length \in Nat /\ h.form \in {"short", "medium", "long"}
           /\ h.form = "short" => h.length <= MaxShort
           /\ AtFrameStart => sent[buf[1][1]] \in Frames
  <1>1. Len(buf) \in Nat /\ Len(sent) \in Nat /\ buf[1] \in FrameToken
    BY LenProperties, ElementOfSeq DEF BufferInv, TypeOK
  <1>2. sent[buf[1][1]] \in Frames
    <2>1. buf[1][1] \in 1..Len(sent)
      BY <1>1 DEF FrameToken
    <2>2. QED  BY <2>1, ElementOfSeq DEF BufferInv, TypeOK
  <1>3. CASE AtFrameStart
    <2>1. h.length = sent[buf[1][1]].length /\ h.form = Form(sent[buf[1][1]].length)
      BY <1>3 DEF Headers
    <2>2. QED  BY <1>2, <2>1, HeaderFacts
  <1>4. CASE ~AtFrameStart
    <2>1. \/ h \in [opcode : {2, 8}, fin : {TRUE}, form : {"short"}, length : 0..MaxShort]
          \/ h \in [opcode : {2, 8}, fin : {TRUE}, form : {"medium", "long"},
                    length : 0..(MaxMedium + 1)]
      BY <1>4 DEF Headers
    <2>2. MaxShort \in Nat /\ MaxMedium \in Nat
      BY SizesAssumption
    <2>3. CASE h \in [opcode : {2, 8}, fin : {TRUE}, form : {"short"}, length : 0..MaxShort]
      <3>1. h.form = "short" /\ h.length \in 0..MaxShort
        BY <2>3
      <3>2. QED  BY <3>1, <2>2, <1>2
    <2>4. CASE h \in [opcode : {2, 8}, fin : {TRUE}, form : {"medium", "long"},
                      length : 0..(MaxMedium + 1)]
      <3>1. h.form \in {"medium", "long"} /\ h.length \in 0..(MaxMedium + 1)
        BY <2>4
      <3>2. QED  BY <3>1, <2>2, <1>2
    <2>5. QED  BY <2>1, <2>3, <2>4
  <1>5. QED  BY <1>3, <1>4

LEMMA FrameStep ==
    ASSUME BufferInv, Frame
    PROVE  BufferInv'
  <1>1. /\ pc = "frame" /\ UNCHANGED <<clientVars, buf, chanVars, said, calls>>
    BY DEF Frame
  <1>2. PICK h \in Headers :
          IF Accepted(h)
          THEN /\ body' = IF Whole(h) THEN Unmasked(h) ELSE <<>>
               /\ code_' = IF Whole(h) THEN FrameType(h.opcode, h.fin)
                                       ELSE WS_INCOMPLETE_FRAME
               /\ IF IsClose(code_') THEN Close
                                     ELSE pc' = "callback" /\ UNCHANGED conn
          ELSE pc' = "recv" /\ UNCHANGED <<reqVars, conn>>
    BY DEF Frame
  <1>3. Unmasked(h) \in Seq(Token) /\ <<>> \in Seq(Token)
    <2>1. Garbage \in Token
      BY SizesAssumption DEF Garbage, Token
    <2>2. \A i \in 1..Len(buf) : buf[i] \in Token
      BY ElementOfSeq DEF BufferInv, TypeOK
    <2>3. h.length \in Nat /\ Header[h.form] \in Nat /\ Len(buf) \in Nat
      <3>1. h.length \in Nat /\ h.form \in {"short", "medium", "long"}
        BY <1>1, HeadersFacts
      <3>2. Header[h.form] \in Nat
        BY <3>1, HeaderFacts
      <3>3. QED  BY <3>1, <3>2, LenProperties DEF BufferInv, TypeOK
    <2>4. ASSUME NEW i \in 1..h.length
          PROVE  (IF AtFrameStart /\ Header[h.form] + i <= Len(buf)
                  THEN buf[Header[h.form] + i] ELSE Garbage) \in Token
      <3>1. Header[h.form] + i <= Len(buf) => Header[h.form] + i \in 1..Len(buf)
        BY <2>3
      <3>2. QED  BY <2>1, <2>2, <3>1
    <2>5. QED  BY <2>3, <2>4, EmptySeq DEF Unmasked
  <1>4. body' \in Seq(Token) /\ code_' \in FrameTypes \cup {WS_ERROR_FRAME}
    <2>1. body \in Seq(Token) /\ code_ \in FrameTypes \cup {WS_ERROR_FRAME}
      BY DEF BufferInv, TypeOK
    <2>2. FrameType(h.opcode, h.fin) \in FrameTypes /\ WS_INCOMPLETE_FRAME \in FrameTypes
      BY DEF FrameType, FrameTypes
    <2>3. QED  BY <1>2, <1>3, <2>1, <2>2 DEF reqVars
  <1>5. conn' \in {"open", "closed"} /\ pc' \in {"recv", "callback", "done"}
    BY <1>2 DEF Close, BufferInv, TypeOK
  <1>6. TypeOK'
    BY <1>1, <1>4, <1>5 DEF BufferInv, TypeOK, clientVars, chanVars
  <1>7. FrameToken' = FrameToken
    BY <1>1 DEF FrameToken, clientVars
  <1>8. QED  BY <1>1, <1>5, <1>6, <1>7 DEF BufferInv, clientVars

(* The steps that leave the stream alone. *)
LEMMA BufferStep ==
    ASSUME BufferInv, SaidInv', [Next]_vars
    PROVE  BufferInv'
  <1>1. ASSUME UNCHANGED <<slow, whole, sent, inbox, buf, reqVars>>,
               fin' \in BOOLEAN, pc' \in {"recv", "done"} \/ pc' = pc,
               conn' \in {"open", "closed"}, status' \in {"up", "down"},
               calls' \in 0..(MaxFrames + 1)
        PROVE  BufferInv'
    <2>1. said' \in Seq(Messages) /\ queue' \in Seq(Encoded) /\ wire' \in Seq(Encoded)
      BY DEF SaidInv, ChannelTypes
    <2>2. pc' \in {"recv", "frame", "callback", "done"}
      BY <1>1 DEF BufferInv, TypeOK
    <2>3. TypeOK'
      BY <1>1, <2>1, <2>2 DEF BufferInv, TypeOK, reqVars
    <2>4. FrameToken' = FrameToken
      BY <1>1 DEF FrameToken
    <2>5. QED  BY <1>1, <2>3, <2>4 DEF BufferInv
  <1>2. CASE RecvEnds \/ RecvFails \/ ClientCloses \/ UNCHANGED vars
    <2>1. status' \in {"up", "down"} /\ calls' \in 0..(MaxFrames + 1)
      BY <1>2 DEF RecvEnds, RecvFails, ClientCloses, vars, chanVars, BufferInv, TypeOK
    <2>2. conn' \in {"open", "closed"} /\ fin' \in BOOLEAN
      BY <1>2 DEF RecvEnds, RecvFails, ClientCloses, vars, clientVars, Close, BufferInv, TypeOK
    <2>3. /\ UNCHANGED <<slow, whole, sent, inbox, buf, reqVars>>
          /\ pc' \in {"recv", "done"} \/ pc' = pc
      BY <1>2 DEF RecvEnds, RecvFails, ClientCloses, vars, clientVars, Close
    <2>4. QED  BY <1>1, <2>1, <2>2, <2>3
  <1>3. CASE Transmit
    <2>1. status' \in {"up", "down"}
      BY <1>3 DEF Transmit, Channel!Transmit, Channel!Break, BufferInv, TypeOK
    <2>2. UNCHANGED <<clientVars, pc, buf, reqVars, conn, said, calls>>
      BY <1>3 DEF Transmit
    <2>3. QED  BY <1>1, <2>1, <2>2 DEF clientVars, BufferInv, TypeOK
  <1>4. CASE OnWsBody
    <2>1. status' \in {"up", "down"}
      BY <1>4 DEF OnWsBody, Channel!Submit, chanVars, BufferInv, TypeOK
    <2>2. calls' \in 0..(MaxFrames + 1)
      BY <1>4, SizesAssumption DEF OnWsBody, BufferInv, TypeOK
    <2>3. UNCHANGED <<clientVars, buf, reqVars, conn>> /\ pc' = "recv"
      BY <1>4 DEF OnWsBody
    <2>4. QED  BY <1>1, <2>1, <2>2, <2>3 DEF clientVars, BufferInv, TypeOK
  <1>5. QED
    BY <1>2, <1>3, <1>4, SendFrameStep, RecvStep, FrameStep DEF Next, HandlerNext

(* A session starts with nothing sent. *)
LEMMA InitialSession == Init => SaidInv /\ BufferInv
  <1>1. Init => SaidInv
    BY EmptySeq DEF Init, SaidInv, ChannelTypes, WireInv, QueueInv
  <1>2. Init => BufferInv
    <2> SUFFICES ASSUME Init PROVE BufferInv
      OBVIOUS
    <2>1. Len(sent) <= MaxFrames /\ calls \in 0..(MaxFrames + 1)
      BY SizesAssumption DEF Init
    <2>2. slow \in BOOLEAN /\ whole \in BOOLEAN
      BY PaceAssumption DEF Init
    <2>3. TypeOK
      BY <2>1, <2>2, EmptySeq DEF Init, TypeOK
    <2>4. QED  BY <2>3, EmptySeq DEF Init, BufferInv
  <1>3. QED  BY <1>1, <1>2

(* However the network cuts the stream into what recv returns, and whatever *)
(* frames clients send, parse_payload reads within the receive buffer: a    *)
(* short payload fits behind its header, and a longer one is taken only     *)
(* when it is no longer than what the header itself took up.                *)
THEOREM ReadsBounded == Spec => []ReadsInBuffer
  <1>1. Init => SaidInv /\ BufferInv
    BY InitialSession
  <1>2. SaidInv /\ BufferInv /\ [Next]_vars => SaidInv' /\ BufferInv'
    BY SaidInvStep, BufferStep
  <1>3. BufferInv => ReadsInBuffer
    <2> SUFFICES ASSUME BufferInv, pc = "frame", NEW h \in Headers, Accepted(h), Whole(h)
                 PROVE  Header[h.form] + h.length <= Capacity
      BY DEF ReadsInBuffer, BufferInv
    <2>1. /\ h.length \in Nat /\ h.form \in {"short", "medium", "long"}
          /\ h.form = "short" => h.length <= MaxShort
          /\ Len(buf) \in Nat
      BY HeadersFacts, LenProperties DEF BufferInv, TypeOK
    <2>2. CASE h.form = "short"
      BY <2>1, <2>2, SizesAssumption, HeaderFacts
    <2>3. CASE h.form # "short"
      <3>1. Header[h.form] = Len(buf) /\ h.length <= Len(buf) /\ Len(buf) <= 5
        BY <2>1, <2>3, HeaderFacts DEF Accepted, Whole, HeaderComplete, Incomplete
      <3>2. Capacity \in Nat /\ Capacity >= 10
        BY SizesAssumption, HeaderFacts
      <3>3. QED  BY <2>1, <3>1, <3>2
    <2>4. QED  BY <2>2, <2>3
  <1>4. QED  BY <1>1, <1>2, <1>3, PTL DEF Spec

-----------------------------------------------------------------------------
(* What the callbacks get *)

(* A frame that the server tells apart from the others: a short one, whose  *)
(* type it knows; only texts come in parts, and control frames in one.      *)
Plain(f) == /\ f.length <= MaxShort
            /\ f.opcode \in {0, 1, 8} \/ (f.opcode \in {2, 9, 10} /\ f.fin)

(* A continuation continues a text. *)
Continues(n) == \E m \in 1..(n - 1) :
                    /\ sent[m].opcode = 1
                    /\ \A j \in (m + 1)..n : sent[j].opcode \notin 1..7
OpcodeInv == \A n \in 1..Len(sent) : sent[n].opcode = 0 => Continues(n)

(* With a slow client there is one frame under way, the last one sent: the  *)
(* callbacks were called for all those before it.                           *)
Last(s) == /\ Len(sent) > 0 /\ calls = Len(sent) - 1
           /\ s = TokensOf(sent[Len(sent)], Len(sent))
StreamInv ==
    slow /\ whole =>
        /\ pc = "recv" => (inbox = <<>> /\ calls = Len(sent)) \/ Last(inbox)
        /\ pc = "frame" => inbox = <<>> /\ Last(buf)
        /\ pc = "callback" =>
              /\ inbox = <<>> /\ Len(sent) > 0 /\ calls = Len(sent) - 1
              /\ code_ = FrameType(sent[Len(sent)].opcode, sent[Len(sent)].fin)
              /\ code_ # WS_CLOSE_FRAME
              /\ body = Payload(Len(sent))

IntactInv == OpcodeInv /\ StreamInv

(* The recursive definition of Opcode defines a function. *)
LEMMA OpcodeDef ==
    Opcode = [n \in 0..MaxFrames |->
                IF n = 0 THEN 0
                ELSE IF sent[n].opcode \in 1..7 THEN sent[n].opcode ELSE Opcode[n - 1]]
  <1> DEFINE Solves(f, m) == f = [n \in 0..m |->
                IF n = 0 THEN 0
                ELSE IF sent[n].opcode \in 1..7 THEN sent[n].opcode ELSE f[n - 1]]
             T == {m \in Nat : \E f : Solves(f, m)}
  <1>1. 0 \in T
    <2> DEFINE f == [n \in 0..0 |-> 0]
    <2>1. Solves(f, 0)
      OBVIOUS
    <2>2. QED  BY <2>1
  <1>2. ASSUME NEW m \in T PROVE m + 1 \in T
    <2>1. m \in Nat
      OBVIOUS
    <2>2. PICK f : Solves(f, m)
      OBVIOUS
    <2> DEFINE g == [n \in 0..(m + 1) |->
                        IF n <= m THEN f[n]
                        ELSE IF sent[n].opcode \in 1..7 THEN sent[n].opcode ELSE f[m]]
    <2>3. ASSUME NEW n \in 0..(m + 1)
          PROVE  g[n] = IF n = 0 THEN 0
                        ELSE IF sent[n].opcode \in 1..7 THEN sent[n].opcode ELSE g[n - 1]
      <3>1. CASE n <= m
        <4>1. n \in 0..m /\ (n # 0 => n - 1 \in 0..(m + 1) /\ n - 1 <= m)
          BY <3>1, <2>1
        <4>2. f[n] = IF n = 0 THEN 0
                     ELSE IF sent[n].opcode \in 1..7 THEN sent[n].opcode ELSE f[n - 1]
          BY <4>1, <2>2
        <4>3. QED  BY <4>1, <4>2, <3>1
      <3>2. CASE n = m + 1
        BY <3>2, <2>1
      <3>3. QED  BY <3>1, <3>2, <2>1
    <2>4. Solves(g, m + 1)
      BY <2>3
    <2> HIDE DEF g, Solves
    <2>5. QED  BY <2>1, <2>4
  <1>3. Nat \subseteq T
    <2> HIDE DEF T
    <2>1. QED  BY <1>1, <1>2, NatClosed
  <1>4. \E f : Solves(f, MaxFrames)
    BY <1>3, SizesAssumption
  <1>5. QED  BY <1>4 DEF Opcode

(* A continuation has the opcode of the text it continues. *)
LEMMA ContinuationOfText ==
    ASSUME NEW n \in 1..MaxFrames, Continues(n)
    PROVE  Opcode[n] = 1
  <1>1. PICK m \in 1..(n - 1) :
            sent[m].opcode = 1 /\ \A j \in (m + 1)..n : sent[j].opcode \notin 1..7
    BY DEF Continues
  <1>2. n \in Nat /\ m \in Nat /\ m < n /\ MaxFrames \in Nat
    BY SizesAssumption
  <1> DEFINE T == {d \in Nat : m + d <= n => Opcode[m + d] = 1}
  <1>3. 0 \in T
    <2>1. Opcode[m] = 1
      BY <1>1, <1>2, OpcodeDef
    <2>2. QED  BY <2>1, <1>2
  <1>4. ASSUME NEW d \in T PROVE d + 1 \in T
    <2>1. d \in Nat /\ (m + d <= n => Opcode[m + d] = 1)
      OBVIOUS
    <2>2. ASSUME m + (d + 1) <= n PROVE Opcode[m + (d + 1)] = 1
      <3> DEFINE j == m + (d + 1)
      <3>1. j \in (m + 1)..n /\ j \in 0..MaxFrames /\ j # 0 /\ j - 1 = m + d /\ m + d <= n
        BY <2>1, <2>2, <1>2
      <3>2. sent[j].opcode \notin 1..7
        BY <3>1, <1>1
      <3> HIDE DEF j
      <3>3. Opcode[j] = Opcode[j - 1]
        BY <3>1, <3>2, OpcodeDef
      <3>4. QED  BY <2>1, <3>1, <3>3 DEF j
    <2>3. QED  BY <2>1, <2>2
  <1>5. Nat \subseteq T
    <2> HIDE DEF T
    <2>1. QED  BY <1>3, <1>4, NatClosed
  <1>6. n - m \in Nat /\ m + (n - m) = n
    BY <1>2
  <1>7. n - m \in T
    <2> HIDE DEF T
    <2>1. QED  BY <1>5, <1>6
  <1>8. QED  BY <1>6, <1>7, <1>2

(* A client that keeps to the protocol. *)
LEMMA OpcodeStep ==
    ASSUME \A f \in Frames : Plain(f), BufferInv, OpcodeInv, [Next]_vars
    PROVE  OpcodeInv'
  <1>0. sent \in Seq(Frames) /\ Len(sent) \in Nat
    BY LenProperties DEF BufferInv, TypeOK
  <1>1. CASE UNCHANGED sent
    BY <1>1 DEF OpcodeInv, Continues
  <1>2. ASSUME NEW f \in Frames, SendFrame(f) PROVE OpcodeInv'
    <2>1. sent' = Append(sent, f) /\ MaySend(f)
      BY <1>2 DEF SendFrame
    <2>2. /\ Len(sent') = Len(sent) + 1 /\ sent'[Len(sent) + 1] = f
          /\ \A i \in 1..Len(sent) : sent'[i] = sent[i]
      BY <1>0, <2>1, AppendProperties
    <2> DEFINE s2 == sent'
               N == Len(sent)
    <2> HIDE DEF s2, N
    <2>3. /\ N \in Nat /\ Len(s2) = N + 1 /\ s2[N + 1] = f
          /\ \A i \in 1..N : s2[i] = sent[i]
      BY <1>0, <2>2 DEF s2, N
    <2>4. ASSUME NEW n \in 1..N, Continues(n)
          PROVE  \E m \in 1..(n - 1) : /\ s2[m].opcode = 1
                                       /\ \A j \in (m + 1)..n : s2[j].opcode \notin 1..7
      <3>1. PICK m \in 1..(n - 1) : /\ sent[m].opcode = 1
                                    /\ \A j \in (m + 1)..n : sent[j].opcode \notin 1..7
        BY <2>4 DEF Continues
      <3>2. m \in 1..N /\ \A j \in (m + 1)..n : j \in 1..N
        BY <2>3
      <3>3. s2[m].opcode = 1 /\ \A j \in (m + 1)..n : s2[j].opcode \notin 1..7
        BY <3>1, <3>2, <2>3
      <3>4. QED  BY <3>3
    <2>5. ASSUME f.opcode = 0
          PROVE  \E m \in 1..N : /\ s2[m].opcode = 1
                                 /\ \A j \in (m + 1)..(N + 1) : s2[j].opcode \notin 1..7
      <3>1. PICK n \in DataFrames : ~sent[n].fin /\ \A m \in DataFrames : m <= n
        BY <2>1, <2>5 DEF MaySend, Unfinished
      <3>2. n \in 1..N /\ sent[n].opcode < 8 /\ sent[n] \in Frames
        BY <1>0, ElementOfSeq DEF DataFrames, N
      <3>3. sent[n].opcode \in {0, 1}
        BY <3>1, <3>2 DEF Plain
      <3>4. \A j \in (n + 1)..N : sent[j].opcode \notin 1..7
        <4>1. \A j \in (n + 1)..N : j \in 1..Len(sent) /\ ~(j <= n)
          BY <3>2, <2>3 DEF N
        <4>2. \A j \in (n + 1)..N : ~(sent[j].opcode < 8)
          BY <4>1, <3>1 DEF DataFrames
        <4>3. QED  BY <4>2
      <3>5. \E m \in 1..n : /\ sent[m].opcode = 1
                            /\ \A j \in (m + 1)..n : sent[j].opcode \notin 1..7
        <4>1. CASE sent[n].opcode = 1
          BY <4>1, <3>2, <2>3
        <4>2. CASE sent[n].opcode = 0
          <5>1. Continues(n)
            BY <4>2, <3>2 DEF OpcodeInv, N
          <5>2. PICK m \in 1..(n - 1) :
                    /\ sent[m].opcode = 1
                    /\ \A j \in (m + 1)..n : sent[j].opcode \notin 1..7
            BY <5>1 DEF Continues
          <5>3. m \in 1..n
            BY <3>2, <2>3
          <5>4. QED  BY <5>2, <5>3
        <4>3. QED  BY <3>3, <4>1, <4>2
      <3>6. PICK m \in 1..n : /\ sent[m].opcode = 1
                              /\ \A j \in (m + 1)..n : sent[j].opcode \notin 1..7
        BY <3>5
      <3>7. m \in 1..N /\ s2[m].opcode = 1
        BY <3>2, <3>6, <2>3
      <3>8. ASSUME NEW j \in (m + 1)..(N + 1) PROVE s2[j].opcode \notin 1..7
        <4>1. CASE j = N + 1
          BY <4>1, <2>3, <2>5
        <4>2. CASE j \in 1..N /\ j <= n
          <5>1. j \in (m + 1)..n
            BY <4>2, <3>2, <3>7
          <5>2. QED  BY <5>1, <4>2, <3>6, <2>3
        <4>3. CASE j \in 1..N /\ j > n
          <5>1. j \in (n + 1)..N
            BY <4>3, <3>2, <2>3
          <5>2. QED  BY <5>1, <4>3, <3>4, <2>3
        <4>4. QED  BY <4>1, <4>2, <4>3, <3>2, <3>7, <2>3
      <3>9. QED  BY <3>7, <3>8
    <2>6. ASSUME NEW n \in 1..(N + 1), s2[n].opcode = 0
          PROVE  \E m \in 1..(n - 1) : /\ s2[m].opcode = 1
                                       /\ \A j \in (m + 1)..n : s2[j].opcode \notin 1..7
      <3>1. CASE n = N + 1
        <4>1. f.opcode = 0 /\ n - 1 = N
          BY <3>1, <2>3, <2>6
        <4>2. QED  BY <4>1, <3>1, <2>5
      <3>2. CASE n \in 1..N
        <4>1. Continues(n)
          BY <3>2, <2>3, <2>6 DEF OpcodeInv, N
        <4>2. QED  BY <3>2, <4>1, <2>4
      <3>3. QED  BY <3>1, <3>2, <2>3
    <2>7. QED  BY <2>3, <2>6 DEF OpcodeInv, Continues, s2
  <1>3. UNCHANGED sent \/ \E f \in Frames : SendFrame(f)
    BY DEF Next, HandlerNext, Recv, RecvEnds, RecvFails, Frame, OnWsBody, ClientCloses, Transmit,
           clientVars, vars
  <1>4. QED  BY <1>1, <1>2, <1>3

(* What is left after a cut of everything, and what was cut. *)
LEMMA CutAll ==
    ASSUME NEW S, NEW s \in Seq(S), NEW k, k = Len(s)
    PROVE  First(s, k) = s /\ Drop(s, k) = <<>>
  <1> DEFINE a == First(s, k)
             b == Drop(s, k)
  <1>1. k \in Nat /\ k <= Len(s)
    BY LenProperties
  <1>2. a \in Seq(S) /\ Len(a) = Len(s) /\ \A i \in 1..Len(s) : a[i] = s[i]
    BY <1>1, SubSeqType DEF First
  <1>3. b \in Seq(S) /\ Len(b) = 0
    BY <1>1, RestFacts DEF Drop
  <1> HIDE DEF a, b
  <1>4. a = s
    BY <1>2, SeqEqual
  <1>5. b = <<>>
    BY <1>3, EmptySeq
  <1>6. QED  BY <1>4, <1>5 DEF a, b

LEMMA StreamSend ==
    ASSUME \A f \in Frames : Plain(f), BufferInv, StreamInv, NEW f \in Frames, SendFrame(f)
    PROVE  StreamInv'
  <1> SUFFICES ASSUME slow', whole' PROVE StreamInv'
    BY DEF StreamInv
  <1>1. /\ slow /\ whole /\ inbox = <<>> /\ pc = "recv" /\ pc' = "recv" /\ calls' = calls
        /\ sent' = Append(sent, f)
        /\ inbox' = inbox \o TokensOf(f, Len(sent) + 1)
    BY DEF SendFrame
  <1>2. sent \in Seq(Frames) /\ Len(sent) \in Nat
    BY LenProperties DEF BufferInv, TypeOK
  <1>3. calls = Len(sent)
    <2>1. CASE Last(inbox)
      <3> DEFINE N == Len(sent)
                 t == TokensOf(sent[N], N)
      <3>1. sent[N] \in Frames /\ N \in Nat \ {0} /\ inbox = t
        BY <1>2, <2>1, ElementOfSeq DEF Last
      <3> HIDE DEF N
      <3>2. Len(t) = HeaderSize(sent[N]) + sent[N].length
        BY <3>1, TokensFacts
      <3>3. Len(t) > 0
        BY <3>1, <3>2, HeaderFacts
      <3> HIDE DEF t
      <3>4. QED  BY <3>1, <3>3, <1>1, EmptySeq
    <2>2. QED  BY <2>1, <1>1 DEF StreamInv
  <1>4. Len(sent') = Len(sent) + 1 /\ sent'[Len(sent) + 1] = f
    BY <1>1, <1>2, AppendProperties
  <1>5. inbox' = TokensOf(f, Len(sent) + 1)
    <2> DEFINE t == TokensOf(f, Len(sent) + 1)
    <2>1. t \in Seq((1..(Len(sent) + 1)) \X Nat)
      BY <1>2, TokensFacts
    <2> HIDE DEF t
    <2>2. <<>> \o t = t
      BY <2>1, ConcatEmptySeq
    <2>3. QED  BY <2>2, <1>1 DEF t
  <1>6. Last(inbox)'
    BY <1>1, <1>2, <1>3, <1>4, <1>5 DEF Last
  <1>7. QED  BY <1>1, <1>6 DEF StreamInv

LEMMA StreamRecv ==
    ASSUME BufferInv, StreamInv, Recv
    PROVE  StreamInv'
  <1> SUFFICES ASSUME slow', whole' PROVE StreamInv'
    BY DEF StreamInv
  <1>1. /\ slow /\ whole /\ pc = "recv" /\ pc' = "frame" /\ sent' = sent /\ calls' = calls
    BY DEF Recv
  <1>2. PICK k \in 1..Min2(Capacity, Len(inbox)) :
            AtFrameEnd(k) /\ buf' = First(inbox, k) /\ inbox' = Drop(inbox, k)
    BY <1>1 DEF Recv
  <1>3. inbox \in Seq(FrameToken) /\ Len(inbox) \in Nat /\ k \in 1..Len(inbox)
    BY LenProperties, SizesAssumption DEF BufferInv, TypeOK, Min2
  <1>4. Last(inbox)
    <2>1. inbox # <<>>
      BY <1>3, EmptySeq
    <2>2. QED  BY <2>1, <1>1 DEF StreamInv
  <1> DEFINE N == Len(sent)
  <1>5. /\ sent[N] \in Frames /\ N \in Nat \ {0} /\ inbox = TokensOf(sent[N], N)
    BY <1>4, ElementOfSeq, LenProperties DEF Last, BufferInv, TypeOK
  <1> HIDE DEF N
  <1>6. k = Len(inbox)
    <2> SUFFICES ASSUME k < Len(inbox) PROVE FALSE
      BY <1>3
    <2>1. inbox[k + 1][2] = 1
      BY <1>2 DEF AtFrameEnd
    <2>2. inbox[k + 1] = <<N, k + 1>>
      <3>1. /\ Len(inbox) = HeaderSize(sent[N]) + sent[N].length
            /\ \A i \in 1..(HeaderSize(sent[N]) + sent[N].length) : inbox[i] = <<N, i>>
        BY <1>5, TokensFacts
      <3>2. k + 1 \in 1..Len(inbox)
        BY <1>3
      <3>3. QED  BY <3>1, <3>2
    <2>3. QED  BY <2>1, <2>2, <1>3
  <1>7. buf' = inbox /\ inbox' = <<>>
    BY <1>2, <1>3, <1>6, CutAll
  <1>8. Last(buf)'
    BY <1>1, <1>4, <1>7 DEF Last
  <1>9. QED  BY <1>1, <1>7, <1>8 DEF StreamInv

LEMMA StreamFrame ==
    ASSUME \A f \in Frames : Plain(f), BufferInv, StreamInv, Frame
    PROVE  StreamInv'
  <1> SUFFICES ASSUME slow', whole' PROVE StreamInv'
    BY DEF StreamInv
  <1>1. /\ slow /\ whole /\ pc = "frame" /\ sent' = sent /\ calls' = calls /\ inbox' = inbox
    BY DEF Frame, clientVars
  <1>2. inbox = <<>> /\ Last(buf)
    BY <1>1 DEF StreamInv
  <1> DEFINE N == Len(sent)
             f == sent[N]
  <1>3. /\ f \in Frames /\ N \in Nat \ {0} /\ buf = TokensOf(f, N) /\ f = sent[N] /\ N = Len(sent)
    BY <1>2, ElementOfSeq, LenProperties DEF Last, BufferInv, TypeOK
  <1> HIDE DEF N, f
  <1>4. Form(f.length) = "short" /\ HeaderSize(f) = 3 /\ f.length \in Nat
    BY <1>3, HeaderFacts DEF Plain, Form, HeaderSize
  <1>5. /\ Len(buf) = 3 + f.length
        /\ \A i \in 1..(3 + f.length) : buf[i] = <<N, i>>
    BY <1>3, <1>4, TokensFacts
  <1>6. AtFrameStart /\ buf[1][1] = N
    BY <1>4, <1>5 DEF AtFrameStart
  <1> DEFINE h == [opcode |-> f.opcode, fin |-> f.fin, form |-> "short", length |-> f.length]
  <1>7. Headers = {h}
    BY <1>3, <1>4, <1>6 DEF Headers
  <1>8. /\ h.opcode = f.opcode /\ h.fin = f.fin /\ h.form = "short" /\ h.length = f.length
    OBVIOUS
  <1> HIDE DEF h
  <1>9. Accepted(h) /\ Whole(h)
    BY <1>4, <1>5, <1>8 DEF Accepted, Whole, HeaderComplete, Incomplete
  <1>10. /\ body' = Unmasked(h) /\ code_' = FrameType(f.opcode, f.fin)
         /\ IF IsClose(code_') THEN Close ELSE pc' = "callback"
    BY <1>7, <1>8, <1>9 DEF Frame
  <1>11. Unmasked(h) = Payload(N)
    <2>1. Unmasked(h) = [i \in 1..f.length |->
            IF AtFrameStart /\ 3 + i <= Len(buf) THEN buf[3 + i] ELSE Garbage]
      BY <1>8, HeaderFacts DEF Unmasked
    <2>2. Payload(N) = [i \in 1..f.length |-> <<N, 3 + i>>]
      BY <1>3, <1>4 DEF Payload
    <2>3. ASSUME NEW i \in 1..f.length
          PROVE  (IF AtFrameStart /\ 3 + i <= Len(buf) THEN buf[3 + i] ELSE Garbage) = <<N, 3 + i>>
      <3>1. 3 + i \in 1..(3 + f.length) /\ 3 + i <= Len(buf)
        BY <1>4, <1>5
      <3>2. QED  BY <3>1, <1>5, <1>6
    <2>4. QED  BY <2>1, <2>2, <2>3
  <1>12. CASE IsClose(code_')
    BY <1>10, <1>12 DEF StreamInv, Close
  <1>13. CASE ~IsClose(code_')
    <2>1. code_' # WS_CLOSE_FRAME /\ pc' = "callback"
      BY <1>10, <1>13 DEF IsClose
    <2>2. /\ Len(sent) > 0 /\ calls = Len(sent) - 1
      BY <1>2 DEF Last
    <2>3. body' = Payload(Len(sent))
      BY <1>3, <1>10, <1>11
    <2>4. code_' = FrameType(sent[Len(sent)].opcode, sent[Len(sent)].fin)
      BY <1>3, <1>10
    <2>5. Payload(Len(sent))' = Payload(Len(sent))
      BY <1>1 DEF Payload
    <2>6. QED  BY <1>1, <1>2, <2>1, <2>2, <2>3, <2>4, <2>5 DEF StreamInv
  <1>14. QED  BY <1>12, <1>13

(* The invariant holds after every step of a session. *)
LEMMA IntactStep ==
    ASSUME \A f \in Frames : Plain(f), BufferInv, IntactInv, [Next]_vars
    PROVE  IntactInv'
  <1>1. OpcodeInv'
    BY OpcodeStep DEF IntactInv
  <1>2. ASSUME UNCHANGED <<slow, whole, sent, inbox, buf, body, code_, calls>>,
               pc' = pc \/ pc' = "done"
        PROVE  StreamInv'
    <2>1. \A n : Payload(n)' = Payload(n)
      BY <1>2 DEF Payload
    <2>2. \A s : Last(s)' <=> Last(s)
      BY <1>2 DEF Last
    <2>3. CASE pc' = "done"
      BY <2>3 DEF StreamInv
    <2>4. CASE pc' = pc
      BY <1>2, <2>4 DEF IntactInv, StreamInv, Last, Payload
    <2>5. QED  BY <1>2, <2>3, <2>4
  <1>3. ASSUME RecvEnds \/ RecvFails \/ ClientCloses \/ Transmit \/ UNCHANGED vars
        PROVE  StreamInv'
    <2>1. /\ UNCHANGED <<slow, whole, sent, inbox, buf, body, code_, calls>>
          /\ pc' = pc \/ pc' = "done"
      BY <1>3 DEF RecvEnds, RecvFails, ClientCloses, Transmit, vars, clientVars, reqVars, Close
    <2>2. QED  BY <1>2, <2>1
  <1>4. ASSUME OnWsBody PROVE StreamInv'
    <2> SUFFICES ASSUME slow', whole' PROVE StreamInv'
      BY DEF StreamInv
    <2>1. /\ slow /\ whole /\ pc = "callback" /\ pc' = "recv" /\ sent' = sent /\ inbox' = inbox
          /\ calls' = IF calls <= MaxFrames THEN calls + 1 ELSE calls
      BY <1>4 DEF OnWsBody, clientVars
    <2>2. inbox = <<>> /\ Len(sent) > 0 /\ calls = Len(sent) - 1
      BY <2>1 DEF IntactInv, StreamInv
    <2>3. Len(sent) \in Nat /\ Len(sent) <= MaxFrames /\ MaxFrames \in Nat
      BY SizesAssumption, LenProperties DEF BufferInv, TypeOK
    <2>4. QED  BY <2>1, <2>2, <2>3 DEF StreamInv
  <1>5. StreamInv'
    BY <1>3, <1>4, StreamSend, StreamRecv, StreamFrame DEF Next, HandlerNext, IntactInv
  <1>6. QED  BY <1>1, <1>5 DEF IntactInv

(* MessagesIntact: a client that waits for the server before it sends, over *)
(* a network that cuts no frame, gets every frame to the callbacks, with    *)
(* its payload and its type, if its frames are short, only its texts come   *)
(* in parts, and its control frames come in one, as the protocol demands.   *)
(* Without the first condition the frame may be dropped, without the second *)
(* a part is taken for one of a text.                                       *)
THEOREM FramesCorrect ==
    ASSUME \A f \in Frames : Plain(f)
    PROVE  Spec => []MessagesIntact
  <1>1. Init => SaidInv /\ BufferInv /\ IntactInv
    <2>1. Init => SaidInv /\ BufferInv
      BY InitialSession
    <2>2. Init => IntactInv
      BY EmptySeq DEF Init, IntactInv, OpcodeInv, StreamInv
    <2>3. QED  BY <2>1, <2>2
  <1>2. SaidInv /\ BufferInv /\ IntactInv /\ [Next]_vars => SaidInv' /\ BufferInv' /\ IntactInv'
    BY SaidInvStep, BufferStep, IntactStep
  <1>3. BufferInv /\ IntactInv => MessagesIntact
    <2> SUFFICES ASSUME BufferInv, IntactInv, slow, whole, pc = "callback"
                 PROVE  /\ calls < Len(sent)
                        /\ [code |-> code_, body |-> body] = Expected(calls + 1)
      BY DEF MessagesIntact
    <2> DEFINE N == Len(sent)
               f == sent[N]
    <2>1. /\ N > 0 /\ calls = N - 1 /\ code_ = FrameType(f.opcode, f.fin)
          /\ code_ # WS_CLOSE_FRAME /\ body = Payload(N)
      BY DEF IntactInv, StreamInv
    <2>2. N \in 1..MaxFrames /\ f \in Frames /\ N \in 1..Len(sent)
      BY <2>1, ElementOfSeq, LenProperties, SizesAssumption DEF BufferInv, TypeOK
    <2>3. f.opcode = 0 => Opcode[N] = 1
      BY <2>2, ContinuationOfText DEF IntactInv, OpcodeInv
    <2>4. Plain(f) /\ f.fin \in BOOLEAN /\ f = sent[N]
      BY <2>2, HeaderFacts
    <2> HIDE DEF N, f
    <2>5. code_ = (IF f.fin THEN 128 ELSE 0) + (IF f.opcode = 0 THEN Opcode[N] ELSE f.opcode)
      <3> USE DEF FrameType, WS_TEXT_FRAME, WS_INCOMPLETE_TEXT_FRAME, WS_BINARY_FRAME,
                  WS_INCOMPLETE_BINARY_FRAME, WS_CLOSE_FRAME, WS_PING_FRAME, WS_PONG_FRAME
      <3>1. CASE f.opcode = 0
        BY <2>1, <2>3, <2>4, <3>1
      <3>2. CASE f.opcode = 1
        BY <2>1, <2>4, <3>2
      <3>3. CASE f.opcode = 8
        BY <2>1, <2>4, <3>3
      <3>4. CASE f.opcode \in {2, 9, 10} /\ f.fin
        BY <2>1, <2>4, <3>4
      <3>5. QED  BY <2>4, <3>1, <3>2, <3>3, <3>4 DEF Plain
    <2>6. N - 1 + 1 = N /\ N - 1 < N
      BY <2>2
    <2>7. QED  BY <2>1, <2>4, <2>5, <2>6 DEF Expected, N
  <1>4. QED  BY <1>1, <1>2, <1>3, PTL DEF Spec
=============================================================================
