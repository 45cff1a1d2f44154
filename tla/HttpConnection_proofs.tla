------------------------ MODULE HttpConnection_proofs ------------------------
(***************************************************************************)
(* Proofs about HttpConnection, for any requests and bounds: the hooks run  *)
(* in order, the callback vectors have one owner, requests are dispatched   *)
(* and answered in order, the body of a request that is neither chunked nor *)
(* larger than the buffer reaches its callbacks as it was sent, and the     *)
(* connection implements RequestService.                                    *)
(***************************************************************************)
EXTENDS HttpConnection, SequenceLemmas

-----------------------------------------------------------------------------
(* The hooks *)

HookPlaces ==
    /\ hook = "none" <=> pc = "connect"
    /\ hook = "close" <=> pc \in BehindClose
    /\ hook = "err" => pc \in {"reset_conn", "end"}

HookType == hook \in {"none", "connect", "err", "close"}

(* Every step keeps each hook in its places, and moves as HooksInOrder says. *)
LEMMA HookStep ==
    ASSUME HookType, HookPlaces, Next
    PROVE  /\ HookType' /\ HookPlaces'
           /\ hook' # hook => <<hook, hook'>> \in {<<"none", "connect">>,
                                  <<"connect", "err">>, <<"connect", "close">>,
                                  <<"err", "close">>}
           /\ pc = "end" => hook # "close"
           /\ pc' \in BehindClose => hook' = "close"
           /\ dispatched' # dispatched => hook = "connect"
  <1> USE DEF HookType, HookPlaces, BehindClose
  <1>1. CASE OnConnect
    BY <1>1 DEF OnConnect
  <1>2. CASE Recv \/ RecvZero \/ RecvFails \/ TimeoutFirst \/ TimeoutLater \/ HeaderLimit
    BY <1>2 DEF Recv, RecvZero, RecvFails, TimeoutFirst, TimeoutLater, HeaderLimit,
                Receiving, HeaderTooLong, Resume, WhenStopped, Goto
  <1>3. CASE ParseHeader \/ OnHeader \/ ConnectionField
    BY <1>3 DEF ParseHeader, ParseResults, OnHeader, ConnectionField
  <1>4. CASE BodyLoop \/ ChunkLoop
    BY <1>4 DEF BodyLoop, ChunkLoop, ChunkError, ChunkMore, ChunkDone
  <1>5. CASE Upgrade \/ SwitchProtocols \/ WsHandle \/ NextRequest
    BY <1>5 DEF Upgrade, SwitchProtocols, WsHandle, NextRequest
  <1>6. CASE OnBody
    BY <1>6 DEF OnBody
  <1>7. CASE Linger \/ RecvZeroErr \/ OnErr \/ ResetConn
    BY <1>7 DEF Linger, RecvZeroErr, Goto, OnErr, ResetConn
  <1>8. CASE OnClose \/ DtorTest \/ DtorSet \/ DtorReturn
    BY <1>8 DEF OnClose, DtorTest, DtorSet, DtorReturn, Return
  <1>9. CASE \/ \E q \in Kinds : SendRequest(q)
             \/ ClientCloses \/ Exit \/ Transmit \/ TransmitFails \/ SenderStops
    BY <1>9 DEF SendRequest, ClientCloses, Exit, Transmit, TransmitFails, SenderStops
  <1>10. QED
    BY <1>1, <1>2, <1>3, <1>4, <1>5, <1>6, <1>7, <1>8, <1>9 DEF Next, HandlerNext

(* web.cc, on_connection: on_connect runs first, on_err at most once and    *)
(* only before on_close, on_close exactly once on every way out, and the    *)
(* callbacks of a request in between.                                       *)
THEOREM HooksCorrect == Spec => HooksInOrder
  <1>1. Init => HookType /\ HookPlaces
    BY DEF Init, HookType, HookPlaces, BehindClose
  <1>2. HookType /\ HookPlaces /\ [Next]_vars => HookType' /\ HookPlaces'
    BY HookStep DEF vars, HookType, HookPlaces
  <1>3. HookType /\ HookPlaces /\ [Next]_vars =>
           [/\ hook' # hook => <<hook, hook'>> \in {<<"none", "connect">>,
                                   <<"connect", "err">>, <<"connect", "close">>,
                                   <<"err", "close">>}
            /\ pc = "end" => hook # "close"
            /\ pc' \in BehindClose => hook' = "close"
            /\ dispatched' # dispatched => hook = "connect"]_<<pc, hook, dispatched>>
    BY HookStep DEF vars
  <1>4. QED  BY <1>1, <1>2, <1>3, PTL DEF Spec, HooksInOrder

-----------------------------------------------------------------------------
(* Requests and sequences of tokens *)

LEMMA KindFacts ==
    ASSUME reqs \in Seq(Kinds), NEW n \in 1..Len(reqs)
    PROVE  /\ reqs[n] \in Kinds
           /\ hdr(n) \in Nat /\ hdr(n) > 0
           /\ reqs[n].body \in Nat
           /\ reqs[n].chunked \in BOOLEAN /\ reqs[n].large \in BOOLEAN
           /\ reqs[n].routed \in BOOLEAN
           /\ ContentLength(n) \in Nat
  <1>1. reqs[n] \in Kinds
    BY ElementOfSeq
  <1>2. QED  BY <1>1, KindsAssumption DEF hdr, ContentLength

(* The two parts of a sequence that is cut after k elements. *)
LEMMA CutFacts ==
    ASSUME NEW S, NEW s \in Seq(S), NEW k \in 0..Len(s)
    PROVE  /\ First(s, k) \in Seq(S)
           /\ Len(First(s, k)) = k
           /\ \A i \in 1..k : First(s, k)[i] = s[i]
           /\ Drop(s, k) \in Seq(S)
           /\ Len(Drop(s, k)) = Len(s) - k
           /\ \A i \in 1..(Len(s) - k) : Drop(s, k)[i] = s[k + i]
  <1>1. k \in Nat /\ k <= Len(s)
    BY LenProperties
  <1>2. /\ SubSeq(s, 1, k) \in Seq(S)
        /\ Len(SubSeq(s, 1, k)) = k
        /\ \A i \in 1..k : SubSeq(s, 1, k)[i] = s[i]
    BY <1>1, SubSeqType
  <1>3. /\ SubSeq(s, k + 1, Len(s)) \in Seq(S)
        /\ Len(SubSeq(s, k + 1, Len(s))) = Len(s) - k
        /\ \A i \in 1..(Len(s) - k) : SubSeq(s, k + 1, Len(s))[i] = s[k + i]
    BY <1>1, RestFacts
  <1>4. QED  BY <1>2, <1>3 DEF First, Drop

LEMMA CutMove ==
    ASSUME NEW S, NEW s \in Seq(S), NEW t \in Seq(S), NEW k \in 0..Len(t)
    PROVE  (s \o First(t, k)) \o Drop(t, k) = s \o t
  <1>1. k \in Nat /\ k <= Len(t)
    BY LenProperties
  <1>2. (s \o SubSeq(t, 1, k)) \o SubSeq(t, k + 1, Len(t)) = s \o t
    BY <1>1, MoveFront
  <1>3. QED  BY <1>2 DEF First, Drop

(* Two sequences, one behind the other. *)
LEMMA JoinFacts ==
    ASSUME NEW S, NEW s \in Seq(S), NEW t \in Seq(S)
    PROVE  /\ s \o t \in Seq(S)
           /\ Len(s) \in Nat /\ Len(t) \in Nat
           /\ Len(s \o t) = Len(s) + Len(t)
           /\ \A i \in 1..Len(s) : (s \o t)[i] = s[i]
           /\ \A i \in 1..Len(t) : (s \o t)[Len(s) + i] = t[i]
           /\ \A i \in (Len(s) + 1)..(Len(s) + Len(t)) :
                 (s \o t)[i] = t[i - Len(s)]
  BY ConcatProperties, LenProperties

LEMMA JunkFacts ==
    ASSUME NEW k \in Nat
    PROVE  Junk(k) \in Seq(Token) /\ Len(Junk(k)) = k
  <1>1. Garbage \in Token
    BY BoundsAssumption DEF Garbage, Token
  <1>2. QED  BY <1>1 DEF Junk

(* The tokens of a request. *)
SizeOf(q) == q.hdr + q.body + (IF q.chunked THEN 1 ELSE 0)

LEMMA SizeFacts ==
    ASSUME NEW q \in Kinds
    PROVE  SizeOf(q) \in Nat /\ SizeOf(q) > 0
  BY KindsAssumption DEF SizeOf

LEMMA TokensOfFacts ==
    ASSUME NEW q \in Kinds, NEW n \in 1..MaxRequests
    PROVE  /\ SizeOf(q) \in Nat /\ SizeOf(q) > 0
           /\ TokensOf(q, n) \in Seq(Token)
           /\ Len(TokensOf(q, n)) = SizeOf(q)
           /\ \A i \in 1..SizeOf(q) : TokensOf(q, n)[i] = <<n, i>>
  <1>1. SizeOf(q) \in Nat /\ SizeOf(q) > 0
    BY SizeFacts
  <1>2. \A i \in 1..SizeOf(q) : <<n, i>> \in Token
    BY <1>1, BoundsAssumption DEF Token
  <1> DEFINE f == [i \in 1..SizeOf(q) |-> <<n, i>>]
  <1>3. TokensOf(q, n) = f
    BY DEF TokensOf, SizeOf
  <1>4. f \in Seq(Token) /\ Len(f) = SizeOf(q)
    <2>1. f \in [1..SizeOf(q) -> Token]
      BY <1>2
    <2> HIDE DEF f
    <2>2. QED  BY <1>1, <2>1
  <1>5. \A i \in 1..SizeOf(q) : f[i] = <<n, i>>
    OBVIOUS
  <1> HIDE DEF f
  <1>6. QED  BY <1>1, <1>3, <1>4, <1>5

-----------------------------------------------------------------------------
(* The place of the handler says which request it is at and what of it the  *)
(* buffer holds, and the tokens it has kept and those to come are whole     *)
(* requests in a row: nothing else tells the parser where a header ends.    *)

BetweenRequests == {"connect", "recv_first", "recv_header", "parse"}
BodyLength == {"body", "recv_body", "recv_stale"}
BodyChunks == {"chunk", "recv_chunk", "chunk_again"}
BodyReady  == {"upgrade", "switch", "websocket", "dispatch"}
InRequest  == {"header", "connection"} \cup BodyLength \cup BodyChunks
                \cup BodyReady

PlaceInv ==
    /\ pc \in BetweenRequests => cur = 0
    /\ pc \in InRequest => cur # 0 /\ hdr(cur) <= Len(buf)
    /\ pc \in BodyChunks => /\ hdr(cur) <= size /\ size <= Len(buf)
                            /\ reqs[cur].chunked
    /\ pc = "recv_stale" => reqs[cur].large
    /\ pc = "parse" => buf # <<>>
    /\ pc \in InRequest \ {"header"} => route_ok = reqs[cur].routed

(* A chunked or a large body leaves bytes in the buffer no client sent.     *)
Plain(n) == ~reqs[n].chunked /\ ~reqs[n].large
Kept == IF cur = 0 \/ Plain(cur) THEN buf \o inbox ELSE inbox

(* Of the requests rs, s holds tokens, in runs that end with their request. *)
Sent(rs, s) == \A i \in 1..Len(s) : /\ s[i][1] \in 1..Len(rs)
                                    /\ s[i][2] \in 1..SizeOf(rs[s[i][1]])
Runs(rs, s) == \A i \in 1..Len(s) : \A d \in 0..(Len(s) - i) :
                  s[i][2] + d <= SizeOf(rs[s[i][1]])
                     => s[i + d] = <<s[i][1], s[i][2] + d>>
EndsWhole(rs, s) == Len(s) > 0 => s[Len(s)][2] = SizeOf(rs[s[Len(s)][1]])
Whole(rs, s) == Sent(rs, s) /\ Runs(rs, s) /\ EndsWhole(rs, s)

BaseInv == TypeOK /\ PlaceInv /\ Whole(reqs, Kept)

-----------------------------------------------------------------------------
(* The client *)

(* What is left of whole requests ends with whole requests. *)
LEMMA WholeRest ==
    ASSUME NEW rs \in Seq(Kinds), NEW s \in Seq(Token), Whole(rs, s),
           NEW k \in 0..Len(s),
           NEW r \in Seq(Token), Len(r) = Len(s) - k,
           \A i \in 1..Len(r) : r[i] = s[k + i]
    PROVE  Whole(rs, r)
  <1>1. Len(s) \in Nat /\ Len(r) \in Nat
    BY LenProperties
  <1>2. Sent(rs, r)
    <2> SUFFICES ASSUME NEW i \in 1..Len(r)
                 PROVE  /\ r[i][1] \in 1..Len(rs)
                        /\ r[i][2] \in 1..SizeOf(rs[r[i][1]])
      BY DEF Sent
    <2>1. k + i \in 1..Len(s) /\ r[i] = s[k + i]
      BY <1>1
    <2>2. QED  BY <2>1 DEF Whole, Sent
  <1>3. Runs(rs, r)
    <2> SUFFICES ASSUME NEW i \in 1..Len(r), NEW d \in 0..(Len(r) - i),
                        r[i][2] + d <= SizeOf(rs[r[i][1]])
                 PROVE  r[i + d] = <<r[i][1], r[i][2] + d>>
      BY DEF Runs
    <2>1. /\ k + i \in 1..Len(s) /\ d \in 0..(Len(s) - (k + i))
          /\ k + (i + d) = (k + i) + d /\ i + d \in 1..Len(r)
      BY <1>1
    <2>2. r[i] = s[k + i] /\ r[i + d] = s[(k + i) + d]
      BY <2>1
    <2>3. s[(k + i) + d] = <<s[k + i][1], s[k + i][2] + d>>
      BY <2>1, <2>2 DEF Whole, Runs
    <2>4. QED  BY <2>2, <2>3
  <1>4. EndsWhole(rs, r)
    <2> SUFFICES ASSUME Len(r) > 0
                 PROVE  r[Len(r)][2] = SizeOf(rs[r[Len(r)][1]])
      BY DEF EndsWhole
    <2>1. r[Len(r)] = s[Len(s)] /\ Len(s) > 0
      BY <1>1
    <2>2. QED  BY <2>1 DEF Whole, EndsWhole
  <1>5. QED  BY <1>2, <1>3, <1>4 DEF Whole

(* A request joins whole requests. *)
LEMMA WholeGrows ==
    ASSUME NEW rs \in Seq(Kinds), NEW s \in Seq(Token), Whole(rs, s),
           NEW q \in Kinds, Len(rs) < MaxRequests
    PROVE  Whole(Append(rs, q), s \o TokensOf(q, Len(rs) + 1))
  <1> DEFINE n  == Len(rs) + 1
             t  == TokensOf(q, n)
             r  == s \o t
             rs2 == Append(rs, q)
  <1>1. /\ Len(rs) \in Nat /\ n \in 1..MaxRequests
        /\ Len(rs2) = n /\ rs2[n] = q
        /\ \A i \in 1..Len(rs) : rs2[i] = rs[i]
    BY LenProperties, AppendProperties, BoundsAssumption
  <1>2. /\ SizeOf(q) \in Nat /\ SizeOf(q) > 0
        /\ t \in Seq(Token) /\ Len(t) = SizeOf(q)
        /\ \A i \in 1..SizeOf(q) : t[i] = <<n, i>>
    BY <1>1, TokensOfFacts
  <1> HIDE DEF n, t, rs2
  <1>3. /\ r \in Seq(Token)
        /\ Len(s) \in Nat /\ Len(t) \in Nat /\ Len(r) = Len(s) + Len(t)
        /\ \A i \in 1..Len(s) : r[i] = s[i]
        /\ \A i \in (Len(s) + 1)..(Len(s) + Len(t)) : r[i] = t[i - Len(s)]
    BY <1>2, JoinFacts
  <1> HIDE DEF r
  <1>4. ASSUME NEW i \in 1..Len(s)
        PROVE  /\ r[i] = s[i]
               /\ r[i][1] \in 1..Len(rs) /\ r[i][1] \in 1..n
               /\ rs2[r[i][1]] = rs[s[i][1]]
               /\ r[i][2] \in Nat
               /\ r[i][2] \in 1..SizeOf(rs2[r[i][1]])
               /\ SizeOf(rs[s[i][1]]) \in Nat
    <2>1. /\ r[i] = s[i] /\ s[i] \in Token /\ s[i][1] \in 1..Len(rs)
          /\ s[i][2] \in 1..SizeOf(rs[s[i][1]])
      BY <1>3, ElementOfSeq DEF Whole, Sent
    <2>2. SizeOf(rs[s[i][1]]) \in Nat
      BY <2>1, ElementOfSeq, SizeFacts
    <2>3. QED  BY <2>1, <2>2, <1>1, <1>3 DEF n
  <1>5. ASSUME NEW i \in (Len(s) + 1)..Len(r)
        PROVE  r[i] = <<n, i - Len(s)>> /\ i - Len(s) \in 1..SizeOf(q)
    BY <1>2, <1>3
  <1>6. Sent(rs2, r)
    <2> SUFFICES ASSUME NEW i \in 1..Len(r)
                 PROVE  /\ r[i][1] \in 1..Len(rs2)
                        /\ r[i][2] \in 1..SizeOf(rs2[r[i][1]])
      BY DEF Sent
    <2>1. CASE i \in 1..Len(s)
      BY <2>1, <1>1, <1>4
    <2>2. CASE i \in (Len(s) + 1)..Len(r)
      BY <2>2, <1>1, <1>5
    <2>3. QED  BY <2>1, <2>2, <1>3
  <1>7. EndsWhole(rs2, r)
    <2>1. Len(r) \in (Len(s) + 1)..Len(r) /\ Len(r) - Len(s) = SizeOf(q)
      BY <1>2, <1>3
    <2>2. r[Len(r)] = <<n, SizeOf(q)>>
      BY <2>1, <1>5
    <2>3. QED  BY <2>2, <1>1 DEF EndsWhole
  <1>8. Runs(rs2, r)
    <2> SUFFICES ASSUME NEW i \in 1..Len(r), NEW d \in 0..(Len(r) - i),
                        r[i][2] + d <= SizeOf(rs2[r[i][1]])
                 PROVE  r[i + d] = <<r[i][1], r[i][2] + d>>
      BY DEF Runs
    <2>1. CASE i \in 1..Len(s) /\ i + d <= Len(s)
      <3>1. /\ i + d \in 1..Len(s) /\ d \in 0..(Len(s) - i)
            /\ r[i] = s[i] /\ rs2[r[i][1]] = rs[s[i][1]]
        BY <2>1, <1>3, <1>4
      <3>2. s[i + d] = <<s[i][1], s[i][2] + d>>
        BY <3>1, <2>1 DEF Whole, Runs
      <3>3. QED  BY <3>1, <3>2, <1>4
    (* The run that s ends with is over: r goes on with another request.    *)
    <2>2. CASE i \in 1..Len(s) /\ ~(i + d <= Len(s))
      <3> DEFINE e == Len(s) - i
      <3>1. /\ e \in 0..(Len(s) - i) /\ i + e = Len(s) /\ e < d /\ Len(s) > 0
            /\ r[i] = s[i] /\ rs2[r[i][1]] = rs[s[i][1]] /\ s[i][2] \in Nat
            /\ SizeOf(rs[s[i][1]]) \in Nat
        <4>1. Len(s) \in Nat /\ Len(r) \in Nat
          BY <1>3
        <4>2. i \in Nat /\ e \in 0..(Len(s) - i) /\ i + e = Len(s) /\ e < d /\ Len(s) > 0
          BY <4>1, <2>2
        <4>3. /\ r[i] = s[i] /\ rs2[r[i][1]] = rs[s[i][1]] /\ r[i][2] \in Nat
              /\ SizeOf(rs[s[i][1]]) \in Nat
          BY <2>2, <1>4
        <4>4. QED  BY <4>2, <4>3
      <3> HIDE DEF e
      <3>2. s[i][2] + e <= SizeOf(rs[s[i][1]])
        <4>1. s[i][2] + d <= SizeOf(rs[s[i][1]])
          BY <3>1
        <4>2. e \in Nat /\ d \in Nat /\ e < d /\ s[i][2] \in Nat /\ SizeOf(rs[s[i][1]]) \in Nat
          BY <3>1, <1>3
        <4>3. QED  BY <4>1, <4>2
      <3>3. s[Len(s)] = <<s[i][1], s[i][2] + e>>
        BY <2>2, <3>1, <3>2 DEF Whole, Runs
      <3>4. s[i][2] + e = SizeOf(rs[s[i][1]])
        BY <3>1, <3>3 DEF Whole, EndsWhole
      <3>5. s[i][2] + d <= s[i][2] + e
        BY <3>1, <3>4
      <3>6. s[i][2] \in Nat /\ d \in Nat /\ e \in Nat /\ e < d
        BY <3>1, <1>3
      <3> DEFINE x == s[i][2]
      <3> HIDE DEF x
      <3>7. x \in Nat /\ x + d <= x + e
        BY <3>5, <3>6 DEF x
      <3>8. FALSE
        BY <3>6, <3>7
      <3>9. QED  BY <3>8
    <2>3. CASE i \in (Len(s) + 1)..Len(r)
      <3>1. /\ i + d \in (Len(s) + 1)..Len(r)
            /\ (i + d) - Len(s) = (i - Len(s)) + d
        BY <2>3, <1>3
      <3>2. QED  BY <3>1, <2>3, <1>5
    <2>4. QED  BY <2>1, <2>2, <2>3, <1>3
  <1>9. QED  BY <1>6, <1>7, <1>8 DEF Whole, r, t, n, rs2

-----------------------------------------------------------------------------
(* One lemma per step that touches what BaseInv speaks of. *)

(* Replies, and the 101 of an upgrade. *)
Wired == Reply \cup ((1..MaxRequests) \X {"101"})

LEMMA BaseFacts ==
    ASSUME BaseInv
    PROVE  /\ reqs \in Seq(Kinds) /\ inbox \in Seq(Token) /\ buf \in Seq(Token)
           /\ Len(reqs) \in Nat /\ Len(inbox) \in Nat /\ Len(buf) \in Nat
           /\ cur \in 0..Len(reqs)
           /\ buf \o inbox \in Seq(Token) /\ Kept \in Seq(Token)
           /\ cur # 0 => /\ hdr(cur) \in Nat /\ hdr(cur) > 0
                         /\ ContentLength(cur) \in Nat
                         /\ reqs[cur] \in Kinds /\ reqs[cur].body \in Nat
                         /\ reqs[cur].chunked \in BOOLEAN
                         /\ reqs[cur].large \in BOOLEAN
                         /\ reqs[cur].routed \in BOOLEAN
  <1>1. /\ reqs \in Seq(Kinds) /\ inbox \in Seq(Token) /\ buf \in Seq(Token)
        /\ cur \in 0..Len(reqs)
    BY DEF BaseInv, TypeOK
  <1>2. Len(reqs) \in Nat /\ Len(inbox) \in Nat /\ Len(buf) \in Nat
    BY <1>1, LenProperties
  <1>3. buf \o inbox \in Seq(Token)
    BY <1>1, ConcatProperties
  <1>4. Kept \in Seq(Token)
    BY <1>1, <1>3 DEF Kept
  <1>5. cur # 0 => cur \in 1..Len(reqs)
    BY <1>1, <1>2
  <1>6. QED  BY <1>1, <1>2, <1>3, <1>4, <1>5, KindFacts

(* What has not been received yet is whole requests in any case. *)
LEMMA KeptRest ==
    ASSUME BaseInv
    PROVE  Whole(reqs, inbox)
  <1>1. CASE Kept = buf \o inbox
    <2> DEFINE s == buf \o inbox
    <2>1. /\ s \in Seq(Token) /\ Len(s) = Len(buf) + Len(inbox)
          /\ \A i \in 1..Len(inbox) : inbox[i] = s[Len(buf) + i]
      BY BaseFacts, JoinFacts
    <2>2. Whole(reqs, s)
      BY <1>1 DEF BaseInv
    <2> HIDE DEF s
    <2>3. Len(buf) \in 0..Len(s) /\ Len(inbox) = Len(s) - Len(buf)
      BY <2>1, BaseFacts
    <2>4. QED  BY <2>1, <2>2, <2>3, BaseFacts, WholeRest
  <1>2. CASE Kept = inbox
    BY <1>2 DEF BaseInv
  <1>3. QED  BY <1>1, <1>2 DEF Kept

(* A step that leaves the requests and the buffers alone. *)
LEMMA FrameStep ==
    ASSUME BaseInv, TypeOK', PlaceInv', UNCHANGED <<reqs, inbox, buf, cur>>
    PROVE  BaseInv'
  <1>1. Kept' = Kept
    BY DEF Kept, Plain
  <1>2. QED  BY <1>1 DEF BaseInv

LEMMA SendRequestBase ==
    ASSUME BaseInv, NEW q \in Kinds, SendRequest(q)
    PROVE  BaseInv'
  <1> DEFINE n == Len(reqs) + 1
             t == TokensOf(q, n)
  <1>1. /\ reqs' = Append(reqs, q) /\ inbox' = inbox \o t
        /\ Len(reqs) < MaxRequests
        /\ UNCHANGED <<patient, fin, stopped, pc, parseVars, vecVars, hook, conn,
                       chanVars, reqVars, dispatched>>
    BY DEF SendRequest
  <1>2. /\ reqs' \in Seq(Kinds) /\ Len(reqs') = Len(reqs) + 1
        /\ \A i \in 1..Len(reqs) : reqs'[i] = reqs[i]
    BY <1>1, BaseFacts, AppendProperties
  <1>3. n \in 1..MaxRequests /\ t \in Seq(Token)
    BY <1>1, BaseFacts, BoundsAssumption, TokensOfFacts
  <1> HIDE DEF n, t
  <1>4. TypeOK'
    <2>1. inbox' \in Seq(Token)
      BY <1>1, <1>3, BaseFacts, ConcatProperties
    <2>2. Len(reqs') <= MaxRequests
      BY <1>1, <1>2, BaseFacts, BoundsAssumption
    <2>3. 0..Len(reqs) \subseteq 0..Len(reqs') /\ 1..Len(reqs) \subseteq 1..Len(reqs')
      BY <1>2, BaseFacts
    <2>4. dispatched \in Seq([req : 1..Len(reqs'), body : Seq(Token)])
      <3> DEFINE R == [req : 1..Len(reqs), body : Seq(Token)]
                 S == [req : 1..Len(reqs'), body : Seq(Token)]
      <3>1. R \subseteq S
        BY <2>3
      <3>2. dispatched \in Seq(R)
        BY DEF BaseInv, TypeOK
      <3> HIDE DEF R, S
      <3>3. dispatched \in Seq(S)
        BY <3>1, <3>2, SeqMonotone
      <3>4. QED  BY <3>3 DEF S
    <2>5. QED
      BY <1>1, <1>2, <2>1, <2>2, <2>3, <2>4
         DEF BaseInv, TypeOK, parseVars, vecVars, chanVars, reqVars
  <1>5. cur' = cur /\ buf' = buf /\ (cur # 0 => reqs'[cur] = reqs[cur])
    BY <1>1, <1>2, BaseFacts DEF parseVars
  <1>6. PlaceInv'
    BY <1>1, <1>5 DEF BaseInv, PlaceInv, hdr, parseVars, BetweenRequests, InRequest,
                      BodyChunks, BodyLength, BodyReady
  <1>7. Kept' = Kept \o t
    <2>1. buf \in Seq(Token) /\ inbox \in Seq(Token) /\ t \in Seq(Token)
      BY <1>3, BaseFacts
    <2>2. buf \o (inbox \o t) = (buf \o inbox) \o t
      BY <2>1, ConcatAssociative
    <2>3. QED  BY <1>1, <1>5, <2>2 DEF Kept, Plain
  <1>8. Whole(reqs', Kept')
    <2>1. Whole(Append(reqs, q), Kept \o TokensOf(q, Len(reqs) + 1))
      BY <1>1, BaseFacts, WholeGrows DEF BaseInv
    <2>2. QED  BY <1>1, <1>7, <2>1 DEF t, n
  <1>9. QED  BY <1>4, <1>6, <1>8 DEF BaseInv

(* What recv delivers was in the inbox or is junk for a large body. *)
LEMMA RecvFacts ==
    ASSUME BaseInv, Recv
    PROVE  \E k \in 1..Len(inbox) :
              /\ inbox' = Drop(inbox, k)
              /\ \/ buf' = buf \o First(inbox, k)
                 \/ pc = "recv_stale" /\ buf' = buf \o Junk(k)
  <1>1. PICK k \in 1..Min2(Wanted, Len(inbox)) :
              /\ inbox' = Drop(inbox, k)
              /\ \/ buf' = buf \o First(inbox, k)
                 \/ pc = "recv_stale" /\ buf' = buf \o Junk(k)
    BY DEF Recv
  <1>2. pc \in {"recv_body", "recv_stale"} => cur # 0
    BY DEF BaseInv, PlaceInv, InRequest, BodyLength
  <1>3. Wanted \in Int
    BY <1>2, BaseFacts DEF Wanted
  <1>4. k \in 1..Len(inbox)
    BY <1>3, BaseFacts DEF Min2
  <1>5. QED  BY <1>1, <1>4

LEMMA RecvBase ==
    ASSUME BaseInv, Recv
    PROVE  BaseInv'
  <1>1. PICK k \in 1..Len(inbox) :
              /\ inbox' = Drop(inbox, k)
              /\ \/ buf' = buf \o First(inbox, k)
                 \/ pc = "recv_stale" /\ buf' = buf \o Junk(k)
    BY RecvFacts
  <1>2. /\ pc' = Resume /\ Receiving
        /\ UNCHANGED <<patient, reqs, fin, stopped, cur, size, keep_alive, route_ok,
                       body_bin, vecVars, hook, conn, chanVars, reqVars, dispatched>>
    BY DEF Recv
  <1>3. \/ pc = "recv_first" /\ pc' = "recv_header"
        \/ pc = "recv_header" /\ pc' = "parse"
        \/ pc \in {"recv_body", "recv_stale"} /\ pc' = "body"
        \/ pc = "recv_chunk" /\ pc' = "chunk_again"
    BY <1>2 DEF Receiving, Resume
  <1>4. k \in 0..Len(inbox) /\ k \in Nat /\ k > 0
    BY BaseFacts
  <1>5. /\ First(inbox, k) \in Seq(Token) /\ Len(First(inbox, k)) = k
        /\ Drop(inbox, k) \in Seq(Token) /\ Len(Drop(inbox, k)) = Len(inbox) - k
        /\ \A i \in 1..(Len(inbox) - k) : Drop(inbox, k)[i] = inbox[k + i]
    BY <1>4, BaseFacts, CutFacts
  <1>6. Junk(k) \in Seq(Token) /\ Len(Junk(k)) = k
    BY <1>4, JunkFacts
  <1>7. buf' \in Seq(Token) /\ Len(buf') = Len(buf) + k
    <2>1. CASE buf' = buf \o First(inbox, k)
      BY <2>1, <1>5, BaseFacts, JoinFacts
    <2>2. CASE buf' = buf \o Junk(k)
      BY <2>2, <1>6, BaseFacts, JoinFacts
    <2>3. QED  BY <2>1, <2>2, <1>1
  <1>8. TypeOK'
    BY <1>1, <1>2, <1>3, <1>5, <1>7 DEF BaseInv, TypeOK, Pcs, vecVars, chanVars, reqVars
  <1>9. PlaceInv'
    <2>1. Len(buf) <= Len(buf') /\ Len(buf') \in Nat /\ buf' # <<>>
      BY <1>4, <1>7, BaseFacts
    <2>2. cur' = cur /\ reqs' = reqs /\ size' = size /\ route_ok' = route_ok
      BY <1>2
    <2>3. cur # 0 => hdr(cur) \in Nat
      BY BaseFacts
    <2>4. size \in Nat
      BY DEF BaseInv, TypeOK
    <2>5. QED
      BY <1>3, <2>1, <2>2, <2>3, <2>4, BaseFacts
         DEF BaseInv, PlaceInv, hdr, BetweenRequests, InRequest, BodyChunks, BodyLength,
             BodyReady
  <1>10. Whole(reqs', Kept')
    <2>1. CASE cur = 0 \/ Plain(cur)
      <3>1. pc # "recv_stale"
        BY <2>1 DEF BaseInv, PlaceInv, InRequest, BodyLength, Plain
      <3>2. Kept' = (buf \o First(inbox, k)) \o Drop(inbox, k)
        BY <3>1, <2>1, <1>1, <1>2 DEF Kept, Plain
      <3>3. Kept' = Kept
        <4>1. (buf \o First(inbox, k)) \o Drop(inbox, k) = buf \o inbox
          BY <1>4, BaseFacts, CutMove
        <4>2. QED  BY <4>1, <3>2, <2>1 DEF Kept
      <3>4. QED  BY <3>3, <1>2 DEF BaseInv
    <2>2. CASE ~(cur = 0 \/ Plain(cur))
      <3>1. Kept = inbox /\ Kept' = Drop(inbox, k)
        BY <2>2, <1>1, <1>2 DEF Kept, Plain
      <3> DEFINE r == Drop(inbox, k)
      <3>2. /\ r \in Seq(Token) /\ Len(r) = Len(inbox) - k
            /\ \A i \in 1..Len(r) : r[i] = inbox[k + i]
        BY <1>5
      <3> HIDE DEF r
      <3>3. Whole(reqs, r)
        BY <3>1, <3>2, <1>4, BaseFacts, WholeRest DEF BaseInv
      <3>4. QED  BY <3>1, <3>3, <1>2 DEF r
    <2>3. QED  BY <2>1, <2>2
  <1>11. QED  BY <1>8, <1>9, <1>10 DEF BaseInv

(* A parsed header is that of a request the client sent. *)
LEMMA ParseFacts ==
    ASSUME BaseInv, pc = "parse"
    PROVE  /\ cur = 0 /\ Len(buf) > 0
           /\ buf[1] \in Token
           /\ buf[1][1] \in 1..Len(reqs)
           /\ Kept = buf \o inbox /\ Kept[1] = buf[1]
  <1>1. cur = 0 /\ buf # <<>>
    BY DEF BaseInv, PlaceInv, BetweenRequests
  <1>2. Len(buf) > 0
    BY <1>1, BaseFacts, EmptySeq
  <1>3. Kept = buf \o inbox
    BY <1>1 DEF Kept
  <1>4. 1 \in 1..Len(buf) /\ 1 \in 1..Len(Kept) /\ Kept[1] = buf[1]
    <2>1. /\ Len(buf \o inbox) = Len(buf) + Len(inbox)
          /\ \A i \in 1..Len(buf) : (buf \o inbox)[i] = buf[i]
      BY BaseFacts, JoinFacts
    <2>2. QED  BY <2>1, <1>2, <1>3, BaseFacts
  <1>5. QED
    BY <1>1, <1>2, <1>3, <1>4, BaseFacts, ElementOfSeq DEF BaseInv, Whole, Sent

LEMMA ParseHeaderBase ==
    ASSUME BaseInv, ParseHeader
    PROVE  BaseInv'
  <1>1. /\ pc = "parse"
        /\ \/ pc' = "header" /\ HasHeader /\ cur' = buf[1][1]
           \/ pc' \in {"recv_header", "recv_zero_err"} /\ cur' = 0
        /\ UNCHANGED <<clientVars, stopped, buf, size, keep_alive, route_ok, body_bin,
                       vecVars, hook, conn, chanVars, reqVars, dispatched>>
    BY DEF ParseHeader, ParseResults
  <1>2. /\ cur = 0 /\ buf[1][1] \in 1..Len(reqs) /\ Kept = buf \o inbox
    BY <1>1, ParseFacts
  <1>3. TypeOK'
    <2>1. TypeOK /\ reqs' = reqs
      BY <1>1 DEF BaseInv, clientVars
    <2>2. pc' \in Pcs
      BY <1>1 DEF Pcs
    <2>3. cur' \in 0..Len(reqs)
      BY <1>1, <1>2, <2>1 DEF TypeOK
    <2>4. QED
      BY <1>1, <2>1, <2>2, <2>3 DEF TypeOK, clientVars, vecVars, chanVars, reqVars
  <1>4. PlaceInv'
    <2>1. pc' = "header" => cur' # 0 /\ hdr(cur') <= Len(buf)
      BY <1>1, <1>2, BaseFacts DEF HasHeader
    <2>2. QED
      BY <2>1, <1>1 DEF PlaceInv, hdr, clientVars, BetweenRequests, InRequest,
                        BodyChunks, BodyLength, BodyReady
  <1>5. Whole(reqs', Kept')
    <2>1. CASE cur' = 0 \/ Plain(cur')
      <3>1. Kept' = Kept
        BY <2>1, <1>1, <1>2 DEF Kept, Plain, clientVars
      <3>2. QED  BY <3>1, <1>1 DEF BaseInv, clientVars
    <2>2. CASE ~(cur' = 0 \/ Plain(cur'))
      <3>1. Kept' = inbox
        BY <2>2, <1>1 DEF Kept, Plain, clientVars
      <3>2. Whole(reqs, inbox)
        BY <1>2, KeptRest
      <3>3. QED  BY <3>1, <3>2, <1>1 DEF clientVars
    <2>3. QED  BY <2>1, <2>2
  <1>6. QED  BY <1>3, <1>4, <1>5 DEF BaseInv

LEMMA BodyLoopBase ==
    ASSUME BaseInv, BodyLoop
    PROVE  BaseInv'
  <1> DEFINE len == ContentLength(cur)
             enough == Len(buf) - hdr(cur) >= len
  <1>1. /\ pc = "body"
        /\ IF len > 0 /\ enough THEN body_bin' = Body ELSE UNCHANGED body_bin
        /\ pc' = IF len > 0 /\ ~enough
                 THEN IF size = 0 /\ reqs[cur].large THEN "recv_stale"
                                                    ELSE "recv_body"
                 ELSE IF reqs[cur].chunked THEN "chunk" ELSE "upgrade"
        /\ size' = hdr(cur)
        /\ UNCHANGED <<clientVars, stopped, buf, cur, keep_alive, route_ok,
                       vecVars, hook, conn, chanVars, reqVars, dispatched>>
    BY DEF BodyLoop
  <1>2. /\ cur # 0 /\ hdr(cur) \in Nat /\ hdr(cur) > 0 /\ len \in Nat
        /\ hdr(cur) <= Len(buf)
    BY <1>1, BaseFacts DEF BaseInv, PlaceInv, InRequest, BodyLength
  <1> HIDE DEF len
  <1>3. len > 0 /\ enough => Body \in Seq(Token)
    <2> SUFFICES ASSUME len > 0, enough PROVE Body \in Seq(Token)
      OBVIOUS
    <2>1. hdr(cur) + len <= Len(buf)
      BY <1>2, BaseFacts
    <2>2. SubSeq(buf, hdr(cur) + 1, hdr(cur) + len) \in Seq(Token)
      BY <2>1, <1>2, BaseFacts, SliceFacts
    <2>3. QED  BY <2>2 DEF Body, len
  <1>4. TypeOK'
    BY <1>1, <1>2, <1>3 DEF BaseInv, TypeOK, Pcs, clientVars, vecVars, chanVars, reqVars
  <1>5. PlaceInv'
    BY <1>1, <1>2 DEF BaseInv, PlaceInv, hdr, clientVars, BetweenRequests, InRequest,
                      BodyChunks, BodyLength, BodyReady
  <1>6. QED  BY <1>1, <1>4, <1>5, FrameStep DEF clientVars

(* The end of what phr_decode_chunked has decoded is the end of the buffer. *)
LEMMA DecodedFacts ==
    ASSUME BaseInv, size <= Len(buf), NEW data \in Seq(Token), Decoded(data)
    PROVE  /\ buf' \in Seq(Token) /\ size' \in Nat
           /\ size <= size' /\ size' = Len(buf')
           /\ First(buf, size) \o data = buf'
  <1>1. size \in 0..Len(buf) /\ size \in Nat
    BY BaseFacts DEF BaseInv, TypeOK
  <1>2. First(buf, size) \in Seq(Token) /\ Len(First(buf, size)) = size
    BY <1>1, BaseFacts, CutFacts
  <1> DEFINE f == First(buf, size)
  <1>3. buf' = f \o data /\ size' = size + Len(data)
    BY DEF Decoded
  <1>4. f \in Seq(Token) /\ Len(f) = size
    BY <1>2
  <1> HIDE DEF f
  <1>5. f \o data \in Seq(Token) /\ Len(f \o data) = size + Len(data) /\ Len(data) \in Nat
    BY <1>4, JoinFacts
  <1>6. QED  BY <1>1, <1>3, <1>5 DEF f

(* Whatever it makes of the bytes, it yields tokens. *)
LEMMA ChunkFacts ==
    ASSUME BaseInv, ChunkLoop
    PROVE  \/ ChunkError
           \/ \E data \in Seq(Token) : ChunkDone(data) \/ ChunkMore(data)
  <1>1. pc \in {"chunk", "chunk_again"} /\ size \in 0..Len(buf) /\ size \in Nat
    BY BaseFacts DEF ChunkLoop, BaseInv, PlaceInv, TypeOK, BodyChunks
  <1>2. New \in Seq(Token)
    BY <1>1, BaseFacts, CutFacts DEF New
  <1>3. HasTerminator => First(New, DataLength) \in Seq(Token)
    <2> SUFFICES ASSUME HasTerminator PROVE First(New, DataLength) \in Seq(Token)
      OBVIOUS
    <2>1. DataLength + 1 \in 1..Len(New) /\ Len(New) \in Nat
      BY <1>2, LenProperties DEF HasTerminator, DataLength
    <2>2. DataLength \in 0..Len(New)
      <3> DEFINE i == CHOOSE i \in 1..Len(New) : New[i] = Terminator(cur)
      <3>1. i \in 1..Len(New)
        BY DEF HasTerminator
      <3> HIDE DEF i
      <3>2. i - 1 \in 0..Len(New)
        BY <3>1, <2>1
      <3>3. QED  BY <3>2 DEF i, DataLength
    <2>3. QED  BY <2>2, <1>2, CutFacts
  <1>4. ASSUME NEW g \in 0..size
        PROVE  New \o Junk(g) \in Seq(Token)
    BY <1>1, <1>2, JunkFacts, JoinFacts
  <1>5. 1..size \subseteq 0..size
    BY <1>1
  <1>6. QED  BY <1>3, <1>4, <1>5 DEF ChunkLoop

LEMMA ChunkLoopBase ==
    ASSUME BaseInv, ChunkLoop
    PROVE  BaseInv'
  <1>1. /\ pc \in {"chunk", "chunk_again"}
        /\ UNCHANGED <<clientVars, stopped, cur, keep_alive, route_ok, vecVars, hook,
                       conn, chanVars, reqVars, dispatched>>
    BY DEF ChunkLoop
  <1>2. /\ cur # 0 /\ reqs[cur].chunked /\ hdr(cur) \in Nat /\ hdr(cur) > 0
        /\ hdr(cur) <= size /\ size <= Len(buf) /\ size \in Nat
    BY <1>1, BaseFacts DEF BaseInv, TypeOK, PlaceInv, InRequest, BodyChunks
  <1>3. /\ buf' \in Seq(Token) /\ size' \in Nat /\ body_bin' \in Seq(Token)
        /\ pc' \in {"chunk_err", "upgrade", "recv_chunk"}
        /\ hdr(cur) <= size' /\ size' <= Len(buf') /\ Len(buf') \in Nat
    <2>1. CASE ChunkError
      BY <2>1, <1>2, BaseFacts DEF ChunkError, BaseInv, TypeOK
    <2>2. ASSUME NEW data \in Seq(Token), ChunkDone(data) \/ ChunkMore(data)
          PROVE  <1>3
      <3>1. Decoded(data)
        BY <2>2 DEF ChunkDone, ChunkMore
      <3>2. /\ buf' \in Seq(Token) /\ size' \in Nat
            /\ size <= size' /\ size' = Len(buf')
            /\ First(buf, size) \o data = buf'
        BY <3>1, <1>2, DecodedFacts
      <3>3. hdr(cur) \in 0..Len(buf')
        BY <3>2, <1>2
      <3>4. Drop(buf', hdr(cur)) \in Seq(Token)
        BY <3>2, <3>3, CutFacts
      <3>5. body_bin' \in Seq(Token) /\ pc' \in {"upgrade", "recv_chunk"}
        BY <2>2, <3>2, <3>4 DEF ChunkDone, ChunkMore, BaseInv, TypeOK
      <3>6. QED  BY <3>2, <3>5, <1>2
    <2>3. QED  BY <2>1, <2>2, ChunkFacts
  <1>4. TypeOK'
    BY <1>1, <1>3 DEF BaseInv, TypeOK, Pcs, clientVars, vecVars, chanVars, reqVars
  <1>5. PlaceInv'
    BY <1>1, <1>2, <1>3
       DEF BaseInv, PlaceInv, hdr, clientVars, BetweenRequests, InRequest, BodyChunks,
           BodyLength, BodyReady
  <1>6. Whole(reqs', Kept')
    <2>1. Kept = inbox /\ Kept' = inbox
      BY <1>1, <1>2 DEF Kept, Plain, clientVars
    <2>2. QED  BY <2>1, <1>1 DEF BaseInv, clientVars
  <1>7. QED  BY <1>4, <1>5, <1>6 DEF BaseInv

LEMMA NextRequestBase ==
    ASSUME BaseInv, NextRequest
    PROVE  BaseInv'
  <1>1. /\ buf' = <<>> /\ cur' = 0 /\ size' = 0 /\ body_bin' = <<>>
        /\ pc' \in {"recv_header", "linger"}
        /\ UNCHANGED <<clientVars, stopped, keep_alive, route_ok, vecVars, hook, conn,
                       chanVars, reqVars, dispatched>>
    BY DEF NextRequest, Cleared
  <1>2. TypeOK'
    BY <1>1, BaseFacts DEF BaseInv, TypeOK, Pcs, clientVars, vecVars, chanVars, reqVars
  <1>3. PlaceInv'
    BY <1>1 DEF PlaceInv, BetweenRequests, InRequest, BodyChunks, BodyLength, BodyReady
  <1>4. Kept' = inbox
    <2>1. <<>> \o inbox = inbox
      BY BaseFacts, ConcatEmptySeq
    <2>2. QED  BY <2>1, <1>1 DEF Kept, clientVars
  <1>5. QED  BY <1>1, <1>2, <1>3, <1>4, KeptRest DEF BaseInv, clientVars

(* The steps that only move the handler, or what is not the handler's.      *)
MoveStep == \/ OnConnect \/ RecvZero \/ RecvFails \/ TimeoutFirst \/ TimeoutLater
            \/ HeaderLimit \/ WsHandle \/ Linger \/ RecvZeroErr \/ OnErr \/ ResetConn
            \/ DtorTest \/ DtorSet \/ DtorReturn \/ SenderStops
            \/ ClientCloses \/ Exit

LEMMA MoveFacts ==
    ASSUME MoveStep
    PROVE  /\ UNCHANGED <<patient, reqs, inbox, parseVars, vecVars, chanVars,
                          dispatched>>
           /\ \/ pc' = pc
              \/ pc = "connect" /\ pc' = "recv_first"
              \/ pc = "recv_header" /\ pc' = "recv_first"
              \/ pc \in InRequest /\ buf = <<>> /\ pc' = "recv_first"
              \/ pc = "websocket" /\ pc' = "closed"
              \/ pc = "closed" /\ pc' = "end"
              \/ pc' \in {"closed", "end", "idle_err", "header_too_long_err",
                          "recv_err", "recv_zero_err", "reset_conn"}
                   /\ pc \notin {"header", "connection", "next", "switch", "websocket", "closed",
                                "end", "destroy", "set", "wait", "done"}
              \/ pc \in {"destroy", "set", "wait"} /\ pc' \in {"set", "wait", "done"}
  <1> USE DEF clientVars, InRequest, BodyLength, BodyChunks
  <1>1. CASE OnConnect \/ WsHandle \/ Linger \/ RecvZeroErr \/ OnErr \/ ResetConn
    BY <1>1 DEF OnConnect, WsHandle, Linger, RecvZeroErr, OnErr, ResetConn, Goto
  <1>2. CASE RecvZero \/ RecvFails \/ HeaderLimit
    BY <1>2 DEF RecvZero, RecvFails, HeaderLimit, HeaderTooLong, Receiving, Goto
  <1>3. CASE TimeoutFirst
    BY <1>3 DEF TimeoutFirst, WhenStopped
  <1>4. CASE TimeoutLater
    BY <1>4 DEF TimeoutLater, Receiving, Goto
  <1>5. CASE DtorTest \/ DtorSet \/ DtorReturn \/ SenderStops
    BY <1>5 DEF DtorTest, DtorSet, DtorReturn, Return, SenderStops
  <1>6. CASE ClientCloses \/ Exit
    BY <1>6 DEF ClientCloses, Exit
  <1>7. QED  BY <1>1, <1>2, <1>3, <1>4, <1>5, <1>6 DEF MoveStep

LEMMA MoveBase ==
    ASSUME BaseInv, MoveStep
    PROVE  BaseInv'
  <1>1. UNCHANGED <<patient, reqs, inbox, parseVars, vecVars, chanVars, dispatched>>
    BY MoveFacts
  <1>2. pc' \in Pcs
    BY MoveFacts DEF BaseInv, TypeOK, Pcs
  <1>3. /\ fin' \in BOOLEAN /\ stopped' \in BOOLEAN
        /\ hook' \in {"none", "connect", "err", "close"}
        /\ conn' \in {"open", "closed", "reset"}
        /\ exit' \in {-1, 0, 1} /\ sender' \in {"loop", "done"}
    <2> USE DEF clientVars, reqVars, BaseInv, TypeOK
    <2>1. CASE OnConnect \/ RecvZero \/ RecvFails \/ TimeoutFirst \/ TimeoutLater
      BY <2>1 DEF OnConnect, RecvZero, RecvFails, TimeoutFirst, TimeoutLater, Goto
    <2>2. CASE HeaderLimit \/ WsHandle \/ Linger \/ RecvZeroErr \/ OnErr \/ ResetConn
      BY <2>2 DEF HeaderLimit, WsHandle, Linger, RecvZeroErr, OnErr, ResetConn, Goto
    <2>3. CASE DtorTest \/ DtorSet \/ DtorReturn \/ SenderStops
      BY <2>3 DEF DtorTest, DtorSet, DtorReturn, Return, SenderStops
    <2>4. CASE ClientCloses \/ Exit
      BY <2>4 DEF ClientCloses, Exit
    <2>5. QED  BY <2>1, <2>2, <2>3, <2>4 DEF MoveStep
  <1>4. TypeOK'
    BY <1>1, <1>2, <1>3 DEF BaseInv, TypeOK, parseVars, vecVars, chanVars
  <1>5. pc \in InRequest => buf # <<>>
    <2>1. pc \in InRequest => Len(buf) > 0
      BY BaseFacts DEF BaseInv, PlaceInv
    <2>2. QED  BY <2>1, BaseFacts, EmptySeq
  <1>6. PlaceInv'
    <2>1. \/ pc' = pc
          \/ pc \in BetweenRequests /\ pc' = "recv_first"
          \/ pc' \notin BetweenRequests \cup InRequest
      BY <1>5, MoveFacts
         DEF BetweenRequests, InRequest, BodyChunks, BodyLength, BodyReady
    <2>2. QED
      BY <2>1, <1>1 DEF BaseInv, PlaceInv, hdr, parseVars, BetweenRequests, InRequest,
                        BodyChunks, BodyLength, BodyReady
  <1>7. QED  BY <1>1, <1>4, <1>6, FrameStep DEF parseVars

(* The steps of the handler that change vectors or replies.                 *)
LEMMA HandlerBase ==
    ASSUME BaseInv,
           \/ OnHeader \/ ConnectionField \/ Upgrade \/ SwitchProtocols
           \/ OnBody \/ OnClose
    PROVE  BaseInv'
  <1> USE DEF clientVars, parseVars, vecVars, chanVars, reqVars
  <1>1. Len(reqs) \in Nat /\ Len(reqs) <= MaxRequests /\ MaxRequests \in Nat
    BY BaseFacts, BoundsAssumption DEF BaseInv, TypeOK
  <1>2. pc \in InRequest => cur \in 1..Len(reqs)
    BY BaseFacts DEF BaseInv, PlaceInv
  <1>3. ASSUME NEW answer \in {"200", "404"}, cur \in 1..Len(reqs),
               Channel!Submit(<<cur, answer>>)
        PROVE  /\ queue' \in Seq(Reply) /\ wire' = wire /\ status' = status
    <2>1. <<cur, answer>> \in Reply
      BY <1>1, <1>3 DEF Reply
    <2>2. queue \in Seq(Reply)
      BY DEF BaseInv, TypeOK
    <2>3. Append(queue, <<cur, answer>>) \in Seq(Reply)
      BY <2>1, <2>2, AppendProperties
    <2>4. QED  BY <2>3, <1>3 DEF Channel!Submit
  <1>4. CASE OnHeader
    <2>1. cur \in 1..Len(reqs) /\ reqs[cur].routed \in BOOLEAN
      BY <1>2, <1>4, BaseFacts DEF OnHeader, InRequest
    <2>2. TypeOK'
      BY <2>1, <1>4 DEF OnHeader, BaseInv, TypeOK, Pcs
    <2>3. PlaceInv'
      BY <1>4 DEF OnHeader, BaseInv, PlaceInv, hdr, BetweenRequests, InRequest,
                  BodyChunks, BodyLength, BodyReady
    <2>4. QED  BY <2>2, <2>3, <1>4, FrameStep DEF OnHeader
  <1>5. CASE ConnectionField
    <2>1. /\ pc = "connection" /\ pc' \in {"closed", "body"}
          /\ keep_alive' = (keep_alive \/ reqs[cur].connection = "keep-alive")
          /\ Channel!Submit(<<cur, "404">>) \/ UNCHANGED chanVars
          /\ UNCHANGED <<clientVars, stopped, buf, cur, size, route_ok, body_bin,
                         vecVars, hook, conn, reqVars, dispatched>>
      BY <1>5 DEF ConnectionField
    <2>2. keep_alive' \in BOOLEAN
      BY <2>1 DEF BaseInv, TypeOK
    <2>3. /\ queue' \in Seq(Reply) /\ wire' = wire /\ status' = status
      BY <2>1, <1>2, <1>3 DEF BaseInv, TypeOK, InRequest
    <2>4. TypeOK'
      BY <2>1, <2>2, <2>3 DEF BaseInv, TypeOK, Pcs
    <2>5. PlaceInv'
      BY <2>1 DEF BaseInv, PlaceInv, hdr, BetweenRequests, InRequest, BodyChunks,
                  BodyLength, BodyReady
    <2>6. QED  BY <2>1, <2>4, <2>5, FrameStep
  <1>6. CASE Upgrade
    <2>1. cur \in 1..Len(reqs)
      BY <1>2, <1>6 DEF Upgrade, InRequest, BodyReady
    <2>2. TypeOK'
      BY <2>1, <1>6 DEF Upgrade, BaseInv, TypeOK, Pcs
    <2>3. PlaceInv'
      BY <1>6 DEF Upgrade, BaseInv, PlaceInv, hdr, BetweenRequests, InRequest,
                  BodyChunks, BodyLength, BodyReady
    <2>4. QED  BY <2>2, <2>3, <1>6, FrameStep DEF Upgrade
  <1>7. CASE SwitchProtocols
    <2>1. cur \in 1..Len(reqs)
      BY <1>2, <1>7 DEF SwitchProtocols, InRequest, BodyReady
    <2>2. <<cur, "101">> \in Wired
      BY <2>1, <1>1 DEF Wired
    <2>3. wire \in Seq(Wired)
      BY DEF BaseInv, TypeOK, Wired
    <2>4. Append(wire, <<cur, "101">>) \in Seq(Wired)
      BY <2>2, <2>3, AppendProperties
    <2>5. wire' \in Seq(Wired) /\ status' \in {"up", "down"} /\ queue' = queue
      BY <2>3, <2>4, <1>7 DEF SwitchProtocols, BaseInv, TypeOK
    <2>6. TypeOK'
      BY <2>5, <1>7 DEF SwitchProtocols, BaseInv, TypeOK, Pcs, Wired
    <2>7. PlaceInv'
      BY <1>7 DEF SwitchProtocols, BaseInv, PlaceInv, hdr, BetweenRequests, InRequest,
                  BodyChunks, BodyLength, BodyReady
    <2>8. QED  BY <2>6, <2>7, <1>7, FrameStep DEF SwitchProtocols
  <1>8. CASE OnBody
    <2> DEFINE R == [req : 1..Len(reqs), body : Seq(Token)]
               d == [req |-> cur, body |-> body_bin]
    <2>1. cur \in 1..Len(reqs)
      BY <1>2, <1>8 DEF OnBody, InRequest, BodyReady
    <2>2. d \in R
      BY <2>1 DEF BaseInv, TypeOK
    <2> HIDE DEF R, d
    <2>3. dispatched \in Seq(R)
      BY DEF BaseInv, TypeOK, R
    <2>4. Append(dispatched, d) \in Seq(R)
      BY <2>2, <2>3, AppendProperties
    <2>5. dispatched' \in Seq(R)
      BY <2>3, <2>4, <1>8 DEF OnBody, d
    <2>6. queue' \in Seq(Reply) /\ wire' = wire /\ status' = status
      BY <2>1, <1>3, <1>8 DEF OnBody, BaseInv, TypeOK
    <2>7. /\ vec' \in {0, vec} /\ live' \subseteq live /\ pc' = "next"
          /\ UNCHANGED <<clientVars, stopped, parseVars, wsvec, hook, conn, reqVars>>
      BY <1>8 DEF OnBody
    <2>8. /\ dispatched' \in Seq([req : 1..Len(reqs'), body : Seq(Token)])
          /\ vec' \in 0..Len(reqs') /\ live' \subseteq {"http", "ws"} \X (1..Len(reqs'))
      BY <1>1, <2>5, <2>7 DEF R, BaseInv, TypeOK
    <2>9. TypeOK'
      BY <2>6, <2>7, <2>8 DEF BaseInv, TypeOK, Pcs
    <2>10. PlaceInv'
      BY <2>7 DEF PlaceInv, BetweenRequests, InRequest, BodyChunks, BodyLength, BodyReady
    <2>11. QED  BY <2>7, <2>9, <2>10, FrameStep
  <1>9. CASE OnClose
    <2>1. TypeOK'
      BY <1>1, <1>9 DEF OnClose, BaseInv, TypeOK, Pcs
    <2>2. PlaceInv'
      BY <1>9 DEF OnClose, PlaceInv, BetweenRequests, InRequest, BodyChunks, BodyLength,
                  BodyReady
    <2>3. QED  BY <2>1, <2>2, <1>9, FrameStep DEF OnClose
  <1>10. QED  BY <1>4, <1>5, <1>6, <1>7, <1>8, <1>9

(* The sender moves k replies to the wire and drops the j oldest, these     *)
(* among them.                                                              *)
LEMMA SenderFacts ==
    ASSUME BaseInv, Transmit \/ TransmitFails
    PROVE  /\ \E j \in 0..Len(queue) : \E k \in 0..j :
                 wire' = wire \o First(queue, k) /\ queue' = Drop(queue, j)
           /\ status' \in {"up", "down"} /\ exit' \in {-1, 0, 1}
           /\ UNCHANGED <<clientVars, stopped, pc, parseVars, vecVars, hook, conn,
                          sender, dispatched>>
  <1>1. Len(queue) \in Nat
    BY LenProperties DEF BaseInv, TypeOK
  <1>2. CASE Transmit
    <2>1. PICK k \in 1..Len(queue) : Channel!Transmit(k)
      BY <1>2 DEF Transmit
    <2>2. k \in 0..Len(queue) /\ k \in 0..k
      BY <1>1
    <2>3. wire' = wire \o First(queue, k) /\ queue' = Drop(queue, k) /\ status' = status
      BY <2>1 DEF Channel!Transmit, Channel!Rest, First, Drop
    <2>4. QED  BY <2>2, <2>3, <1>2 DEF Transmit, reqVars, BaseInv, TypeOK
  <1>3. CASE TransmitFails /\ UNCHANGED chanVars
    <2>1. queue \in Seq(Reply) /\ wire \in Seq(Wired)
      BY DEF BaseInv, TypeOK, Wired
    <2>2. First(queue, 0) = <<>> /\ Drop(queue, 0) = queue
      BY <2>1, <1>1 DEF First, Drop
    <2>3. wire \o <<>> = wire
      BY <2>1, ConcatEmptySeq
    <2>4. 0 \in 0..Len(queue) /\ 0 \in 0..0
      BY <1>1
    <2>5. wire' = wire \o First(queue, 0) /\ queue' = Drop(queue, 0)
      BY <1>3, <2>2, <2>3 DEF chanVars
    <2>6. QED  BY <2>4, <2>5, <1>3 DEF TransmitFails, chanVars, BaseInv, TypeOK
  <1>4. CASE TransmitFails /\ ~UNCHANGED chanVars
    <2>0. PICK j \in 1..Len(queue) : \E k \in 0..(j - 1) : Channel!Break(j, k)
      BY <1>4 DEF TransmitFails
    <2>1. PICK k \in 0..(j - 1) : Channel!Break(j, k)
      BY <2>0
    <2>2. j \in 0..Len(queue) /\ k \in 0..j
      BY <1>1
    <2>3. wire' = wire \o First(queue, k) /\ queue' = Drop(queue, j) /\ status' = "down"
      BY <2>1 DEF Channel!Break, Channel!Rest, First, Drop
    <2>4. QED  BY <2>2, <2>3, <1>4 DEF TransmitFails
  <1>5. QED  BY <1>2, <1>3, <1>4

LEMMA SenderBase ==
    ASSUME BaseInv, Transmit \/ TransmitFails
    PROVE  BaseInv'
  <1>0. PICK j \in 0..Len(queue) : \E k \in 0..j :
              wire' = wire \o First(queue, k) /\ queue' = Drop(queue, j)
    BY SenderFacts
  <1>1. PICK k \in 0..j :
              wire' = wire \o First(queue, k) /\ queue' = Drop(queue, j)
    BY <1>0
  <1>2. /\ status' \in {"up", "down"} /\ exit' \in {-1, 0, 1}
        /\ UNCHANGED <<clientVars, stopped, pc, parseVars, vecVars, hook, conn,
                       sender, dispatched>>
    BY SenderFacts
  <1>3. queue \in Seq(Reply) /\ wire \in Seq(Wired) /\ Reply \subseteq Wired
    BY DEF BaseInv, TypeOK, Wired
  <1>4. k \in 0..Len(queue)
    BY <1>3, LenProperties
  <1>5. First(queue, k) \in Seq(Reply) /\ Drop(queue, j) \in Seq(Reply)
    BY <1>3, <1>4, CutFacts
  <1>6. First(queue, k) \in Seq(Wired)
    BY <1>3, <1>5, SeqMonotone
  <1>7. wire \o First(queue, k) \in Seq(Wired)
    BY <1>3, <1>6, ConcatProperties
  <1>8. wire' \in Seq(Wired) /\ queue' \in Seq(Reply)
    BY <1>1, <1>5, <1>7
  <1>9. TypeOK'
    BY <1>2, <1>8 DEF BaseInv, TypeOK, clientVars, parseVars, vecVars, Wired
  <1>10. PlaceInv'
    BY <1>2 DEF BaseInv, PlaceInv, hdr, clientVars, parseVars, BetweenRequests,
                InRequest, BodyChunks, BodyLength, BodyReady
  <1>11. QED  BY <1>2, <1>9, <1>10, FrameStep DEF clientVars, parseVars

LEMMA BaseInit == Init => BaseInv
  <1> SUFFICES ASSUME Init PROVE BaseInv
    OBVIOUS
  <1> USE DEF Init
  <1>1. \A S : <<>> \in Seq(S) /\ Len(<<>>) = 0
    BY EmptySeq
  <1>2. TypeOK
    <2>1. /\ reqs \in Seq(Kinds) /\ Len(reqs) = 0 /\ inbox \in Seq(Token)
          /\ buf \in Seq(Token) /\ body_bin \in Seq(Token) /\ queue \in Seq(Reply)
          /\ wire \in Seq(Reply \cup ((1..MaxRequests) \X {"101"}))
          /\ dispatched \in Seq([req : 1..Len(reqs), body : Seq(Token)])
      BY <1>1
    <2>2. /\ patient \in BOOLEAN /\ Len(reqs) <= MaxRequests
          /\ live \subseteq {"http", "ws"} \X (1..Len(reqs))
          /\ cur \in 0..Len(reqs) /\ vec \in 0..Len(reqs) /\ wsvec \in 0..Len(reqs)
      BY <2>1, PatienceAssumption, BoundsAssumption
    <2>3. QED  BY <2>1, <2>2 DEF TypeOK, Pcs
  <1>3. PlaceInv
    BY DEF PlaceInv, BetweenRequests, InRequest, BodyChunks, BodyLength, BodyReady
  <1>4. Kept = <<>>
    BY <1>1, ConcatEmptySeq DEF Kept
  <1>5. Whole(reqs, Kept)
    BY <1>1, <1>4 DEF Whole, Sent, Runs, EndsWhole
  <1>6. QED  BY <1>2, <1>3, <1>5 DEF BaseInv

LEMMA BaseStep == BaseInv /\ [Next]_vars => BaseInv'
  <1> SUFFICES ASSUME BaseInv, [Next]_vars PROVE BaseInv'
    OBVIOUS
  <1>1. CASE MoveStep
    BY <1>1, MoveBase
  <1>2. ASSUME NEW q \in Kinds, SendRequest(q)
        PROVE  BaseInv'
    BY <1>2, SendRequestBase
  <1>3. CASE Recv
    BY <1>3, RecvBase
  <1>4. CASE ParseHeader
    BY <1>4, ParseHeaderBase
  <1>5. CASE BodyLoop
    BY <1>5, BodyLoopBase
  <1>6. CASE ChunkLoop
    BY <1>6, ChunkLoopBase
  <1>7. CASE NextRequest
    BY <1>7, NextRequestBase
  <1>8. CASE OnHeader \/ ConnectionField \/ Upgrade \/ SwitchProtocols \/ OnBody \/ OnClose
    BY <1>8, HandlerBase
  <1>9. CASE Transmit \/ TransmitFails
    BY <1>9, SenderBase
  <1>10. CASE UNCHANGED vars
    <2>1. TypeOK'
      BY <1>10 DEF vars, clientVars, parseVars, vecVars, chanVars, reqVars,
                   BaseInv, TypeOK
    <2>2. PlaceInv'
      BY <1>10 DEF vars, clientVars, parseVars, vecVars, BaseInv, PlaceInv, hdr
    <2>3. QED  BY <2>1, <2>2, <1>10, FrameStep DEF vars, clientVars, parseVars
  <1>11. QED
    BY <1>1, <1>2, <1>3, <1>4, <1>5, <1>6, <1>7, <1>8, <1>9, <1>10
       DEF Next, HandlerNext, MoveStep

-----------------------------------------------------------------------------
(* The callback vectors *)

(* A vector of a request's callbacks is there between the header and the    *)
(* dispatch only, or on the way to on_close.                                *)
VectorInv ==
    /\ live = (IF vec = 0 THEN {} ELSE {<<"http", vec>>})
                \cup (IF wsvec = 0 THEN {} ELSE {<<"ws", wsvec>>})
    /\ vec # 0 => /\ route_ok
                  /\ pc \notin BetweenRequests \cup {"header", "next", "linger"}
                                 \cup BehindClose
    /\ wsvec # 0 => pc \in {"switch", "websocket", "closed", "end"}

LEMMA VectorStep ==
    ASSUME BaseInv, VectorInv, [Next]_vars
    PROVE  VectorInv'
  <1> USE DEF VectorInv, clientVars, parseVars, vecVars, BetweenRequests, BehindClose
  <1>1. CASE MoveStep
    <2>1. UNCHANGED <<parseVars, vecVars>>
      BY <1>1, MoveFacts
    <2>2. pc \in InRequest => buf # <<>>
      <3>1. pc \in InRequest => Len(buf) > 0
        BY BaseFacts DEF BaseInv, PlaceInv
      <3>2. QED  BY <3>1, BaseFacts, EmptySeq
    <2>3. vec # 0 => pc' \notin BetweenRequests \cup {"header", "next", "linger"}
                                  \cup BehindClose
      BY <1>1, <2>2, MoveFacts DEF InRequest, BodyLength, BodyChunks, BodyReady
    <2>4. wsvec # 0 => pc' \in {"switch", "websocket", "closed", "end"}
      BY <1>1, <2>2, MoveFacts DEF MoveStep
    <2>5. QED  BY <2>1, <2>3, <2>4
  <1>2. CASE Recv
    BY <1>2 DEF Recv, Receiving, Resume
  <1>3. CASE ParseHeader
    BY <1>3 DEF ParseHeader
  <1>4. CASE OnHeader
    <2>1. cur # 0
      BY <1>4 DEF OnHeader, BaseInv, PlaceInv, InRequest
    <2>2. QED  BY <2>1, <1>4 DEF OnHeader
  <1>5. CASE ConnectionField \/ BodyLoop \/ SwitchProtocols
    BY <1>5 DEF ConnectionField, BodyLoop, SwitchProtocols
  <1>6. CASE ChunkLoop
    BY <1>6, ChunkFacts DEF ChunkLoop, ChunkError, ChunkDone, ChunkMore
  <1>7. CASE Upgrade
    <2>1. cur # 0
      BY <1>7 DEF Upgrade, BaseInv, PlaceInv, InRequest, BodyReady
    <2>2. QED  BY <2>1, <1>7 DEF Upgrade
  <1>8. CASE OnBody
    BY <1>8 DEF OnBody
  <1>9. CASE NextRequest
    BY <1>9 DEF NextRequest
  <1>10. CASE OnClose
    BY <1>10 DEF OnClose, Deleted
  <1>11. CASE \/ \E q \in Kinds : SendRequest(q)
              \/ Transmit \/ TransmitFails \/ UNCHANGED vars
    BY <1>11 DEF SendRequest, Transmit, TransmitFails, vars
  <1>12. QED
    BY <1>1, <1>2, <1>3, <1>4, <1>5, <1>6, <1>7, <1>8, <1>9, <1>10, <1>11
       DEF Next, HandlerNext, MoveStep

(* web.cc, http1.cc: the two callback vectors of a REQ are deleted exactly  *)
(* once, by on_body or by on_close, whatever way the connection ends; and   *)
(* types are right throughout.                                              *)
THEOREM VectorsCorrect == Spec => []VectorsOwned
  <1>1. Init => BaseInv /\ VectorInv
    BY BaseInit DEF Init, VectorInv
  <1>2. BaseInv /\ VectorInv /\ [Next]_vars => BaseInv' /\ VectorInv'
    BY BaseStep, VectorStep
  <1>3. BaseInv /\ VectorInv => VectorsOwned
    <2>1. pc \in BehindClose /\ VectorInv => vec = 0 /\ wsvec = 0
      BY DEF VectorInv, BehindClose
    <2>2. QED  BY <2>1 DEF BaseInv, VectorInv, VectorsOwned
  <1>4. QED  BY <1>1, <1>2, <1>3, PTL DEF Spec

-----------------------------------------------------------------------------
(* Requests and replies in order *)

(* Ahead is what the handler has not looked at yet.  A header is found at   *)
(* its start only, and each start in it is of a request that is later than  *)
(* all that came before: the current one, those dispatched, those answered. *)

InOrder(s) == \A i, j \in 1..Len(s) :
    i < j /\ Queued(s[i]) /\ Queued(s[j]) => s[i][1] < s[j][1]
Before(s, t) == \A i \in 1..Len(s), j \in 1..Len(t) :
    Queued(s[i]) /\ Queued(t[j]) => s[i][1] < t[j][1]
Below(s, n) == \A i \in 1..Len(s) : Queued(s[i]) => s[i][1] < n

Unanswered(n) == Below(wire, n) /\ Below(queue, n)
Undispatched(n) == \A i \in 1..Len(dispatched) : dispatched[i].req < n
Fresh(n) == cur < n /\ Undispatched(n) /\ Unanswered(n)

StartsFresh == \A i \in 1..Len(Ahead) : Ahead[i][2] = 1 => Fresh(Ahead[i][1])
StartsInOrder == \A i, j \in 1..Len(Ahead) :
    i < j /\ Ahead[i][2] = 1 /\ Ahead[j][2] = 1 => Ahead[i][1] < Ahead[j][1]
CurrentFresh == pc \in InRequest =>
    /\ Undispatched(cur)
    /\ pc \in {"header", "connection"} \/ route_ok => Unanswered(cur)
AnsweredSent == Unanswered(Len(reqs) + 1)
ReplyOrder == InOrder(wire) /\ InOrder(queue) /\ Before(wire, queue)

OrderInv == /\ StartsFresh /\ StartsInOrder /\ CurrentFresh /\ AnsweredSent
            /\ ReplyOrder /\ DispatchedInOrder

LEMMA OrderTypes ==
    ASSUME BaseInv
    PROVE  /\ wire \in Seq(Wired) /\ queue \in Seq(Wired)
           /\ Len(wire) \in Nat /\ Len(queue) \in Nat /\ Len(dispatched) \in Nat
           /\ \A i \in 1..Len(wire) : wire[i][1] \in 1..MaxRequests
           /\ \A i \in 1..Len(queue) : queue[i][1] \in 1..MaxRequests
           /\ \A i \in 1..Len(dispatched) : dispatched[i].req \in 1..Len(reqs)
           /\ Ahead \in Seq(Token) /\ Len(Ahead) \in Nat
           /\ Whole(reqs, Ahead)
           /\ \A i \in 1..Len(Ahead) : Ahead[i][1] \in 1..Len(reqs)
  <1>1. /\ wire \in Seq(Wired) /\ queue \in Seq(Reply) /\ Reply \subseteq Wired
        /\ dispatched \in Seq([req : 1..Len(reqs), body : Seq(Token)])
    BY DEF BaseInv, TypeOK, Wired
  <1>2. queue \in Seq(Wired)
    BY <1>1, SeqMonotone
  <1>3. /\ \A i \in 1..Len(wire) : wire[i] \in Wired
        /\ \A i \in 1..Len(queue) : queue[i] \in Wired
    BY <1>1, <1>2, ElementOfSeq
  <1>4. \A r \in Wired : r[1] \in 1..MaxRequests
    BY DEF Wired, Reply
  <1>5. \A i \in 1..Len(dispatched) : dispatched[i].req \in 1..Len(reqs)
    <2> DEFINE R == [req : 1..Len(reqs), body : Seq(Token)]
    <2>1. \A i \in 1..Len(dispatched) : dispatched[i] \in R
      <3> HIDE DEF R
      <3>1. dispatched \in Seq(R)
        BY <1>1 DEF R
      <3>2. QED  BY <3>1, ElementOfSeq
    <2>2. QED  BY <2>1
  <1>6. Ahead \in Seq(Token) /\ Whole(reqs, Ahead)
    <2>1. cur = 0 => Ahead = Kept
      BY DEF Ahead, Kept
    <2>2. QED  BY <2>1, BaseFacts, KeptRest DEF Ahead, BaseInv
  <1>7. \A i \in 1..Len(Ahead) : Ahead[i][1] \in 1..Len(reqs)
    BY <1>6 DEF Whole, Sent
  <1>8. QED  BY <1>1, <1>2, <1>3, <1>4, <1>5, <1>6, <1>7, LenProperties

(* Replies keep their order on the way from the queue to the wire. *)
LEMMA OrderMove ==
    ASSUME NEW s \in Seq(Wired), NEW t \in Seq(Wired),
           InOrder(s), InOrder(t), Before(s, t),
           NEW j \in 0..Len(t), NEW k \in 0..j
    PROVE  /\ InOrder(s \o First(t, k)) /\ InOrder(Drop(t, j))
           /\ Before(s \o First(t, k), Drop(t, j))
           /\ \A n : Below(s, n) /\ Below(t, n)
                        => Below(s \o First(t, k), n) /\ Below(Drop(t, j), n)
  <1> DEFINE a == First(t, k)
             d == Drop(t, j)
             u == s \o a
  <1>1. /\ Len(s) \in Nat /\ Len(t) \in Nat /\ k \in 0..Len(t)
        /\ j \in Nat /\ k \in Nat /\ k <= j /\ j <= Len(t)
    BY LenProperties
  <1>2. /\ a \in Seq(Wired) /\ Len(a) = k /\ \A i \in 1..k : a[i] = t[i]
    BY <1>1, CutFacts
  <1>3. /\ Len(d) = Len(t) - j /\ \A i \in 1..Len(d) : d[i] = t[j + i]
    BY <1>1, CutFacts
  <1> HIDE DEF a, d
  <1>4. /\ Len(u) = Len(s) + k
        /\ \A i \in 1..Len(s) : u[i] = s[i]
        /\ \A i \in (Len(s) + 1)..(Len(s) + k) : u[i] = a[i - Len(s)]
    <2>1. /\ Len(s \o a) = Len(s) + Len(a)
          /\ \A i \in 1..Len(s) : (s \o a)[i] = s[i]
          /\ \A i \in (Len(s) + 1)..(Len(s) + Len(a)) : (s \o a)[i] = a[i - Len(s)]
      <3>1. a \in Seq(Wired)
        BY <1>2
      <3>2. QED  BY <3>1, JoinFacts
    <2>2. QED  BY <2>1, <1>2
  <1> HIDE DEF u
  <1>5. \A i \in 1..Len(u) :
           \/ i \in 1..Len(s) /\ u[i] = s[i]
           \/ i > Len(s) /\ i - Len(s) \in 1..k /\ i - Len(s) \in 1..Len(t)
                /\ u[i] = t[i - Len(s)]
    BY <1>1, <1>2, <1>4
  <1>6. \A i \in 1..Len(d) : j + i \in 1..Len(t) /\ d[i] = t[j + i]
    BY <1>1, <1>3
  <1>7. InOrder(u)
    <2> SUFFICES ASSUME NEW x \in 1..Len(u), NEW y \in 1..Len(u), x < y,
                        Queued(u[x]), Queued(u[y])
                 PROVE  u[x][1] < u[y][1]
      BY DEF InOrder
    <2>1. CASE x \in 1..Len(s) /\ y \in 1..Len(s)
      BY <2>1, <1>4 DEF InOrder
    <2>2. CASE x \in 1..Len(s) /\ y > Len(s)
      <3>1. u[x] = s[x] /\ y - Len(s) \in 1..Len(t) /\ u[y] = t[y - Len(s)]
        BY <2>2, <1>1, <1>4, <1>5
      <3>2. QED  BY <3>1, <2>2 DEF Before
    <2>3. CASE x > Len(s) /\ y > Len(s)
      <3>1. /\ x - Len(s) \in 1..Len(t) /\ y - Len(s) \in 1..Len(t)
            /\ x - Len(s) < y - Len(s)
            /\ u[x] = t[x - Len(s)] /\ u[y] = t[y - Len(s)]
        BY <2>3, <1>1, <1>4, <1>5
      <3>2. QED  BY <3>1 DEF InOrder
    <2>4. QED  BY <2>1, <2>2, <2>3, <1>1, <1>4
  <1>8. InOrder(d)
    <2> SUFFICES ASSUME NEW x \in 1..Len(d), NEW y \in 1..Len(d), x < y,
                        Queued(d[x]), Queued(d[y])
                 PROVE  d[x][1] < d[y][1]
      BY DEF InOrder
    <2>1. j + x < j + y
      BY <1>1
    <2>2. QED  BY <2>1, <1>6 DEF InOrder
  <1>9. Before(u, d)
    <2> SUFFICES ASSUME NEW x \in 1..Len(u), NEW y \in 1..Len(d),
                        Queued(u[x]), Queued(d[y])
                 PROVE  u[x][1] < d[y][1]
      BY DEF Before
    <2>1. CASE x \in 1..Len(s) /\ u[x] = s[x]
      BY <2>1, <1>6 DEF Before
    <2>2. CASE x - Len(s) \in 1..k /\ x - Len(s) \in 1..Len(t) /\ u[x] = t[x - Len(s)]
      <3>1. x - Len(s) < j + y
        BY <2>2, <1>1
      <3>2. QED  BY <3>1, <2>2, <1>6 DEF InOrder
    <2>3. QED  BY <2>1, <2>2, <1>5
  <1>10. ASSUME NEW n, Below(s, n), Below(t, n)
         PROVE  Below(u, n) /\ Below(d, n)
    BY <1>5, <1>6, <1>10 DEF Below
  <1>11. QED  BY <1>7, <1>8, <1>9, <1>10 DEF u, a, d

(* A reply that is later than all of t joins t. *)
LEMMA OrderAppend ==
    ASSUME NEW t \in Seq(Wired), NEW r \in Wired
    PROVE  /\ Len(Append(t, r)) = Len(t) + 1
           /\ Below(t, r[1]) \/ ~Queued(r) => (InOrder(t) => InOrder(Append(t, r)))
           /\ \A s \in Seq(Wired) : Before(s, t) /\ (Below(s, r[1]) \/ ~Queued(r))
                                        => Before(s, Append(t, r))
           /\ \A s \in Seq(Wired) : Before(t, s) /\ ~Queued(r) => Before(Append(t, r), s)
           /\ \A n : Below(t, n) /\ (r[1] < n \/ ~Queued(r)) => Below(Append(t, r), n)
  <1> DEFINE u == Append(t, r)
  <1>1. /\ Len(t) \in Nat /\ Len(u) = Len(t) + 1
        /\ \A i \in 1..Len(t) : u[i] = t[i]
        /\ u[Len(t) + 1] = r
    BY AppendProperties, LenProperties
  <1> HIDE DEF u
  <1>2. \A i \in 1..Len(u) : \/ i \in 1..Len(t) /\ u[i] = t[i]
                             \/ i = Len(t) + 1 /\ u[i] = r
    BY <1>1
  <1>3. Below(t, r[1]) \/ ~Queued(r) => (InOrder(t) => InOrder(u))
    BY <1>1, <1>2 DEF InOrder, Below
  <1>4. ASSUME NEW s \in Seq(Wired), Before(s, t), Below(s, r[1]) \/ ~Queued(r)
        PROVE  Before(s, u)
    BY <1>2, <1>4 DEF Before, Below
  <1>5. ASSUME NEW s \in Seq(Wired), Before(t, s), ~Queued(r)
        PROVE  Before(u, s)
    BY <1>2, <1>5 DEF Before
  <1>6. ASSUME NEW n, Below(t, n), r[1] < n \/ ~Queued(r)
        PROVE  Below(u, n)
    BY <1>2, <1>6 DEF Below
  <1>7. QED  BY <1>1, <1>3, <1>4, <1>5, <1>6 DEF u

(* A step that changes neither requests, dispatches nor replies, and leaves *)
(* the tokens ahead as they are.                                            *)
LEMMA OrderFrame ==
    ASSUME OrderInv, Ahead' = Ahead, CurrentFresh',
           UNCHANGED <<reqs, cur, dispatched, queue, wire>>
    PROVE  OrderInv'
  <1> USE DEF Unanswered, Undispatched
  <1>1. StartsFresh' /\ StartsInOrder'
    BY DEF OrderInv, StartsFresh, StartsInOrder, Fresh
  <1>2. AnsweredSent' /\ ReplyOrder'
    BY DEF OrderInv, AnsweredSent, ReplyOrder
  <1>3. DispatchedInOrder'
    BY DEF OrderInv, DispatchedInOrder
  <1>4. QED  BY <1>1, <1>2, <1>3 DEF OrderInv

(* The same for a step behind which the end of the tokens ahead is left. *)
LEMMA OrderRest ==
    ASSUME BaseInv, OrderInv, CurrentFresh',
           UNCHANGED <<reqs, dispatched, queue, wire>>,
           NEW k \in 0..Len(Ahead), Len(Ahead') = Len(Ahead) - k,
           \A i \in 1..Len(Ahead') : Ahead'[i] = Ahead[k + i],
           \A i \in 1..Len(Ahead') : Ahead'[i][2] = 1 => cur' < Ahead'[i][1]
    PROVE  OrderInv'
  <1> USE DEF Unanswered, Undispatched
  <1>1. /\ Len(Ahead) \in Nat /\ k \in Nat
        /\ \A i \in 1..Len(Ahead') : k + i \in 1..Len(Ahead)
    BY OrderTypes
  <1>2. StartsFresh'
    <2> SUFFICES ASSUME NEW i \in 1..Len(Ahead'), Ahead'[i][2] = 1
                 PROVE  Fresh(Ahead[i][1])'
      BY DEF StartsFresh
    <2>1. Fresh(Ahead[k + i][1])
      BY <1>1 DEF OrderInv, StartsFresh
    <2>2. QED  BY <2>1 DEF Fresh
  <1>3. StartsInOrder'
    <2> SUFFICES ASSUME NEW i \in 1..Len(Ahead'), NEW j \in 1..Len(Ahead'), i < j,
                        Ahead'[i][2] = 1, Ahead'[j][2] = 1
                 PROVE  Ahead'[i][1] < Ahead'[j][1]
      BY DEF StartsInOrder
    <2>1. k + i < k + j
      BY <1>1
    <2>2. QED  BY <2>1, <1>1 DEF OrderInv, StartsInOrder
  <1>4. AnsweredSent' /\ ReplyOrder'
    BY DEF OrderInv, AnsweredSent, ReplyOrder
  <1>5. DispatchedInOrder'
    BY DEF OrderInv, DispatchedInOrder
  <1>6. QED  BY <1>2, <1>3, <1>4, <1>5 DEF OrderInv

(* What a request adds to the tokens that are ahead. *)
LEMMA SendAhead ==
    ASSUME BaseInv, NEW q \in Kinds, SendRequest(q)
    PROVE  /\ Len(reqs') = Len(reqs) + 1 /\ \A i \in 1..Len(reqs) : reqs'[i] = reqs[i]
           /\ Len(Ahead') = Len(Ahead) + SizeOf(q) /\ SizeOf(q) \in Nat \ {0}
           /\ \A i \in 1..Len(Ahead') :
                 \/ i \in 1..Len(Ahead) /\ Ahead'[i] = Ahead[i] /\ Ahead[i][1] <= Len(reqs)
                 \/ /\ i > Len(Ahead)
                    /\ Ahead'[i] = <<Len(reqs) + 1, i - Len(Ahead)>>
  <1> DEFINE n == Len(reqs) + 1
             t == TokensOf(q, n)
  <1>1. /\ reqs' = Append(reqs, q) /\ inbox' = inbox \o t
        /\ Len(reqs) < MaxRequests
        /\ UNCHANGED <<patient, fin, stopped, pc, parseVars, vecVars, hook, conn,
                       chanVars, dispatched>>
    BY DEF SendRequest
  <1>2. /\ Len(reqs') = Len(reqs) + 1 /\ \A i \in 1..Len(reqs) : reqs'[i] = reqs[i]
    BY <1>1, BaseFacts, AppendProperties
  <1>3. /\ n \in 1..MaxRequests /\ t \in Seq(Token) /\ Len(t) = SizeOf(q)
        /\ SizeOf(q) \in Nat \ {0}
        /\ \A i \in 1..SizeOf(q) : t[i] = <<n, i>>
    BY <1>1, BaseFacts, BoundsAssumption, TokensOfFacts
  <1> HIDE DEF t
  <1>4. UNCHANGED <<cur, buf, pc, route_ok, dispatched, queue, wire>>
    BY <1>1 DEF parseVars, chanVars
  <1>5. Ahead' = Ahead \o t
    <2>1. buf \in Seq(Token) /\ inbox \in Seq(Token) /\ t \in Seq(Token)
      BY <1>3, BaseFacts
    <2>2. buf \o (inbox \o t) = (buf \o inbox) \o t
      BY <2>1, ConcatAssociative
    <2>3. QED  BY <2>2, <1>1, <1>4 DEF Ahead
  <1>6. \A i \in 1..Len(Ahead') :
           \/ i \in 1..Len(Ahead) /\ Ahead'[i] = Ahead[i] /\ Ahead[i][1] <= Len(reqs)
           \/ i > Len(Ahead) /\ Ahead'[i] = <<n, i - Len(Ahead)>>
    <2>1. /\ Len(Ahead') = Len(Ahead) + Len(t) /\ Len(t) \in Nat
          /\ \A i \in 1..Len(Ahead) : Ahead'[i] = Ahead[i]
          /\ \A i \in (Len(Ahead) + 1)..(Len(Ahead) + Len(t)) :
                Ahead'[i] = t[i - Len(Ahead)]
      <3>1. Ahead \in Seq(Token) /\ t \in Seq(Token) /\ Len(t) \in Nat
        BY <1>3, OrderTypes
      <3>2. QED  BY <3>1, <1>5, JoinFacts
    <2>2. \A i \in 1..Len(Ahead) : Ahead[i][1] <= Len(reqs)
      BY OrderTypes, BaseFacts
    <2>3. \A i \in (Len(Ahead) + 1)..(Len(Ahead) + Len(t)) :
             Ahead'[i] = <<n, i - Len(Ahead)>>
      <3> SUFFICES ASSUME NEW i \in (Len(Ahead) + 1)..(Len(Ahead) + Len(t))
                   PROVE  Ahead'[i] = <<n, i - Len(Ahead)>>
        OBVIOUS
      <3>1. Len(Ahead) \in Nat /\ Len(t) \in Nat
        BY <2>1, OrderTypes
      <3>2. i - Len(Ahead) \in 1..SizeOf(q)
        BY <3>1, <1>3
      <3>3. Ahead'[i] = t[i - Len(Ahead)]
        BY <2>1
      <3>4. QED  BY <3>2, <3>3, <1>3
    <2>4. QED  BY <2>1, <2>2, <2>3, OrderTypes
  <1>7. Len(Ahead') = Len(Ahead) + SizeOf(q)
    BY <1>3, <1>5, OrderTypes, JoinFacts
  <1>8. QED  BY <1>2, <1>3, <1>6, <1>7

LEMMA SendRequestOrder ==
    ASSUME BaseInv, OrderInv, NEW q \in Kinds, SendRequest(q)
    PROVE  OrderInv'
  <1> DEFINE n == Len(reqs) + 1
  <1>2. /\ Len(reqs') = Len(reqs) + 1 /\ \A i \in 1..Len(reqs) : reqs'[i] = reqs[i]
    BY SendAhead
  <1>3. n \in Nat
    BY BaseFacts
  <1>4. UNCHANGED <<cur, buf, pc, route_ok, dispatched, queue, wire>>
    BY DEF SendRequest, parseVars, chanVars
  <1>6. \A i \in 1..Len(Ahead') :
           \/ i \in 1..Len(Ahead) /\ Ahead'[i] = Ahead[i] /\ Ahead[i][1] < n
           \/ i > Len(Ahead) /\ Ahead'[i] = <<n, i - Len(Ahead)>>
    <2>1. \A i \in 1..Len(Ahead) : Ahead[i][1] \in Nat
      BY OrderTypes
    <2>2. QED  BY <2>1, SendAhead, BaseFacts
  <1>7. Fresh(n)
    <2>1. cur < n
      BY BaseFacts
    <2>2. Undispatched(n)
      <3>1. Len(reqs) \in Nat /\ \A i \in 1..Len(dispatched) : dispatched[i].req \in 1..Len(reqs)
        BY OrderTypes, BaseFacts
      <3>2. QED  BY <3>1 DEF Undispatched
    <2>3. QED  BY <2>1, <2>2 DEF Fresh, OrderInv, AnsweredSent
  <1>8. StartsFresh'
    <2> SUFFICES ASSUME NEW i \in 1..Len(Ahead'), Ahead'[i][2] = 1
                 PROVE  Fresh(Ahead[i][1])'
      BY DEF StartsFresh
    <2>1. CASE i \in 1..Len(Ahead) /\ Ahead'[i] = Ahead[i]
      <3>1. Fresh(Ahead[i][1])
        BY <2>1 DEF OrderInv, StartsFresh
      <3>2. QED  BY <3>1, <2>1, <1>4 DEF Fresh, Undispatched, Unanswered
    <2>2. CASE Ahead'[i] = <<n, i - Len(Ahead)>>
      <3>1. Ahead'[i][1] = n
        BY <2>2
      <3>2. cur < n /\ Below(wire, n) /\ Below(queue, n)
            /\ \A k \in 1..Len(dispatched) : dispatched[k].req < n
        BY <1>7 DEF Fresh, Undispatched, Unanswered
      <3>3. QED  BY <3>1, <3>2, <1>4 DEF Fresh, Undispatched, Unanswered
    <2>3. QED  BY <2>1, <2>2, <1>6
  <1>9. StartsInOrder'
    <2> SUFFICES ASSUME NEW i \in 1..Len(Ahead'), NEW j \in 1..Len(Ahead'), i < j,
                        Ahead'[i][2] = 1, Ahead'[j][2] = 1
                 PROVE  Ahead'[i][1] < Ahead'[j][1]
      BY DEF StartsInOrder
    <2>1. CASE j \in 1..Len(Ahead)
      <3>1. i \in 1..Len(Ahead)
        BY <2>1, OrderTypes
      <3>2. \A k \in 1..Len(Ahead') : k \in 1..Len(Ahead) => Ahead'[k] = Ahead[k]
        <4> SUFFICES ASSUME NEW k \in 1..Len(Ahead'), k \in 1..Len(Ahead)
                     PROVE  Ahead'[k] = Ahead[k]
          OBVIOUS
        <4>1. ~(k > Len(Ahead))
          BY OrderTypes
        <4>2. QED  BY <4>1, <1>6
      <3>3. QED  BY <2>1, <3>1, <3>2 DEF OrderInv, StartsInOrder
    <2>2. CASE i \in 1..Len(Ahead) /\ j > Len(Ahead)
      BY <2>2, <1>6, OrderTypes
    <2>3. CASE i > Len(Ahead) /\ j > Len(Ahead)
      <3>1. i - Len(Ahead) = 1 /\ j - Len(Ahead) = 1
        BY <2>3, <1>6
      <3>2. QED  BY <3>1, OrderTypes
    <2>4. QED  BY <2>1, <2>2, <2>3, <1>6
  <1>10. CurrentFresh'
    BY <1>4 DEF OrderInv, CurrentFresh, Undispatched, Unanswered
  <1>11. AnsweredSent'
    <2>1. ASSUME NEW s, \A i \in 1..Len(s) : s[i][1] \in 1..MaxRequests, Below(s, n)
          PROVE  Below(s, n + 1)
      BY <2>1, <1>3, BaseFacts DEF Below
    <2>2. Below(wire, n + 1) /\ Below(queue, n + 1)
      BY <2>1, OrderTypes DEF OrderInv, AnsweredSent, Unanswered
    <2>3. QED  BY <2>2, <1>2, <1>4 DEF AnsweredSent, Unanswered
  <1>12. ReplyOrder'
    BY <1>4 DEF OrderInv, ReplyOrder
  <1>13. DispatchedInOrder'
    BY <1>2, <1>4, OrderTypes DEF OrderInv, DispatchedInOrder
  <1>14. QED  BY <1>8, <1>9, <1>10, <1>11, <1>12, <1>13 DEF OrderInv

LEMMA RecvOrder ==
    ASSUME BaseInv, OrderInv, Recv
    PROVE  OrderInv'
  <1>1. PICK k \in 1..Len(inbox) :
              /\ inbox' = Drop(inbox, k)
              /\ \/ buf' = buf \o First(inbox, k)
                 \/ pc = "recv_stale" /\ buf' = buf \o Junk(k)
    BY RecvFacts
  <1>2. /\ UNCHANGED <<reqs, cur, route_ok, dispatched, queue, wire>>
        /\ \/ pc \in InRequest /\ pc' \in {"body", "chunk_again"}
           \/ pc' \notin InRequest
    BY DEF Recv, Receiving, Resume, chanVars, InRequest, BodyLength, BodyChunks, BodyReady
  <1>3. CurrentFresh'
    BY <1>2 DEF OrderInv, CurrentFresh, Undispatched, Unanswered
  <1>4. k \in 0..Len(inbox)
    BY BaseFacts
  <1>5. CASE cur = 0
    <2>1. pc # "recv_stale"
      BY <1>5 DEF BaseInv, PlaceInv, InRequest, BodyLength
    <2>2. (buf \o First(inbox, k)) \o Drop(inbox, k) = buf \o inbox
      BY <1>4, BaseFacts, CutMove
    <2>3. Ahead' = Ahead
      BY <2>1, <2>2, <1>1, <1>2, <1>5 DEF Ahead
    <2>4. QED  BY <2>3, <1>2, <1>3, OrderFrame
  <1>6. CASE cur # 0
    <2>1. Ahead = inbox /\ Ahead' = Drop(inbox, k)
      BY <1>1, <1>2, <1>6 DEF Ahead
    <2>2. /\ Len(Ahead') = Len(Ahead) - k
          /\ \A i \in 1..Len(Ahead') : Ahead'[i] = Ahead[k + i]
      BY <2>1, <1>4, BaseFacts, CutFacts
    <2>3. \A i \in 1..Len(Ahead') : k + i \in 1..Len(Ahead)
      BY <2>2, <1>4, OrderTypes
    <2>4. \A i \in 1..Len(Ahead') : Ahead'[i][2] = 1 => cur' < Ahead'[i][1]
      BY <2>2, <2>3, <1>2 DEF OrderInv, StartsFresh, Fresh
    <2>5. k \in 0..Len(Ahead)
      BY <2>1, <1>4
    <2>6. QED  BY <2>2, <2>4, <2>5, <1>2, <1>3, OrderRest
  <1>7. QED  BY <1>5, <1>6

LEMMA ParseHeaderOrder ==
    ASSUME BaseInv, OrderInv, ParseHeader
    PROVE  OrderInv'
  <1>1. /\ pc = "parse"
        /\ \/ pc' = "header" /\ HasHeader /\ cur' = buf[1][1]
           \/ pc' \in {"recv_header", "recv_zero_err"} /\ cur' = 0
        /\ UNCHANGED <<reqs, inbox, buf, dispatched, queue, wire>>
    BY DEF ParseHeader, ParseResults, clientVars, chanVars
  <1>2. cur = 0 /\ Len(buf) > 0 /\ buf[1][1] \in 1..Len(reqs)
    BY <1>1, ParseFacts
  <1>3. CASE cur' = 0
    <2>1. Ahead' = Ahead
      BY <1>1, <1>2, <1>3 DEF Ahead
    <2>2. CurrentFresh'
      BY <1>1, <1>2, <1>3, BaseFacts
         DEF CurrentFresh, InRequest, BodyLength, BodyChunks, BodyReady
    <2>3. QED  BY <2>1, <2>2, <1>1, <1>2, <1>3, OrderFrame
  <1>4. CASE pc' = "header" /\ HasHeader /\ cur' = buf[1][1]
    <2>1. Ahead = buf \o inbox /\ Ahead' = inbox
      BY <1>1, <1>2, <1>4, BaseFacts DEF Ahead
    <2>2. /\ Len(Ahead) = Len(buf) + Len(inbox)
          /\ \A i \in 1..Len(buf) : Ahead[i] = buf[i]
          /\ \A i \in 1..Len(inbox) : Ahead[Len(buf) + i] = inbox[i]
      BY <2>1, BaseFacts, JoinFacts
    <2>3. 1 \in 1..Len(Ahead) /\ Ahead[1] = buf[1] /\ Ahead[1][2] = 1
      BY <2>2, <1>2, <1>4, BaseFacts DEF HasHeader, Started
    <2>4. CurrentFresh'
      <3>1. Fresh(buf[1][1])
        BY <2>3 DEF OrderInv, StartsFresh
      <3>2. QED
        BY <3>1, <1>1, <1>4 DEF CurrentFresh, Fresh, Undispatched, Unanswered
    <2>5. \A i \in 1..Len(Ahead') : Ahead'[i][2] = 1 => cur' < Ahead'[i][1]
      <3> SUFFICES ASSUME NEW i \in 1..Len(inbox), inbox[i][2] = 1
                   PROVE  buf[1][1] < inbox[i][1]
        BY <2>1, <1>4
      <3>1. Len(buf) + i \in 1..Len(Ahead) /\ 1 < Len(buf) + i
        BY <2>2, <1>2, BaseFacts
      <3>2. QED  BY <3>1, <2>2, <2>3 DEF OrderInv, StartsInOrder
    <2>6. Len(buf) \in 0..Len(Ahead) /\ Len(Ahead') = Len(Ahead) - Len(buf)
      BY <2>1, <2>2, BaseFacts
    <2>7. \A i \in 1..Len(Ahead') : Ahead'[i] = Ahead[Len(buf) + i]
      BY <2>1, <2>2
    <2>8. QED  BY <2>4, <2>5, <2>6, <2>7, <1>1, OrderRest
  <1>5. QED  BY <1>1, <1>3, <1>4

LEMMA NextRequestOrder ==
    ASSUME BaseInv, OrderInv, NextRequest
    PROVE  OrderInv'
  <1>1. /\ cur' = 0 /\ buf' = <<>> /\ pc' \in {"recv_header", "linger"}
        /\ UNCHANGED <<reqs, inbox, dispatched, queue, wire>>
    BY DEF NextRequest, Cleared, clientVars, chanVars
  <1>2. Ahead' = inbox
    BY <1>1, BaseFacts, ConcatEmptySeq DEF Ahead
  <1>3. PICK k \in 0..Len(Ahead) : /\ Len(inbox) = Len(Ahead) - k
                                  /\ \A i \in 1..Len(inbox) : inbox[i] = Ahead[k + i]
    <2>1. CASE Ahead = inbox
      <3>1. 0 \in 0..Len(Ahead) /\ Len(inbox) = Len(Ahead) - 0
        BY <2>1, BaseFacts
      <3>2. \A i \in 1..Len(inbox) : inbox[i] = Ahead[0 + i]
        BY <2>1, BaseFacts
      <3>3. QED  BY <3>1, <3>2
    <2>2. CASE Ahead = buf \o inbox
      <3>1. /\ Len(Ahead) = Len(buf) + Len(inbox)
            /\ \A i \in 1..Len(inbox) : Ahead[Len(buf) + i] = inbox[i]
        BY <2>2, BaseFacts, JoinFacts
      <3>2. Len(buf) \in 0..Len(Ahead) /\ Len(inbox) = Len(Ahead) - Len(buf)
        BY <3>1, BaseFacts
      <3>3. QED  BY <3>1, <3>2
    <2>3. QED  BY <2>1, <2>2 DEF Ahead
  <1>4. CurrentFresh'
    BY <1>1 DEF CurrentFresh, InRequest, BodyLength, BodyChunks, BodyReady
  <1>5. \A i \in 1..Len(Ahead') : Ahead'[i][2] = 1 => cur' < Ahead'[i][1]
    <2>1. \A i \in 1..Len(inbox) : inbox[i][1] \in 1..Len(reqs)
      BY KeptRest DEF Whole, Sent
    <2>2. QED  BY <2>1, <1>1, <1>2, BaseFacts
  <1>6. QED  BY <1>1, <1>2, <1>3, <1>4, <1>5, OrderRest

(* The steps of the handler from one place in a request to another that     *)
(* neither dispatch nor reply.                                              *)
LEMMA WithinOrder ==
    ASSUME BaseInv, OrderInv,
           MoveStep \/ OnHeader \/ BodyLoop \/ ChunkLoop \/ Upgrade \/ OnClose
    PROVE  OrderInv'
  <1> USE DEF clientVars, parseVars, chanVars
  <1>1. CASE MoveStep
    <2>1. UNCHANGED <<reqs, inbox, parseVars, chanVars, dispatched>>
      BY <1>1, MoveFacts
    <2>2. pc' \in InRequest => pc' = pc
      BY <1>1, MoveFacts DEF InRequest, BodyLength, BodyChunks, BodyReady
    <2>3. CurrentFresh'
      BY <2>1, <2>2 DEF OrderInv, CurrentFresh, Undispatched, Unanswered
    <2>4. Ahead' = Ahead
      BY <2>1 DEF Ahead
    <2>5. QED  BY <2>1, <2>3, <2>4, OrderFrame
  <1>2. ASSUME UNCHANGED <<reqs, inbox, cur, route_ok, dispatched, queue, wire>>,
               cur # 0 \/ buf' = buf,
               \/ pc' \notin InRequest
               \/ pc \in InRequest /\ pc' \notin {"header", "connection"}
        PROVE  OrderInv'
    <2>1. Ahead' = Ahead
      BY <1>2 DEF Ahead
    <2>2. CurrentFresh'
      BY <1>2 DEF OrderInv, CurrentFresh, Undispatched, Unanswered
    <2>3. QED  BY <2>1, <2>2, <1>2, OrderFrame
  <1>3. CASE OnHeader
    <2>1. /\ UNCHANGED <<reqs, inbox, buf, cur, dispatched, queue, wire>>
          /\ pc = "header" /\ pc' = "connection"
      BY <1>3 DEF OnHeader
    <2>2. CurrentFresh'
      BY <2>1 DEF OrderInv, CurrentFresh, Undispatched, Unanswered, InRequest
    <2>3. QED  BY <2>1, <2>2, OrderFrame DEF Ahead
  <1>4. CASE BodyLoop
    BY <1>4, <1>2 DEF BodyLoop, InRequest, BodyLength
  <1>5. CASE ChunkLoop
    <2>1. pc \in InRequest /\ cur # 0
      BY <1>5 DEF ChunkLoop, BaseInv, PlaceInv, InRequest, BodyChunks
    <2>2. pc' \notin {"header", "connection"}
      BY <1>5, ChunkFacts DEF ChunkError, ChunkDone, ChunkMore
    <2>3. QED  BY <2>1, <2>2, <1>5, <1>2 DEF ChunkLoop
  <1>6. CASE Upgrade
    BY <1>6, <1>2 DEF Upgrade, InRequest, BodyReady
  <1>7. CASE OnClose
    BY <1>7, <1>2 DEF OnClose, InRequest, BodyLength, BodyChunks, BodyReady
  <1>8. QED  BY <1>1, <1>3, <1>4, <1>5, <1>6, <1>7

(* A step that dispatches or replies, to the current request at most. *)
LEMMA ReplyFrame ==
    ASSUME OrderInv, Ahead' = Ahead, CurrentFresh', ReplyOrder', DispatchedInOrder',
           UNCHANGED <<reqs, cur>>, cur \in 0..Len(reqs), Len(reqs) \in Nat,
           \A i \in 1..Len(Ahead) : Ahead[i][1] \in Int,
           \A n \in Int : cur < n /\ Unanswered(n) => Unanswered(n)',
           \A n \in Int : cur < n /\ Undispatched(n) => Undispatched(n)'
    PROVE  OrderInv'
  <1>1. StartsFresh'
    <2> SUFFICES ASSUME NEW i \in 1..Len(Ahead), Ahead[i][2] = 1
                 PROVE  Fresh(Ahead[i][1])'
      BY DEF StartsFresh
    <2>1. Fresh(Ahead[i][1])
      BY DEF OrderInv, StartsFresh
    <2> DEFINE n == Ahead[i][1]
    <2>2. n' = n /\ n \in Int /\ Fresh(n)
      BY <2>1
    <2>3. Unanswered(n)' /\ Undispatched(n)'
      BY <2>2 DEF Fresh, Unanswered, Undispatched
    <2>4. QED  BY <2>2, <2>3 DEF Fresh
  <1>2. StartsInOrder'
    BY DEF OrderInv, StartsInOrder
  <1>3. AnsweredSent'
    BY DEF OrderInv, AnsweredSent, Unanswered
  <1>4. QED  BY <1>1, <1>2, <1>3 DEF OrderInv

(* A reply to the current request, which had none. *)
LEMMA SubmitFacts ==
    ASSUME BaseInv, OrderInv, cur # 0, Unanswered(cur),
           NEW answer \in {"200", "404"}, Channel!Submit(<<cur, answer>>)
    PROVE  /\ ReplyOrder'
           /\ \A n \in Int : cur < n /\ Unanswered(n) => Unanswered(n)'
  <1> DEFINE r == <<cur, answer>>
  <1>1. r \in Wired /\ Queued(r) /\ r[1] = cur
    <2>1. cur \in 1..MaxRequests
      BY BaseFacts, BoundsAssumption DEF BaseInv, TypeOK
    <2>2. QED  BY <2>1 DEF Wired, Reply, Queued
  <1>2. queue' = Append(queue, r) /\ wire' = wire
    BY DEF Channel!Submit
  <1>3. InOrder(queue) /\ InOrder(wire) /\ Before(wire, queue)
    BY DEF OrderInv, ReplyOrder
  <1> HIDE DEF r
  <1>4. Below(queue, r[1]) /\ Below(wire, r[1])
    BY <1>1 DEF Unanswered
  <1>5. InOrder(Append(queue, r)) /\ Before(wire, Append(queue, r))
    BY <1>1, <1>3, <1>4, OrderTypes, OrderAppend
  <1>6. ASSUME NEW n \in Int, cur < n, Unanswered(n)
        PROVE  Unanswered(n)'
    <2>1. Below(queue, n) /\ Below(wire, n) /\ r[1] < n
      BY <1>1, <1>6 DEF Unanswered
    <2>2. Below(Append(queue, r), n)
      BY <2>1, <1>1, OrderTypes, OrderAppend
    <2>3. QED  BY <2>1, <2>2, <1>2 DEF Unanswered
  <1>7. QED  BY <1>2, <1>3, <1>5, <1>6 DEF ReplyOrder

LEMMA AheadInts ==
    ASSUME BaseInv
    PROVE  /\ \A i \in 1..Len(Ahead) : Ahead[i][1] \in Int
           /\ cur \in 0..Len(reqs) /\ Len(reqs) \in Nat
  BY OrderTypes, BaseFacts

LEMMA ConnectionFieldOrder ==
    ASSUME BaseInv, OrderInv, ConnectionField
    PROVE  OrderInv'
  <1>1. /\ pc = "connection" /\ pc' \in {"closed", "body"}
        /\ UNCHANGED <<reqs, inbox, buf, cur, route_ok, dispatched>>
        /\ \/ ~route_ok /\ Channel!Submit(<<cur, "404">>)
           \/ UNCHANGED chanVars
    BY DEF ConnectionField, Reply404, clientVars
  <1>2. cur # 0 /\ Undispatched(cur) /\ Unanswered(cur)
    BY <1>1 DEF BaseInv, PlaceInv, OrderInv, CurrentFresh, InRequest
  <1>3. Ahead' = Ahead
    BY <1>1 DEF Ahead
  <1>4. CASE UNCHANGED chanVars
    <2>1. CurrentFresh'
      BY <1>1, <1>2, <1>4 DEF CurrentFresh, Undispatched, Unanswered, chanVars
    <2>2. QED  BY <2>1, <1>1, <1>3, <1>4, OrderFrame DEF chanVars
  <1>5. CASE ~route_ok /\ Channel!Submit(<<cur, "404">>)
    <2>1. /\ ReplyOrder'
          /\ \A n \in Int : cur < n /\ Unanswered(n) => Unanswered(n)'
      BY <1>2, <1>5, SubmitFacts
    <2>2. CurrentFresh'
      BY <1>1, <1>2, <1>5 DEF CurrentFresh, Undispatched
    <2>3. DispatchedInOrder'
      BY <1>1 DEF OrderInv, DispatchedInOrder
    <2>4. \A n \in Int : cur < n /\ Undispatched(n) => Undispatched(n)'
      BY <1>1 DEF Undispatched
    <2>5. QED  BY <2>1, <2>2, <2>3, <2>4, <1>1, <1>3, AheadInts, ReplyFrame
  <1>6. QED  BY <1>1, <1>4, <1>5

LEMMA SwitchProtocolsOrder ==
    ASSUME BaseInv, OrderInv, SwitchProtocols
    PROVE  OrderInv'
  <1> DEFINE r == <<cur, "101">>
  <1>1. /\ pc = "switch" /\ pc' = "websocket"
        /\ UNCHANGED <<reqs, inbox, buf, cur, route_ok, dispatched, queue>>
        /\ wire' = Append(wire, r) \/ wire' = wire
    BY DEF SwitchProtocols, clientVars, parseVars
  <1>2. cur # 0
    BY <1>1 DEF BaseInv, PlaceInv, InRequest, BodyReady
  <1>3. r \in Wired /\ ~Queued(r)
    BY <1>2, BaseFacts, BoundsAssumption DEF BaseInv, TypeOK, Wired, Queued
  <1> HIDE DEF r
  <1>4. InOrder(queue) /\ InOrder(wire) /\ Before(wire, queue)
    BY DEF OrderInv, ReplyOrder
  <1>5. InOrder(Append(wire, r)) /\ Before(Append(wire, r), queue)
    BY <1>3, <1>4, OrderTypes, OrderAppend
  <1>6. ReplyOrder'
    BY <1>1, <1>4, <1>5 DEF ReplyOrder
  <1>7. ASSUME NEW n \in Int, Unanswered(n)
        PROVE  Unanswered(n)'
    <2>1. Below(queue, n) /\ Below(wire, n)
      BY <1>7 DEF Unanswered
    <2>2. Below(Append(wire, r), n)
      BY <2>1, <1>3, OrderTypes, OrderAppend
    <2>3. QED  BY <2>1, <2>2, <1>1 DEF Unanswered
  <1>8. CurrentFresh'
    <2>1. Undispatched(cur) /\ (route_ok => Unanswered(cur))
      BY <1>1 DEF OrderInv, CurrentFresh, InRequest, BodyReady
    <2>2. route_ok => Unanswered(cur)'
      BY <2>1, <1>1, <1>7, BaseFacts DEF Unanswered
    <2>3. QED  BY <2>1, <2>2, <1>1 DEF CurrentFresh, Undispatched, Unanswered
  <1>9. DispatchedInOrder'
    BY <1>1 DEF OrderInv, DispatchedInOrder
  <1>10. \A n \in Int : cur < n /\ Undispatched(n) => Undispatched(n)'
    BY <1>1 DEF Undispatched
  <1>11. Ahead' = Ahead
    BY <1>1 DEF Ahead
  <1>12. QED
    BY <1>1, <1>6, <1>7, <1>8, <1>9, <1>10, <1>11, AheadInts, ReplyFrame

LEMMA OnBodyOrder ==
    ASSUME BaseInv, OrderInv, OnBody
    PROVE  OrderInv'
  <1> DEFINE d == [req |-> cur, body |-> body_bin]
  <1>1. /\ pc = "dispatch" /\ pc' = "next"
        /\ UNCHANGED <<reqs, inbox, buf, cur>>
        /\ \/ /\ route_ok /\ Channel!Submit(<<cur, "200">>)
              /\ dispatched' = Append(dispatched, d) \/ dispatched' = dispatched
           \/ UNCHANGED <<dispatched, chanVars>>
    BY DEF OnBody, clientVars, parseVars
  <1>2. /\ cur \in 1..Len(reqs) /\ Undispatched(cur)
        /\ route_ok => Unanswered(cur) /\ reqs[cur].routed
    BY <1>1, BaseFacts
       DEF BaseInv, PlaceInv, OrderInv, CurrentFresh, InRequest, BodyReady
  <1>3. Ahead' = Ahead
    BY <1>1 DEF Ahead
  <1>4. CurrentFresh'
    BY <1>1 DEF CurrentFresh, InRequest, BodyLength, BodyChunks, BodyReady
  <1>5. CASE UNCHANGED <<dispatched, chanVars>>
    BY <1>1, <1>3, <1>4, <1>5, OrderFrame DEF chanVars
  <1>6. CASE /\ route_ok /\ Channel!Submit(<<cur, "200">>)
             /\ dispatched' = Append(dispatched, d) \/ dispatched' = dispatched
    <2>1. /\ ReplyOrder'
          /\ \A n \in Int : cur < n /\ Unanswered(n) => Unanswered(n)'
      BY <1>2, <1>6, SubmitFacts
    <2>2. \A i \in 1..Len(dispatched') :
             \/ i \in 1..Len(dispatched) /\ dispatched'[i] = dispatched[i]
             \/ i = Len(dispatched) + 1 /\ dispatched'[i].req = cur
      <3> DEFINE R == [req : 1..Len(reqs), body : Seq(Token)]
      <3>1. dispatched \in Seq(R) /\ d.req = cur
        BY DEF BaseInv, TypeOK
      <3> HIDE DEF R, d
      <3>2. /\ Len(Append(dispatched, d)) = Len(dispatched) + 1
            /\ \A i \in 1..Len(dispatched) : Append(dispatched, d)[i] = dispatched[i]
            /\ Append(dispatched, d)[Len(dispatched) + 1] = d
        BY <3>1, AppendProperties
      <3>3. QED  BY <3>1, <3>2, <1>6, OrderTypes
    <2>3. DispatchedInOrder'
      <3>1. ASSUME NEW i \in 1..Len(dispatched'), NEW j \in 1..Len(dispatched'), i < j
            PROVE  dispatched'[i].req < dispatched'[j].req
        <4>1. i \in 1..Len(dispatched) /\ dispatched'[i] = dispatched[i]
          BY <2>2, <3>1, OrderTypes
        <4>2. CASE j \in 1..Len(dispatched) /\ dispatched'[j] = dispatched[j]
          BY <4>1, <4>2, <3>1 DEF OrderInv, DispatchedInOrder
        <4>3. CASE dispatched'[j].req = cur
          BY <4>1, <4>3, <1>2 DEF Undispatched
        <4>4. QED  BY <4>2, <4>3, <2>2
      <3>2. ASSUME NEW i \in 1..Len(dispatched')
            PROVE  reqs'[dispatched'[i].req].routed
        BY <2>2, <1>1, <1>2, <1>6 DEF OrderInv, DispatchedInOrder
      <3>3. QED  BY <3>1, <3>2 DEF DispatchedInOrder
    <2>4. \A n \in Int : cur < n /\ Undispatched(n) => Undispatched(n)'
      BY <2>2 DEF Undispatched
    <2>5. QED  BY <2>1, <2>3, <2>4, <1>1, <1>3, <1>4, AheadInts, ReplyFrame
  <1>7. QED  BY <1>1, <1>5, <1>6

LEMMA SenderOrder ==
    ASSUME BaseInv, OrderInv, Transmit \/ TransmitFails
    PROVE  OrderInv'
  <1>1. PICK j \in 0..Len(queue) : \E k \in 0..j :
              wire' = wire \o First(queue, k) /\ queue' = Drop(queue, j)
    BY SenderFacts
  <1>2. PICK k \in 0..j :
              wire' = wire \o First(queue, k) /\ queue' = Drop(queue, j)
    BY <1>1
  <1>3. UNCHANGED <<reqs, inbox, buf, cur, pc, route_ok, dispatched>>
    BY SenderFacts DEF clientVars, parseVars
  <1>4. /\ ReplyOrder'
        /\ \A n : Below(wire, n) /\ Below(queue, n)
                     => Below(wire \o First(queue, k), n) /\ Below(Drop(queue, j), n)
    BY <1>2, OrderTypes, OrderMove DEF OrderInv, ReplyOrder
  <1>5. \A n : Unanswered(n) => Unanswered(n)'
    BY <1>2, <1>4 DEF Unanswered
  <1>6. \A n : Undispatched(n) => Undispatched(n)'
    BY <1>3 DEF Undispatched
  <1>7. CurrentFresh'
    <2>1. Unanswered(cur) => Unanswered(cur)'
      BY <1>2, <1>3, <1>4 DEF Unanswered
    <2>2. QED  BY <2>1, <1>3 DEF OrderInv, CurrentFresh, Undispatched
  <1>8. Ahead' = Ahead /\ DispatchedInOrder'
    BY <1>3 DEF Ahead, OrderInv, DispatchedInOrder
  <1>9. QED  BY <1>3, <1>4, <1>5, <1>6, <1>7, <1>8, AheadInts, ReplyFrame

LEMMA OrderInit == Init => OrderInv
  <1> SUFFICES ASSUME Init PROVE OrderInv
    OBVIOUS
  <1>1. \A S : <<>> \in Seq(S) /\ Len(<<>>) = 0
    BY EmptySeq
  <1>2. Ahead = <<>>
    BY <1>1, ConcatEmptySeq DEF Init, Ahead
  <1>3. QED
    BY <1>1, <1>2
       DEF Init, OrderInv, StartsFresh, StartsInOrder, CurrentFresh, AnsweredSent,
           ReplyOrder, DispatchedInOrder, Unanswered, InOrder, Before, Below, InRequest,
           BodyLength, BodyChunks, BodyReady

LEMMA OrderStep == BaseInv /\ OrderInv /\ [Next]_vars => OrderInv'
  <1> SUFFICES ASSUME BaseInv, OrderInv, [Next]_vars PROVE OrderInv'
    OBVIOUS
  <1>1. CASE MoveStep \/ OnHeader \/ BodyLoop \/ ChunkLoop \/ Upgrade \/ OnClose
    BY <1>1, WithinOrder
  <1>2. ASSUME NEW q \in Kinds, SendRequest(q)
        PROVE  OrderInv'
    BY <1>2, SendRequestOrder
  <1>3. CASE Recv \/ ParseHeader \/ NextRequest
    BY <1>3, RecvOrder, ParseHeaderOrder, NextRequestOrder
  <1>4. CASE ConnectionField \/ SwitchProtocols \/ OnBody
    BY <1>4, ConnectionFieldOrder, SwitchProtocolsOrder, OnBodyOrder
  <1>5. CASE Transmit \/ TransmitFails
    BY <1>5, SenderOrder
  <1>6. CASE UNCHANGED vars
    <2>1. UNCHANGED <<reqs, cur, dispatched, queue, wire>> /\ Ahead' = Ahead
      BY <1>6 DEF vars, clientVars, parseVars, chanVars, Ahead
    <2>2. CurrentFresh'
      BY <1>6 DEF vars, clientVars, parseVars, chanVars, OrderInv, CurrentFresh,
                  Undispatched, Unanswered
    <2>3. QED  BY <2>1, <2>2, OrderFrame
  <1>7. QED
    BY <1>1, <1>2, <1>3, <1>4, <1>5, <1>6 DEF Next, HandlerNext, MoveStep

(* web.cc, on_connection: callbacks run in the order of the requests, at    *)
(* most once for each and only for those with a route.                      *)
THEOREM DispatchCorrect == Spec => []DispatchedInOrder
  <1>1. BaseInv /\ OrderInv => DispatchedInOrder
    BY DEF OrderInv
  <1>2. QED  BY <1>1, BaseInit, BaseStep, OrderInit, OrderStep, PTL DEF Spec

(* web.cc, http1.cc: replies leave in the order of their requests, one for  *)
(* each, whichever of a callback and the handler itself gave them.          *)
THEOREM RepliesCorrect == Spec => []RepliesInOrder
  <1>1. ASSUME BaseInv, OrderInv
        PROVE  RepliesInOrder
    <2>1. /\ Len(Replies) = Len(wire) + Len(queue)
          /\ \A i \in 1..Len(wire) : Replies[i] = wire[i]
          /\ \A i \in (Len(wire) + 1)..(Len(wire) + Len(queue)) :
                Replies[i] = queue[i - Len(wire)]
      BY <1>1, OrderTypes, JoinFacts DEF Replies
    <2>2. InOrder(wire) /\ InOrder(queue) /\ Before(wire, queue)
      BY <1>1 DEF OrderInv, ReplyOrder
    <2> SUFFICES ASSUME NEW i \in 1..Len(Replies), NEW j \in 1..Len(Replies), i < j,
                        Queued(Replies[i]), Queued(Replies[j])
                 PROVE  Replies[i][1] < Replies[j][1]
      BY DEF RepliesInOrder
    <2>3. Len(wire) \in Nat /\ Len(queue) \in Nat
      BY <1>1, OrderTypes
    <2>4. CASE j <= Len(wire)
      BY <2>1, <2>2, <2>3, <2>4 DEF InOrder
    <2>5. CASE i <= Len(wire) /\ j > Len(wire)
      <3>1. /\ i \in 1..Len(wire) /\ j - Len(wire) \in 1..Len(queue)
            /\ Replies[i] = wire[i] /\ Replies[j] = queue[j - Len(wire)]
        BY <2>1, <2>3, <2>5
      <3>2. QED  BY <3>1, <2>2 DEF Before
    <2>6. CASE i > Len(wire)
      <3>1. /\ i - Len(wire) \in 1..Len(queue) /\ j - Len(wire) \in 1..Len(queue)
            /\ i - Len(wire) < j - Len(wire)
            /\ Replies[i] = queue[i - Len(wire)] /\ Replies[j] = queue[j - Len(wire)]
        BY <2>1, <2>3, <2>6
      <3>2. QED  BY <3>1, <2>2 DEF InOrder
    <2>7. QED  BY <2>3, <2>4, <2>5, <2>6
  <1>2. QED  BY <1>1, BaseInit, BaseStep, OrderInit, OrderStep, PTL DEF Spec

-----------------------------------------------------------------------------
(* Bodies *)

(* The request at the front of the buffer is the current one, and what was  *)
(* taken for its body is its body.                                          *)
BodyInv ==
    /\ pc \in InRequest /\ Plain(cur) => buf[1] = <<cur, 1>>
    /\ pc \in BetweenRequests \cup {"header", "connection"} \cup BodyLength
            => body_bin = <<>>
    /\ pc \in BodyReady /\ Plain(cur) => body_bin = BodyOf(cur)

PlainBodies == \A i \in 1..Len(dispatched) :
    Plain(dispatched[i].req) => dispatched[i].body = BodyOf(dispatched[i].req)

(* A plain request whose first token is at the front and of which hdr + len *)
(* tokens are there has its body behind its header.                         *)
LEMMA BodyFound ==
    ASSUME BaseInv, cur # 0, Plain(cur), buf[1] = <<cur, 1>>,
           hdr(cur) + reqs[cur].body <= Len(buf)
    PROVE  Body = BodyOf(cur)
  <1> DEFINE h == hdr(cur)
             len == reqs[cur].body
  <1>1. /\ h \in Nat /\ h > 0 /\ len \in Nat /\ Len(buf) \in Nat
        /\ ContentLength(cur) = len /\ SizeOf(reqs[cur]) = h + len
    BY BaseFacts DEF Plain, ContentLength, SizeOf, hdr
  <1>2. /\ Runs(reqs, Kept) /\ Len(Kept) = Len(buf) + Len(inbox)
        /\ \A i \in 1..Len(buf) : Kept[i] = buf[i]
    BY BaseFacts, JoinFacts DEF Kept, BaseInv, Whole
  <1> HIDE DEF h, len
  <1>3. h + len <= Len(buf)
    BY DEF h, len
  <1>4. ASSUME NEW i \in 1..len
        PROVE  buf[h + i] = <<cur, h + i>>
    <2> DEFINE d == h + i - 1
    <2>1. /\ 1 \in 1..Len(Kept) /\ d \in 0..(Len(Kept) - 1) /\ 1 + d = h + i
          /\ h + i \in 1..Len(buf) /\ Kept[1] = buf[1]
          /\ 1 + d <= SizeOf(reqs[cur])
      <3>1. /\ h + i \in 1..Len(buf) /\ 1 \in 1..Len(buf) /\ h + i <= h + len
            /\ Len(inbox) \in Nat /\ d \in Nat /\ 1 + d = h + i
        BY <1>1, <1>3, BaseFacts
      <3>2. Len(buf) <= Len(Kept) /\ Len(Kept) \in Nat
        BY <3>1, <1>1, <1>2
      <3> HIDE DEF d
      <3>3. QED  BY <3>1, <3>2, <1>1, <1>2
    <2> HIDE DEF d
    <2>2. Kept[1][1] = cur /\ Kept[1][2] = 1
      BY <2>1
    <2>3. Kept[1 + d] = <<Kept[1][1], Kept[1][2] + d>>
      BY <2>1, <2>2, <1>2 DEF Runs
    <2>4. QED  BY <2>1, <2>2, <2>3, <1>2
  <1> DEFINE b == SubSeq(buf, h + 1, h + len)
             f == [i \in 1..len |-> <<cur, h + i>>]
  <1>5. b \in Seq(Token) /\ Len(b) = len /\ \A i \in 1..len : b[i] = buf[h + i]
    BY <1>1, <1>3, BaseFacts, SliceFacts
  <1>6. f \in Seq(Token) /\ Len(f) = len /\ \A i \in 1..len : f[i] = buf[h + i]
    <2>1. \A i \in 1..len : <<cur, h + i>> \in Token
      <3>1. cur \in 0..MaxRequests
        BY BaseFacts, BoundsAssumption DEF BaseInv, TypeOK
      <3>2. QED  BY <3>1, <1>1 DEF Token
    <2>2. f \in [1..len -> Token]
      BY <2>1
    <2>3. \A i \in 1..len : f[i] = buf[h + i]
      BY <1>4
    <2> HIDE DEF f
    <2>4. QED  BY <1>1, <2>2, <2>3
  <1>7. b = f
    <2> HIDE DEF b, f
    <2>1. QED  BY <1>5, <1>6, SeqEqual
  <1>8. Body = b
    BY <1>1 DEF Body, h, len
  <1>9. BodyOf(cur) = f
    BY DEF BodyOf, h, len
  <1>10. QED  BY <1>7, <1>8, <1>9

(* A request without a body has the empty body. *)
LEMMA NoBody ==
    ASSUME BaseInv, cur # 0, reqs[cur].body = 0
    PROVE  BodyOf(cur) = <<>>
  <1> DEFINE f == [i \in 1..0 |-> <<cur, hdr(cur) + i>>]
  <1>1. f \in Seq(Token) /\ Len(f) = 0
    <2>1. f \in [1..0 -> Token]
      OBVIOUS
    <2> HIDE DEF f
    <2>2. QED  BY <2>1
  <1>2. BodyOf(cur) = f
    BY DEF BodyOf
  <1> HIDE DEF f
  <1>3. QED  BY <1>1, <1>2, EmptySeq

LEMMA BodyLoopBody ==
    ASSUME BaseInv, BodyInv, BodyLoop
    PROVE  BodyInv'
  <1>1. /\ pc = "body" /\ UNCHANGED <<reqs, buf, cur>>
        /\ pc' \in {"recv_stale", "recv_body", "chunk", "upgrade"}
    BY DEF BodyLoop, clientVars
  <1>2. cur # 0 /\ hdr(cur) \in Nat /\ body_bin = <<>> /\ ContentLength(cur) \in Nat
    BY <1>1, BaseFacts DEF BaseInv, PlaceInv, BodyInv, InRequest, BodyLength
  <1>3. Plain(cur) => buf[1] = <<cur, 1>> /\ ContentLength(cur) = reqs[cur].body
    BY <1>1 DEF BodyInv, Plain, ContentLength, InRequest, BodyLength
  <1>4. pc' \in {"recv_stale", "recv_body"} => body_bin' = <<>>
    BY <1>2 DEF BodyLoop
  <1>5. ASSUME pc' = "upgrade", Plain(cur)
        PROVE  body_bin' = BodyOf(cur)
    <2>1. CASE ContentLength(cur) = 0
      <3>1. body_bin' = <<>>
        BY <2>1, <1>2 DEF BodyLoop
      <3>2. QED  BY <3>1, <2>1, <1>2, <1>3, <1>5, NoBody
    <2>2. CASE ContentLength(cur) > 0
      <3>1. body_bin' = Body /\ Len(buf) - hdr(cur) >= ContentLength(cur)
        BY <2>2, <1>5 DEF BodyLoop
      <3>2. hdr(cur) + reqs[cur].body <= Len(buf)
        BY <3>1, <1>2, <1>3, <1>5, BaseFacts
      <3>3. QED  BY <3>1, <3>2, <1>2, <1>3, <1>5, BodyFound
    <2>3. QED  BY <2>1, <2>2, <1>2
  <1>6. QED
    BY <1>1, <1>3, <1>4, <1>5
       DEF BodyInv, Plain, BodyOf, hdr, BetweenRequests, InRequest, BodyLength,
           BodyChunks, BodyReady

LEMMA BodyStep ==
    ASSUME BaseInv, BodyInv, [Next]_vars
    PROVE  BodyInv'
  <1> USE DEF clientVars, parseVars
  <1> DEFINE Places == /\ BetweenRequests = {"connect", "recv_first", "recv_header",
                                             "parse"}
                       /\ BodyLength = {"body", "recv_body", "recv_stale"}
                       /\ BodyReady = {"upgrade", "switch", "websocket", "dispatch"}
                       /\ InRequest = {"header", "connection"} \cup BodyLength
                             \cup {"chunk", "recv_chunk", "chunk_again"} \cup BodyReady
  <1>0. Places
    BY DEF BetweenRequests, InRequest, BodyLength, BodyChunks, BodyReady
  <1>1. ASSUME UNCHANGED <<reqs, buf, cur, body_bin>>,
               \/ pc' = pc
               \/ pc \in InRequest /\ pc' \notin BetweenRequests
                    /\ (pc' \in {"header", "connection"} \cup BodyLength
                           => pc \in {"header", "connection"} \cup BodyLength)
                    /\ (pc' \in BodyReady => pc \in BodyReady)
               \/ pc \in BetweenRequests /\ pc' \in BetweenRequests
               \/ pc' \notin BetweenRequests \cup InRequest
        PROVE  BodyInv'
    BY <1>0, <1>1 DEF BodyInv, Plain, BodyOf, hdr
  <1>2. CASE MoveStep
    <2>1. pc \in InRequest => buf # <<>>
      <3>1. pc \in InRequest => Len(buf) > 0
        BY BaseFacts DEF BaseInv, PlaceInv
      <3>2. QED  BY <3>1, BaseFacts, EmptySeq
    <2>2. \/ pc' = pc
          \/ pc \in BetweenRequests /\ pc' \in BetweenRequests
          \/ pc' \notin BetweenRequests \cup InRequest
      BY <1>0, <1>2, <2>1, MoveFacts
    <2>3. QED  BY <2>2, <1>1, <1>2, MoveFacts
  <1>3. ASSUME NEW q \in Kinds, SendRequest(q)
        PROVE  BodyInv'
    <2>1. reqs' = Append(reqs, q) /\ UNCHANGED <<pc, buf, cur, body_bin>>
      BY <1>3 DEF SendRequest
    <2>2. cur # 0 => reqs'[cur] = reqs[cur]
      BY <2>1, BaseFacts, AppendProperties
    <2>3. pc \in InRequest => cur # 0
      BY DEF BaseInv, PlaceInv
    <2>4. QED
      BY <1>0, <2>1, <2>2, <2>3 DEF BodyInv, Plain, BodyOf, hdr
  <1>4. CASE Recv
    <2>1. PICK k \in 1..Len(inbox) : \/ buf' = buf \o First(inbox, k)
                                     \/ pc = "recv_stale" /\ buf' = buf \o Junk(k)
      BY <1>4, RecvFacts
    <2>2. /\ UNCHANGED <<reqs, cur, body_bin>>
          /\ \/ pc \in {"recv_body", "recv_stale"} /\ pc' = "body"
             \/ pc = "recv_chunk" /\ pc' = "chunk_again"
             \/ pc \in BetweenRequests /\ pc' \in BetweenRequests
      BY <1>4 DEF Recv, Receiving, Resume, BetweenRequests
    <2>3. pc \in InRequest /\ pc # "recv_stale" => buf'[1] = buf[1]
      <3> SUFFICES ASSUME pc \in InRequest, pc # "recv_stale" PROVE buf'[1] = buf[1]
        OBVIOUS
      <3>1. 1 \in 1..Len(buf)
        BY BaseFacts DEF BaseInv, PlaceInv
      <3>2. k \in 0..Len(inbox) /\ First(inbox, k) \in Seq(Token)
        BY BaseFacts, CutFacts
      <3>3. QED  BY <3>1, <3>2, <2>1, BaseFacts, JoinFacts
    <2>4. pc = "recv_stale" => ~Plain(cur)
      BY DEF BaseInv, PlaceInv, Plain
    <2>5. QED
      BY <1>0, <2>2, <2>3, <2>4 DEF BodyInv, Plain, BodyOf, hdr
  <1>5. CASE ParseHeader
    <2>1. /\ pc = "parse"
          /\ \/ pc' = "header" /\ HasHeader /\ cur' = buf[1][1]
             \/ pc' \in {"recv_header", "recv_zero_err"}
          /\ UNCHANGED <<reqs, buf, body_bin>>
      BY <1>5 DEF ParseHeader, ParseResults
    <2>2. pc' = "header" => buf'[1] = <<cur', 1>>
      <3>1. buf[1] \in Token
        BY <2>1, ParseFacts
      <3>2. QED  BY <3>1, <2>1 DEF HasHeader, Started, Token
    <2>3. QED
      BY <1>0, <2>1, <2>2 DEF BodyInv
  <1>6. CASE OnHeader \/ ConnectionField \/ Upgrade \/ SwitchProtocols \/ OnBody \/ OnClose
    <2>1. UNCHANGED <<reqs, buf, cur, body_bin>>
      BY <1>6 DEF OnHeader, ConnectionField, Upgrade, SwitchProtocols, OnBody, OnClose
    <2>2. \/ pc = "header" /\ pc' = "connection"
          \/ pc = "connection" /\ pc' \in {"closed", "body"}
          \/ pc = "upgrade" /\ pc' \in {"switch", "closed", "dispatch"}
          \/ pc = "switch" /\ pc' = "websocket"
          \/ pc = "dispatch" /\ pc' = "next"
          \/ pc = "end" /\ pc' = "destroy"
      BY <1>6 DEF OnHeader, ConnectionField, Upgrade, SwitchProtocols, OnBody, OnClose
    <2>3. QED  BY <1>0, <1>1, <2>1, <2>2
  <1>7. CASE BodyLoop
    BY <1>7, BodyLoopBody
  <1>8. CASE ChunkLoop
    <2>1. pc \in BodyChunks /\ UNCHANGED <<reqs, cur>>
      BY <1>8 DEF ChunkLoop, BodyChunks
    <2>2. ~Plain(cur)
      BY <2>1 DEF BaseInv, PlaceInv, Plain
    <2>3. pc' \in {"chunk_err", "upgrade", "recv_chunk"}
      BY <1>8, ChunkFacts DEF ChunkError, ChunkDone, ChunkMore
    <2>4. QED  BY <1>0, <2>1, <2>2, <2>3 DEF BodyInv, Plain
  <1>9. CASE NextRequest
    BY <1>0, <1>9 DEF NextRequest, BodyInv
  <1>10. CASE Transmit \/ TransmitFails \/ UNCHANGED vars
    <2>1. UNCHANGED <<reqs, buf, cur, body_bin, pc>>
      BY <1>10 DEF Transmit, TransmitFails, vars
    <2>2. QED  BY <2>1, <1>1
  <1>11. QED
    BY <1>2, <1>3, <1>4, <1>5, <1>6, <1>7, <1>8, <1>9, <1>10
       DEF Next, HandlerNext, MoveStep

LEMMA PlainBodiesStep ==
    ASSUME BaseInv, BodyInv, PlainBodies, [Next]_vars
    PROVE  PlainBodies'
  <1> USE DEF clientVars, Plain, BodyOf, hdr
  <1>1. CASE UNCHANGED <<reqs, dispatched>>
    BY <1>1 DEF PlainBodies
  <1>2. ASSUME NEW q \in Kinds, SendRequest(q)
        PROVE  PlainBodies'
    <2>1. reqs' = Append(reqs, q) /\ dispatched' = dispatched
      BY <1>2 DEF SendRequest
    <2>2. \A n \in 1..Len(reqs) : reqs'[n] = reqs[n]
      BY <2>1, BaseFacts, AppendProperties
    <2>3. QED  BY <2>1, <2>2, OrderTypes DEF PlainBodies
  <1>3. CASE OnBody
    <2> DEFINE d == [req |-> cur, body |-> body_bin]
               R == [req : 1..Len(reqs), body : Seq(Token)]
    <2>1. /\ pc = "dispatch" /\ reqs' = reqs
          /\ dispatched' = Append(dispatched, d) \/ dispatched' = dispatched
      BY <1>3 DEF OnBody
    <2>2. d.req = cur /\ d.body = body_bin /\ dispatched \in Seq(R)
      BY DEF BaseInv, TypeOK
    <2>3. Plain(cur) => body_bin = BodyOf(cur)
      BY <2>1 DEF BodyInv, BodyReady
    <2> HIDE DEF d, R
    <2>4. /\ Len(Append(dispatched, d)) = Len(dispatched) + 1
          /\ \A i \in 1..Len(dispatched) : Append(dispatched, d)[i] = dispatched[i]
          /\ Append(dispatched, d)[Len(dispatched) + 1] = d
      BY <2>2, AppendProperties
    <2>5. \A i \in 1..Len(dispatched') :
             \/ i \in 1..Len(dispatched) /\ dispatched'[i] = dispatched[i]
             \/ dispatched'[i] = d /\ dispatched' = Append(dispatched, d)
      BY <2>1, <2>4, OrderTypes
    <2>6. ASSUME NEW i \in 1..Len(dispatched'), Plain(dispatched'[i].req)
          PROVE  dispatched'[i].body = BodyOf(dispatched'[i].req)
      <3>1. CASE i \in 1..Len(dispatched) /\ dispatched'[i] = dispatched[i]
        BY <3>1, <2>6 DEF PlainBodies
      <3>2. CASE dispatched'[i] = d
        BY <3>2, <2>2, <2>3, <2>6
      <3>3. QED  BY <3>1, <3>2, <2>5
    <2>7. QED  BY <2>1, <2>6 DEF PlainBodies
  <1>4. \/ UNCHANGED <<reqs, dispatched>>
        \/ \E q \in Kinds : SendRequest(q)
        \/ OnBody
    <2>1. CASE MoveStep
      BY <2>1, MoveFacts
    <2>2. CASE Recv \/ ParseHeader \/ OnHeader \/ ConnectionField \/ BodyLoop \/ ChunkLoop
      BY <2>2 DEF Recv, ParseHeader, OnHeader, ConnectionField, BodyLoop, ChunkLoop
    <2>3. CASE Upgrade \/ SwitchProtocols \/ NextRequest \/ OnClose
      BY <2>3 DEF Upgrade, SwitchProtocols, NextRequest, OnClose
    <2>4. CASE Transmit \/ TransmitFails \/ UNCHANGED vars
      BY <2>4 DEF Transmit, TransmitFails, vars
    <2>5. QED
      BY <2>1, <2>2, <2>3, <2>4 DEF Next, HandlerNext, MoveStep
  <1>5. QED  BY <1>1, <1>2, <1>3, <1>4

(* The callbacks of a request that is neither chunked nor larger than the   *)
(* buffer get its body, whatever was sent before it: web.cc, on_connection. *)
THEOREM PlainBodiesCorrect == Spec => []PlainBodies
  <1>1. Init => BodyInv /\ PlainBodies
    <2>1. \A S : <<>> \in Seq(S) /\ Len(<<>>) = 0
      BY EmptySeq
    <2>2. QED
      BY <2>1 DEF Init, BodyInv, PlainBodies, InRequest, BodyLength, BodyChunks, BodyReady
  <1>2. BaseInv /\ BodyInv /\ [Next]_vars => BodyInv'
    BY BodyStep
  <1>3. BaseInv /\ BodyInv /\ PlainBodies /\ [Next]_vars => PlainBodies'
    BY PlainBodiesStep
  <1>4. QED  BY <1>1, <1>2, <1>3, BaseInit, BaseStep, PTL DEF Spec

(* So all bodies are right where no client sends the others, which the code *)
(* gets wrong: web.cc passes a stale address to recv for a large body and   *)
(* the wrong size to phr_decode_chunked.                                    *)
THEOREM BodiesCorrect ==
    ASSUME \A q \in Kinds : ~q.chunked /\ ~q.large
    PROVE  Spec => []BodyIntact
  <1>1. BaseInv /\ PlainBodies => BodyIntact
    <2> SUFFICES ASSUME BaseInv, PlainBodies, NEW i \in 1..Len(dispatched)
                 PROVE  dispatched[i].body = BodyOf(dispatched[i].req)
      BY DEF BodyIntact
    <2>1. dispatched[i].req \in 1..Len(reqs)
      BY OrderTypes
    <2>2. reqs[dispatched[i].req] \in Kinds
      BY <2>1, BaseFacts, ElementOfSeq
    <2>3. QED  BY <2>2 DEF PlainBodies, Plain
  <1>2. QED  BY <1>1, PlainBodiesCorrect, BaseInit, BaseStep, PTL DEF Spec

-----------------------------------------------------------------------------
(* The connection implements RequestService *)

(* The last request that was passed, if n were sent and S have their start  *)
(* ahead.                                                                   *)
IsPassed(p, n, S) == p \in 0..n /\ (\A m \in S : p < m) /\ (p < n => p + 1 \in S)
PassedOf(n, S) == CHOOSE p \in 0..n :
                     /\ \A m \in S : p < m
                     /\ p < n => p + 1 \in S

LEMMA PassedOfFacts ==
    ASSUME NEW n \in Nat, NEW S, S \subseteq 1..n
    PROVE  /\ IsPassed(PassedOf(n, S), n, S)
           /\ \A p : IsPassed(p, n, S) => p = PassedOf(n, S)
  <1>1. \E p \in 0..n : IsPassed(p, n, S)
    <2>1. CASE S = {}
      <3>1. IsPassed(n, n, S)
        BY <2>1 DEF IsPassed
      <3>2. QED  BY <3>1
    <2>2. CASE S # {}
      <3>0. S \subseteq Nat
        OBVIOUS
      <3>1. PICK m \in S : \A k \in S : m <= k
        BY <2>2, <3>0, LeastOf
      <3>2. IsPassed(m - 1, n, S)
        BY <3>1 DEF IsPassed
      <3>3. QED  BY <3>1, <3>2
    <2>3. QED  BY <2>1, <2>2
  <1>2. IsPassed(PassedOf(n, S), n, S)
    BY <1>1 DEF IsPassed, PassedOf
  <1>3. ASSUME NEW p, NEW q, IsPassed(p, n, S), IsPassed(q, n, S), p < q PROVE FALSE
    BY <1>3 DEF IsPassed
  <1>4. ASSUME NEW p, IsPassed(p, n, S) PROVE p = PassedOf(n, S)
    <2> DEFINE q == PassedOf(n, S)
    <2>1. IsPassed(q, n, S)
      BY <1>2
    <2> HIDE DEF q
    <2>2. p \in Nat /\ q \in Nat /\ ~(p < q) /\ ~(q < p)
      BY <2>1, <1>3, <1>4 DEF IsPassed
    <2>3. QED  BY <2>2 DEF q
  <1>5. QED  BY <1>2, <1>4

LEMMA PassedFacts ==
    ASSUME BaseInv
    PROVE  /\ cur # 0 => Passed = cur
           /\ cur = 0 => IsPassed(Passed, Len(reqs), Starts)
           /\ Passed \in 0..Len(reqs)
  <1>1. Len(reqs) \in Nat /\ cur \in 0..Len(reqs)
    BY BaseFacts
  <1>2. Starts \subseteq 1..Len(reqs)
    BY DEF Starts
  <1>3. IsPassed(PassedOf(Len(reqs), Starts), Len(reqs), Starts)
    BY <1>1, <1>2, PassedOfFacts
  <1>4. Passed = IF cur # 0 THEN cur ELSE PassedOf(Len(reqs), Starts)
    BY DEF Passed, PassedOf
  <1>5. QED  BY <1>1, <1>3, <1>4 DEF IsPassed

(* What is passed stays passed as long as no start is taken away. *)
LEMMA PassedSame ==
    ASSUME reqs' = reqs, cur' = cur, cur # 0 \/ Ahead' = Ahead
    PROVE  Passed' = Passed
  <1>1. Passed = IF cur # 0 THEN cur ELSE PassedOf(Len(reqs), Starts)
    BY DEF Passed, PassedOf
  <1>2. Passed' = IF cur' # 0 THEN cur' ELSE PassedOf(Len(reqs'), Starts')
    BY DEF Passed, PassedOf
  <1>3. cur = 0 => Starts' = Starts
    BY DEF Starts
  <1>4. QED  BY <1>1, <1>2, <1>3

(* Behind the header of a request with a route, its callbacks are there;   *)
(* behind its dispatch it is still the current one.                         *)
ReadyInv == /\ pc \in InRequest \ {"header"} /\ route_ok => vec # 0
            /\ pc = "next" => cur # 0

LEMMA ReadyStep ==
    ASSUME BaseInv, ReadyInv, [Next]_vars
    PROVE  ReadyInv'
  <1> USE DEF ReadyInv, InRequest, BodyLength, BodyChunks, BodyReady
  <1>1. CASE MoveStep
    <2>1. UNCHANGED <<parseVars, vecVars>>
      BY <1>1, MoveFacts
    <2>2. pc' \in InRequest \cup {"next"} => pc' = pc
      BY <1>1, MoveFacts
    <2>3. QED  BY <2>1, <2>2 DEF parseVars, vecVars
  <1>2. CASE Recv
    <2>1. /\ UNCHANGED <<route_ok, vec>>
          /\ \/ pc \in {"recv_body", "recv_stale", "recv_chunk"}
             \/ pc' \in {"recv_header", "parse"}
          /\ pc' # "next"
      BY <1>2 DEF Recv, Receiving, Resume, vecVars
    <2>2. QED  BY <2>1
  <1>3. CASE ParseHeader
    <2>1. pc' \in {"header", "recv_header", "recv_zero_err"}
      BY <1>3 DEF ParseHeader, ParseResults
    <2>2. QED  BY <2>1
  <1>4. CASE OnHeader
    <2>1. cur # 0
      BY <1>4 DEF OnHeader, BaseInv, PlaceInv
    <2>2. QED  BY <2>1, <1>4 DEF OnHeader
  <1>5. CASE ConnectionField \/ BodyLoop \/ SwitchProtocols \/ Upgrade
    BY <1>5 DEF ConnectionField, BodyLoop, SwitchProtocols, Upgrade, vecVars, parseVars
  <1>6. CASE ChunkLoop
    <2>1. /\ pc \in BodyChunks /\ UNCHANGED <<route_ok, vec>>
          /\ pc' \in {"chunk_err", "upgrade", "recv_chunk"}
      BY <1>6, ChunkFacts DEF ChunkLoop, vecVars, ChunkError, ChunkDone, ChunkMore
    <2>2. QED  BY <2>1
  <1>7. CASE OnBody \/ NextRequest \/ OnClose
    BY <1>7 DEF OnBody, NextRequest, OnClose, BaseInv, PlaceInv, parseVars
  <1>8. CASE \/ \E q \in Kinds : SendRequest(q)
             \/ Transmit \/ TransmitFails \/ UNCHANGED vars
    BY <1>8 DEF SendRequest, Transmit, TransmitFails, vars, vecVars, parseVars
  <1>9. QED
    BY <1>1, <1>2, <1>3, <1>4, <1>5, <1>6, <1>7, <1>8 DEF Next, HandlerNext, MoveStep

-----------------------------------------------------------------------------
(* One lemma per kind of step. *)

Allowed == [Service!Next]_(Service!serviceVars)

(* A step that leaves requests, replies and dispatches alone is none of the *)
(* service, or one phase of it follows another.                             *)
LEMMA PhaseStep ==
    ASSUME UNCHANGED <<reqs, cur, dispatched, chanVars>>,
           cur # 0 \/ Ahead' = Ahead, HasReply' = HasReply,
           \/ Phase' = Phase
           \/ Phase = "new" /\ Phase' \in {"serving", "ending"}
           \/ Phase = "serving" /\ Phase' = "ending"
           \/ Phase = "ending" /\ Phase' = "over"
    PROVE  Allowed
  <1>1. Passed' = Passed
    BY PassedSame
  <1>2. UNCHANGED <<Len(reqs), cur, Passed, HasReply, Handled, queue, wire, status>>
    BY <1>1 DEF Handled, chanVars
  <1>3. QED
    BY <1>2 DEF Allowed, Service!Next, Service!Open, Service!End, Service!Over,
                Service!serviceVars, Service!requestVars, Service!chanVars

LEMMA MoveAllowed ==
    ASSUME BaseInv, MoveStep
    PROVE  Allowed
  <1>1. UNCHANGED <<reqs, inbox, parseVars, chanVars, dispatched>>
    BY MoveFacts
  <1>2. pc \in InRequest => buf # <<>>
    <2>1. pc \in InRequest => Len(buf) > 0
      BY BaseFacts DEF BaseInv, PlaceInv
    <2>2. QED  BY <2>1, BaseFacts, EmptySeq
  <1>3. \/ pc' = pc
        \/ pc = "connect" /\ pc' = "recv_first"
        \/ pc = "recv_header" /\ pc' = "recv_first"
        \/ pc = "websocket" /\ pc' = "closed"
        \/ pc = "closed" /\ pc' = "end"
        \/ /\ pc' \in {"closed", "end", "idle_err", "header_too_long_err",
                       "recv_err", "recv_zero_err", "reset_conn"}
           /\ pc \notin {"header", "connection", "next", "done"}
        \/ pc \in {"destroy", "set", "wait"} /\ pc' \in {"set", "wait", "done"}
    BY <1>2, MoveFacts
  <1>4. \/ Phase' = Phase
        \/ Phase = "new" /\ Phase' \in {"serving", "ending"}
        \/ Phase = "serving" /\ Phase' = "ending"
        \/ Phase = "ending" /\ Phase' = "over"
    BY <1>3 DEF Phase
  <1>5. HasReply' = HasReply
    BY <1>1, <1>3 DEF HasReply, parseVars
  <1>6. Ahead' = Ahead
    BY <1>1 DEF Ahead, parseVars
  <1>7. QED  BY <1>1, <1>4, <1>5, <1>6, PhaseStep DEF parseVars

(* Steps within a request, or that wait for one, that do not reply. *)
LEMMA WithinAllowed ==
    ASSUME BaseInv, Recv \/ OnHeader \/ BodyLoop \/ ChunkLoop \/ Upgrade \/ OnClose
    PROVE  Allowed
  <1> USE DEF clientVars, parseVars, chanVars
  <1>1. ASSUME UNCHANGED <<reqs, cur, dispatched, chanVars, route_ok, keep_alive>>,
               cur # 0 \/ Ahead' = Ahead,
               pc \in Pcs \ {"header", "connection", "next", "connect", "done"},
               pc' \in Pcs \ {"header", "connection", "next", "connect", "done"},
               Phase = "ending" => Phase' = "ending"
        PROVE  Allowed
    <2>1. HasReply' = HasReply
      BY <1>1 DEF HasReply
    <2>2. Phase \in {"serving", "ending"} /\ Phase' \in {"serving", "ending"}
      BY <1>1 DEF Phase
    <2>3. QED  BY <1>1, <2>1, <2>2, PhaseStep
  <1>2. CASE Recv
    <2>1. cur # 0 \/ Ahead' = Ahead
      <3>1. PICK k \in 1..Len(inbox) :
                 /\ inbox' = Drop(inbox, k)
                 /\ \/ buf' = buf \o First(inbox, k)
                    \/ pc = "recv_stale" /\ buf' = buf \o Junk(k)
        BY <1>2, RecvFacts
      <3>2. cur = 0 => pc # "recv_stale"
        BY DEF BaseInv, PlaceInv, InRequest, BodyLength
      <3>3. (buf \o First(inbox, k)) \o Drop(inbox, k) = buf \o inbox
        BY BaseFacts, CutMove
      <3>4. cur' = cur
        BY <1>2 DEF Recv
      <3>5. QED  BY <3>1, <3>2, <3>3, <3>4 DEF Ahead
    <2>2. UNCHANGED <<reqs, cur, dispatched, chanVars, route_ok, keep_alive>>
      BY <1>2 DEF Recv
    <2>3. /\ pc \in {"recv_first", "recv_header", "recv_body", "recv_stale", "recv_chunk"}
          /\ pc' \in {"recv_header", "parse", "body", "chunk_again"}
      BY <1>2 DEF Recv, Receiving, Resume
    <2>4. Phase = "serving"
      BY <2>3 DEF Phase
    <2>5. QED  BY <1>1, <2>1, <2>2, <2>3, <2>4 DEF Pcs
  <1>3. CASE OnHeader
    <2>1. /\ UNCHANGED <<reqs, inbox, buf, cur, dispatched, chanVars>>
          /\ pc = "header" /\ pc' = "connection"
      BY <1>3 DEF OnHeader
    <2>2. HasReply' = HasReply /\ Phase' = Phase /\ Ahead' = Ahead
      BY <2>1 DEF HasReply, Phase, Ahead
    <2>3. QED  BY <2>1, <2>2, PhaseStep
  <1>4. CASE BodyLoop
    <2>1. /\ UNCHANGED <<reqs, inbox, buf, cur, dispatched, chanVars, route_ok, keep_alive>>
          /\ pc = "body" /\ pc' \in {"recv_stale", "recv_body", "chunk", "upgrade"}
      BY <1>4 DEF BodyLoop
    <2>2. Phase = "serving" /\ Ahead' = Ahead
      BY <2>1 DEF Phase, Ahead
    <2>3. QED  BY <1>1, <2>1, <2>2 DEF Pcs
  <1>5. CASE ChunkLoop
    <2>1. /\ UNCHANGED <<reqs, cur, dispatched, chanVars, route_ok, keep_alive>>
          /\ pc \in {"chunk", "chunk_again"}
      BY <1>5 DEF ChunkLoop
    <2>2. pc' \in {"chunk_err", "upgrade", "recv_chunk"}
      BY <1>5, ChunkFacts DEF ChunkError, ChunkDone, ChunkMore
    <2>3. Phase = "serving" /\ cur # 0
      BY <2>1 DEF Phase, BaseInv, PlaceInv, InRequest, BodyChunks
    <2>4. QED  BY <1>1, <2>1, <2>2, <2>3 DEF Pcs
  <1>6. CASE Upgrade
    <2>1. /\ UNCHANGED <<reqs, inbox, buf, cur, dispatched, chanVars, route_ok, keep_alive>>
          /\ pc = "upgrade" /\ pc' \in {"switch", "closed", "dispatch"}
      BY <1>6 DEF Upgrade
    <2>2. Phase = "serving" /\ Ahead' = Ahead
      BY <2>1 DEF Phase, Ahead
    <2>3. QED  BY <1>1, <2>1, <2>2 DEF Pcs
  <1>7. CASE OnClose
    <2>1. /\ UNCHANGED <<reqs, inbox, buf, cur, dispatched, chanVars, route_ok, keep_alive>>
          /\ pc = "end" /\ pc' = "destroy"
      BY <1>7 DEF OnClose
    <2>2. Phase' = "ending" /\ Ahead' = Ahead
      BY <2>1 DEF Phase, Ahead
    <2>3. QED  BY <1>1, <2>1, <2>2 DEF Pcs
  <1>8. QED  BY <1>2, <1>3, <1>4, <1>5, <1>6, <1>7

(* A header is found at the start that is next: its request is taken. *)
LEMMA ParseAllowed ==
    ASSUME BaseInv, OrderInv, ParseHeader
    PROVE  Allowed
  <1>1. /\ pc = "parse"
        /\ \/ pc' = "header" /\ HasHeader /\ cur' = buf[1][1]
           \/ pc' \in {"recv_header", "recv_zero_err"} /\ cur' = 0
        /\ UNCHANGED <<reqs, inbox, buf, dispatched, chanVars, keep_alive, route_ok>>
    BY DEF ParseHeader, ParseResults, clientVars
  <1>2. /\ cur = 0 /\ Len(buf) > 0 /\ buf[1] \in Token /\ buf[1][1] \in 1..Len(reqs)
        /\ Phase = "serving" /\ HasReply = FALSE
    BY <1>1, ParseFacts DEF Phase, HasReply
  <1>3. CASE cur' = 0
    <2>1. HasReply' = FALSE /\ Ahead' = Ahead
      BY <1>1, <1>2, <1>3 DEF HasReply, Ahead
    <2>2. Phase' \in {"serving", "ending"}
      BY <1>1, <1>2, <1>3, BaseFacts DEF Phase
    <2>3. QED  BY <1>1, <1>2, <1>3, <2>1, <2>2, PhaseStep
  <1>4. CASE pc' = "header" /\ HasHeader /\ cur' = buf[1][1]
    <2> DEFINE n == buf[1][1]
    <2>1. /\ Len(Ahead) = Len(buf) + Len(inbox)
          /\ \A i \in 1..Len(buf) : Ahead[i] = buf[i]
      BY <1>2, BaseFacts, JoinFacts DEF Ahead
    <2>2. 1 \in 1..Len(Ahead) /\ Ahead[1] = buf[1] /\ Ahead[1][2] = 1
      BY <2>1, <1>2, <1>4, BaseFacts DEF HasHeader, Started
    <2>3. buf[1] = <<n, 1>>
      BY <2>2, <1>2 DEF Token
    <2>4. n \in Starts
      BY <2>2, <2>3, <1>2 DEF Starts
    <2>5. \A m \in Starts : n <= m
      <3> SUFFICES ASSUME NEW m \in Starts PROVE n <= m
        OBVIOUS
      <3>1. PICK i \in 1..Len(Ahead) : Ahead[i] = <<m, 1>>
        BY DEF Starts
      <3>2. m \in 1..Len(reqs) /\ n \in 1..Len(reqs)
        BY <1>2 DEF Starts
      <3>3. CASE i = 1
        BY <3>1, <3>2, <3>3, <2>2
      <3>4. CASE i # 1
        <4>1. 1 < i
          BY <3>4, <2>1, BaseFacts
        <4>2. Ahead[i][2] = 1 /\ Ahead[i][1] = m
          BY <3>1
        <4>3. Ahead[1][1] < Ahead[i][1]
          BY <4>1, <4>2, <2>2 DEF OrderInv, StartsInOrder
        <4>4. QED  BY <4>2, <4>3, <2>2, <3>2
      <3>5. QED  BY <3>3, <3>4
    <2>6. Len(reqs) \in Nat /\ IsPassed(Passed, Len(reqs), Starts)
      BY <1>2, BaseFacts, PassedFacts
    <2>7. n \in 1..Len(reqs)
      BY <1>2
    <2> HIDE DEF n
    <2>8. Passed = n - 1
      BY <2>4, <2>5, <2>6, <2>7 DEF IsPassed
    <2>9. cur' = n /\ Passed' = n /\ HasReply' = FALSE /\ Phase' = "serving"
      BY <1>4, <2>7 DEF n, Passed, HasReply, Phase
    <2>10. Service!Take
      <3>1. UNCHANGED <<Len(reqs), Handled, queue, wire, status>>
        BY <1>1 DEF Handled, chanVars
      <3>2. Passed < Len(reqs) /\ cur' = Passed + 1 /\ Passed' = Passed + 1
        BY <2>6, <2>7, <2>8, <2>9
      <3>3. QED  BY <1>2, <2>9, <3>1, <3>2 DEF Service!Take, Service!chanVars
    <2>11. QED  BY <2>10 DEF Allowed, Service!Next
  <1>5. QED  BY <1>1, <1>3, <1>4

(* The 404 of a request without a route. *)
LEMMA ConnectionFieldAllowed ==
    ASSUME BaseInv, ConnectionField
    PROVE  Allowed
  <1>1. /\ pc = "connection" /\ pc' \in {"closed", "body"}
        /\ UNCHANGED <<reqs, inbox, buf, cur, route_ok, dispatched>>
        /\ \/ /\ ~route_ok /\ keep_alive' /\ pc' = "body"
              /\ Channel!Submit(<<cur, "404">>)
           \/ (route_ok \/ ~keep_alive') /\ UNCHANGED chanVars
        /\ keep_alive' \in BOOLEAN /\ route_ok \in BOOLEAN
    BY DEF ConnectionField, Reply404, clientVars, BaseInv, TypeOK
  <1>2. cur # 0 /\ Phase = "serving" /\ HasReply = FALSE
    BY <1>1 DEF BaseInv, PlaceInv, InRequest, Phase, HasReply
  <1>3. Phase' = IF pc' = "closed" THEN "ending" ELSE "serving"
    BY <1>1 DEF Phase
  <1>4. CASE UNCHANGED chanVars /\ (route_ok \/ ~keep_alive')
    <2>1. HasReply' = FALSE
      BY <1>1, <1>2, <1>4 DEF HasReply
    <2>2. QED  BY <1>1, <1>2, <1>3, <1>4, <2>1, PhaseStep
  <1>5. CASE ~route_ok /\ keep_alive' /\ pc' = "body" /\ Channel!Submit(<<cur, "404">>)
    <2>1. HasReply' = TRUE /\ Phase' = Phase
      BY <1>1, <1>2, <1>3, <1>5 DEF HasReply
    <2>2. UNCHANGED <<Len(reqs), cur, Passed, Handled>>
      BY <1>1, <1>2, PassedSame DEF Handled
    <2>3. Service!Submit(<<cur, "404">>)
      BY <1>5 DEF Channel!Submit, Service!Submit
    <2>4. Service!Respond("404")
      BY <1>2, <2>1, <2>2, <2>3 DEF Service!Respond
    <2>5. QED  BY <2>4 DEF Allowed, Service!Next
  <1>6. QED  BY <1>1, <1>4, <1>5

LEMMA SwitchAllowed ==
    ASSUME BaseInv, SwitchProtocols
    PROVE  Allowed
  <1>1. /\ pc = "switch" /\ pc' = "websocket"
        /\ UNCHANGED <<reqs, inbox, buf, cur, route_ok, keep_alive, dispatched, queue>>
        /\ \/ status = "up" /\ wire' = Append(wire, <<cur, "101">>) /\ UNCHANGED status
           \/ status' = "down" /\ UNCHANGED wire
    BY DEF SwitchProtocols, clientVars, parseVars
  <1>2. cur # 0 /\ Phase = "serving" /\ Phase' = "ending" /\ HasReply' = HasReply
    BY <1>1 DEF BaseInv, PlaceInv, InRequest, BodyReady, Phase, HasReply
  <1>3. UNCHANGED <<Len(reqs), cur, Passed, Handled, queue>>
    BY <1>1, <1>2, PassedSame DEF Handled
  <1>4. Service!Switch
    BY <1>1, <1>2, <1>3 DEF Service!Switch, Service!requestVars
  <1>5. QED  BY <1>4 DEF Allowed, Service!Next

(* The dispatch of the current request is the last there is. *)
LEMMA HandledAppend ==
    ASSUME BaseInv, NEW b, dispatched' = Append(dispatched, [req |-> cur, body |-> b])
    PROVE  Handled' = Append(Handled, cur)
  <1> DEFINE R == [req : 1..Len(reqs), body : Seq(Token)]
             d == [req |-> cur, body |-> b]
             n == Len(dispatched)
             h == [i \in 1..n |-> dispatched[i].req]
             a == Append(h, cur)
             g == [i \in 1..(n + 1) |-> dispatched'[i].req]
  <1>1. dispatched \in Seq(R) /\ d.req = cur
    BY DEF BaseInv, TypeOK
  <1> HIDE DEF R
  <1>2. n \in Nat
    BY <1>1, LenProperties
  <1>3. /\ Len(dispatched') = n + 1 /\ dispatched'[n + 1] = d
        /\ \A i \in 1..n : dispatched'[i] = dispatched[i]
    <2> HIDE DEF d
    <2>1. QED  BY <1>1, AppendProperties DEF d
  <1> DEFINE T == {dispatched[i].req : i \in 1..n} \cup {cur}
  <1>4. h \in Seq(T) /\ Len(h) = n
    <2> HIDE DEF n
    <2>1. QED  BY <1>2
  <1>5. \A i \in 1..n : h[i] = dispatched[i].req
    OBVIOUS
  <1>6. /\ a \in Seq(T) /\ Len(a) = n + 1 /\ a[n + 1] = cur
        /\ \A i \in 1..n : a[i] = h[i]
    <2>1. cur \in T
      OBVIOUS
    <2> HIDE DEF n, h, T
    <2>2. QED  BY <2>1, <1>4, AppendProperties
  <1>7. a = [i \in 1..(n + 1) |-> a[i]]
    <2> HIDE DEF n, a, T
    <2>1. QED  BY <1>2, <1>6
  <1>8. \A i \in 1..(n + 1) : g[i] = a[i]
    <2> SUFFICES ASSUME NEW i \in 1..(n + 1) PROVE dispatched'[i].req = a[i]
      OBVIOUS
    <2> HIDE DEF a, h, d
    <2>1. CASE i = n + 1
      BY <2>1, <1>1, <1>3, <1>6
    <2>2. CASE i # n + 1
      <3>1. i \in 1..n
        BY <2>2, <1>2
      <3>2. QED  BY <3>1, <1>3, <1>5, <1>6
    <2>3. QED  BY <2>1, <2>2
  <1>9. g = a
    <2> HIDE DEF a
    <2>1. g = [i \in 1..(n + 1) |-> a[i]]
      BY <1>8
    <2>2. QED  BY <2>1, <1>7
  <1>10. Handled' = g
    BY <1>3 DEF Handled
  <1>11. QED  BY <1>9, <1>10 DEF Handled

LEMMA OnBodyAllowed ==
    ASSUME BaseInv, ReadyInv, OnBody
    PROVE  Allowed
  <1> DEFINE d == [req |-> cur, body |-> body_bin]
  <1>1. /\ pc = "dispatch" /\ pc' = "next"
        /\ UNCHANGED <<reqs, inbox, buf, cur, route_ok, keep_alive>>
        /\ IF route_ok /\ vec # 0
           THEN /\ dispatched' = Append(dispatched, d) \/ dispatched' = dispatched
                /\ Channel!Submit(<<cur, "200">>)
           ELSE UNCHANGED <<dispatched, chanVars>>
    BY DEF OnBody, clientVars, parseVars
  <1>2. /\ cur # 0 /\ Phase = "serving" /\ Phase' = "serving"
        /\ route_ok => vec # 0
        /\ route_ok \in BOOLEAN /\ keep_alive \in BOOLEAN
    BY <1>1 DEF BaseInv, TypeOK, PlaceInv, ReadyInv, InRequest, BodyReady, Phase
  <1>3. CASE ~route_ok
    <2>1. HasReply' = HasReply
      BY <1>1, <1>3 DEF HasReply
    <2>2. QED  BY <1>1, <1>2, <1>3, <2>1, PhaseStep
  <1>4. CASE route_ok
    <2>1. HasReply = FALSE /\ HasReply' = TRUE
      BY <1>1, <1>2, <1>4 DEF HasReply
    <2>2. UNCHANGED <<Len(reqs), cur, Passed>>
      BY <1>1, <1>2, PassedSame
    <2>3. Service!Submit(<<cur, "200">>)
      BY <1>1, <1>2, <1>4 DEF Channel!Submit, Service!Submit
    <2>4. Handled' = Handled \/ Handled' = Append(Handled, cur)
      <3>1. CASE dispatched' = dispatched
        BY <3>1 DEF Handled
      <3>2. CASE dispatched' = Append(dispatched, d)
        BY <3>2, HandledAppend
      <3>3. QED  BY <3>1, <3>2, <1>1, <1>2, <1>4
    <2>5. Service!Respond("200")
      BY <1>2, <2>1, <2>2, <2>3, <2>4 DEF Service!Respond
    <2>6. QED  BY <2>5 DEF Allowed, Service!Next
  <1>5. QED  BY <1>2, <1>3, <1>4

(* The request is finished, and with it those whose starts were received.   *)
LEMMA NextRequestAllowed ==
    ASSUME BaseInv, OrderInv, ReadyInv, NextRequest
    PROVE  Allowed
  <1>1. /\ pc = "next" /\ pc' \in {"recv_header", "linger"}
        /\ cur' = 0 /\ buf' = <<>>
        /\ UNCHANGED <<reqs, inbox, dispatched, chanVars>>
    BY DEF NextRequest, Cleared, clientVars
  <1>2. Phase = "serving" /\ Phase' = "serving" /\ HasReply' = FALSE
    BY <1>1 DEF Phase, HasReply
  <1>3. Len(reqs) \in Nat /\ cur \in 0..Len(reqs)
    BY BaseFacts
  <1>4. cur # 0
    BY <1>1 DEF ReadyInv
  <1>5. Ahead = inbox /\ Ahead' = inbox
    BY <1>1, <1>4, BaseFacts, ConcatEmptySeq DEF Ahead
  <1>6. \A m \in Starts' : cur < m
    <2> SUFFICES ASSUME NEW m \in Starts' PROVE cur < m
      OBVIOUS
    <2>1. PICK i \in 1..Len(Ahead) : Ahead[i] = <<m, 1>>
      BY <1>1, <1>5 DEF Starts
    <2>2. Ahead[i][2] = 1 /\ Ahead[i][1] = m
      BY <2>1
    <2>3. QED  BY <2>2 DEF OrderInv, StartsFresh, Fresh
  <1>7. IsPassed(Passed', Len(reqs), Starts')
    <2>1. Starts' \subseteq 1..Len(reqs)
      BY <1>1 DEF Starts
    <2>2. Passed' = PassedOf(Len(reqs), Starts')
      BY <1>1 DEF Passed, PassedOf
    <2>3. QED  BY <2>1, <2>2, <1>3, PassedOfFacts
  <1>8. Passed' \in cur..Len(reqs)
    <2> DEFINE p == Passed'
               c == cur
    <2>1. p \in 0..Len(reqs) /\ (p < Len(reqs) => c < p + 1) /\ c \in 0..Len(reqs)
      BY <1>3, <1>6, <1>7 DEF IsPassed
    <2> HIDE DEF p, c
    <2>2. p \in c..Len(reqs)
      BY <2>1, <1>3
    <2>3. QED  BY <2>2 DEF p, c
  <1>9. Passed = cur
    BY <1>4, PassedFacts
  <1>10. Service!Finish
    <2>1. UNCHANGED <<Len(reqs), Handled, queue, wire, status>>
      BY <1>1 DEF Handled, chanVars
    <2>2. QED  BY <1>1, <1>2, <1>4, <1>8, <1>9, <2>1 DEF Service!Finish, Service!chanVars
  <1>11. QED  BY <1>10 DEF Allowed, Service!Next

LEMMA SenderAllowed ==
    ASSUME Transmit \/ TransmitFails
    PROVE  Allowed
  <1>1. /\ pc # "done"
        /\ UNCHANGED <<reqs, inbox, buf, cur, route_ok, keep_alive, dispatched, pc>>
        /\ \/ \E k \in 1..Len(queue) : Channel!Transmit(k)
           \/ \E j \in 1..Len(queue) : \E k \in 0..(j - 1) : Channel!Break(j, k)
           \/ UNCHANGED chanVars
    BY DEF Transmit, TransmitFails, Sending, clientVars, parseVars
  <1>2. Phase # "over" /\ Phase' = Phase /\ HasReply' = HasReply
    BY <1>1 DEF Phase, HasReply
  <1>3. UNCHANGED <<Len(reqs), cur, Passed, Handled>>
    BY <1>1, PassedSame DEF Handled, Ahead
  <1>4. /\ \A k : Channel!Transmit(k) => Service!Transmit(k)
        /\ \A j, k : Channel!Break(j, k) => Service!Break(j, k)
    BY DEF Channel!Transmit, Channel!Break, Channel!Rest,
           Service!Transmit, Service!Break, Service!Rest
  <1>5. CASE ~UNCHANGED chanVars
    <2>1. Service!Sender
      BY <1>1, <1>2, <1>3, <1>4, <1>5 DEF Service!Sender, Service!requestVars
    <2>2. QED  BY <2>1 DEF Allowed, Service!Next
  <1>6. CASE UNCHANGED chanVars
    BY <1>1, <1>2, <1>6, PhaseStep DEF Ahead
  <1>7. QED  BY <1>5, <1>6

LEMMA StartsGrow ==
    ASSUME BaseInv, NEW q \in Kinds, SendRequest(q)
    PROVE  Starts' = Starts \cup {Len(reqs) + 1}
  <1> DEFINE n == Len(reqs) + 1
             a == Len(Ahead)
  <1>1. /\ Len(reqs') = n /\ Len(reqs) \in Nat /\ a \in Nat
        /\ Len(Ahead') = a + SizeOf(q) /\ SizeOf(q) \in Nat \ {0}
        /\ \A i \in 1..Len(Ahead') :
              \/ i \in 1..a /\ Ahead'[i] = Ahead[i] /\ Ahead[i][1] <= Len(reqs)
              \/ i > a /\ Ahead'[i] = <<n, i - a>>
    BY SendAhead, BaseFacts, OrderTypes
  <1>2. \A m \in Starts : m \in Starts'
    <2> SUFFICES ASSUME NEW m \in Starts PROVE m \in Starts'
      OBVIOUS
    <2>1. PICK i \in 1..a : Ahead[i] = <<m, 1>>
      BY DEF Starts
    <2>2. i \in 1..Len(Ahead') /\ Ahead'[i] = <<m, 1>>
      BY <1>1, <2>1
    <2>3. m \in 1..n
      BY <1>1 DEF Starts
    <2>4. QED  BY <1>1, <2>2, <2>3 DEF Starts
  <1>3. n \in Starts'
    <2>1. a + 1 \in 1..Len(Ahead') /\ Ahead'[a + 1] = <<n, 1>>
      BY <1>1
    <2>2. n \in 1..n
      BY <1>1
    <2>3. QED  BY <1>1, <2>1, <2>2 DEF Starts
  <1>4. \A m \in Starts' : m \in Starts \cup {n}
    <2> SUFFICES ASSUME NEW m \in Starts' PROVE m \in Starts \cup {n}
      OBVIOUS
    <2>1. PICK i \in 1..Len(Ahead') : Ahead'[i] = <<m, 1>>
      BY DEF Starts
    <2>2. CASE i \in 1..a /\ Ahead'[i] = Ahead[i] /\ Ahead[i][1] <= Len(reqs)
      <3>1. m \in 1..Len(reqs)
        BY <1>1, <2>1, <2>2 DEF Starts
      <3>2. QED  BY <2>1, <2>2, <3>1 DEF Starts
    <2>3. CASE Ahead'[i] = <<n, i - a>>
      BY <2>1, <2>3
    <2>4. QED  BY <1>1, <2>1, <2>2, <2>3
  <1>5. QED  BY <1>2, <1>3, <1>4

LEMMA SendAllowed ==
    ASSUME BaseInv, NEW q \in Kinds, SendRequest(q)
    PROVE  Allowed
  <1> DEFINE n == Len(reqs) + 1
             t == TokensOf(q, n)
  <1>1. /\ reqs' = Append(reqs, q) /\ inbox' = inbox \o t
        /\ UNCHANGED <<buf, cur, route_ok, keep_alive, dispatched, pc, chanVars>>
    BY DEF SendRequest, parseVars
  <1>2. Len(reqs) \in Nat /\ reqs \in Seq(Kinds) /\ Len(reqs') = n
    BY <1>1, BaseFacts, AppendProperties
  <1>3. HasReply' = HasReply /\ Phase' = Phase /\ Handled' = Handled
    BY <1>1 DEF HasReply, Phase, Handled
  <1>4. Passed' = Passed
    <2>1. CASE cur # 0
      BY <1>1, <2>1 DEF Passed
    <2>2. CASE cur = 0
      <3>1. IsPassed(Passed, Len(reqs), Starts)
        BY <2>2, PassedFacts
      <3>2. Starts' = Starts \cup {n}
        BY StartsGrow
      <3>3. IsPassed(Passed, n, Starts')
        <4>1. Starts \subseteq 1..Len(reqs)
          BY DEF Starts
        <4> DEFINE p == Passed
                   l == Len(reqs)
        <4>2. /\ p \in 0..l /\ l \in Nat /\ (\A m \in Starts : p < m)
              /\ (p < l => p + 1 \in Starts)
          BY <3>1, <1>2 DEF IsPassed
        <4> HIDE DEF p, l
        <4>3. /\ p \in 0..(l + 1) /\ (\A m \in Starts \cup {l + 1} : p < m)
              /\ (p < l + 1 => p + 1 \in Starts \cup {l + 1})
          BY <4>2
        <4>4. QED  BY <4>3, <3>2 DEF p, l, IsPassed
      <3>4. Passed' = PassedOf(n, Starts')
        BY <1>1, <1>2, <2>2 DEF Passed, PassedOf
      <3>5. n \in Nat /\ Starts' \subseteq 1..n
        BY <1>2, <3>2 DEF Starts
      <3>6. QED  BY <3>3, <3>4, <3>5, PassedOfFacts
    <2>3. QED  BY <2>1, <2>2
  <1>5. Service!Send
    BY <1>1, <1>2, <1>3, <1>4 DEF Service!Send, Service!chanVars, chanVars
  <1>6. QED  BY <1>5 DEF Allowed, Service!Next

LEMMA InitAllowed == Init => Service!Init
  <1> SUFFICES ASSUME Init PROVE Service!Init
    OBVIOUS
  <1>1. reqs = <<>> /\ cur = 0 /\ pc = "connect" /\ dispatched = <<>>
        /\ queue = <<>> /\ wire = <<>> /\ status = "up"
    BY DEF Init
  <1>2. Len(reqs) = 0 /\ Len(dispatched) = 0
    BY <1>1
  <1>3. Passed = 0
    <2>1. Starts = {}
      BY <1>2 DEF Starts
    <2>2. Passed = PassedOf(0, {})
      BY <1>1, <1>2, <2>1 DEF Passed, PassedOf
    <2>3. IsPassed(PassedOf(0, {}), 0, {})
      BY PassedOfFacts
    <2>4. QED  BY <2>2, <2>3 DEF IsPassed
  <1>4. Handled = <<>>
    BY <1>2 DEF Handled
  <1>5. Phase = "new" /\ HasReply = FALSE
    BY <1>1 DEF Phase, HasReply
  <1>6. QED  BY <1>1, <1>2, <1>3, <1>4, <1>5 DEF Service!Init, Service!ChanInit

LEMMA StepAllowed ==
    ASSUME BaseInv, OrderInv, ReadyInv, [Next]_vars
    PROVE  Allowed
  <1>1. CASE MoveStep
    BY <1>1, MoveAllowed
  <1>2. CASE Recv \/ OnHeader \/ BodyLoop \/ ChunkLoop \/ Upgrade \/ OnClose
    BY <1>2, WithinAllowed
  <1>3. CASE ParseHeader \/ ConnectionField \/ SwitchProtocols
    BY <1>3, ParseAllowed, ConnectionFieldAllowed, SwitchAllowed
  <1>4. CASE OnBody \/ NextRequest
    BY <1>4, OnBodyAllowed, NextRequestAllowed
  <1>5. CASE Transmit \/ TransmitFails
    BY <1>5, SenderAllowed
  <1>6. ASSUME NEW q \in Kinds, SendRequest(q) PROVE Allowed
    BY <1>6, SendAllowed
  <1>7. CASE UNCHANGED vars
    <2>1. /\ UNCHANGED <<reqs, cur, dispatched, chanVars>>
          /\ Ahead' = Ahead /\ HasReply' = HasReply /\ Phase' = Phase
      BY <1>7 DEF vars, clientVars, parseVars, Ahead, HasReply, Phase
    <2>2. QED  BY <2>1, PhaseStep
  <1>8. QED
    BY <1>1, <1>2, <1>3, <1>4, <1>5, <1>6, <1>7 DEF Next, HandlerNext, MoveStep

(* Whatever clients, hooks and the network do, on_connection and REQ (web.cc, *)
(* http1.cc) keep what RequestService promises.                             *)
THEOREM ServiceCorrect == Spec => ServiceKept
  <1>1. Init => Service!Init /\ ReadyInv
    BY InitAllowed DEF Init, ReadyInv, InRequest, BodyLength, BodyChunks, BodyReady
  <1>2. BaseInv /\ ReadyInv /\ [Next]_vars => ReadyInv'
    BY ReadyStep
  <1>3. BaseInv /\ OrderInv /\ ReadyInv /\ [Next]_vars
            => [Service!Next]_(Service!serviceVars)
    BY StepAllowed DEF Allowed
  <1>4. QED
    BY <1>1, <1>2, <1>3, BaseInit, BaseStep, OrderInit, OrderStep, PTL
       DEF Spec, ServiceKept, Service!Spec
=============================================================================
