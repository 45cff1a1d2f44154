----------------------- MODULE ChunkedDecoder_proofs -----------------------
(***************************************************************************)
(* Proofs about ChunkedDecoder, for any inputs and any width of a size_t.   *)
(***************************************************************************)
EXTENDS ChunkedDecoder, SequenceLemmas

-----------------------------------------------------------------------------
(* The range of a size_t *)

(* The recursive definition of Limit defines a function: there is a         *)
(* solution of its equation up to every number of digits.                   *)
LEMMA LimitDef ==
    Limit = [n \in 0..MaxHex |-> IF n = 0 THEN 1 ELSE 16 * Limit[n - 1]]
  <1> DEFINE Solves(f, m) == f = [n \in 0..m |-> IF n = 0 THEN 1 ELSE 16 * f[n - 1]]
             T == {m \in Nat : \E f : Solves(f, m)}
  <1>1. 0 \in T
    <2> DEFINE f == [n \in 0..0 |-> 1]
    <2>1. Solves(f, 0)
      OBVIOUS
    <2>2. QED  BY <2>1
  <1>2. ASSUME NEW m \in T PROVE m + 1 \in T
    <2>1. m \in Nat
      OBVIOUS
    <2>2. PICK f : Solves(f, m)
      OBVIOUS
    <2> DEFINE g == [n \in 0..(m + 1) |-> IF n <= m THEN f[n] ELSE 16 * f[m]]
    <2>3. ASSUME NEW n \in 0..(m + 1)
          PROVE  g[n] = IF n = 0 THEN 1 ELSE 16 * g[n - 1]
      <3>1. CASE n <= m
        <4>1. n \in 0..m /\ (n # 0 => n - 1 \in 0..(m + 1) /\ n - 1 <= m)
          BY <3>1, <2>1
        <4>2. f[n] = IF n = 0 THEN 1 ELSE 16 * f[n - 1]
          BY <4>1, <2>2
        <4>3. QED  BY <4>1, <4>2, <3>1
      <3>2. CASE n = m + 1
        BY <3>2, <2>1
      <3>3. QED  BY <3>1, <3>2, <2>1
    <2>4. Solves(g, m + 1)
      BY <2>3
    <2> HIDE DEF g, Solves
    <2>5. QED  BY <2>1, <2>4
  <1>3. Nat \subseteq T
    <2> HIDE DEF T
    <2>1. QED  BY <1>1, <1>2, NatClosed
  <1>4. \E f : Solves(f, MaxHex)
    BY <1>3, MaxHexAssumption
  <1>5. QED  BY <1>4 DEF Limit

(* What n digits count to is positive and grows sixteenfold with each.      *)
LEMMA LimitFacts ==
    /\ Limit[0] = 1
    /\ \A n \in 0..MaxHex : n # 0 => Limit[n] = 16 * Limit[n - 1]
    /\ \A n \in 0..MaxHex : Limit[n] \in Nat \ {0} /\ Limit[n] <= Limit[MaxHex]
  <1>1. Limit[0] = 1 /\ \A n \in 0..MaxHex : n # 0 => Limit[n] = 16 * Limit[n - 1]
    BY LimitDef, MaxHexAssumption
  <1>2. \A n \in 0..MaxHex : Limit[n] \in Nat \ {0}
    <2> DEFINE T == {n \in Nat : n <= MaxHex => Limit[n] \in Nat \ {0}}
    <2>1. 0 \in T
      BY <1>1
    <2>2. ASSUME NEW n \in T PROVE n + 1 \in T
      BY <1>1, MaxHexAssumption
    <2>3. Nat \subseteq T
      <3> HIDE DEF T
      <3>1. QED  BY <2>1, <2>2, NatClosed
    <2>4. QED  BY <2>3, MaxHexAssumption
  <1>3. \A n \in 0..MaxHex : Limit[n] <= Limit[MaxHex]
    <2> DEFINE T == {k \in Nat : k <= MaxHex => Limit[MaxHex - k] <= Limit[MaxHex]}
    <2>1. 0 \in T
      BY <1>2, MaxHexAssumption
    <2>2. ASSUME NEW k \in T PROVE k + 1 \in T
      <3> SUFFICES ASSUME k + 1 <= MaxHex
                   PROVE  Limit[MaxHex - (k + 1)] <= Limit[MaxHex]
        OBVIOUS
      <3> DEFINE n == MaxHex - k
      <3>1. n \in 0..MaxHex /\ n - 1 \in 0..MaxHex /\ n # 0 /\ MaxHex - (k + 1) = n - 1
            /\ MaxHex \in 0..MaxHex
        BY MaxHexAssumption
      <3>2. Limit[n] <= Limit[MaxHex]
        BY <3>1
      <3> HIDE DEF n
      <3>3. Limit[n] = 16 * Limit[n - 1] /\ Limit[n - 1] \in Nat /\ Limit[MaxHex] \in Nat
            /\ Limit[n] \in Nat
        BY <3>1, <1>1, <1>2
      <3>4. QED  BY <3>1, <3>2, <3>3
    <2>3. Nat \subseteq T
      <3> HIDE DEF T
      <3>1. QED  BY <2>1, <2>2, NatClosed
    <2>4. QED
      <3> TAKE n \in 0..MaxHex
      <3>1. MaxHex - n \in T /\ MaxHex - n <= MaxHex /\ MaxHex - (MaxHex - n) = n
        BY <2>3, MaxHexAssumption
      <3>2. QED  BY <3>1
  <1>4. QED  BY <1>1, <1>2, <1>3

-----------------------------------------------------------------------------
(* The decoder stays inside its buffer *)

(* The digits of the size that is being read count to what they can, and    *)
(* behind the digits they are forgotten; a chunk's data is all there when    *)
(* its line break is awaited.                                               *)
SizeInv == /\ state = "size" => left < Limit[hex]
           /\ state # "size" => hex = 0
           /\ state = "crlf" => left = 0

(* What is decoded fits into the buffer, and while the function runs the    *)
(* argument ends where the buffer does.                                     *)
PlaceInv == /\ dst <= src /\ src <= bufsz
            /\ base <= Len(mem)
            /\ ret = Running => base + bufsz = Len(mem)

BoundsInv == TypeOK /\ SizeInv /\ PlaceInv

(* A memmove inside the buffer leaves a buffer of the same size. *)
LEMMA MovedType ==
    ASSUME TypeOK, NEW from \in Nat, NEW n \in Nat,
           dst <= from, base + from + n <= Len(mem)
    PROVE  Moved(from, n) \in Seq(Symbols) /\ Len(Moved(from, n)) = Len(mem)
  <1>1. mem \in Seq(Symbols) /\ base \in Nat /\ dst \in Nat /\ Len(mem) \in Nat
    BY LenProperties DEF TypeOK
  <1>2. \A j \in 1..Len(mem) : mem[j] \in Symbols
    BY <1>1, ElementOfSeq
  <1>3. ASSUME NEW i \in 1..Len(mem)
        PROVE  (IF i \in (base + dst + 1)..(base + dst + n)
                THEN mem[i + from - dst] ELSE mem[i]) \in Symbols
    <2>1. i \in (base + dst + 1)..(base + dst + n) => i + from - dst \in 1..Len(mem)
      BY <1>1
    <2>2. QED  BY <2>1, <1>2
  <1> DEFINE m == [i \in 1..Len(mem) |-> IF i \in (base + dst + 1)..(base + dst + n)
                                         THEN mem[i + from - dst] ELSE mem[i]]
  <1>4. m \in [1..Len(mem) -> Symbols]
    BY <1>3
  <1>5. m \in Seq(Symbols) /\ Len(m) = Len(mem)
    BY <1>1, <1>4
  <1>6. QED  BY <1>5 DEF Moved

(* Leaving the function keeps the bounds: what is behind the decoded part   *)
(* moves down to it.                                                        *)
LEMMA ExitStep ==
    ASSUME BoundsInv, ret = Running, NEW r \in Nat \cup {Error, Incomplete},
           NEW end \in Nat, src <= end, end <= bufsz, Exit(r, end)
    PROVE  BoundsInv'
  <1>1. /\ mem \in Seq(Symbols) /\ Len(mem) \in Nat
        /\ base \in Nat /\ dst \in Nat /\ src \in Nat /\ bufsz \in Nat
        /\ dst <= src /\ base + bufsz = Len(mem)
    BY LenProperties DEF BoundsInv, TypeOK, PlaceInv
  <1> DEFINE n == bufsz - end
  <1>2. n \in Nat /\ dst <= end /\ base + end + n <= Len(mem)
    BY <1>1
  <1> HIDE DEF n
  <1>3. Moved(end, n) \in Seq(Symbols) /\ Len(Moved(end, n)) = Len(mem)
    BY <1>2, MovedType DEF BoundsInv
  <1>4. mem' \in Seq(Symbols) /\ Len(mem') = Len(mem)
    BY <1>3 DEF Exit, n
  <1>5. TypeOK'
    BY <1>1, <1>4 DEF Exit, BoundsInv, TypeOK, callVars, decoderVars
  <1>6. SizeInv'
    BY DEF Exit, BoundsInv, SizeInv, decoderVars
  <1>7. PlaceInv'
    BY <1>1, <1>2, <1>4 DEF Exit, PlaceInv, callVars, Error, Incomplete, Running
  <1>8. QED  BY <1>5, <1>6, <1>7 DEF BoundsInv

(* A new part of the input lies behind what is decoded. *)
LEMMA CallStep == BoundsInv /\ Call => BoundsInv'
  <1> SUFFICES ASSUME BoundsInv, Call PROVE BoundsInv'
    OBVIOUS
  <1>1. input \in Inputs /\ input.text \in Seq(Symbols) /\ Len(input.text) \in Nat
    BY InputsAssumption, LenProperties DEF BoundsInv, TypeOK
  <1>2. /\ mem \in Seq(Symbols) /\ base \in Nat /\ base <= Len(mem)
        /\ supplied \in Nat /\ supplied <= Len(input.text)
    BY <1>1 DEF BoundsInv, TypeOK, PlaceInv
  <1>3. PICK k \in 1..(Len(input.text) - supplied) :
            /\ mem' = SubSeq(mem, 1, base) \o SubSeq(input.text, supplied + 1, supplied + k)
            /\ supplied' = supplied + k
            /\ bufsz' = k
    BY DEF Call
  <1>4. k \in Nat /\ supplied + k <= Len(input.text)
    BY <1>1, <1>2
  <1> DEFINE a == SubSeq(mem, 1, base)
             b == SubSeq(input.text, supplied + 1, supplied + k)
  <1>5. a \in Seq(Symbols) /\ Len(a) = base
    BY <1>2, SubSeqType
  <1>6. b \in Seq(Symbols) /\ Len(b) = k
    BY <1>1, <1>2, <1>4, SliceFacts
  <1> HIDE DEF a, b
  <1>7. a \o b \in Seq(Symbols) /\ Len(a \o b) = base + k
    BY <1>5, <1>6, ConcatProperties
  <1>8. mem' \in Seq(Symbols) /\ Len(mem') = base + k
    BY <1>3, <1>7 DEF a, b
  <1>9. TypeOK'
    BY <1>2, <1>3, <1>4, <1>8 DEF Call, BoundsInv, TypeOK, decoderVars, Running
  <1>10. SizeInv'
    BY DEF Call, BoundsInv, SizeInv, decoderVars
  <1>11. PlaceInv'
    BY <1>2, <1>3, <1>4, <1>8 DEF Call, PlaceInv
  <1>12. QED  BY <1>9, <1>10, <1>11 DEF BoundsInv

(* One more digit: the size grows to what one more digit can count to.      *)
LEMMA DigitStep == BoundsInv /\ Digit => BoundsInv'
  <1> SUFFICES ASSUME BoundsInv, Digit PROVE BoundsInv'
    OBVIOUS
  <1> DEFINE d == decode_hex(Char)
  <1>1. d \in 0..15
    BY DEF Digit, IsHex, decode_hex
  <1>2. hex \in 0..MaxHex /\ hex # MaxHex /\ left \in Nat /\ left < Limit[hex]
    BY DEF Digit, TooLong, Reads, BoundsInv, TypeOK, SizeInv
  <1>3. hex + 1 \in 0..MaxHex /\ hex + 1 # 0 /\ (hex + 1) - 1 = hex
    BY <1>2, MaxHexAssumption
  <1>4. /\ Limit[hex + 1] = 16 * Limit[hex] /\ Limit[hex] \in Nat
        /\ Limit[hex + 1] <= Limit[MaxHex] /\ Limit[MaxHex] \in Nat /\ Limit[hex + 1] \in Nat
    <2>1. MaxHex \in 0..MaxHex
      BY MaxHexAssumption
    <2>2. QED  BY <1>2, <1>3, <2>1, LimitFacts
  <1>5. left' = left * 16 + d /\ hex' = hex + 1
    BY DEF Digit
  <1> HIDE DEF d
  <1>6. left' \in Nat /\ left' < Limit[hex'] /\ left' \in 0..(Limit[MaxHex] - 1)
    BY <1>1, <1>2, <1>4, <1>5
  <1>7. /\ state' = "size" /\ src' = src + 1
        /\ UNCHANGED <<callVars, mem, base, dst, ret>>
        /\ src < bufsz
    BY DEF Digit, Go, Reads
  <1>8. TypeOK'
    BY <1>3, <1>5, <1>6, <1>7 DEF BoundsInv, TypeOK, callVars
  <1>9. SizeInv'
    BY <1>6, <1>7 DEF SizeInv
  <1>10. PlaceInv'
    BY <1>7 DEF BoundsInv, TypeOK, PlaceInv, callVars
  <1>11. QED  BY <1>8, <1>9, <1>10 DEF BoundsInv

(* The end of the digits, where they are forgotten. *)
LEMMA SizeEndStep == BoundsInv /\ SizeEnd => BoundsInv'
  <1> SUFFICES ASSUME BoundsInv, SizeEnd PROVE BoundsInv'
    OBVIOUS
  <1>1. /\ hex' = 0 /\ state' = "ext"
        /\ UNCHANGED <<callVars, mem, base, src, dst, left, ret>>
    BY DEF SizeEnd
  <1>2. TypeOK'
    BY <1>1, MaxHexAssumption DEF BoundsInv, TypeOK, callVars
  <1>3. SizeInv' /\ PlaceInv'
    BY <1>1 DEF BoundsInv, SizeInv, PlaceInv, callVars
  <1>4. QED  BY <1>2, <1>3 DEF BoundsInv

(* The lines around the data are read a symbol at a time. *)
LEMMA LineStep == BoundsInv /\ Line => BoundsInv'
  <1> SUFFICES ASSUME BoundsInv, Line PROVE BoundsInv'
    OBVIOUS
  <1>1. /\ src < bufsz /\ src' = src + 1
        /\ UNCHANGED <<callVars, mem, base, dst, ret, left, hex>>
        /\ state # "size"
        /\ state' \in {"size", "ext", "data", "crlf", "trailer_head", "trailer_middle"}
        /\ state' = "size" => state = "crlf"
        /\ state' = "crlf" => state = "crlf"
    BY DEF Line, Go, Reads
  <1>2. TypeOK'
    BY <1>1 DEF BoundsInv, TypeOK, callVars
  <1>3. SizeInv'
    <2>1. Limit[0] = 1
      BY LimitFacts
    <2>2. QED  BY <1>1, <2>1 DEF BoundsInv, SizeInv
  <1>4. PlaceInv'
    BY <1>1 DEF BoundsInv, TypeOK, PlaceInv, callVars
  <1>5. QED  BY <1>2, <1>3, <1>4 DEF BoundsInv

(* The part of a chunk that is there moves down to what is decoded. *)
LEMMA DataStep == BoundsInv /\ (DataPart \/ DataEnd) => BoundsInv'
  <1> SUFFICES ASSUME BoundsInv, DataPart \/ DataEnd PROVE BoundsInv'
    OBVIOUS
  <1>1. /\ mem \in Seq(Symbols) /\ Len(mem) \in Nat
        /\ base \in Nat /\ dst \in Nat /\ src \in Nat /\ bufsz \in Nat
        /\ left \in Nat /\ left \in 0..(Limit[MaxHex] - 1) /\ Limit[MaxHex] \in Nat
        /\ dst <= src /\ src <= bufsz /\ base + bufsz = Len(mem)
        /\ state = "data" /\ hex = 0 /\ ret = Running
    <2>1. MaxHex \in 0..MaxHex
      BY MaxHexAssumption
    <2>2. QED
      BY <2>1, LenProperties, LimitFacts
      DEF BoundsInv, TypeOK, SizeInv, PlaceInv, DataPart, DataEnd
  <1> DEFINE n == IF Arrived THEN left ELSE Avail
  <1>2. n \in Nat /\ n <= left /\ n <= bufsz - src
    BY <1>1 DEF Arrived, Avail
  <1>3. /\ mem' = Moved(src, n)
        /\ src' = src + n /\ dst' = dst + n
        /\ left' = left - n
        /\ UNCHANGED <<callVars, hex>>
    BY <1>1 DEF DataPart, DataEnd, Part, callVars
  <1>4. \/ ret' = Incomplete /\ base' = base + dst + n /\ state' = "data"
        \/ ret' = Running /\ base' = base /\ state' = "crlf" /\ left' = 0
    BY <1>1 DEF DataPart, DataEnd, Part
  <1> HIDE DEF n
  <1>5. mem' \in Seq(Symbols) /\ Len(mem') = Len(mem)
    <2>1. base + src + n <= Len(mem)
      BY <1>1, <1>2
    <2>2. QED  BY <1>1, <1>2, <1>3, <2>1, MovedType DEF BoundsInv
  <1>6. TypeOK'
    <2>1. left' \in 0..(Limit[MaxHex] - 1)
      BY <1>1, <1>2, <1>3
    <2>2. QED
      BY <1>1, <1>2, <1>3, <1>4, <1>5, <2>1 DEF BoundsInv, TypeOK, callVars
  <1>7. SizeInv'
    BY <1>1, <1>3, <1>4 DEF SizeInv
  <1>8. PlaceInv'
    BY <1>1, <1>2, <1>3, <1>4, <1>5 DEF PlaceInv, callVars, Incomplete, Running
  <1>9. QED  BY <1>6, <1>7, <1>8 DEF BoundsInv

(* Every step of the decoder and its caller keeps the bounds. *)
LEMMA BoundsStep == BoundsInv /\ [Next]_vars => BoundsInv'
  <1> SUFFICES ASSUME BoundsInv, [Next]_vars PROVE BoundsInv'
    OBVIOUS
  <1>1. /\ src \in Nat /\ bufsz \in Nat /\ src <= bufsz
        /\ Error \in Nat \cup {Error, Incomplete}
    BY DEF BoundsInv, TypeOK, PlaceInv
  <1>2. CASE Call
    BY <1>2, CallStep
  <1>3. CASE OutOfInput
    BY <1>3, <1>1, ExitStep DEF OutOfInput
  <1>4. CASE Digit
    BY <1>4, DigitStep
  <1>5. CASE SizeError
    <2>1. ret = Running /\ Exit(Error, src) /\ src <= src
      BY <1>5, <1>1 DEF SizeError, Reads
    <2>2. QED  BY <2>1, <1>1, ExitStep
  <1>6. CASE SizeEnd
    BY <1>6, SizeEndStep
  <1>7. CASE Line
    BY <1>7, LineStep
  <1>8. CASE CrlfError
    <2>1. ret = Running /\ Exit(Error, src) /\ src <= src
      BY <1>8, <1>1 DEF CrlfError, Reads
    <2>2. QED  BY <2>1, <1>1, ExitStep
  <1>9. CASE Complete
    <2>1. /\ ret = Running /\ src + 1 \in Nat /\ src <= src + 1 /\ src + 1 <= bufsz
          /\ bufsz - (src + 1) \in Nat
          /\ Exit(bufsz - (src + 1), src + 1)
      BY <1>9, <1>1 DEF Complete, Reads
    <2>2. QED  BY <2>1, ExitStep
  <1>10. CASE DataPart \/ DataEnd
    BY <1>10, DataStep
  <1>11. CASE UNCHANGED vars
    BY <1>11 DEF BoundsInv, TypeOK, SizeInv, PlaceInv, vars, callVars, decoderVars
  <1>12. QED
    BY <1>2, <1>3, <1>4, <1>5, <1>6, <1>7, <1>8, <1>9, <1>10, <1>11 DEF Next

LEMMA BoundsInit == Init => BoundsInv
  <1> SUFFICES ASSUME Init PROVE BoundsInv
    OBVIOUS
  <1>1. input.text \in Seq(Symbols) /\ Len(input.text) \in Nat
    BY InputsAssumption, LenProperties DEF Init
  <1>2. <<>> \in Seq(Symbols) /\ Len(<<>>) = 0
    BY EmptySeq
  <1>3. /\ Limit[0] = 1 /\ Limit[MaxHex] \in Nat \ {0} /\ 0 \in 0..MaxHex
    <2>1. MaxHex \in 0..MaxHex /\ 0 \in 0..MaxHex
      BY MaxHexAssumption
    <2>2. QED  BY <2>1, LimitFacts
  <1>4. TypeOK
    BY <1>1, <1>2, <1>3 DEF Init, TypeOK, Incomplete
  <1>5. SizeInv /\ PlaceInv
    BY <1>2, <1>3 DEF Init, SizeInv, PlaceInv, Incomplete, Running
  <1>6. QED  BY <1>4, <1>5 DEF BoundsInv

(* However many digits a peer sends and however it cuts the body, the       *)
(* function reads and writes in its argument only, moves data down only,    *)
(* and the size of a chunk does not wrap around.                            *)
THEOREM DecoderInBounds == Spec => []InBounds
  <1>1. BoundsInv => InBounds
    BY DEF BoundsInv, PlaceInv, InBounds
  <1>2. QED  BY <1>1, BoundsInit, BoundsStep, PTL DEF Spec

-----------------------------------------------------------------------------
(* Encodings *)

(* The recursive definition of a chunk's value defines a function.          *)
LEMMA ValueDef ==
    ASSUME NEW text, NEW c, c.digits \in Nat
    PROVE  Value(text, c) = [n \in 0..c.digits |->
                IF n = 0 THEN 0
                ELSE Value(text, c)[n - 1] * 16 + decode_hex(text[c.at + n])]
  <1> DEFINE d(n) == decode_hex(text[c.at + n])
             Solves(f, m) == f = [n \in 0..m |-> IF n = 0 THEN 0 ELSE f[n - 1] * 16 + d(n)]
             T == {m \in Nat : \E f : Solves(f, m)}
  <1> HIDE DEF d
  <1>1. 0 \in T
    <2> DEFINE f == [n \in 0..0 |-> 0]
    <2>1. Solves(f, 0)
      OBVIOUS
    <2>2. QED  BY <2>1
  <1>2. ASSUME NEW m \in T PROVE m + 1 \in T
    <2>1. m \in Nat
      OBVIOUS
    <2>2. PICK f : Solves(f, m)
      OBVIOUS
    <2> DEFINE g == [n \in 0..(m + 1) |-> IF n <= m THEN f[n] ELSE f[m] * 16 + d(m + 1)]
    <2>3. ASSUME NEW n \in 0..(m + 1)
          PROVE  g[n] = IF n = 0 THEN 0 ELSE g[n - 1] * 16 + d(n)
      <3>1. CASE n <= m
        <4>1. n \in 0..m /\ (n # 0 => n - 1 \in 0..(m + 1) /\ n - 1 <= m)
          BY <3>1, <2>1
        <4>2. f[n] = IF n = 0 THEN 0 ELSE f[n - 1] * 16 + d(n)
          BY <4>1, <2>2
        <4>3. QED  BY <4>1, <4>2, <3>1
      <3>2. CASE n = m + 1
        BY <3>2, <2>1
      <3>3. QED  BY <3>1, <3>2, <2>1
    <2>4. Solves(g, m + 1)
      BY <2>3
    <2> HIDE DEF g, Solves
    <2>5. QED  BY <2>1, <2>4
  <1>3. Nat \subseteq T
    <2> HIDE DEF T
    <2>1. QED  BY <1>1, <1>2, NatClosed
  <1>4. \E f : Solves(f, c.digits)
    BY <1>3
  <1>5. QED  BY <1>4 DEF Value, d

LEMMA ValueFacts ==
    ASSUME NEW text, NEW c, c.digits \in Nat
    PROVE  /\ Value(text, c)[0] = 0
           /\ \A n \in 1..c.digits :
                 Value(text, c)[n] = Value(text, c)[n - 1] * 16 + decode_hex(text[c.at + n])
BY ValueDef

(* What the input is known to be. *)
LEMMA EncodedFacts ==
    ASSUME input \in Inputs, input.encoded
    PROVE  /\ Encoding(input)
           /\ Len(input.text) \in Nat /\ Len(input.data) \in Nat /\ Len(input.rest) \in Nat
           /\ Len(input.chunks) \in Nat
           /\ input.data \in Seq(Symbols) /\ input.rest \in Seq(Symbols)
           /\ \A k \in 1..Len(input.chunks) :
                 /\ input.chunks[k].at \in Nat /\ input.chunks[k].digits \in Nat
                 /\ input.chunks[k].line \in Nat /\ input.chunks[k].size \in Nat
                 /\ input.chunks[k].off \in Nat
  <1> DEFINE C == [at : Nat, digits : Nat, line : Nat, size : Nat, off : Nat]
  <1>1. /\ input.text \in Seq(Symbols) /\ input.data \in Seq(Symbols)
        /\ input.rest \in Seq(Symbols) /\ input.chunks \in Seq(C)
    BY InputsAssumption
  <1>2. \A k \in 1..Len(input.chunks) : input.chunks[k] \in C
    BY <1>1, ElementOfSeq
  <1>3. /\ Len(input.text) \in Nat /\ Len(input.data) \in Nat /\ Len(input.rest) \in Nat
        /\ Len(input.chunks) \in Nat
    BY <1>1, LenProperties
  <1>4. QED  BY <1>1, <1>2, <1>3, EncodedAssumption

-----------------------------------------------------------------------------
(* What is decoded is the body *)

(* Symbols of the input that the decoder has read, and symbols it has put   *)
(* out.                                                                     *)
Read == (supplied - bufsz) + src
Out  == base + (IF ret = Running THEN dst ELSE 0)

(* The buffer holds the decoded data in front, and while the function runs  *)
(* the symbols that it has not read yet at its end; it asks for more when   *)
(* it has read all.                                                         *)
BufferInv ==
    /\ bufsz <= supplied
    /\ ret = Incomplete => src = bufsz
    /\ Out <= Len(input.data)
    /\ \A i \in 1..Out : mem[i] = input.data[i]
    /\ ret = Running => \A i \in 1..Avail : mem[base + src + i] = input.text[Read + i]

(* Where in an encoding the decoder is, in each of its states.              *)
InSize(c)  == /\ state = "size" /\ hex <= c.digits
              /\ Read = c.at + hex /\ Out = c.off
              /\ left = Value(input.text, c)[hex]
InExt(c)   == /\ state = "ext"
              /\ Read \in (c.at + c.digits)..(c.line - 1) /\ Out = c.off
              /\ left = c.size
InData(c)  == /\ state = "data" /\ left <= c.size
              /\ Read = c.line + (c.size - left) /\ Out = c.off + (c.size - left)
InBreak(c) == /\ state = "crlf" /\ left = 0
              /\ Read \in {c.line + c.size, c.line + c.size + 1}
              /\ Out = c.off + c.size
InHead     == /\ state = "trailer_head" /\ Out = Len(input.data)
              /\ \/ Read = End(input) - 1
                 \/ /\ Read \in LastLine(input)..(End(input) - 2)
                    /\ LineEnds(input, Read)
InMiddle   == /\ state = "trailer_middle" /\ Out = Len(input.data)
              /\ Read \in LastLine(input)..(End(input) - 3)
              /\ ~LineEnds(input, Read)

Placed == \/ \E k \in 1..Len(input.chunks) :
                InSize(input.chunks[k]) \/ InExt(input.chunks[k])
          \/ \E k \in 1..(Len(input.chunks) - 1) :
                InData(input.chunks[k]) \/ InBreak(input.chunks[k])
          \/ ConsumeTrailer /\ (InHead \/ InMiddle)

StreamInv == input.encoded => /\ BufferInv
                              /\ ret \in {Running, Incomplete} => Placed
                              /\ ret # Error
                              /\ EndReported

(* What a memmove to the end of the decoded data leaves where. *)
LEMMA MovedFacts ==
    ASSUME BoundsInv, ret = Running, NEW from \in Nat, NEW n \in Nat,
           src <= from, from + n <= bufsz
    PROVE  /\ \A i \in 1..(base + dst) : Moved(from, n)[i] = mem[i]
           /\ \A i \in 1..n : Moved(from, n)[base + dst + i] = mem[base + from + i]
           /\ \A i \in (base + dst + n + 1)..(base + bufsz) : Moved(from, n)[i] = mem[i]
  <1>1. /\ base \in Nat /\ dst \in Nat /\ src \in Nat /\ bufsz \in Nat
        /\ dst <= src /\ src <= bufsz /\ base + bufsz = Len(mem)
    BY DEF BoundsInv, TypeOK, PlaceInv
  <1>2. ASSUME NEW i \in 1..(base + bufsz)
        PROVE  Moved(from, n)[i] = IF i \in (base + dst + 1)..(base + dst + n)
                                   THEN mem[i + from - dst] ELSE mem[i]
    BY <1>1 DEF Moved
  <1>3. ASSUME NEW i \in 1..(base + dst) PROVE Moved(from, n)[i] = mem[i]
    <2>1. i \in 1..(base + bufsz) /\ i \notin (base + dst + 1)..(base + dst + n)
      BY <1>1
    <2>2. QED  BY <1>2, <2>1
  <1>4. ASSUME NEW i \in 1..n PROVE Moved(from, n)[base + dst + i] = mem[base + from + i]
    <2>1. /\ base + dst + i \in 1..(base + bufsz)
          /\ base + dst + i \in (base + dst + 1)..(base + dst + n)
          /\ (base + dst + i) + from - dst = base + from + i
      BY <1>1
    <2>2. QED  BY <1>2, <2>1
  <1>5. ASSUME NEW i \in (base + dst + n + 1)..(base + bufsz) PROVE Moved(from, n)[i] = mem[i]
    <2>1. i \in 1..(base + bufsz) /\ i \notin (base + dst + 1)..(base + dst + n)
      BY <1>1
    <2>2. QED  BY <1>2, <2>1
  <1>6. QED  BY <1>3, <1>4, <1>5

(* The next symbol of the input is the one under src. *)
LEMMA NextSymbol ==
    ASSUME BoundsInv, input.encoded, BufferInv, ret = Running, src < bufsz
    PROVE  /\ Char = input.text[Read + 1]
           /\ Read \in Nat /\ Read + 1 <= Len(input.text) /\ Read + 1 <= supplied
  <1>1. /\ src \in Nat /\ bufsz \in Nat /\ supplied \in Nat /\ supplied <= Len(input.text)
        /\ base \in Nat /\ Len(input.text) \in Nat
    BY EncodedFacts DEF BoundsInv, TypeOK
  <1>2. 1 \in 1..Avail
    BY <1>1 DEF Avail
  <1>3. QED  BY <1>1, <1>2 DEF BufferInv, Read, Char

(* Reading a symbol keeps the buffer. *)
LEMMA GoBuffer ==
    ASSUME BoundsInv, BufferInv, ret = Running, src < bufsz, src' = src + 1,
           UNCHANGED <<callVars, mem, base, dst, ret>>
    PROVE  BufferInv' /\ Read' = Read + 1 /\ Out' = Out
  <1>1. /\ src \in Nat /\ bufsz \in Nat /\ supplied \in Nat /\ base \in Nat
    BY DEF BoundsInv, TypeOK
  <1>2. Read' = Read + 1 /\ Out' = Out /\ Read \in Int
    BY <1>1 DEF Read, Out, callVars
  <1>3. ASSUME NEW i \in 1..Avail'
        PROVE  mem'[base' + src' + i] = input'.text[Read' + i]
    <2>1. i + 1 \in 1..Avail
      BY <1>1 DEF Avail, callVars
    <2>2. mem[base + src + (i + 1)] = input.text[Read + (i + 1)]
      BY <2>1 DEF BufferInv
    <2>3. base' + src' + i = base + src + (i + 1) /\ Read' + i = Read + (i + 1)
      BY <1>1, <1>2
    <2>4. QED  BY <2>2, <2>3 DEF callVars
  <1>4. bufsz' <= supplied' /\ Out' <= Len(input'.data)
        /\ \A i \in 1..Out' : mem'[i] = input'.data[i]
    BY <1>2 DEF BufferInv, callVars
  <1>5. ret' # Incomplete
    BY DEF Running, Incomplete
  <1>6. QED  BY <1>2, <1>3, <1>4, <1>5 DEF BufferInv

(* So does leaving the function. *)
LEMMA ExitBuffer ==
    ASSUME BoundsInv, BufferInv, ret = Running, NEW r \in Nat \cup {Error, Incomplete},
           NEW end \in Nat, src <= end, end <= bufsz, Exit(r, end),
           r = Incomplete => end = bufsz
    PROVE  /\ BufferInv' /\ Out' = Out /\ Read' = Read + (end - src)
           /\ \A i \in 1..(bufsz - end) : mem'[base' + i] = input.text[Read' + i]
  <1>1. /\ base \in Nat /\ dst \in Nat /\ src \in Nat /\ bufsz \in Nat /\ supplied \in Nat
        /\ base + dst \in Nat
    BY DEF BoundsInv, TypeOK
  <1>2. /\ mem' = Moved(end, bufsz - end) /\ base' = base + dst /\ ret' = r /\ src' = end
        /\ UNCHANGED <<callVars, dst, decoderVars>> /\ r # Running
    BY DEF Exit, Error, Incomplete, Running
  <1>3. Out' = Out /\ Out = base + dst /\ Read' = Read + (end - src) /\ Read \in Int
    BY <1>1, <1>2 DEF Read, Out, callVars
  <1>4. /\ \A i \in 1..(base + dst) : mem'[i] = mem[i]
        /\ \A i \in 1..(bufsz - end) : mem'[base + dst + i] = mem[base + end + i]
    <2> DEFINE n == bufsz - end
    <2>1. n \in Nat /\ end + n <= bufsz
      BY <1>1
    <2> HIDE DEF n
    <2>2. /\ \A i \in 1..(base + dst) : Moved(end, n)[i] = mem[i]
          /\ \A i \in 1..n : Moved(end, n)[base + dst + i] = mem[base + end + i]
      BY <2>1, MovedFacts
    <2>3. QED  BY <2>2, <1>2 DEF n
  <1>5. ASSUME NEW i \in 1..(bufsz - end)
        PROVE  mem'[base' + i] = input.text[Read' + i]
    <2>1. (end - src) + i \in 1..Avail
      BY <1>1 DEF Avail
    <2>2. mem[base + src + ((end - src) + i)] = input.text[Read + ((end - src) + i)]
      BY <2>1 DEF BufferInv
    <2>3. /\ base + src + ((end - src) + i) = base + end + i
          /\ Read + ((end - src) + i) = Read' + i
      BY <1>1, <1>3
    <2>4. mem'[base + dst + i] = mem[base + end + i]
      BY <1>4
    <2>5. QED  BY <2>2, <2>3, <2>4, <1>2
  <1>6. BufferInv'
    BY <1>2, <1>3, <1>4 DEF BufferInv, callVars
  <1>7. QED  BY <1>3, <1>5, <1>6

(* A digit, or the end of the digits: a chunk's size is what they say, and  *)
(* no digit is missing or more than a size_t can hold.                      *)
LEMMA SizeStream ==
    ASSUME BoundsInv, input.encoded, BufferInv, ret = Running, Placed, Reads("size")
    PROVE  /\ ~SizeError
           /\ Digit \/ SizeEnd => BufferInv' /\ Placed' /\ ret' = Running
  <1>1. PICK k \in 1..Len(input.chunks) : InSize(input.chunks[k])
    BY DEF Placed, InSize, InExt, InData, InBreak, InHead, InMiddle, Reads
  <1> DEFINE c == input.chunks[k]
             v == Value(input.text, c)
  <1>2. /\ src < bufsz /\ state = "size"
        /\ hex \in Nat /\ input \in Inputs /\ src \in Nat /\ left \in Int
    BY DEF Reads, BoundsInv, TypeOK
  <1>3. /\ c.at \in Nat /\ c.digits \in 1..MaxHex /\ c.line \in Nat
        /\ c.at + c.digits < c.line /\ c.size = v[c.digits]
        /\ \A i \in 1..c.digits : decode_hex(input.text[c.at + i]) # -1
        /\ decode_hex(input.text[c.at + c.digits + 1]) = -1
    BY <1>2, EncodedFacts DEF Encoding, SizeLine
  <1>4. /\ v[0] = 0
        /\ \A n \in 1..c.digits : v[n] = v[n - 1] * 16 + decode_hex(input.text[c.at + n])
    <2>1. c.digits \in Nat
      BY <1>3, MaxHexAssumption
    <2> HIDE DEF c
    <2>2. QED  BY <2>1, ValueFacts
  <1>5. hex <= c.digits /\ Read = c.at + hex /\ Out = c.off /\ left = v[hex]
    BY <1>1 DEF InSize
  <1> HIDE DEF c, v
  <1>6. /\ c.at \in Nat /\ c.digits \in Nat /\ c.digits > 0 /\ c.digits <= MaxHex
        /\ MaxHex \in Nat /\ c.line \in Nat /\ c.at + c.digits < c.line
        /\ hex \in Nat /\ hex <= c.digits
    BY <1>2, <1>3, <1>5, MaxHexAssumption
  <1>7. Char = input.text[c.at + hex + 1]
    <2>1. Char = input.text[Read + 1]
      BY <1>2, NextSymbol
    <2>2. QED  BY <2>1, <1>5
  <1>8. /\ IsHex => hex < c.digits /\ ~TooLong
        /\ ~IsHex => hex = c.digits /\ hex # 0
    <2>1. CASE hex = c.digits
      BY <2>1, <1>3, <1>6, <1>7 DEF IsHex
    <2>2. CASE hex < c.digits
      <3>1. hex + 1 \in 1..c.digits /\ c.at + (hex + 1) = c.at + hex + 1
        BY <2>2, <1>6
      <3>2. decode_hex(input.text[c.at + (hex + 1)]) # -1
        BY <3>1, <1>3
      <3>3. IsHex
        BY <3>1, <3>2, <1>7 DEF IsHex
      <3>4. QED  BY <2>2, <3>3, <1>6 DEF TooLong
    <2>3. QED  BY <2>1, <2>2, <1>6
  <1>9. ~SizeError
    BY <1>8 DEF SizeError
  <1>10. ASSUME Digit PROVE BufferInv' /\ Placed' /\ ret' = Running
    <2>1. /\ src' = src + 1 /\ state' = "size" /\ hex' = hex + 1
          /\ left' = left * 16 + decode_hex(Char) /\ IsHex
          /\ UNCHANGED <<callVars, mem, base, dst, ret>>
      BY <1>10 DEF Digit, Go
    <2>2. BufferInv' /\ Read' = Read + 1 /\ Out' = Out
      BY <1>2, <2>1, GoBuffer
    <2>3. /\ hex + 1 \in 1..c.digits /\ (hex + 1) - 1 = hex
          /\ c.at + (hex + 1) = c.at + hex + 1 /\ hex + 1 <= c.digits
      BY <1>6, <1>8, <2>1
    <2>4. left' = v[hex + 1]
      BY <1>4, <1>5, <1>7, <2>1, <2>3
    <2>5. Read' = c.at + (hex + 1)
      BY <1>5, <2>2, <2>3
    <2>6. input' = input
      BY <2>1 DEF callVars
    <2>7. Placed'
      BY <1>5, <2>1, <2>2, <2>3, <2>4, <2>5, <2>6 DEF Placed, InSize, c, v
    <2>8. QED  BY <2>1, <2>2, <2>7
  <1>11. ASSUME SizeEnd PROVE BufferInv' /\ Placed' /\ ret' = Running
    <2>1. /\ state' = "ext" /\ ~IsHex
          /\ UNCHANGED <<callVars, mem, base, src, dst, left, ret>>
      BY <1>11 DEF SizeEnd
    <2>2. BufferInv' /\ Read' = Read /\ Out' = Out /\ input' = input
      BY <2>1 DEF BufferInv, Read, Out, Avail, callVars
    <2>3. Read \in (c.at + c.digits)..(c.line - 1) /\ left = c.size
      <3>1. hex = c.digits
        BY <1>8, <2>1
      <3>2. QED  BY <3>1, <1>3, <1>5, <1>6
    <2>4. Placed'
      BY <1>5, <2>1, <2>2, <2>3 DEF Placed, InExt, c
    <2>5. QED  BY <2>1, <2>2, <2>4
  <1>12. QED  BY <1>9, <1>10, <1>11

(* The end of a size line: data if the size is not 0, else the trailer, or  *)
(* the end of the encoding.                                                 *)
LEMMA ExtStream ==
    ASSUME BoundsInv, input.encoded, BufferInv, ret = Running, Placed, Reads("ext")
    PROVE  /\ Line => BufferInv' /\ Placed' /\ ret' = Running
           /\ Complete => Read + 1 = End(input) /\ Out = Len(input.data)
  <1>1. PICK k \in 1..Len(input.chunks) : InExt(input.chunks[k])
    BY DEF Placed, InSize, InExt, InData, InBreak, InHead, InMiddle, Reads
  <1> DEFINE c == input.chunks[k]
             n == Len(input.chunks)
  <1>2. /\ src < bufsz /\ state = "ext" /\ input \in Inputs /\ src \in Nat
    BY DEF Reads, BoundsInv, TypeOK
  <1>3. /\ c.at \in Nat /\ c.digits \in Nat /\ c.line \in Nat /\ c.off \in Nat /\ n \in Nat
        /\ c.size \in Nat
        /\ \A i \in (c.at + c.digits + 1)..(c.line - 1) : input.text[i] # LF
        /\ input.text[c.line] = LF
    BY <1>2, EncodedFacts DEF Encoding, SizeLine
  <1>4. IF k = n THEN c.size = 0 /\ c.off = Len(input.data) /\ c.line = LastLine(input)
                 ELSE c.size > 0 /\ k \in 1..(n - 1)
    <2>1. CASE k = n
      BY <2>1, <1>2, EncodedFacts DEF Encoding, LastLine
    <2>2. CASE k # n
      <3>1. k \in 1..(n - 1)
        BY <2>2, <1>3
      <3>2. QED  BY <2>2, <3>1, <1>2, EncodedFacts DEF Encoding, DataChunk
    <2>3. QED  BY <2>1, <2>2
  <1>5. /\ Read \in (c.at + c.digits)..(c.line - 1) /\ Out = c.off /\ left = c.size
        /\ Char = input.text[Read + 1]
    BY <1>1, <1>2, NextSymbol DEF InExt
  <1>6. IF Char = LF THEN Read + 1 = c.line ELSE Read + 1 \in (c.at + c.digits)..(c.line - 1)
    <2>1. CASE Char = LF
      <3>1. Read + 1 \notin (c.at + c.digits + 1)..(c.line - 1)
        BY <2>1, <1>3, <1>5
      <3>2. Read \in (c.at + c.digits)..(c.line - 1) /\ c.at + c.digits \in Nat /\ c.line \in Nat
        <4> HIDE DEF c
        <4>1. Read \in (c.at + c.digits)..(c.line - 1)
          BY <1>5
        <4>2. c.at + c.digits \in Nat /\ c.line \in Nat
          BY <1>3
        <4>3. QED  BY <4>1, <4>2
      <3>3. QED  BY <2>1, <3>1, <3>2
    <2>2. CASE Char # LF
      <3>1. Read + 1 # c.line
        BY <2>2, <1>3, <1>5
      <3>2. QED  BY <2>2, <3>1, <1>3, <1>5
    <2>3. QED  BY <2>1, <2>2
  <1>7. IF ConsumeTrailer
        THEN /\ LastLine(input) + 2 <= End(input)
             /\ LastLine(input) \in Nat /\ End(input) \in Int
        ELSE End(input) = LastLine(input)
    <2>1. /\ Len(input.text) \in Nat /\ Len(input.rest) \in Nat /\ n \in 1..n
          /\ input.chunks[n].line \in Nat
      BY <1>2, <1>3, EncodedFacts DEF Encoding
    <2>2. IF ConsumeTrailer THEN LastLine(input) + 2 <= End(input)
                            ELSE End(input) = LastLine(input)
      BY <1>2, EncodedFacts DEF Encoding, Trailer
    <2>3. LastLine(input) \in Nat /\ End(input) \in Int
      BY <2>1 DEF LastLine, End
    <2>4. QED  BY <2>2, <2>3
  <1> HIDE DEF c, n
  <1>8. ASSUME Line PROVE BufferInv' /\ Placed' /\ ret' = Running
    <2>1. /\ src' = src + 1 /\ left' = left /\ hex' = hex
          /\ UNCHANGED <<callVars, mem, base, dst, ret>>
          /\ \/ Char # LF /\ state' = "ext"
             \/ Char = LF /\ left # 0 /\ state' = "data"
             \/ Char = LF /\ left = 0 /\ ConsumeTrailer /\ state' = "trailer_head"
      BY <1>2, <1>8 DEF Line, Go, Reads
    <2>2. BufferInv' /\ Read' = Read + 1 /\ Out' = Out
      BY <1>2, <2>1, GoBuffer
    <2>3. input' = input
      BY <2>1 DEF callVars
    <2>4. CASE Char # LF /\ state' = "ext"
      <3>1. Read' \in (c.at + c.digits)..(c.line - 1)
        BY <2>2, <2>4, <1>6
      <3>2. QED
        BY <1>5, <2>1, <2>2, <2>3, <2>4, <3>1 DEF Placed, InExt, c
    <2>5. CASE Char = LF /\ left # 0 /\ state' = "data"
      <3>1. /\ k \in 1..(n - 1) /\ left' = c.size
            /\ Read' = c.line + (c.size - left') /\ Out' = c.off + (c.size - left')
            /\ left' <= c.size
        BY <1>3, <1>4, <1>5, <1>6, <2>1, <2>2, <2>5
      <3>2. QED
        BY <2>1, <2>2, <2>3, <2>5, <3>1 DEF Placed, InData, c, n
    <2>6. CASE Char = LF /\ left = 0 /\ ConsumeTrailer /\ state' = "trailer_head"
      <3>1. /\ Read' = LastLine(input) /\ Out' = Len(input.data)
        BY <1>4, <1>5, <1>6, <2>2, <2>6
      <3>2. /\ Read' \in LastLine(input)..(End(input) - 2) /\ LineEnds(input, Read')
        BY <3>1, <1>7, <2>6 DEF LineEnds
      <3>3. InHead'
        BY <3>1, <3>2, <2>3, <2>6 DEF InHead, LineEnds, LastLine, End
      <3>4. QED  BY <2>1, <2>2, <2>6, <3>3 DEF Placed
    <2>7. QED  BY <2>1, <2>4, <2>5, <2>6
  <1>9. ASSUME Complete PROVE Read + 1 = End(input) /\ Out = Len(input.data)
    <2>1. Char = LF /\ left = 0 /\ ~ConsumeTrailer
      BY <1>2, <1>9 DEF Complete, Reads
    <2>2. QED  BY <2>1, <1>4, <1>5, <1>6, <1>7
  <1>10. QED  BY <1>8, <1>9

(* A chunk's data and the line break behind it.                              *)
LEMMA ChunkTypes ==
    ASSUME input \in Inputs, input.encoded, NEW k \in 1..(Len(input.chunks) - 1)
    PROVE  LET c == input.chunks[k]
               d == input.chunks[k + 1]
           IN  /\ k + 1 \in 1..Len(input.chunks)
               /\ c.line \in Nat /\ c.size \in Nat /\ c.off \in Nat
               /\ DataChunk(input, c, d)
  <1>1. k \in 1..Len(input.chunks) /\ k + 1 \in 1..Len(input.chunks)
    BY EncodedFacts
  <1>2. QED  BY <1>1, EncodedFacts DEF Encoding

(* The data of a chunk goes behind the data of those before it. *)
LEMMA DataStream ==
    ASSUME BoundsInv, input.encoded, BufferInv, Placed, DataPart \/ DataEnd
    PROVE  BufferInv' /\ Placed' /\ ret' \in {Running, Incomplete}
  <1>1. /\ base \in Nat /\ dst \in Nat /\ src \in Nat /\ bufsz \in Nat /\ supplied \in Nat
        /\ src <= bufsz /\ left \in Nat /\ state = "data" /\ ret = Running
        /\ input \in Inputs /\ supplied <= Len(input.text) /\ Len(input.text) \in Nat
    <2>1. Limit[MaxHex] \in Nat
      <3>1. MaxHex \in 0..MaxHex
        BY MaxHexAssumption
      <3>2. QED  BY <3>1, LimitFacts
    <2>2. QED
      BY <2>1, EncodedFacts DEF BoundsInv, TypeOK, PlaceInv, DataPart, DataEnd
  <1>2. PICK k \in 1..(Len(input.chunks) - 1) : InData(input.chunks[k])
    BY <1>1 DEF Placed, InSize, InExt, InData, InBreak, InHead, InMiddle
  <1> DEFINE c == input.chunks[k]
  <1>3. /\ c.line \in Nat /\ c.size \in Nat /\ c.off \in Nat
        /\ c.off + c.size <= Len(input.data)
        /\ \A i \in 1..c.size : input.text[c.line + i] = input.data[c.off + i]
        /\ Len(input.data) \in Nat
    BY <1>1, ChunkTypes, EncodedFacts DEF DataChunk
  <1>4. /\ left <= c.size /\ Read = c.line + (c.size - left) /\ Out = c.off + (c.size - left)
    BY <1>2 DEF InData
  <1> DEFINE n == IF Arrived THEN left ELSE Avail
  <1>5. n \in Nat /\ n <= left /\ src + n <= bufsz
    BY <1>1 DEF Arrived, Avail
  <1>6. /\ mem' = Moved(src, n) /\ src' = src + n /\ dst' = dst + n /\ left' = left - n
        /\ UNCHANGED <<callVars, hex>>
        /\ \/ ret' = Incomplete /\ base' = base + dst + n /\ state' = "data" /\ n = Avail
           \/ ret' = Running /\ base' = base /\ state' = "crlf" /\ n = left
    BY <1>1 DEF DataPart, DataEnd, Part, callVars
  <1> HIDE DEF n, c
  <1>7. Out = base + dst /\ Out' = Out + n /\ Read' = Read + n
    BY <1>1, <1>5, <1>6 DEF Out, Read, callVars, Running, Incomplete
  <1>8. /\ \A i \in 1..Out : mem'[i] = mem[i]
        /\ \A i \in 1..n : mem'[Out + i] = mem[base + src + i]
        /\ \A i \in (Out + n + 1)..(base + bufsz) : mem'[i] = mem[i]
    <2>1. src <= src /\ src \in Nat /\ n \in Nat /\ src + n <= bufsz
      BY <1>1, <1>5
    <2>2. /\ \A i \in 1..(base + dst) : Moved(src, n)[i] = mem[i]
          /\ \A i \in 1..n : Moved(src, n)[base + dst + i] = mem[base + src + i]
          /\ \A i \in (base + dst + n + 1)..(base + bufsz) : Moved(src, n)[i] = mem[i]
      BY <2>1, <1>1, MovedFacts
    <2>3. QED  BY <2>2, <1>6, <1>7
  <1> DEFINE z == c.size
             o == c.off
             l == c.line
  <1>9. /\ l \in Nat /\ z \in Nat /\ o \in Nat /\ Len(input.data) \in Nat
        /\ left \in Nat /\ n \in Nat /\ n <= left /\ left <= z /\ left' = left - n
        /\ o + z <= Len(input.data)
        /\ Read = l + (z - left) /\ Out = o + (z - left)
        /\ Out' = Out + n /\ Read' = Read + n
    BY <1>1, <1>3, <1>4, <1>5, <1>6, <1>7
  <1> HIDE DEF z, o, l
  <1>10. Out' <= Len(input.data) /\ Out \in Nat /\ Read \in Nat
    BY <1>9
  <1>11. ASSUME NEW i \in 1..n PROVE mem'[Out + i] = input.data[Out + i]
    <2>1. i \in 1..Avail
      BY <1>1, <1>5 DEF Avail
    <2>2. mem[base + src + i] = input.text[Read + i]
      BY <2>1, <1>1 DEF BufferInv
    <2>3. /\ (z - left) + i \in 1..z
          /\ Read + i = l + ((z - left) + i)
          /\ Out + i = o + ((z - left) + i)
      BY <1>9
    <2>4. input.text[l + ((z - left) + i)] = input.data[o + ((z - left) + i)]
      BY <2>3, <1>3 DEF z, o, l
    <2>5. QED  BY <2>2, <2>3, <2>4, <1>8
  <1>12. ASSUME NEW i \in 1..Out' PROVE mem'[i] = input'.data[i]
    <2>1. input' = input
      BY <1>6 DEF callVars
    <2>2. CASE i \in 1..Out
      BY <2>1, <2>2, <1>8 DEF BufferInv
    <2>3. CASE ~(i \in 1..Out)
      <3>1. i - Out \in 1..n /\ Out + (i - Out) = i
        BY <2>3, <1>5, <1>7, <1>10
      <3>2. QED  BY <3>1, <1>11, <2>1
    <2>4. QED  BY <2>2, <2>3
  <1>13. ASSUME ret' = Running, NEW i \in 1..Avail'
         PROVE  mem'[base' + src' + i] = input'.text[Read' + i]
    <2>1. base' = base /\ src' = src + n /\ bufsz' = bufsz /\ input' = input
      BY <1>6, <1>13 DEF callVars, Running, Incomplete
    <2>2. n + i \in 1..Avail
      BY <2>1, <1>1, <1>5 DEF Avail
    <2>3. mem[base + src + (n + i)] = input.text[Read + (n + i)]
      BY <2>2, <1>1 DEF BufferInv
    <2>4. /\ base + src + (n + i) = base' + src' + i
          /\ Read + (n + i) = Read' + i
      BY <2>1, <1>1, <1>5, <1>7, <1>10
    <2>5. base + src + (n + i) \in (Out + n + 1)..(base + bufsz)
      <3>1. dst <= src
        BY DEF BoundsInv, PlaceInv
      <3>2. QED  BY <2>2, <3>1, <1>1, <1>5, <1>7 DEF Avail
    <2>6. QED  BY <2>1, <2>3, <2>4, <2>5, <1>8
  <1>14. BufferInv'
    <2>1. bufsz' <= supplied' /\ Out' <= Len(input'.data)
      BY <1>6, <1>10 DEF BufferInv, callVars
    <2>2. ret' = Incomplete => src' = bufsz'
      <3>1. ret' = Incomplete => n = Avail
        BY <1>6 DEF Incomplete, Running
      <3>2. QED  BY <3>1, <1>1, <1>6 DEF Avail, callVars
    <2>3. QED  BY <2>1, <2>2, <1>12, <1>13 DEF BufferInv
  <1>15. Placed'
    <2>1. input' = input
      BY <1>6 DEF callVars
    <2>2. left' <= z /\ Read' = l + (z - left') /\ Out' = o + (z - left')
      BY <1>9
    <2>3. CASE state' = "data"
      BY <2>1, <2>2, <2>3 DEF Placed, InData, c, z, o, l
    <2>4. CASE state' = "crlf" /\ n = left
      <3>1. left' = 0
        BY <2>4, <1>1, <1>6
      <3>2. Read' = l + z /\ Out' = o + z
        BY <2>2, <3>1, <1>9
      <3>3. QED  BY <2>1, <2>4, <3>1, <3>2 DEF Placed, InBreak, c, z, o, l
    <2>5. QED  BY <2>3, <2>4, <1>6
  <1>16. QED  BY <1>6, <1>14, <1>15

(* The line break is there, and the next chunk begins behind it. *)
LEMMA BreakStream ==
    ASSUME BoundsInv, input.encoded, BufferInv, ret = Running, Placed, Reads("crlf")
    PROVE  /\ ~CrlfError
           /\ Line => BufferInv' /\ Placed' /\ ret' = Running
  <1>1. PICK k \in 1..(Len(input.chunks) - 1) : InBreak(input.chunks[k])
    BY DEF Placed, InSize, InExt, InData, InBreak, InHead, InMiddle, Reads
  <1> DEFINE c == input.chunks[k]
             d == input.chunks[k + 1]
  <1>2. /\ src < bufsz /\ state = "crlf" /\ hex = 0 /\ input \in Inputs /\ src \in Nat
    BY DEF Reads, BoundsInv, TypeOK, SizeInv
  <1>3. /\ k + 1 \in 1..Len(input.chunks)
        /\ c.line \in Nat /\ c.size \in Nat
        /\ d.off = c.off + c.size /\ d.at = c.line + c.size + 2
        /\ input.text[c.line + c.size + 1] = CR /\ input.text[c.line + c.size + 2] = LF
    BY <1>2, ChunkTypes DEF DataChunk
  <1>4. d.digits \in Nat /\ d.at \in Nat /\ Value(input.text, d)[0] = 0
    BY <1>2, <1>3, EncodedFacts, ValueFacts
  <1>5. /\ Read \in {c.line + c.size, c.line + c.size + 1}
        /\ Out = c.off + c.size /\ left = 0
        /\ Char = input.text[Read + 1]
    BY <1>1, <1>2, NextSymbol DEF InBreak
  <1> HIDE DEF c, d
  <1>6. \/ Char = CR /\ Read + 1 = c.line + c.size + 1
        \/ Char = LF /\ Read + 1 = d.at
    BY <1>3, <1>5
  <1>7. ~CrlfError
    BY <1>6 DEF CrlfError
  <1>8. ASSUME Line PROVE BufferInv' /\ Placed' /\ ret' = Running
    <2>1. /\ src' = src + 1 /\ left' = 0 /\ hex' = 0
          /\ UNCHANGED <<callVars, mem, base, dst, ret>>
          /\ \/ Char = CR /\ state' = "crlf"
             \/ Char = LF /\ state' = "size"
      BY <1>2, <1>5, <1>8 DEF Line, Go, Reads
    <2>2. BufferInv' /\ Read' = Read + 1 /\ Out' = Out
      BY <1>2, <2>1, GoBuffer
    <2>3. input' = input
      BY <2>1 DEF callVars
    <2>4. CASE Char = CR /\ state' = "crlf"
      <3>1. Read' = c.line + c.size + 1
        BY <2>2, <2>4, <1>6 DEF CR, LF
      <3>2. QED  BY <3>1, <2>1, <2>2, <2>3, <2>4, <1>5 DEF Placed, InBreak, c
    <2>5. CASE Char = LF /\ state' = "size"
      <3>1. Read' = d.at /\ Out' = d.off
        BY <2>2, <2>5, <1>3, <1>5, <1>6 DEF CR, LF
      <3>2. 0 <= d.digits /\ d.at + 0 = d.at
        BY <1>4
      <3>3. QED  BY <3>1, <3>2, <2>1, <2>2, <2>3, <2>5, <1>3, <1>4 DEF Placed, InSize, d
    <2>6. QED  BY <2>1, <2>4, <2>5
  <1>9. QED  BY <1>7, <1>8

(* The trailer: only its empty line ends the encoding. *)
LEMMA TrailerFacts ==
    ASSUME input \in Inputs, input.encoded, ConsumeTrailer
    PROVE  /\ LastLine(input) \in Nat /\ End(input) \in Nat
           /\ LastLine(input) + 2 <= End(input)
           /\ LineEnds(input, End(input) - 2)
           /\ \A p \in LastLine(input)..(End(input) - 3) :
                 LineEnds(input, p) => input.text[p + 1] \notin {CR, LF}
           /\ input.text[End(input) - 1] = CR /\ input.text[End(input)] = LF
  <1>1. Trailer(input) /\ Len(input.chunks) \in 1..Len(input.chunks)
    BY EncodedFacts DEF Encoding
  <1>2. LastLine(input) \in Nat /\ End(input) \in Int
    BY <1>1, EncodedFacts DEF LastLine, End
  <1>3. QED  BY <1>1, <1>2 DEF Trailer

LEMMA TrailerStream ==
    ASSUME BoundsInv, input.encoded, BufferInv, ret = Running, Placed,
           Reads("trailer_head") \/ Reads("trailer_middle")
    PROVE  /\ Line => BufferInv' /\ Placed' /\ ret' = Running
           /\ Complete => Read + 1 = End(input) /\ Out = Len(input.data)
  <1>1. ConsumeTrailer /\ (InHead \/ InMiddle)
    BY DEF Placed, InSize, InExt, InData, InBreak, InHead, InMiddle, Reads
  <1>2. src < bufsz /\ input \in Inputs /\ src \in Nat
    BY DEF Reads, BoundsInv, TypeOK
  <1> DEFINE t == LastLine(input)
             e == End(input)
  <1>3. /\ t \in Nat /\ e \in Nat /\ t + 2 <= e /\ LineEnds(input, e - 2)
        /\ \A p \in t..(e - 3) : LineEnds(input, p) => input.text[p + 1] \notin {CR, LF}
        /\ input.text[e - 1] = CR /\ input.text[e] = LF
    BY <1>1, <1>2, TrailerFacts
  <1>4. /\ Char = input.text[Read + 1] /\ Read \in Nat /\ Out = Len(input.data)
        /\ Read + 1 # t
        /\ (Char = LF <=> LineEnds(input, Read + 1))
    <2>1. Char = input.text[Read + 1] /\ Read \in Nat
      BY <1>2, NextSymbol
    <2>2. Out = Len(input.data) /\ Read + 1 # t
      BY <1>1, <1>3, <2>1 DEF InHead, InMiddle
    <2>3. QED  BY <2>1, <2>2 DEF LineEnds
  <1> HIDE DEF t, e
  (* Where the next symbol stands, by what it is. *)
  <1>5. CASE InHead
    <2>1. \/ Read + 1 = e /\ Char = LF
          \/ Read + 1 = e - 1 /\ Char = CR
          \/ Read + 1 \in t..(e - 2) /\ Char \notin {CR, LF} /\ ~LineEnds(input, Read + 1)
      <3>1. CASE Read = e - 1
        BY <3>1, <1>3, <1>4
      <3>2. CASE Read \in t..(e - 2) /\ LineEnds(input, Read)
        <4>1. CASE Read = e - 2
          <5>1. Read + 1 = e - 1
            BY <4>1, <1>3
          <5>2. QED  BY <5>1, <1>3, <1>4
        <4>2. CASE Read \in t..(e - 3)
          <5>1. Read + 1 \in t..(e - 2)
            BY <4>2, <1>3
          <5>2. Char \notin {CR, LF}
            BY <4>2, <3>2, <1>3, <1>4
          <5>3. QED  BY <5>1, <5>2, <1>4
        <4>3. QED  BY <3>2, <4>1, <4>2, <1>3
      <3>3. QED  BY <3>1, <3>2, <1>5 DEF InHead, t, e
    <2>2. state = "trailer_head"
      BY <1>5 DEF InHead
    <2>3. ASSUME Complete PROVE Read + 1 = e /\ Out = Len(input.data)
      <3>1. Char = LF
        BY <2>3 DEF Complete
      <3>2. QED  BY <3>1, <2>1, <1>4 DEF CR, LF
    <2>4. ASSUME Line PROVE BufferInv' /\ Placed' /\ ret' = Running
      <3>1. /\ src' = src + 1 /\ UNCHANGED <<callVars, mem, base, dst, ret>>
            /\ \/ Char = CR /\ state' = "trailer_head"
               \/ Char \notin {CR, LF} /\ state' = "trailer_middle"
        BY <2>2, <2>4 DEF Line, Go, Reads
      <3>2. BufferInv' /\ Read' = Read + 1 /\ Out' = Out /\ input' = input
        BY <1>2, <3>1, GoBuffer DEF callVars
      <3>3. CASE Char = CR /\ state' = "trailer_head"
        <4>1. Read' = e - 1
          BY <3>2, <3>3, <2>1 DEF CR, LF
        <4>2. InHead'
          BY <4>1, <3>2, <3>3, <1>4 DEF InHead, e
        <4>3. QED  BY <4>2, <3>1, <3>2, <1>1 DEF Placed
      <3>4. CASE Char \notin {CR, LF} /\ state' = "trailer_middle"
        <4>1. Read' \in t..(e - 2) /\ ~LineEnds(input, Read')
          BY <3>2, <3>4, <2>1
        <4>2. Read' # e - 2
          BY <4>1, <1>3
        <4>3. Read' \in t..(e - 3)
          BY <4>1, <4>2, <1>3
        <4>4. InMiddle'
          BY <4>1, <4>3, <3>2, <3>4, <1>4 DEF InMiddle, t, e
        <4>5. QED  BY <4>4, <3>1, <3>2, <1>1 DEF Placed
      <3>5. QED  BY <3>1, <3>3, <3>4
    <2>5. QED  BY <2>3, <2>4 DEF e
  <1>6. CASE InMiddle
    <2>1. state = "trailer_middle" /\ Read \in t..(e - 3)
      BY <1>6 DEF InMiddle, t, e
    <2>2. ~Complete
      BY <2>1 DEF Complete, Reads
    <2>3. ASSUME Line PROVE BufferInv' /\ Placed' /\ ret' = Running
      <3>1. /\ src' = src + 1 /\ UNCHANGED <<callVars, mem, base, dst, ret>>
            /\ \/ Char # LF /\ state' = "trailer_middle"
               \/ Char = LF /\ state' = "trailer_head"
        BY <2>1, <2>3 DEF Line, Go, Reads
      <3>2. BufferInv' /\ Read' = Read + 1 /\ Out' = Out /\ input' = input
        BY <1>2, <3>1, GoBuffer DEF callVars
      <3>3. Read' \in t..(e - 2)
        BY <2>1, <3>2, <1>3
      <3>4. CASE Char # LF /\ state' = "trailer_middle"
        <4>1. ~LineEnds(input, Read')
          BY <3>2, <3>4, <1>4
        <4>2. Read' # e - 2
          BY <4>1, <1>3
        <4>3. Read' \in t..(e - 3)
          BY <3>3, <4>2, <1>3
        <4>4. InMiddle'
          BY <4>1, <4>3, <3>2, <3>4, <1>4 DEF InMiddle, t, e
        <4>5. QED  BY <4>4, <3>1, <3>2, <1>1 DEF Placed
      <3>5. CASE Char = LF /\ state' = "trailer_head"
        <4>1. LineEnds(input, Read')
          BY <3>2, <3>5, <1>4
        <4>2. InHead'
          BY <4>1, <3>2, <3>3, <3>5, <1>4 DEF InHead, t, e
        <4>3. QED  BY <4>2, <3>1, <3>2, <1>1 DEF Placed
      <3>6. QED  BY <3>1, <3>4, <3>5
    <2>4. QED  BY <2>2, <2>3
  <1>7. QED  BY <1>1, <1>5, <1>6

(* The end of the encoding: the data is complete, and what is left in the   *)
(* buffer is what the peer sent behind it.                                  *)
LEMMA CompleteStream ==
    ASSUME BoundsInv, input.encoded, BufferInv, ret = Running, Complete,
           Read + 1 = End(input), Out = Len(input.data)
    PROVE  BufferInv' /\ ret' \in Nat /\ EndReported'
  <1> DEFINE r == bufsz - (src + 1)
  <1>1. /\ src < bufsz /\ src \in Nat /\ bufsz \in Nat /\ base \in Nat /\ dst \in Nat
        /\ supplied \in Nat /\ supplied <= Len(input.text) /\ input \in Inputs
        /\ Exit(r, src + 1)
    BY DEF Complete, Reads, BoundsInv, TypeOK
  <1>2. /\ Len(input.text) \in Nat /\ Len(input.rest) \in Nat /\ Len(input.data) \in Nat
        /\ input.data \in Seq(Symbols) /\ input.rest \in Seq(Symbols)
        /\ \A i \in 1..Len(input.rest) : input.text[End(input) + i] = input.rest[i]
    BY <1>1, EncodedFacts DEF Encoding
  <1>3. r \in Nat /\ src <= src + 1 /\ src + 1 <= bufsz /\ src + 1 \in Nat
    BY <1>1
  <1>4. /\ BufferInv' /\ Out' = Out /\ Read' = Read + ((src + 1) - src)
        /\ \A i \in 1..(bufsz - (src + 1)) : mem'[base' + i] = input.text[Read' + i]
    <2>1. r \in Nat \cup {Error, Incomplete} /\ (r = Incomplete => src + 1 = bufsz)
      BY <1>3 DEF Incomplete
    <2>2. QED  BY <2>1, <1>1, <1>3, ExitBuffer
  <1>5. /\ base' = base + dst /\ ret' = r /\ input' = input /\ supplied' = supplied
        /\ Out = base + dst
    BY <1>1 DEF Exit, callVars, Out
  <1>6. Read \in Int /\ Read' = End(input) /\ End(input) = supplied - r
    BY <1>1, <1>4 DEF Read
  <1>7. r <= Len(input.rest) /\ supplied - r = Len(input.text) - Len(input.rest)
    <2>1. supplied - r = Len(input.text) - Len(input.rest)
      BY <1>6 DEF End
    <2> HIDE DEF r
    <2>2. QED  BY <2>1, <1>1, <1>2, <1>3
  <1>8. mem' \in Seq(Symbols) /\ Len(mem') = base + bufsz
    <2>1. mem' = Moved(src + 1, r)
      BY <1>1 DEF Exit, r
    <2>2. base + bufsz = Len(mem) /\ TypeOK /\ dst <= src
      BY DEF BoundsInv, PlaceInv
    <2>3. dst <= src + 1 /\ base + (src + 1) + r <= Len(mem)
      BY <2>2, <1>1
    <2>4. QED  BY <2>1, <2>2, <2>3, <1>3, MovedType
  <1> HIDE DEF r
  <1>9. /\ Out = Len(input.data) /\ base' = Len(input.data)
        /\ \A i \in 1..Len(input.data) : mem'[i] = input.data[i]
    BY <1>4, <1>5 DEF BufferInv
  <1>10. SubSeq(mem', 1, base') = input.data
    <2>1. base' \in Nat /\ base' <= Len(mem')
      BY <1>1, <1>5, <1>8 DEF BoundsInv, PlaceInv
    <2>2. /\ SubSeq(mem', 1, base') \in Seq(Symbols)
          /\ Len(SubSeq(mem', 1, base')) = base'
          /\ \A i \in 1..base' : SubSeq(mem', 1, base')[i] = mem'[i]
      BY <2>1, <1>8, SubSeqType
    <2>3. QED  BY <2>2, <1>2, <1>9, SeqEqual
  <1>11. SubSeq(mem', base' + 1, base' + r) = SubSeq(input.rest, 1, r)
    <2> DEFINE a == SubSeq(mem', base' + 1, base' + r)
               b == SubSeq(input.rest, 1, r)
    <2>1. base' \in Nat /\ base' + r <= Len(mem')
      <3>1. dst <= src
        BY DEF BoundsInv, PlaceInv
      <3>2. QED  BY <3>1, <1>1, <1>5, <1>8 DEF r
    <2>2. /\ a \in Seq(Symbols) /\ Len(a) = r
          /\ \A i \in 1..r : a[i] = mem'[base' + i]
      <3> DEFINE s == mem'
                 k == base'
      <3>1. s \in Seq(Symbols) /\ k \in Nat /\ r \in Nat /\ k + r <= Len(s)
        BY <2>1, <1>3, <1>8
      <3> HIDE DEF s, k
      <3>2. /\ SubSeq(s, k + 1, k + r) \in Seq(Symbols) /\ Len(SubSeq(s, k + 1, k + r)) = r
            /\ \A i \in 1..r : SubSeq(s, k + 1, k + r)[i] = s[k + i]
        BY <3>1, SliceFacts
      <3>3. QED  BY <3>2 DEF s, k
    <2>3. /\ b \in Seq(Symbols) /\ Len(b) = r
          /\ \A i \in 1..r : b[i] = input.rest[i]
      BY <1>2, <1>3, <1>7, SubSeqType
    <2>4. \A i \in 1..r : mem'[base' + i] = input.rest[i]
      <3> SUFFICES ASSUME NEW i \in 1..r PROVE mem'[base' + i] = input.rest[i]
        OBVIOUS
      <3>1. mem'[base' + i] = input.text[End(input) + i]
        BY <1>4, <1>6 DEF r
      <3>2. i \in 1..Len(input.rest)
        BY <1>2, <1>3, <1>7
      <3>3. QED  BY <3>1, <3>2, <1>2
    <2> HIDE DEF a, b
    <2>5. a = b
      BY <2>2, <2>3, <2>4, SeqEqual
    <2>6. QED  BY <2>5 DEF a, b
  <1>12. EndReported'
    BY <1>5, <1>7, <1>10, <1>11 DEF EndReported
  <1>13. QED  BY <1>3, <1>4, <1>5, <1>12

(* What has not arrived yet is awaited, with the decoder where it is. *)
LEMMA OutOfInputStream ==
    ASSUME BoundsInv, input.encoded, BufferInv, Placed, OutOfInput
    PROVE  BufferInv' /\ Placed' /\ ret' = Incomplete
  <1>1. /\ ret = Running /\ src = bufsz /\ Exit(Incomplete, src) /\ src \in Nat /\ src <= src
    BY DEF OutOfInput, BoundsInv, TypeOK
  <1>2. Incomplete \in Nat \cup {Error, Incomplete}
    OBVIOUS
  <1>3. BufferInv' /\ Out' = Out /\ Read' = Read + (src - src)
    BY <1>1, <1>2, ExitBuffer
  <1>4. Read' = Read
    BY <1>1, <1>3 DEF Read, BoundsInv, TypeOK
  <1>5. UNCHANGED <<input, state, left, hex>> /\ ret' = Incomplete
    BY <1>1 DEF Exit, callVars, decoderVars
  <1>6. Placed'
    BY <1>3, <1>4, <1>5
    DEF Placed, InSize, InExt, InData, InBreak, InHead, InMiddle, LineEnds, LastLine, End
  <1>7. QED  BY <1>3, <1>5, <1>6

(* The next part goes behind what is decoded. *)
LEMMA CallStream ==
    ASSUME BoundsInv, input.encoded, BufferInv, Placed, Call
    PROVE  BufferInv' /\ Placed' /\ ret' = Running
  <1>1. /\ input \in Inputs /\ input.text \in Seq(Symbols) /\ Len(input.text) \in Nat
        /\ mem \in Seq(Symbols) /\ base \in Nat /\ base <= Len(mem)
        /\ supplied \in Nat /\ supplied <= Len(input.text) /\ bufsz \in Nat
    BY InputsAssumption, LenProperties DEF BoundsInv, TypeOK, PlaceInv
  <1>2. PICK k \in 1..(Len(input.text) - supplied) :
            /\ mem' = SubSeq(mem, 1, base) \o SubSeq(input.text, supplied + 1, supplied + k)
            /\ supplied' = supplied + k
            /\ bufsz' = k
    BY DEF Call
  <1>3. k \in Nat /\ supplied + k <= Len(input.text)
    BY <1>1
  <1>4. /\ ret = Incomplete /\ ret' = Running /\ src' = 0 /\ dst' = 0
        /\ UNCHANGED <<input, base, state, left, hex>>
    BY DEF Call, decoderVars
  <1>5. Out = base /\ Out' = base /\ Read' = supplied /\ Read = supplied
    <2>1. src = bufsz
      BY <1>4 DEF BufferInv
    <2>2. QED  BY <2>1, <1>1, <1>2, <1>3, <1>4 DEF Out, Read, Incomplete, Running
  <1> DEFINE a == SubSeq(mem, 1, base)
             b == SubSeq(input.text, supplied + 1, supplied + k)
  <1>6. a \in Seq(Symbols) /\ Len(a) = base /\ \A i \in 1..base : a[i] = mem[i]
    BY <1>1, SubSeqType
  <1>7. b \in Seq(Symbols) /\ Len(b) = k /\ \A i \in 1..k : b[i] = input.text[supplied + i]
    BY <1>1, <1>3, SliceFacts
  <1> HIDE DEF a, b
  <1>8. /\ \A i \in 1..Len(a) : (a \o b)[i] = a[i]
        /\ \A i \in (Len(a) + 1)..(Len(a) + Len(b)) : (a \o b)[i] = b[i - Len(a)]
    BY <1>6, <1>7, ConcatProperties
  <1>9. mem' = a \o b
    BY <1>2 DEF a, b
  <1>10. ASSUME NEW i \in 1..Out' PROVE mem'[i] = input'.data[i]
    BY <1>4, <1>5, <1>6, <1>8, <1>9 DEF BufferInv
  <1>11. ASSUME NEW i \in 1..Avail' PROVE mem'[base' + src' + i] = input'.text[Read' + i]
    <2>1. i \in 1..k
      BY <1>2, <1>3, <1>4 DEF Avail
    <2>2. /\ base + i \in (Len(a) + 1)..(Len(a) + Len(b)) /\ (base + i) - Len(a) = i
          /\ base' + src' + i = base + i
      BY <2>1, <1>1, <1>3, <1>4, <1>6, <1>7
    <2>3. (a \o b)[base + i] = b[i]
      BY <2>2, <1>8
    <2>4. QED  BY <2>1, <2>2, <2>3, <1>4, <1>5, <1>7, <1>9
  <1>12. BufferInv'
    <2>1. bufsz' <= supplied' /\ Out' <= Len(input'.data) /\ ret' # Incomplete
      BY <1>1, <1>2, <1>3, <1>4, <1>5 DEF BufferInv, Incomplete, Running
    <2>2. QED  BY <2>1, <1>10, <1>11 DEF BufferInv
  <1>13. Placed'
    BY <1>4, <1>5
    DEF Placed, InSize, InExt, InData, InBreak, InHead, InMiddle, LineEnds, LastLine, End
  <1>14. QED  BY <1>4, <1>12, <1>13

(* Every step of the decoder and its caller keeps what is decoded right.    *)
LEMMA StreamStep == BoundsInv /\ StreamInv /\ [Next]_vars => StreamInv'
  <1> SUFFICES ASSUME BoundsInv, StreamInv, [Next]_vars, input'.encoded
               PROVE  /\ BufferInv' /\ ret' # Error /\ EndReported'
                      /\ ret' \in {Running, Incomplete} => Placed'
    BY DEF StreamInv
  <1>1. input' = input
    BY DEF Next, Call, OutOfInput, Digit, SizeError, SizeEnd, Line, CrlfError, Complete,
           DataPart, DataEnd, Exit, Go, vars, callVars
  <1>2. /\ input.encoded /\ BufferInv /\ ret # Error /\ EndReported
        /\ ret \in {Running, Incomplete} => Placed
    BY <1>1 DEF StreamInv
  <1>3. ASSUME ret' \in {Running, Incomplete} PROVE EndReported' /\ ret' # Error
    <2>1. ~(ret' >= 0) /\ ret' # Error
      BY <1>3 DEF Running, Incomplete, Error
    <2>2. QED  BY <2>1 DEF EndReported
  <1>4. CASE Call
    <2>1. Placed
      BY <1>2, <1>4 DEF Call
    <2>2. BufferInv' /\ Placed' /\ ret' = Running
      BY <2>1, <1>2, <1>4, CallStream
    <2>3. QED  BY <2>2, <1>3
  <1>5. CASE OutOfInput
    <2>1. Placed
      BY <1>2, <1>5 DEF OutOfInput
    <2>2. BufferInv' /\ Placed' /\ ret' = Incomplete
      BY <2>1, <1>2, <1>5, OutOfInputStream
    <2>3. QED  BY <2>2, <1>3
  <1>6. CASE SizeError \/ Digit \/ SizeEnd
    <2>1. Placed /\ ret = Running /\ Reads("size")
      BY <1>2, <1>6 DEF SizeError, Digit, SizeEnd, Reads
    <2>2. BufferInv' /\ Placed' /\ ret' = Running
      BY <2>1, <1>2, <1>6, SizeStream
    <2>3. QED  BY <2>2, <1>3
  <1>7. CASE Line
    <2>1. /\ Placed /\ ret = Running
          /\ Reads("ext") \/ Reads("crlf") \/ Reads("trailer_head") \/ Reads("trailer_middle")
      BY <1>2, <1>7 DEF Line, Reads
    <2>2. BufferInv' /\ Placed' /\ ret' = Running
      BY <2>1, <1>2, <1>7, ExtStream, BreakStream, TrailerStream
    <2>3. QED  BY <2>2, <1>3
  <1>8. CASE CrlfError
    <2>1. Placed /\ ret = Running /\ Reads("crlf")
      BY <1>2, <1>8 DEF CrlfError, Reads
    <2>2. QED  BY <2>1, <1>2, <1>8, BreakStream
  <1>9. CASE Complete
    <2>1. Placed /\ ret = Running /\ (Reads("ext") \/ Reads("trailer_head"))
      BY <1>2, <1>9 DEF Complete, Reads
    <2>2. Read + 1 = End(input) /\ Out = Len(input.data)
      BY <2>1, <1>2, <1>9, ExtStream, TrailerStream
    <2>3. BufferInv' /\ ret' \in Nat /\ EndReported'
      BY <2>1, <2>2, <1>2, <1>9, CompleteStream
    <2>4. QED  BY <2>3 DEF Error, Running, Incomplete
  <1>10. CASE DataPart \/ DataEnd
    <2>1. Placed
      BY <1>2, <1>10 DEF DataPart, DataEnd
    <2>2. BufferInv' /\ Placed' /\ ret' \in {Running, Incomplete}
      BY <2>1, <1>2, <1>10, DataStream
    <2>3. QED  BY <2>2, <1>3
  <1>11. CASE UNCHANGED vars
    BY <1>2, <1>11
    DEF vars, callVars, decoderVars, BufferInv, EndReported, Out, Read, Avail, Placed, InSize,
        InExt, InData, InBreak, InHead, InMiddle, LineEnds, LastLine, End
  <1>12. QED
    BY <1>4, <1>5, <1>6, <1>7, <1>8, <1>9, <1>10, <1>11 DEF Next

LEMMA StreamInit == Init => StreamInv
  <1> SUFFICES ASSUME Init, input.encoded
               PROVE  BufferInv /\ Placed /\ ret # Error /\ EndReported
    BY DEF StreamInv
  <1>1. /\ input \in Inputs /\ mem = <<>> /\ base = 0 /\ supplied = 0 /\ bufsz = 0 /\ src = 0
        /\ state = "size" /\ left = 0 /\ hex = 0 /\ ret = Incomplete
    BY DEF Init
  <1>2. Out = 0 /\ Read = 0
    BY <1>1 DEF Out, Read, Incomplete, Running
  <1>3. BufferInv
    BY <1>1, <1>2, EncodedFacts DEF BufferInv, Incomplete, Running
  <1>4. Placed
    <2> DEFINE c == input.chunks[1]
    <2>1. 1 \in 1..Len(input.chunks) /\ c.at = 0 /\ c.off = 0 /\ c.digits \in Nat
      BY <1>1, EncodedFacts DEF Encoding
    <2>2. Value(input.text, c)[0] = 0
      BY <2>1, ValueFacts
    <2>3. InSize(c)
      BY <2>1, <2>2, <1>1, <1>2 DEF InSize
    <2>4. QED  BY <2>1, <2>3 DEF Placed
  <1>5. QED  BY <1>1, <1>3, <1>4 DEF EndReported, Incomplete, Error

(* Whatever the parts in which an encoded body arrives, and however it is   *)
(* cut into chunks: what is decoded is a prefix of it, and no error is      *)
(* reported.                                                                *)
THEOREM DecoderCorrect == Spec => []PrefixDecoded
  <1>1. BoundsInv /\ StreamInv => PrefixDecoded
    <2> SUFFICES ASSUME BoundsInv, StreamInv, input.encoded
                 PROVE  /\ Len(Decoded) <= Len(input.data)
                        /\ Decoded = SubSeq(input.data, 1, Len(Decoded))
                        /\ ret # Error
      BY DEF PrefixDecoded
    <2>1. /\ BufferInv /\ ret # Error /\ Out \in Nat /\ Out <= Len(input.data)
          /\ \A i \in 1..Out : mem[i] = input.data[i]
      BY DEF StreamInv, BufferInv, BoundsInv, TypeOK, Out
    <2>2. mem \in Seq(Symbols) /\ Len(mem) \in Nat /\ Out <= Len(mem)
      BY LenProperties DEF BoundsInv, TypeOK, PlaceInv, Out
    <2>3. input.data \in Seq(Symbols)
      BY EncodedFacts DEF BoundsInv, TypeOK
    <2> DEFINE a == SubSeq(mem, 1, Out)
               b == SubSeq(input.data, 1, Out)
    <2>4. a \in Seq(Symbols) /\ Len(a) = Out /\ \A i \in 1..Out : a[i] = mem[i]
      BY <2>1, <2>2, SubSeqType
    <2>5. b \in Seq(Symbols) /\ Len(b) = Out /\ \A i \in 1..Out : b[i] = input.data[i]
      BY <2>1, <2>3, SubSeqType
    <2>6. Decoded = a
      BY DEF Decoded, Out
    <2> HIDE DEF a, b
    <2>7. a = b
      BY <2>1, <2>4, <2>5, SeqEqual
    <2>8. QED  BY <2>1, <2>4, <2>6, <2>7 DEF b
  <1>2. QED
    BY <1>1, BoundsInit, BoundsStep, StreamInit, StreamStep, PTL DEF Spec

(* picohttpparser.h: when the decoder reports the end, the data is complete *)
(* and the number it returns is that of the bytes behind it, where the next *)
(* message begins.                                                          *)
THEOREM EndCorrect == Spec => []EndReported
  <1>1. StreamInv => EndReported
    BY DEF StreamInv, EndReported
  <1>2. QED
    BY <1>1, BoundsInit, BoundsStep, StreamInit, StreamStep, PTL DEF Spec
=============================================================================
