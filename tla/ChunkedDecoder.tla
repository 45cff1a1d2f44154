--------------------------- MODULE ChunkedDecoder ---------------------------
(***************************************************************************)
(* phr_decode_chunked (picohttpparser.c), the streaming decoder of chunked  *)
(* bodies, called as picohttpparser.h asks: with every newly arrived part   *)
(* behind the data decoded so far, until it reports the end or an error.    *)
(*                                                                          *)
(* The decoder rewrites the caller's buffer in place.  `mem` is that buffer *)
(* behind the header: mem[1..base] is decoded, the argument (buf, bufsz) of *)
(* the current call is mem[base + 1 .. base + bufsz].  A step is one pass   *)
(* of one of the function's loops.                                          *)
(*                                                                          *)
(* A definition named Bug_X differs from X by a plausible slip in the code; *)
(* no behaviour specification uses it.  It shows that a property can fail.  *)
(***************************************************************************)
EXTENDS Integers, Sequences

CONSTANTS Inputs,           \* what the peer may send, see InputsAssumption
          MaxHex,           \* sizeof(size_t) * 2
          ConsumeTrailer    \* decoder->consume_trailer

CR == "CR"
LF == "LF"
Symbols == {CR, LF, "x", ";", "0", "1", "2", "F"}

ASSUME InputsAssumption ==
    Inputs \subseteq [text : Seq(Symbols), encoded : BOOLEAN, data : Seq(Symbols),
                     rest : Seq(Symbols),
                     chunks : Seq([at : Nat, digits : Nat, line : Nat, size : Nat, off : Nat])]
ASSUME MaxHexAssumption == MaxHex \in Nat \ {0}
ASSUME ConsumeTrailerAssumption == ConsumeTrailer \in BOOLEAN

-----------------------------------------------------------------------------
(* What the peer sends: m.text, which, if m.encoded, is an encoding of the  *)
(* body m.data with m.rest behind it.  The digits of a chunk c begin behind *)
(* text[c.at], the line with them ends at text[c.line], and its data is     *)
(* data[c.off + 1 .. c.off + c.size].                                       *)

decode_hex(c) == CASE c = "0" -> 0 [] c = "1" -> 1 [] c = "2" -> 2
                   [] c = "F" -> 15 [] OTHER -> -1

(* What the first n digits of c count to, for each n. *)
Value(text, c) ==
    LET value[n \in 0..c.digits] ==
            IF n = 0 THEN 0 ELSE value[n - 1] * 16 + decode_hex(text[c.at + n])
    IN  value

(* Digits, then anything that is no digit, up to the end of the line. *)
SizeLine(text, c) ==
    /\ c.digits \in 1..MaxHex
    /\ c.at + c.digits < c.line /\ c.line <= Len(text)
    /\ \A i \in 1..c.digits : decode_hex(text[c.at + i]) # -1
    /\ decode_hex(text[c.at + c.digits + 1]) = -1
    /\ \A i \in (c.at + c.digits + 1)..(c.line - 1) : text[i] # LF
    /\ text[c.line] = LF
    /\ c.size = Value(text, c)[c.digits]

(* Chunk c with its data and the line break behind that; d is the next. *)
DataChunk(m, c, d) ==
    /\ c.size > 0
    /\ c.off + c.size <= Len(m.data) /\ d.off = c.off + c.size
    /\ c.line + c.size + 2 <= Len(m.text) /\ d.at = c.line + c.size + 2
    /\ \A i \in 1..c.size : m.text[c.line + i] = m.data[c.off + i]
    /\ m.text[c.line + c.size + 1] = CR /\ m.text[c.line + c.size + 2] = LF

LastLine(m)      == m.chunks[Len(m.chunks)].line    \* that of the size 0
End(m)           == Len(m.text) - Len(m.rest)
LineEnds(m, p)   == p = LastLine(m) \/ m.text[p] = LF

(* Lines that are not empty, and one that is. *)
Trailer(m) ==
    /\ LastLine(m) + 2 <= End(m) /\ LineEnds(m, End(m) - 2)
    /\ \A p \in LastLine(m)..(End(m) - 3) :
           LineEnds(m, p) => m.text[p + 1] \notin {CR, LF}
    /\ m.text[End(m) - 1] = CR /\ m.text[End(m)] = LF

Encoding(m) ==
    LET n == Len(m.chunks)
    IN  /\ n > 0 /\ m.chunks[1].at = 0 /\ m.chunks[1].off = 0
        /\ \A k \in 1..n : SizeLine(m.text, m.chunks[k])
        /\ \A k \in 1..(n - 1) : DataChunk(m, m.chunks[k], m.chunks[k + 1])
        /\ m.chunks[n].size = 0 /\ m.chunks[n].off = Len(m.data)
        /\ IF ConsumeTrailer THEN Trailer(m) ELSE End(m) = LastLine(m)
        /\ \A i \in 1..Len(m.rest) : m.text[End(m) + i] = m.rest[i]

ASSUME EncodedAssumption == \A m \in Inputs : m.encoded => Encoding(m)

-----------------------------------------------------------------------------

VARIABLES input,            \* a member of Inputs
          mem, base,        \* the buffer and how much of it is decoded
          supplied,         \* symbols of input supplied so far
          bufsz, src, dst,  \* of the current call
          state, left, hex, \* _state, bytes_left_in_chunk, _hex_count
          ret               \* Running, or what the last call returned

callVars    == <<input, supplied, bufsz>>
decoderVars == <<state, left, hex>>
vars == <<callVars, mem, base, src, dst, decoderVars, ret>>

Error == -1
Incomplete == -2
Running == -3

Init == /\ input \in Inputs
        /\ mem = <<>> /\ base = 0 /\ supplied = 0
        /\ bufsz = 0 /\ src = 0 /\ dst = 0
        /\ state = "size" /\ left = 0 /\ hex = 0
        /\ ret = Incomplete

(* The caller puts the next k symbols behind what is decoded and calls.     *)
Call == /\ ret = Incomplete
        /\ \E k \in 1..(Len(input.text) - supplied) :
              /\ mem' = SubSeq(mem, 1, base)
                          \o SubSeq(input.text, supplied + 1, supplied + k)
              /\ supplied' = supplied + k
              /\ bufsz' = k
        /\ src' = 0 /\ dst' = 0
        /\ ret' = Running
        /\ UNCHANGED <<input, base, decoderVars>>

-----------------------------------------------------------------------------
(* The function *)

Char  == mem[base + src + 1]        \* buf[src]
IsHex == decode_hex(Char) # -1
Reads(s) == ret = Running /\ state = s /\ src < bufsz
Avail == bufsz - src

(* Nothing is moved. *)
Bug_Moved(from, n) == mem

(* mem behind memmove(buf + dst, buf + from, n) *)
Moved(from, n) == [i \in 1..Len(mem) |->
                      IF i \in (base + dst + 1)..(base + dst + n)
                      THEN mem[i + from - dst] ELSE mem[i]]

(* The label Exit: what is not decoded moves behind what is. *)
Exit(r, end) == /\ mem' = Moved(end, bufsz - end)
                /\ base' = base + dst
                /\ ret' = r
                /\ src' = end
                /\ UNCHANGED <<callVars, dst, decoderVars>>

(* ++src, and on in state s *)
Go(s) == /\ state' = s
         /\ src' = src + 1
         /\ UNCHANGED <<callVars, mem, base, dst, ret>>

OutOfInput == /\ ret = Running /\ state # "data" /\ src = bufsz
              /\ Exit(Incomplete, src)

TooLong == hex = MaxHex

Digit == /\ Reads("size") /\ IsHex /\ ~TooLong
         /\ left' = left * 16 + decode_hex(Char)
         /\ hex' = hex + 1
         /\ Go("size")

SizeError == /\ Reads("size")
             /\ IF IsHex THEN TooLong ELSE hex = 0
             /\ Exit(Error, src)

(* The digits of all chunk sizes are counted together. *)
Bug_SizeEnd == /\ Reads("size") /\ ~IsHex /\ hex # 0
               /\ state' = "ext"
               /\ UNCHANGED <<callVars, mem, base, src, dst, left, hex, ret>>

SizeEnd == /\ Reads("size") /\ ~IsHex /\ hex # 0
           /\ hex' = 0 /\ state' = "ext"
           /\ UNCHANGED <<callVars, mem, base, src, dst, left, ret>>

(* The lines around the data: the rest of the size's line, the line break   *)
(* behind a chunk, and the trailers, which a size of 0 announces.           *)
Line == /\ \/ Reads("ext") /\ Char # LF /\ Go("ext")
           \/ Reads("ext") /\ Char = LF /\ left # 0 /\ Go("data")
           \/ Reads("ext") /\ Char = LF /\ left = 0 /\ ConsumeTrailer
              /\ Go("trailer_head")
           \/ Reads("crlf") /\ Char = CR /\ Go("crlf")
           \/ Reads("crlf") /\ Char = LF /\ Go("size")
           \/ Reads("trailer_head") /\ Char = CR /\ Go("trailer_head")
           \/ Reads("trailer_head") /\ Char \notin {CR, LF} /\ Go("trailer_middle")
           \/ Reads("trailer_middle") /\ Char # LF /\ Go("trailer_middle")
           \/ Reads("trailer_middle") /\ Char = LF /\ Go("trailer_head")
        /\ UNCHANGED <<left, hex>>

CrlfError == /\ Reads("crlf") /\ Char \notin {CR, LF}
             /\ Exit(Error, src)

Complete == /\ \/ Reads("ext") /\ left = 0 /\ ~ConsumeTrailer
               \/ Reads("trailer_head")
            /\ Char = LF
            /\ Exit(bufsz - (src + 1), src + 1)

Arrived == Avail >= left

(* The whole chunk is counted, whatever has arrived of it. *)
Bug_Part == left
Part == Avail

(* The data of the chunk that is there; if the chunk goes on behind it, the *)
(* call is over: src = bufsz, and Exit moves nothing.                       *)
DataPart == /\ ret = Running /\ state = "data" /\ ~Arrived
            /\ mem' = Moved(src, Avail)
            /\ src' = src + Avail /\ dst' = dst + Part
            /\ left' = left - Part
            /\ base' = base + dst + Part
            /\ ret' = Incomplete
            /\ UNCHANGED <<callVars, state, hex>>

DataEnd == /\ ret = Running /\ state = "data" /\ Arrived
           /\ mem' = Moved(src, left)
           /\ src' = src + left /\ dst' = dst + left
           /\ left' = 0
           /\ state' = "crlf"
           /\ UNCHANGED <<callVars, base, hex, ret>>

Next == \/ Call
        \/ OutOfInput
        \/ Digit \/ SizeError \/ SizeEnd
        \/ Line \/ CrlfError \/ Complete
        \/ DataPart \/ DataEnd

Spec == Init /\ [][Next]_vars

(* A function that runs comes to its end, and the caller calls again. *)
FairSpec == Spec /\ WF_vars(Next)

-----------------------------------------------------------------------------
(* Properties *)

(* 16^n, what n hexadecimal digits count to; Limit[MaxHex] is the range of   *)
(* a size_t.                                                                *)
Limit[n \in 0..MaxHex] == IF n = 0 THEN 1 ELSE 16 * Limit[n - 1]

TypeOK == /\ input \in Inputs
          /\ mem \in Seq(Symbols)
          /\ base \in Nat /\ supplied \in 0..Len(input.text)
          /\ bufsz \in Nat /\ src \in Nat /\ dst \in Nat
          /\ state \in {"size", "ext", "data", "crlf", "trailer_head", "trailer_middle"}
          /\ left \in 0..(Limit[MaxHex] - 1)
          /\ hex \in 0..MaxHex
          /\ ret \in Nat \cup {Error, Incomplete, Running}

(* For any input: the function reads and writes inside its argument only,   *)
(* a memmove never moves up, over symbols not read yet, and the size of a   *)
(* chunk does not wrap around a size_t (TypeOK).                            *)
InBounds == /\ TypeOK
            /\ dst <= src /\ src <= bufsz
            /\ ret = Running => base + bufsz = Len(mem)

Decoded == SubSeq(mem, 1, base + (IF ret = Running THEN dst ELSE 0))

(* Whatever the parts in which a body arrives, what is decoded so far is a  *)
(* prefix of it, in place and untouched by later calls, and no error is     *)
(* reported.                                                                *)
PrefixDecoded ==
    input.encoded => /\ Len(Decoded) <= Len(input.data)
                     /\ Decoded = SubSeq(input.data, 1, Len(Decoded))
                     /\ ret # Error

(* picohttpparser.h: at the end the result is "the number of octets left    *)
(* undecoded, that starts from the offset returned by `*bufsz`": the data   *)
(* is complete and the next message of the peer starts right behind it.     *)
EndReported ==
    input.encoded /\ ret >= 0 =>
        /\ SubSeq(mem, 1, base) = input.data
        /\ SubSeq(mem, base + 1, base + ret) = SubSeq(input.rest, 1, ret)
        /\ supplied - ret = Len(input.text) - Len(input.rest)

(* A body that has arrived is decoded to its end. *)
DecodesAll == input.encoded ~> ret >= 0
=============================================================================
