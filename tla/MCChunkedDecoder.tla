-------------------------- MODULE MCChunkedDecoder --------------------------
(* ChunkedDecoder with every encoding of a few short bodies, and with every *)
(* short sequence of symbols.                                               *)
EXTENDS ChunkedDecoder, SequencesExt

(* The reference: how a body is cut into chunks and encoded. *)
Digits(n) == CASE n = 0 -> {<<"0">>, <<"0", "0">>} [] n = 1 -> {<<"1">>, <<"0", "1">>}
               [] n = 2 -> {<<"2">>}
Extensions == {<<>>, <<";", "x">>}
AddChunk(m, c) ==
    [text   |-> m.text \o c.digits \o c.ext \o <<CR, LF>> \o c.data
                    \o (IF c.data = <<>> THEN <<>> ELSE <<CR, LF>>),
     data   |-> m.data \o c.data,
     chunks |-> Append(m.chunks, [at     |-> Len(m.text),
                                  digits |-> Len(c.digits),
                                  line   |-> Len(m.text) + Len(c.digits) + Len(c.ext) + 2,
                                  size   |-> Len(c.data),
                                  off    |-> Len(m.data)])]
Chunks(cs) ==
    LET m[i \in 0..Len(cs)] ==
            IF i = 0 THEN [text |-> <<>>, data |-> <<>>, chunks |-> <<>>]
                     ELSE AddChunk(m[i - 1], cs[i])
    IN  m[Len(cs)]

Bodies == {<<>>, <<LF>>, <<CR, "1", "x">>}
Cuts(data) == {c \in UNION {[1..k -> {<<>>} \cup {SubSeq(data, i, j) : i, j \in 1..Len(data)}]
                            : k \in 0..2} :
                  /\ FlattenSeq(c) = data
                  /\ \A i \in DOMAIN c : Len(c[i]) \in 1..2}
Rests == {<<>>, <<"2", CR>>}
Trailers == {<<>>, <<"x", ";", LF>>}

(* The pieces of a body with the digits of their sizes, an extension in the *)
(* first, and the chunk of size 0.                                          *)
Pieces(cut, e) ==
    {c \in [DOMAIN cut -> [digits : UNION {Digits(n) : n \in 1..2}, ext : {e, <<>>},
                           data : {cut[i] : i \in DOMAIN cut}]] :
        \A i \in DOMAIN cut : /\ c[i].data = cut[i]
                              /\ c[i].digits \in Digits(Len(cut[i]))
                              /\ c[i].ext = IF i = 1 THEN e ELSE <<>>}
EndChunk(d) == [digits |-> d, ext |-> <<>>, data |-> <<>>]

Message(cs, trailer, rest) ==
    LET m == Chunks(cs)
    IN  [encoded |-> TRUE, text |-> m.text \o trailer \o <<CR, LF>> \o rest,
         data |-> m.data, rest |-> rest, chunks |-> m.chunks]

Messages ==
    {Message(Append(cs, EndChunk(z)), trailer, rest) :
        cs \in UNION {Pieces(cut, e) : cut \in UNION {Cuts(data) : data \in Bodies},
                                       e \in Extensions},
        z \in Digits(0), trailer \in Trailers, rest \in Rests}

Short == UNION {[1..n -> Symbols] : n \in 0..3}
AnyInput == {[encoded |-> FALSE, text |-> t, data |-> <<>>, rest |-> <<>>, chunks |-> <<>>] :
                t \in Short \cup {<<"1", LF>> \o u : u \in Short}}

MCInputs == Messages \cup AnyInput
=============================================================================
