------------------------------- MODULE Encode --------------------------------
(* Charsets (Encodec.cpp), over texts: sequences of bytes. *)
LOCAL INSTANCE Integers
LOCAL INSTANCE Sequences

(* What a C function sees of a text: it ends at the first NUL. *)
c_str(s) == IF \A i \in DOMAIN s : s[i] # "NUL" THEN s
            ELSE SubSeq(s, 1, CHOOSE n \in 0..Len(s) : s[n + 1] = "NUL" /\ \A i \in 1..n : s[i] # "NUL")

(* The character that is <<"u1", "u2", "u3">> in UTF-8 and <<"g1", "g2">> in *)
(* GBK stands for all that are not ASCII; a byte that begins no character    *)
(* becomes a question mark.  The Windows functions stop at a NUL.            *)
Utf8 == <<"u1", "u2", "u3">>
Gbk == <<"g1", "g2">>
Convert(s, from, to) ==
    LET conv[i \in 1..(Len(s) + Len(from))] ==
            IF i > Len(s) \/ s[i] = "NUL" THEN <<>>
            ELSE IF i + Len(from) <= Len(s) + 1 /\ SubSeq(s, i, i + Len(from) - 1) = from
            THEN to \o conv[i + Len(from)]
            ELSE <<IF s[i] \in {"u1", "u2", "u3", "g1", "g2"} THEN "?" ELSE s[i]>> \o conv[i + 1]
    IN  conv[1]
GBKToUTF8(s) == Convert(s, Gbk, Utf8)
UTF8ToGBK(s) == Convert(s, Utf8, Gbk)
ToServer(s, isUTF8) == IF isUTF8 THEN UTF8ToGBK(s) ELSE s
=============================================================================
