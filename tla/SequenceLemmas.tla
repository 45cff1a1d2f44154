--------------------------- MODULE SequenceLemmas ---------------------------
(***************************************************************************)
(* Facts about sequences, and the induction over the natural numbers, that  *)
(* the proofs of this project share.                                        *)
(***************************************************************************)
EXTENDS Integers, Sequences, SequenceTheorems, WellFoundedInduction, TLAPS

(* Numbers have a least one among them. *)
LEMMA LeastOf ==
    ASSUME NEW S, S \subseteq Nat, S # {}
    PROVE  \E m \in S : \A k \in S : m <= k
  <1> DEFINE R == {p \in Nat \X Nat : p[1] < p[2]}
  <1>1. IsWellFoundedOn(R, Nat)
    BY NatLessThanWellFounded, Zenon DEF OpToRel
  <1>2. PICK x \in S : \A y \in S : <<y, x>> \notin R
    <2> HIDE DEF R
    <2>1. QED  BY <1>1, WFMin
  <1>3. \A y \in S : ~(y < x)
    BY <1>2
  <1>4. QED  BY <1>3

(* Induction, for a set: one that has 0, and behind every number the next,  *)
(* has all of them.  (It follows from the least number that is missing.)    *)
LEMMA NatClosed ==
    ASSUME NEW T, 0 \in T, \A n \in T : n \in Nat => n + 1 \in T
    PROVE  Nat \subseteq T
  <1> DEFINE C == Nat \ T
  <1> SUFFICES ASSUME C # {} PROVE FALSE
    OBVIOUS
  <1>1. PICK x \in C : \A y \in C : x <= y
    <2>1. C \subseteq Nat
      OBVIOUS
    <2> HIDE DEF C
    <2>2. QED  BY <2>1, LeastOf
  <1>2. x \in Nat /\ x # 0
    OBVIOUS
  <1>3. x - 1 \in Nat /\ ~(x <= x - 1) /\ x = (x - 1) + 1
    BY <1>2
  <1>4. x - 1 \in T
    BY <1>1, <1>3
  <1>5. QED  BY <1>3, <1>4

(* The first k elements of a sequence are a sequence, of length k. *)
LEMMA SubSeqType ==
    ASSUME NEW S, NEW s \in Seq(S), NEW k \in Nat, k <= Len(s)
    PROVE  /\ SubSeq(s, 1, k) \in Seq(S)
           /\ Len(SubSeq(s, 1, k)) = k
           /\ \A i \in 1..k : SubSeq(s, 1, k)[i] = s[i]
  <1>1. \A i \in 1..k : s[i] \in S
    BY ElementOfSeq, LenProperties
  <1>2. QED  BY <1>1, SubSeqProperties

(* The first of three parts is a prefix of the whole. *)
LEMMA ConcatPrefix ==
    ASSUME NEW S, NEW s \in Seq(S), NEW t \in Seq(S), NEW u \in Seq(S)
    PROVE  /\ Len(s) <= Len((s \o t) \o u)
           /\ \A i \in 1..Len(s) : ((s \o t) \o u)[i] = s[i]
  <1>1. /\ s \o t \in Seq(S)
        /\ Len(s \o t) = Len(s) + Len(t)
        /\ \A i \in 1..Len(s) : (s \o t)[i] = s[i]
    BY ConcatProperties, LenProperties
  <1>2. /\ Len((s \o t) \o u) = Len(s) + Len(t) + Len(u)
        /\ \A i \in 1..Len(s) : ((s \o t) \o u)[i] = (s \o t)[i]
    BY <1>1, ConcatProperties, LenProperties
  <1>3. QED  BY <1>1, <1>2, LenProperties

(* Appending to a concatenation is appending to its last part. *)
LEMMA ConcatAppend ==
    ASSUME NEW S, NEW s \in Seq(S), NEW t \in Seq(S), NEW e \in S
    PROVE  Append(s \o t, e) = s \o Append(t, e)
  <1>1. s \o t \in Seq(S) /\ <<e>> \in Seq(S)
    BY ConcatProperties
  <1>2. Append(s \o t, e) = (s \o t) \o <<e>>
    BY <1>1, AppendIsConcat
  <1>3. Append(t, e) = t \o <<e>>
    BY AppendIsConcat
  <1>4. (s \o t) \o <<e>> = s \o (t \o <<e>>)
    BY <1>1, ConcatAssociative
  <1>5. QED  BY <1>2, <1>3, <1>4

(* A sequence with a beginning of t behind it is a prefix of the same with  *)
(* all of t.                                                                *)
LEMMA ConcatPartial ==
    ASSUME NEW S, NEW s \in Seq(S), NEW t \in Seq(S), NEW k \in Nat, k <= Len(t)
    PROVE  /\ Len(s \o SubSeq(t, 1, k)) = Len(s) + k
           /\ \A i \in 1..(Len(s) + k) : (s \o SubSeq(t, 1, k))[i] = (s \o t)[i]
  <1> DEFINE q == SubSeq(t, 1, k)
  <1>1. /\ q \in Seq(S)
        /\ Len(q) = k
        /\ \A i \in 1..k : q[i] = t[i]
    BY SubSeqType
  <1> HIDE DEF q
  <1>2. /\ Len(s \o q) = Len(s) + Len(q)
        /\ \A i \in 1..(Len(s) + Len(q)) :
              (s \o q)[i] = IF i <= Len(s) THEN s[i] ELSE q[i - Len(s)]
    BY <1>1, ConcatProperties
  <1>3. \A i \in 1..(Len(s) + Len(t)) :
              (s \o t)[i] = IF i <= Len(s) THEN s[i] ELSE t[i - Len(s)]
    BY ConcatProperties
  <1>4. Len(s) \in Nat /\ Len(t) \in Nat
    BY LenProperties
  <1>5. ASSUME NEW i \in 1..(Len(s) + k)
        PROVE  (s \o q)[i] = (s \o t)[i]
    <2>1. CASE i <= Len(s)
      BY <2>1, <1>1, <1>2, <1>3, <1>4
    <2>2. CASE ~(i <= Len(s))
      <3>1. i - Len(s) \in 1..k
        BY <2>2, <1>4
      <3>2. q[i - Len(s)] = t[i - Len(s)]
        BY <3>1, <1>1
      <3>3. (s \o q)[i] = q[i - Len(s)]
        BY <2>2, <1>1, <1>2, <1>4
      <3>4. (s \o t)[i] = t[i - Len(s)]
        <4>1. i \in 1..(Len(s) + Len(t)) /\ ~(i <= Len(s))
          BY <2>2, <1>4
        <4>2. QED  BY <4>1, <1>3
      <3>5. QED  BY <3>2, <3>3, <3>4
    <2>3. QED  BY <2>1, <2>2
  <1>6. QED  BY <1>1, <1>2, <1>5 DEF q

(* Cutting a concatenation where it was joined, or earlier. *)

LEMMA ConcatCut ==
    ASSUME NEW S, NEW s \in Seq(S), NEW t \in Seq(S), NEW k \in Nat, k <= Len(s)
    PROVE  SubSeq(s \o t, 1, k) = SubSeq(s, 1, k)
  <1> DEFINE u == s \o t
  <1>1. /\ u \in Seq(S)
        /\ Len(u) = Len(s) + Len(t)
        /\ \A i \in 1..(Len(s) + Len(t)) :
              u[i] = IF i <= Len(s) THEN s[i] ELSE t[i - Len(s)]
    BY ConcatProperties
  <1>2. Len(s) \in Nat /\ Len(t) \in Nat
    BY LenProperties
  <1> HIDE DEF u
  <1>3. /\ SubSeq(u, 1, k) \in Seq(S)
        /\ Len(SubSeq(u, 1, k)) = k
        /\ \A i \in 1..k : SubSeq(u, 1, k)[i] = u[i]
    BY <1>1, <1>2, SubSeqType
  <1>4. /\ SubSeq(s, 1, k) \in Seq(S)
        /\ Len(SubSeq(s, 1, k)) = k
        /\ \A i \in 1..k : SubSeq(s, 1, k)[i] = s[i]
    BY SubSeqType
  <1>5. \A i \in 1..k : SubSeq(u, 1, k)[i] = SubSeq(s, 1, k)[i]
    BY <1>1, <1>2, <1>3, <1>4
  <1>6. SubSeq(u, 1, k) = SubSeq(s, 1, k)
    BY <1>3, <1>4, <1>5, SeqEqual
  <1>7. QED  BY <1>6 DEF u

(* Behind the first part of a concatenation comes the second. *)
LEMMA ConcatRest ==
    ASSUME NEW S, NEW s \in Seq(S), NEW t \in Seq(S)
    PROVE  SubSeq(s \o t, Len(s) + 1, Len(s \o t)) = t
  <1> DEFINE u == s \o t
             r == SubSeq(u, Len(s) + 1, Len(u))
  <1>1. /\ u \in Seq(S)
        /\ Len(u) = Len(s) + Len(t)
        /\ \A i \in 1..(Len(s) + Len(t)) :
              u[i] = IF i <= Len(s) THEN s[i] ELSE t[i - Len(s)]
    BY ConcatProperties
  <1>2. Len(s) \in Nat /\ Len(t) \in Nat
    BY LenProperties
  <1> HIDE DEF u
  <1>3. \A i \in (Len(s) + 1)..Len(u) : u[i] \in S
    <2>1. \A i \in 1..Len(u) : u[i] \in S
      BY <1>1, ElementOfSeq
    <2>2. QED  BY <2>1, <1>2
  <1>4. /\ r \in Seq(S)
        /\ Len(r) = Len(t)
        /\ \A i \in 1..Len(t) : r[i] = u[Len(s) + i]
    <2>1. Len(u) \in Int /\ Len(s) + 1 \in Int
      BY <1>1, <1>2
    <2>2. /\ r \in Seq(S)
          /\ Len(r) = IF Len(s) + 1 <= Len(u) THEN Len(u) - (Len(s) + 1) + 1 ELSE 0
          /\ \A i \in 1..(Len(u) - (Len(s) + 1) + 1) : r[i] = u[Len(s) + 1 + i - 1]
      BY <2>1, <1>3, SubSeqProperties
    <2> HIDE DEF r
    <2>3. QED  BY <2>2, <1>1, <1>2
  <1> HIDE DEF r
  <1>5. \A i \in 1..Len(t) : r[i] = t[i]
    <2> SUFFICES ASSUME NEW i \in 1..Len(t) PROVE r[i] = t[i]
      OBVIOUS
    <2>1. Len(s) + i \in 1..(Len(s) + Len(t)) /\ ~(Len(s) + i <= Len(s))
      BY <1>2
    <2>2. u[Len(s) + i] = t[Len(s) + i - Len(s)]
      BY <2>1, <1>1
    <2>3. Len(s) + i - Len(s) = i
      BY <1>2
    <2>4. QED  BY <2>2, <2>3, <1>4
  <1>6. r = t
    BY <1>4, <1>5, SeqEqual
  <1>7. QED  BY <1>6 DEF r, u

(* What is left of a sequence without its first k elements. *)
LEMMA RestFacts ==
    ASSUME NEW S, NEW s \in Seq(S), NEW k \in Nat, k <= Len(s)
    PROVE  /\ SubSeq(s, k + 1, Len(s)) \in Seq(S)
           /\ Len(SubSeq(s, k + 1, Len(s))) = Len(s) - k
           /\ \A i \in 1..(Len(s) - k) : SubSeq(s, k + 1, Len(s))[i] = s[k + i]
  <1> DEFINE r == SubSeq(s, k + 1, Len(s))
  <1>1. Len(s) \in Nat
    BY LenProperties
  <1>2. \A i \in (k + 1)..Len(s) : s[i] \in S
    BY <1>1, ElementOfSeq
  <1>3. /\ r \in Seq(S)
        /\ Len(r) = IF k + 1 <= Len(s) THEN Len(s) - (k + 1) + 1 ELSE 0
        /\ \A i \in 1..(Len(s) - (k + 1) + 1) : r[i] = s[k + 1 + i - 1]
    BY <1>1, <1>2, SubSeqProperties
  <1> HIDE DEF r
  <1>4. /\ Len(r) = Len(s) - k
        /\ \A i \in 1..(Len(s) - k) : r[i] = s[k + i]
    BY <1>1, <1>3
  <1>5. QED  BY <1>3, <1>4 DEF r

(* The n elements of a sequence behind its first k. *)
LEMMA SliceFacts ==
    ASSUME NEW S, NEW s \in Seq(S), NEW k \in Nat, NEW n \in Nat, k + n <= Len(s)
    PROVE  /\ SubSeq(s, k + 1, k + n) \in Seq(S)
           /\ Len(SubSeq(s, k + 1, k + n)) = n
           /\ \A i \in 1..n : SubSeq(s, k + 1, k + n)[i] = s[k + i]
  <1> DEFINE a == k + 1
             b == k + n
             r == SubSeq(s, a, b)
  <1>1. a \in Int /\ b \in Int /\ \A i \in a..b : i \in 1..Len(s)
    BY LenProperties
  <1> HIDE DEF a, b
  <1>2. \A i \in a..b : s[i] \in S
    BY <1>1, ElementOfSeq
  <1>3. /\ r \in Seq(S)
        /\ Len(r) = IF a <= b THEN b - a + 1 ELSE 0
        /\ \A i \in 1..(b - a + 1) : r[i] = s[a + i - 1]
    BY <1>1, <1>2, SubSeqProperties
  <1> HIDE DEF r
  <1>4. Len(r) = n /\ \A i \in 1..n : r[i] = s[k + i]
    BY <1>3 DEF a, b
  <1>5. QED  BY <1>3, <1>4 DEF a, b, r

(* A sequence of elements of S is one of elements of every larger set. *)
LEMMA SeqMonotone ==
    ASSUME NEW S, NEW T, S \subseteq T, NEW s \in Seq(S)
    PROVE  s \in Seq(T)
  <1>1. Len(s) \in Nat /\ DOMAIN s = 1..Len(s) /\ s = [i \in 1..Len(s) |-> s[i]]
    BY LenProperties
  <1>2. \A i \in 1..Len(s) : s[i] \in T
    BY ElementOfSeq
  <1>3. QED  BY <1>1, <1>2

(* A sequence is what its two parts give when they are joined. *)
LEMMA CutJoin ==
    ASSUME NEW S, NEW t \in Seq(S), NEW k \in Nat, k <= Len(t)
    PROVE  SubSeq(t, 1, k) \o SubSeq(t, k + 1, Len(t)) = t
  <1> DEFINE a == SubSeq(t, 1, k)
             b == SubSeq(t, k + 1, Len(t))
  <1>1. a \in Seq(S) /\ Len(a) = k /\ \A i \in 1..k : a[i] = t[i]
    BY SubSeqType
  <1>2. /\ b \in Seq(S) /\ Len(b) = Len(t) - k
        /\ \A i \in 1..(Len(t) - k) : b[i] = t[k + i]
    BY RestFacts
  <1> HIDE DEF a, b
  <1>3. Len(t) \in Nat
    BY LenProperties
  <1>4. /\ a \o b \in Seq(S) /\ Len(a \o b) = Len(a) + Len(b)
        /\ \A i \in 1..(Len(a) + Len(b)) :
              (a \o b)[i] = IF i <= Len(a) THEN a[i] ELSE b[i - Len(a)]
    BY <1>1, <1>2, ConcatProperties
  <1>5. ASSUME NEW i \in 1..Len(t)
        PROVE  (a \o b)[i] = t[i]
    <2>1. CASE i <= k
      BY <2>1, <1>1, <1>2, <1>3, <1>4
    <2>2. CASE ~(i <= k)
      <3>1. i - k \in 1..(Len(t) - k) /\ k + (i - k) = i
        BY <2>2, <1>3
      <3>2. (a \o b)[i] = b[i - k]
        BY <2>2, <1>1, <1>2, <1>3, <1>4
      <3>3. b[i - k] = t[k + (i - k)]
        BY <3>1, <1>2
      <3>4. QED  BY <3>1, <3>2, <3>3
    <2>3. QED  BY <2>1, <2>2
  <1>6. Len(a \o b) = Len(t)
    BY <1>1, <1>2, <1>3, <1>4
  <1>7. a \o b = t
    BY <1>4, <1>5, <1>6, SeqEqual
  <1>8. QED  BY <1>7 DEF a, b

(* Moving the first elements of t to the end of s changes nothing in the    *)
(* two behind each other.                                                   *)
LEMMA MoveFront ==
    ASSUME NEW S, NEW s \in Seq(S), NEW t \in Seq(S), NEW k \in Nat, k <= Len(t)
    PROVE  (s \o SubSeq(t, 1, k)) \o SubSeq(t, k + 1, Len(t)) = s \o t
  <1> DEFINE a == SubSeq(t, 1, k)
             b == SubSeq(t, k + 1, Len(t))
  <1>1. a \in Seq(S) /\ b \in Seq(S) /\ a \o b = t
    BY SubSeqType, RestFacts, CutJoin
  <1> HIDE DEF a, b
  <1>2. (s \o a) \o b = s \o (a \o b)
    <2>1. a \in Seq(S) /\ b \in Seq(S)
      BY <1>1
    <2>2. QED  BY <2>1, ConcatAssociative
  <1>3. QED  BY <1>1, <1>2 DEF a, b

-----------------------------------------------------------------------------
(* Short sequences, an element at a time *)

(* One more element behind one. *)
LEMMA AppendToOne ==
    ASSUME NEW a, NEW b
    PROVE  Append(<<a>>, b) = <<a, b>> /\ <<a>> \o <<b>> = <<a, b>>
  <1> DEFINE T == {a, b}
             s == <<a>>
             t == <<a, b>>
             u == Append(s, b)
  <1>1. /\ s \in Seq(T) /\ Len(s) = 1 /\ s[1] = a
        /\ t \in Seq(T) /\ Len(t) = 2 /\ t[1] = a /\ t[2] = b
        /\ b \in T
    OBVIOUS
  <1> HIDE DEF s, t, T
  <1>2. u \in Seq(T) /\ Len(u) = 2 /\ u[1] = a /\ u[2] = b
    <2>1. /\ u \in Seq(T) /\ Len(u) = Len(s) + 1
          /\ \A j \in 1..Len(s) : u[j] = s[j]
          /\ u[Len(s) + 1] = b
      <3>1. \A x \in Seq(T), y \in T :
                /\ Append(x, y) \in Seq(T)
                /\ Len(Append(x, y)) = Len(x) + 1
                /\ \A j \in 1..Len(x) : Append(x, y)[j] = x[j]
                /\ Append(x, y)[Len(x) + 1] = y
        BY AppendProperties
      <3>2. QED  BY <1>1, <3>1
    <2> HIDE DEF u
    <2>2. QED  BY <1>1, <2>1
  <1>3. u = s \o <<b>>
    BY <1>1, AppendIsConcat
  <1> HIDE DEF u
  <1>4. \A j \in 1..2 : u[j] = t[j]
    BY <1>1, <1>2
  <1>5. u = t
    BY <1>1, <1>2, <1>4, SeqEqual
  <1>6. QED  BY <1>3, <1>5 DEF s, t, u

(* One more behind two. *)
LEMMA AppendToTwo ==
    ASSUME NEW a, NEW b, NEW c
    PROVE  Append(<<a, b>>, c) = <<a, b, c>> /\ <<a, b>> \o <<c>> = <<a, b, c>>
  <1> DEFINE T == {a, b, c}
             s == <<a, b>>
             t == <<a, b, c>>
             u == Append(s, c)
  <1>1. /\ s \in Seq(T) /\ Len(s) = 2 /\ s[1] = a /\ s[2] = b
        /\ t \in Seq(T) /\ Len(t) = 3 /\ t[1] = a /\ t[2] = b /\ t[3] = c
        /\ c \in T
    OBVIOUS
  <1> HIDE DEF s, t, T
  <1>2. u \in Seq(T) /\ Len(u) = 3 /\ u[1] = a /\ u[2] = b /\ u[3] = c
    <2>1. /\ u \in Seq(T) /\ Len(u) = Len(s) + 1
          /\ \A j \in 1..Len(s) : u[j] = s[j]
          /\ u[Len(s) + 1] = c
      <3>1. \A x \in Seq(T), y \in T :
                /\ Append(x, y) \in Seq(T)
                /\ Len(Append(x, y)) = Len(x) + 1
                /\ \A j \in 1..Len(x) : Append(x, y)[j] = x[j]
                /\ Append(x, y)[Len(x) + 1] = y
        BY AppendProperties
      <3>2. QED  BY <1>1, <3>1
    <2> HIDE DEF u
    <2>2. QED  BY <1>1, <2>1
  <1>3. u = s \o <<c>>
    BY <1>1, AppendIsConcat
  <1> HIDE DEF u
  <1>4. \A j \in 1..3 : u[j] = t[j]
    BY <1>1, <1>2
  <1>5. u = t
    BY <1>1, <1>2, <1>4, SeqEqual
  <1>6. QED  BY <1>3, <1>5 DEF s, t, u

(* A sequence without its element i. *)
LEMMA CutOneFacts ==
    ASSUME NEW S, NEW s \in Seq(S), NEW i \in 1..Len(s)
    PROVE  LET c == SubSeq(s, 1, i - 1) \o SubSeq(s, i + 1, Len(s))
           IN  /\ c \in Seq(S) /\ Len(c) = Len(s) - 1
               /\ \A j \in 1..Len(c) : c[j] = s[IF j < i THEN j ELSE j + 1]
  <1> DEFINE a == SubSeq(s, 1, i - 1)
             b == SubSeq(s, i + 1, Len(s))
             c == a \o b
  <1>1. Len(s) \in Nat /\ i \in Nat /\ i - 1 \in Nat /\ i <= Len(s)
    BY LenProperties
  <1>2. a \in Seq(S) /\ Len(a) = i - 1 /\ \A j \in 1..(i - 1) : a[j] = s[j]
    BY <1>1, SubSeqType
  <1>3. b \in Seq(S) /\ Len(b) = Len(s) - i /\ \A j \in 1..(Len(s) - i) : b[j] = s[i + j]
    BY <1>1, RestFacts
  <1> HIDE DEF a, b
  <1>4. /\ c \in Seq(S) /\ Len(c) = Len(a) + Len(b)
        /\ \A j \in 1..(Len(a) + Len(b)) : c[j] = IF j <= Len(a) THEN a[j] ELSE b[j - Len(a)]
    BY <1>2, <1>3, ConcatProperties
  <1> HIDE DEF c
  <1>5. Len(c) = Len(s) - 1
    BY <1>1, <1>2, <1>3, <1>4
  <1>6. ASSUME NEW j \in 1..Len(c) PROVE c[j] = s[IF j < i THEN j ELSE j + 1]
    <2>1. CASE j < i
      BY <2>1, <1>1, <1>2, <1>3, <1>4, <1>5
    <2>2. CASE ~(j < i)
      <3>1. j \in 1..(Len(a) + Len(b)) /\ ~(j <= Len(a)) /\ j - Len(a) \in 1..(Len(s) - i)
        BY <2>2, <1>1, <1>2, <1>3, <1>5
      <3>2. c[j] = b[j - Len(a)] /\ b[j - Len(a)] = s[i + (j - Len(a))]
        BY <3>1, <1>3, <1>4
      <3>3. i + (j - Len(a)) = j + 1
        BY <1>1, <1>2
      <3>4. QED  BY <2>2, <3>2, <3>3
    <2>3. QED  BY <2>1, <2>2
  <1>7. QED  BY <1>4, <1>5, <1>6 DEF a, b, c

(* An element in front of a sequence. *)
LEMMA InFrontFacts ==
    ASSUME NEW S, NEW s \in Seq(S), NEW e \in S
    PROVE  /\ <<e>> \o s \in Seq(S) /\ Len(<<e>> \o s) = Len(s) + 1
           /\ (<<e>> \o s)[1] = e
           /\ \A j \in 2..(Len(s) + 1) : (<<e>> \o s)[j] = s[j - 1]
  <1> DEFINE h == <<e>>
  <1>1. h \in Seq(S) /\ Len(h) = 1 /\ h[1] = e
    OBVIOUS
  <1> HIDE DEF h
  <1>2. /\ h \o s \in Seq(S) /\ Len(h \o s) = Len(h) + Len(s)
        /\ \A j \in 1..(Len(h) + Len(s)) :
              (h \o s)[j] = IF j <= Len(h) THEN h[j] ELSE s[j - Len(h)]
    BY <1>1, ConcatProperties
  <1>3. Len(s) \in Nat
    BY LenProperties
  <1>4. (h \o s)[1] = e
    BY <1>1, <1>2, <1>3
  <1>5. \A j \in 2..(Len(s) + 1) : (h \o s)[j] = s[j - 1]
    BY <1>1, <1>2, <1>3
  <1>6. Len(h \o s) = Len(s) + 1
    BY <1>1, <1>2, <1>3
  <1>7. QED  BY <1>2, <1>4, <1>5, <1>6 DEF h
=============================================================================
