-------------------------- MODULE DataTypes_proofs --------------------------
(***************************************************************************)
(* What the data types promise, for any number of strings, arrays and keys, *)
(* and whatever the calls.                                                   *)
(***************************************************************************)
EXTENDS DataTypes, SequenceLemmas, FiniteSetTheorems

(* Among the first n + 1 numbers is one that a set of n elements has not.   *)
LEMMA UnusedNumber ==
    ASSUME NEW S, IsFiniteSet(S), NEW n \in Nat, Cardinality(S) <= n
    PROVE  \E q \in 1..(n + 1) : q \notin S
  <1> SUFFICES ASSUME 1..(n + 1) \subseteq S PROVE FALSE
    OBVIOUS
  <1>1. Cardinality(1..(n + 1)) = n + 1
    BY FS_Interval
  <1>2. Cardinality(1..(n + 1)) <= Cardinality(S) /\ Cardinality(S) \in Nat
    BY FS_Subset, FS_CardinalityType
  <1>3. QED  BY <1>1, <1>2

-----------------------------------------------------------------------------
(* LruMap *)

Node == [name : Nat, key : Keys]

(* A list kl, the iterators ki into it, the times us of the last uses: no   *)
(* two nodes have one name, every key has its node, and later nodes were    *)
(* used earlier.                                                            *)
ListOk(kl, ki, us) ==
    /\ kl \in Seq(Node) /\ DOMAIN us = DOMAIN ki
    /\ \A k \in DOMAIN us : us[k] \in Nat
    /\ \A i, j \in 1..Len(kl) : kl[i].name = kl[j].name => i = j
    /\ \A i \in 1..Len(kl) : kl[i].key \in DOMAIN ki /\ ki[kl[i].key] = kl[i].name
    /\ \A k \in DOMAIN ki : \E i \in 1..Len(kl) : kl[i].key = k
    /\ \A i, j \in 1..Len(kl) : i < j => us[kl[j].key] < us[kl[i].key]

LruInv == /\ ListOk(_kl, _ki, used)
          /\ DOMAIN _ki = DOMAIN _kv /\ DOMAIN _ki \subseteq Keys
          /\ Len(_kl) <= _capacity
          /\ now \in Nat /\ \A k \in DOMAIN used : used[k] < now

LEMMA LruSets == \A S : /\ Lru!IsFiniteSet(S) <=> IsFiniteSet(S)
                        /\ Lru!Cardinality(S) = Cardinality(S)
  <1>1. \A S : Lru!IsFiniteSet(S) <=> IsFiniteSet(S)
    BY DEF Lru!IsFiniteSet, IsFiniteSet
  <1>2. \A S : Lru!Cardinality(S) = Cardinality(S)
    BY DEF Lru!Cardinality, Cardinality
  <1>3. QED  BY <1>1, <1>2

(* Two nodes with one key are one node, and there are as many as keys.      *)
LEMMA ListFacts ==
    ASSUME NEW kl, NEW ki, NEW us, ListOk(kl, ki, us)
    PROVE  /\ \A i, j \in 1..Len(kl) : kl[i].key = kl[j].key => i = j
           /\ IsFiniteSet(DOMAIN ki) /\ Cardinality(DOMAIN ki) = Len(kl)
  <1>1. Len(kl) \in Nat /\ \A i \in 1..Len(kl) : kl[i] \in Node
    BY ElementOfSeq, LenProperties DEF ListOk
  <1>2. ASSUME NEW i \in 1..Len(kl), NEW j \in 1..Len(kl), kl[i].key = kl[j].key
        PROVE  i = j
    BY <1>2 DEF ListOk
  <1> DEFINE f == [i \in 1..Len(kl) |-> kl[i].key]
  <1>3. f \in Bijection(1..Len(kl), DOMAIN ki)
    <2>1. f \in [1..Len(kl) -> DOMAIN ki]
      BY DEF ListOk
    <2>2. \A i, j \in 1..Len(kl) : f[i] = f[j] => i = j
      BY <1>2
    <2>3. \A k \in DOMAIN ki : \E i \in 1..Len(kl) : f[i] = k
      BY DEF ListOk
    <2> HIDE DEF f
    <2>4. QED  BY <2>1, <2>2, <2>3 DEF Bijection, Injection, Surjection, IsInjective
  <1>4. ExistsBijection(1..Len(kl), DOMAIN ki)
    BY <1>3 DEF ExistsBijection
  <1>5. IsFiniteSet(1..Len(kl)) /\ Cardinality(1..Len(kl)) = Len(kl)
    BY <1>1, FS_Interval
  <1>6. IsFiniteSet(DOMAIN ki) /\ Cardinality(DOMAIN ki) = Cardinality(1..Len(kl))
    BY <1>4, <1>5, FS_Bijection
  <1>7. QED  BY <1>2, <1>5, <1>6

LEMMA CutNode ==
    ASSUME NEW kl \in Seq(Node), NEW p \in 1..Len(kl)
    PROVE  LET c == SubSeq(kl, 1, p - 1) \o SubSeq(kl, p + 1, Len(kl))
           IN  /\ c \in Seq(Node) /\ Len(c) = Len(kl) - 1
               /\ \A j \in 1..Len(c) : c[j] = kl[IF j < p THEN j ELSE j + 1]
  BY CutOneFacts

(* A list without one of its nodes. *)
LEMMA CutOk ==
    ASSUME NEW kl, NEW ki, NEW us, ListOk(kl, ki, us), NEW p \in 1..Len(kl)
    PROVE  LET c == SubSeq(kl, 1, p - 1) \o SubSeq(kl, p + 1, Len(kl))
               k == kl[p].key
           IN  ListOk(c, Lru!Without(ki, k), Lru!Without(us, k)) /\ Len(c) = Len(kl) - 1
  <1> DEFINE c == SubSeq(kl, 1, p - 1) \o SubSeq(kl, p + 1, Len(kl))
             k == kl[p].key
             ci == Lru!Without(ki, k)
             cu == Lru!Without(us, k)
             From(j) == IF j < p THEN j ELSE j + 1
  <1>1. kl \in Seq(Node) /\ Len(kl) \in Nat
    BY LenProperties DEF ListOk
  <1>2. c \in Seq(Node) /\ Len(c) = Len(kl) - 1 /\ \A j \in 1..Len(c) : c[j] = kl[From(j)]
    BY <1>1, CutOneFacts
  <1> HIDE DEF c
  <1>3. \A j \in 1..Len(c) : From(j) \in 1..Len(kl) /\ From(j) # p
    BY <1>1, <1>2
  <1>4. \A i, j \in 1..Len(c) : (From(i) = From(j) => i = j) /\ (i < j => From(i) < From(j))
    BY <1>1, <1>2
  <1>5. \A i \in 1..Len(kl) : i # p => \E j \in 1..Len(c) : From(j) = i
    <2> SUFFICES ASSUME NEW i \in 1..Len(kl), i # p
                 PROVE  \E j \in 1..Len(c) : From(j) = i
      OBVIOUS
    <2>1. CASE i < p
      <3>1. i \in 1..Len(c) /\ From(i) = i
        BY <2>1, <1>1, <1>2
      <3>2. QED  BY <3>1
    <2>2. CASE i > p
      <3>1. i - 1 \in 1..Len(c) /\ From(i - 1) = i
        BY <2>2, <1>1, <1>2
      <3>2. QED  BY <3>1
    <2>3. QED  BY <2>1, <2>2, <1>1
  <1> HIDE DEF From
  <1>6. \A i, j \in 1..Len(kl) : kl[i].key = kl[j].key => i = j
    BY ListFacts
  <1>7. /\ DOMAIN ci = DOMAIN ki \ {k} /\ DOMAIN cu = DOMAIN us \ {k}
        /\ \A h \in DOMAIN ci : ci[h] = ki[h]
        /\ \A h \in DOMAIN cu : cu[h] = us[h]
    BY DEF Lru!Without
  <1> HIDE DEF ci, cu
  <1>8. DOMAIN cu = DOMAIN ci /\ \A h \in DOMAIN cu : cu[h] \in Nat
    BY <1>7 DEF ListOk
  <1>9. ASSUME NEW i \in 1..Len(c), NEW j \in 1..Len(c), c[i].name = c[j].name
        PROVE  i = j
    <2>1. From(i) \in 1..Len(kl) /\ From(j) \in 1..Len(kl) /\ kl[From(i)].name = kl[From(j)].name
      BY <1>2, <1>3, <1>9
    <2>2. From(i) = From(j)
      BY <2>1 DEF ListOk
    <2>3. QED  BY <2>2, <1>4
  <1>10. ASSUME NEW i \in 1..Len(c)
         PROVE  c[i].key \in DOMAIN ci /\ ci[c[i].key] = c[i].name
    <2>1. From(i) \in 1..Len(kl) /\ From(i) # p /\ c[i] = kl[From(i)]
      BY <1>2, <1>3
    <2>2. kl[From(i)].key \in DOMAIN ki /\ ki[kl[From(i)].key] = kl[From(i)].name
      BY <2>1 DEF ListOk
    <2>3. kl[From(i)].key # k
      BY <2>1, <1>6
    <2>4. QED  BY <2>1, <2>2, <2>3, <1>7
  <1>11. \A h \in DOMAIN ci : \E i \in 1..Len(c) : c[i].key = h
    <2> SUFFICES ASSUME NEW h \in DOMAIN ci PROVE \E i \in 1..Len(c) : c[i].key = h
      OBVIOUS
    <2>1. PICK i \in 1..Len(kl) : kl[i].key = h
      BY <1>7 DEF ListOk
    <2>2. i # p
      BY <2>1, <1>7
    <2>3. QED  BY <2>1, <2>2, <1>2, <1>5
  <1>12. \A i, j \in 1..Len(c) : i < j => cu[c[j].key] < cu[c[i].key]
    <2> SUFFICES ASSUME NEW i \in 1..Len(c), NEW j \in 1..Len(c), i < j
                 PROVE  cu[c[j].key] < cu[c[i].key]
      OBVIOUS
    <2>1. us[kl[From(j)].key] < us[kl[From(i)].key]
      BY <1>3, <1>4 DEF ListOk
    <2>2. c[i].key \in DOMAIN cu /\ c[j].key \in DOMAIN cu
      BY <1>8, <1>10
    <2>3. QED  BY <2>1, <2>2, <1>2, <1>7
  <1>13. QED  BY <1>2, <1>8, <1>9, <1>10, <1>11, <1>12 DEF ListOk, c, ci, cu

(* A list with a new node in front, used now. *)
LEMMA InsertOk ==
    ASSUME NEW kl, NEW ki, NEW us, ListOk(kl, ki, us),
           NEW n \in Nat, \A i \in 1..Len(kl) : kl[i].name # n,
           NEW k \in Keys, k \notin DOMAIN ki,
           NEW t \in Nat, \A h \in DOMAIN us : us[h] < t
    PROVE  LET f == <<[name |-> n, key |-> k]>> \o kl
           IN  ListOk(f, Lru!With(ki, k, n), Lru!With(us, k, t)) /\ Len(f) = Len(kl) + 1
  <1> DEFINE e == [name |-> n, key |-> k]
             f == <<e>> \o kl
             fi == Lru!With(ki, k, n)
             fu == Lru!With(us, k, t)
  <1>1. kl \in Seq(Node) /\ Len(kl) \in Nat /\ e \in Node /\ e.name = n /\ e.key = k
    BY LenProperties DEF ListOk, Node
  <1> HIDE DEF e
  <1>2. /\ f \in Seq(Node) /\ Len(f) = Len(kl) + 1 /\ f[1] = e
        /\ \A j \in 2..(Len(kl) + 1) : f[j] = kl[j - 1]
    BY <1>1, InFrontFacts
  <1> HIDE DEF f
  <1>3. \A j \in 1..Len(f) : j # 1 => j \in 2..(Len(kl) + 1) /\ j - 1 \in 1..Len(kl)
    BY <1>1, <1>2
  <1>4. /\ DOMAIN fi = DOMAIN ki \cup {k} /\ DOMAIN fu = DOMAIN us \cup {k}
        /\ fi[k] = n /\ fu[k] = t
        /\ \A h \in DOMAIN ki : fi[h] = ki[h]
        /\ \A h \in DOMAIN us : fu[h] = us[h]
    BY DEF Lru!With, ListOk
  <1> HIDE DEF fi, fu
  <1>5. DOMAIN fu = DOMAIN fi /\ \A h \in DOMAIN fu : fu[h] \in Nat
    BY <1>4 DEF ListOk
  <1>6. \A i, j \in 1..Len(f) : f[i].name = f[j].name => i = j
    <2> SUFFICES ASSUME NEW i \in 1..Len(f), NEW j \in 1..Len(f), f[i].name = f[j].name
                 PROVE  i = j
      OBVIOUS
    <2>1. CASE i # 1 /\ j # 1
      <3>1. kl[i - 1].name = kl[j - 1].name
        BY <2>1, <1>2, <1>3
      <3>2. i - 1 = j - 1
        BY <2>1, <3>1, <1>3 DEF ListOk
      <3>3. QED  BY <3>2, <1>1, <1>2
    <2>2. CASE i = 1 /\ j # 1
      BY <2>2, <1>1, <1>2, <1>3
    <2>3. CASE i # 1 /\ j = 1
      BY <2>3, <1>1, <1>2, <1>3
    <2>4. QED  BY <2>1, <2>2, <2>3
  <1>7. ASSUME NEW i \in 1..Len(f) PROVE f[i].key \in DOMAIN fi /\ fi[f[i].key] = f[i].name
    <2>1. CASE i = 1
      BY <2>1, <1>1, <1>2, <1>4
    <2>2. CASE i # 1
      <3>1. kl[i - 1].key \in DOMAIN ki /\ ki[kl[i - 1].key] = kl[i - 1].name
        BY <2>2, <1>3 DEF ListOk
      <3>2. QED  BY <2>2, <3>1, <1>2, <1>3, <1>4
    <2>3. QED  BY <2>1, <2>2
  <1>8. ASSUME NEW h \in DOMAIN fi PROVE \E i \in 1..Len(f) : f[i].key = h
    <2>1. CASE h = k
      <3>1. 1 \in 1..Len(f) /\ f[1].key = h
        BY <2>1, <1>1, <1>2
      <3>2. QED  BY <3>1
    <2>2. CASE h # k
      <3>1. PICK i \in 1..Len(kl) : kl[i].key = h
        BY <2>2, <1>4 DEF ListOk
      <3>2. i + 1 \in 1..Len(f) /\ i + 1 # 1 /\ (i + 1) - 1 = i
        BY <3>1, <1>1, <1>2
      <3>3. f[i + 1] = kl[(i + 1) - 1]
        BY <3>2, <1>2
      <3>4. QED  BY <3>1, <3>2, <3>3
    <2>3. QED  BY <2>1, <2>2
  <1>9. ASSUME NEW i \in 1..Len(f), NEW j \in 1..Len(f), i < j
        PROVE  fu[f[j].key] < fu[f[i].key]
    <2>1. j # 1 /\ j - 1 \in 1..Len(kl) /\ f[j] = kl[j - 1]
      BY <1>9, <1>2, <1>3
    <2>2. kl[j - 1].key \in DOMAIN us /\ fu[f[j].key] = us[kl[j - 1].key]
      BY <2>1, <1>4 DEF ListOk
    <2>3. CASE i = 1
      BY <2>2, <2>3, <1>1, <1>2, <1>4
    <2>4. CASE i # 1
      <3>1. i - 1 \in 1..Len(kl) /\ f[i] = kl[i - 1] /\ i - 1 < j - 1
        BY <2>4, <1>9, <1>2, <1>3
      <3>2. kl[i - 1].key \in DOMAIN us /\ fu[f[i].key] = us[kl[i - 1].key]
        BY <3>1, <1>4 DEF ListOk
      <3>3. us[kl[j - 1].key] < us[kl[i - 1].key]
        BY <2>1, <3>1 DEF ListOk
      <3>4. QED  BY <2>2, <3>2, <3>3
    <2>5. QED  BY <2>3, <2>4
  <1>10. QED  BY <1>2, <1>5, <1>6, <1>7, <1>8, <1>9 DEF ListOk, e, f, fi, fu

(* A list whose node p, used now, has moved to the front. *)
LEMMA FrontOk ==
    ASSUME NEW kl, NEW ki, NEW us, ListOk(kl, ki, us), NEW p \in 1..Len(kl),
           NEW t \in Nat, \A h \in DOMAIN us : us[h] < t
    PROVE  LET f == <<kl[p]>> \o (SubSeq(kl, 1, p - 1) \o SubSeq(kl, p + 1, Len(kl)))
           IN  ListOk(f, ki, Lru!With(us, kl[p].key, t)) /\ Len(f) = Len(kl)
  <1> DEFINE c == SubSeq(kl, 1, p - 1) \o SubSeq(kl, p + 1, Len(kl))
             k == kl[p].key
             n == kl[p].name
             ci == Lru!Without(ki, k)
             cu == Lru!Without(us, k)
             f == <<kl[p]>> \o c
             fi == Lru!With(ci, k, n)
             fu == Lru!With(cu, k, t)
  <1>1. kl \in Seq(Node) /\ Len(kl) \in Nat /\ kl[p] \in Node
    BY LenProperties, ElementOfSeq DEF ListOk
  <1>2. kl[p] = [name |-> n, key |-> k] /\ n \in Nat /\ k \in Keys
    BY <1>1 DEF Node
  <1>3. ListOk(c, ci, cu) /\ Len(c) = Len(kl) - 1
    BY CutOk
  <1>0. /\ c \in Seq(Node) /\ Len(c) = Len(kl) - 1
        /\ \A j \in 1..Len(c) : c[j] = kl[IF j < p THEN j ELSE j + 1]
    BY <1>1, CutNode
  <1>4. \A i \in 1..Len(c) : c[i].name # n
    <2> HIDE DEF c
    <2> SUFFICES ASSUME NEW i \in 1..Len(c), c[i].name = n PROVE FALSE
      OBVIOUS
    <2>1. i \in 1..Len(kl) /\ i + 1 \in 1..Len(kl) /\ c[i] = kl[IF i < p THEN i ELSE i + 1]
      BY <1>0, <1>1, <1>3
    <2>2. CASE i < p
      <3>1. kl[i].name = kl[p].name
        BY <2>1, <2>2
      <3>2. i = p
        BY <2>1, <3>1 DEF ListOk
      <3>3. QED  BY <2>2, <3>2, <1>1
    <2>3. CASE ~(i < p)
      <3>1. kl[i + 1].name = kl[p].name
        BY <2>1, <2>3
      <3>2. i + 1 = p
        BY <2>1, <3>1 DEF ListOk
      <3>3. QED  BY <2>3, <3>2, <1>1
    <2>4. QED  BY <2>2, <2>3
  <1>5. k \notin DOMAIN ci /\ \A h \in DOMAIN cu : cu[h] < t
    BY DEF Lru!Without
  <1> HIDE DEF c, k, n, ci, cu
  <1>6. ListOk(<<[name |-> n, key |-> k]>> \o c, fi, fu)
    BY <1>2, <1>3, <1>4, <1>5, InsertOk
  <1>7. Len(<<[name |-> n, key |-> k]>> \o c) = Len(c) + 1
    BY <1>2, <1>3, <1>4, <1>5, InsertOk
  <1>8. k \in DOMAIN ki /\ ki[k] = n
    BY DEF ListOk, k, n
  <1>9. \A h \in DOMAIN fi : fi[h] = ki[h]
    BY <1>8 DEF fi, ci, Lru!With, Lru!Without
  <1>10. DOMAIN fi = DOMAIN ki
    BY <1>8 DEF fi, ci, Lru!With, Lru!Without
  <1>11. fu = Lru!With(us, k, t)
    BY DEF fu, cu, Lru!With, Lru!Without
  <1>12. ListOk(f, ki, fu)
    <2>1. ListOk(f, fi, fu)
      BY <1>2, <1>6
    <2> HIDE DEF f, fi, fu
    <2>2. QED  BY <2>1, <1>9, <1>10 DEF ListOk
  <1>13. Len(f) = Len(kl)
    BY <1>1, <1>2, <1>3, <1>7
  <1>14. QED  BY <1>11, <1>12, <1>13 DEF f, c, k

(* The iterator of a key leads to the key's node. *)
LEMMA PlaceFacts ==
    ASSUME LruInv, NEW key \in DOMAIN _kv
    PROVE  Lru!Place(_ki[key]) \in 1..Len(_kl) /\ _kl[Lru!Place(_ki[key])].key = key
  <1>1. DOMAIN _kl = 1..Len(_kl)
    BY LenProperties DEF LruInv, ListOk
  <1>2. PICK i \in 1..Len(_kl) : _kl[i].key = key
    BY DEF LruInv, ListOk
  <1>3. _kl[i].name = _ki[key]
    BY <1>2 DEF LruInv, ListOk
  <1> DEFINE p == Lru!Place(_ki[key])
  <1>4. p \in DOMAIN _kl /\ _kl[p].name = _ki[key]
    BY <1>1, <1>3 DEF Lru!Place
  <1> HIDE DEF p
  <1>5. p = i
    BY <1>1, <1>3, <1>4 DEF LruInv, ListOk
  <1>6. QED  BY <1>1, <1>2, <1>4, <1>5 DEF p

(* There is a name that no node has. *)
LEMMA NewNodeFacts ==
    ASSUME LruInv
    PROVE  Lru!NewNode \in Nat /\ \A i \in 1..Len(_kl) : _kl[i].name # Lru!NewNode
  <1>1. Len(_kl) \in Nat /\ DOMAIN _kl = 1..Len(_kl)
    BY LenProperties DEF LruInv, ListOk
  <1> DEFINE I == 1..Len(_kl)
             Taken == {_kl[i].name : i \in I}
             f == [i \in I |-> _kl[i].name]
  <1>2. IsFiniteSet(I) /\ Cardinality(I) = Len(_kl)
    <2>1. 1 \in Int /\ Len(_kl) \in Int /\ (~(1 > Len(_kl)) \/ Len(_kl) = 0)
      BY <1>1
    <2>2. QED  BY <1>1, <2>1, FS_Interval
  <1>3. IsFiniteSet(Taken) /\ Cardinality(Taken) <= Len(_kl)
    <2>1. f \in [I -> Taken] /\ \A n \in Taken : \E i \in I : f[i] = n
      OBVIOUS
    <2>2. f \in Surjection(I, Taken)
      BY <2>1 DEF Surjection
    <2> HIDE DEF I, Taken, f
    <2>3. QED  BY <2>2, <1>2, FS_Surjection
  <1>4. \E q \in 1..(Len(_kl) + 1) : q \notin Taken
    BY <1>1, <1>3, UnusedNumber
  <1>5. QED  BY <1>1, <1>4 DEF Lru!NewNode

(* A call that finds nothing takes its time only. *)
LEMMA NothingMoved ==
    ASSUME LruInv, UNCHANGED <<_kl, _ki, _kv, used>>, now' = now + 1
    PROVE  LruInv'
  <1>1. ListOk(_kl, _ki, used)'
    BY DEF LruInv, ListOk
  <1>2. now' \in Nat /\ \A k \in DOMAIN used' : used'[k] < now'
    BY DEF LruInv, ListOk
  <1>3. QED  BY <1>1, <1>2 DEF LruInv

LEMMA FindStep == ASSUME LruInv, NEW key \in Keys, Lru!find(key) PROVE LruInv'
  <1>1. now' = now + 1 /\ UNCHANGED <<_kv, _ki>>
    BY DEF Lru!find, Lru!Call
  <1>2. CASE key \notin DOMAIN _kv
    <2>1. _kl' = _kl /\ used' = used
      BY <1>2 DEF Lru!find
    <2>2. QED  BY <1>1, <2>1, NothingMoved
  <1>3. CASE key \in DOMAIN _kv
    <2> DEFINE p == Lru!Place(_ki[key])
    <2>1. p \in 1..Len(_kl) /\ _kl[p].key = key
      BY <1>3, PlaceFacts
    <2>2. used' = Lru!With(used, key, now)
      BY <1>3 DEF Lru!find
    <2>3. /\ ListOk(_kl, _ki, used) /\ now \in Nat /\ \A h \in DOMAIN used : used[h] < now
          /\ DOMAIN used = DOMAIN _ki /\ DOMAIN _ki = DOMAIN _kv
          /\ Len(_kl) \in Nat
      BY LenProperties DEF LruInv, ListOk
    <2>4. ListOk(_kl, _ki, used)' /\ Len(_kl') = Len(_kl)
      <3>1. CASE _kl[1].key # key
        <4>1. _kl' = <<_kl[p]>> \o (SubSeq(_kl, 1, p - 1) \o SubSeq(_kl, p + 1, Len(_kl)))
          BY <1>3, <3>1 DEF Lru!find, Lru!Front, Lru!Cut
        <4> HIDE DEF p
        <4>2. ListOk(_kl', _ki, used') /\ Len(_kl') = Len(_kl)
          BY <2>1, <2>2, <2>3, <4>1, FrontOk
        <4>3. QED  BY <4>2, <1>1 DEF ListOk
      <3>2. CASE _kl[1].key = key
        <4>1. _kl' = _kl
          BY <3>2 DEF Lru!find
        <4>2. /\ DOMAIN used' = DOMAIN used /\ used'[key] = now
              /\ \A h \in DOMAIN used : h # key => used'[h] = used[h]
          BY <1>3, <2>2, <2>3 DEF Lru!With
        <4>3. \A i \in 1..Len(_kl) : i # 1 => _kl[i].key # key
          BY <2>3, <3>2, ListFacts
        <4>4. \A i, j \in 1..Len(_kl) : i < j => used'[_kl[j].key] < used'[_kl[i].key]
          <5> SUFFICES ASSUME NEW i \in 1..Len(_kl), NEW j \in 1..Len(_kl), i < j
                       PROVE  used'[_kl[j].key] < used'[_kl[i].key]
            OBVIOUS
          <5>1. /\ _kl[i].key \in DOMAIN used /\ _kl[j].key \in DOMAIN used
                /\ used[_kl[j].key] < used[_kl[i].key]
            BY <2>3 DEF ListOk
          <5>2. used'[_kl[j].key] = used[_kl[j].key]
            BY <4>2, <4>3, <5>1
          <5>3. CASE i = 1
            BY <2>3, <3>2, <4>2, <5>1, <5>2, <5>3
          <5>4. CASE i # 1
            BY <4>2, <4>3, <5>1, <5>2, <5>4
          <5>5. QED  BY <5>3, <5>4
        <4>5. \A h \in DOMAIN used' : used'[h] \in Nat
          BY <2>3, <4>2 DEF ListOk
        <4>6. QED  BY <1>1, <2>3, <4>1, <4>2, <4>4, <4>5 DEF ListOk
      <3>3. QED  BY <3>1, <3>2
    <2>5. \A h \in DOMAIN used' : used'[h] < now'
      BY <1>1, <2>2, <2>3 DEF ListOk, Lru!With
    <2>6. QED  BY <1>1, <2>3, <2>4, <2>5 DEF LruInv
  <1>4. QED  BY <1>2, <1>3

LEMMA EraseStep == ASSUME LruInv, NEW key \in Keys, Lru!erase(key) PROVE LruInv'
  <1>1. now' = now + 1
    BY DEF Lru!erase, Lru!Call
  <1>2. CASE key \notin DOMAIN _kv
    <2>1. UNCHANGED <<_kl, _ki, _kv, used>>
      BY <1>2 DEF Lru!erase
    <2>2. QED  BY <1>1, <2>1, NothingMoved
  <1>3. CASE key \in DOMAIN _kv
    <2> DEFINE p == Lru!Place(_ki[key])
    <2>1. p \in 1..Len(_kl) /\ _kl[p].key = key
      BY <1>3, PlaceFacts
    <2>2. /\ _kl' = SubSeq(_kl, 1, p - 1) \o SubSeq(_kl, p + 1, Len(_kl))
          /\ _ki' = Lru!Without(_ki, key) /\ _kv' = Lru!Without(_kv, key)
          /\ used' = Lru!Without(used, key)
      BY <1>3 DEF Lru!erase, Lru!Cut
    <2> HIDE DEF p
    <2>3. ListOk(_kl', _ki', used') /\ Len(_kl') = Len(_kl) - 1
      BY <2>1, <2>2, CutOk DEF LruInv
    <2>4. DOMAIN _ki' = DOMAIN _kv' /\ DOMAIN _ki' \subseteq Keys
      BY <2>2 DEF LruInv, Lru!Without
    <2>5. \A h \in DOMAIN used' : used'[h] < now'
      BY <1>1, <2>2 DEF LruInv, ListOk, Lru!Without
    <2>6. Len(_kl') <= _capacity
      BY <2>3, LenProperties, CapacityAssumption DEF LruInv, ListOk, Lru!CapacityAssumption
    <2>7. now' \in Nat
      BY <1>1 DEF LruInv
    <2>8. ListOk(_kl, _ki, used)'
      BY <2>3 DEF ListOk
    <2>9. QED  BY <2>4, <2>5, <2>6, <2>7, <2>8 DEF LruInv
  <1>4. QED  BY <1>2, <1>3

(* A full map first gives up the key at the end of the list. *)
LEMMA InsertStep ==
    ASSUME LruInv, NEW key \in Keys, NEW value \in Vals, Lru!insert(key, value)
    PROVE  LruInv'
  <1> DEFINE full == Lru!Cardinality(DOMAIN _kv) >= _capacity
             old  == _kl[Len(_kl)].key
             kv   == IF full THEN Lru!Without(_kv, old) ELSE _kv
             ki   == IF full THEN Lru!Without(_ki, old) ELSE _ki
             kl   == IF full THEN Lru!Cut(Len(_kl)) ELSE _kl
             kept == IF full THEN Lru!Without(used, old) ELSE used
             n    == Lru!NewNode
  <1>0. now' = now + 1
    BY DEF Lru!insert, Lru!Call
  <1>1. IF key \in DOMAIN kv THEN _kv' = kv /\ _ki' = ki /\ _kl' = kl /\ used' = kept
        ELSE /\ _kv' = Lru!With(kv, key, value)
             /\ _kl' = <<[name |-> n, key |-> key]>> \o kl
             /\ _ki' = Lru!With(ki, key, n)
             /\ used' = Lru!With(kept, key, now)
    BY DEF Lru!insert
  <1>2. /\ ListOk(_kl, _ki, used) /\ now \in Nat /\ Len(_kl) \in Nat /\ Len(_kl) <= _capacity
        /\ DOMAIN used = DOMAIN _ki /\ DOMAIN _ki = DOMAIN _kv /\ DOMAIN _ki \subseteq Keys
        /\ \A h \in DOMAIN used : used[h] < now
        /\ _capacity \in Nat \ {0}
    BY LenProperties, CapacityAssumption DEF LruInv, ListOk, Lru!CapacityAssumption
  <1>3. Lru!Cardinality(DOMAIN _kv) = Len(_kl)
    BY <1>2, LruSets, ListFacts
  <1>4. n \in Nat /\ \A i \in 1..Len(_kl) : _kl[i].name # n
    BY NewNodeFacts
  <1>5. /\ ListOk(kl, ki, kept) /\ Len(kl) < _capacity
        /\ DOMAIN ki = DOMAIN kv /\ DOMAIN ki \subseteq Keys
        /\ \A h \in DOMAIN kept : kept[h] < now
        /\ \A i \in 1..Len(kl) : kl[i].name # n
    <2>1. CASE full
      <3>1. Len(_kl) \in 1..Len(_kl) /\ Len(_kl) = _capacity
        BY <2>1, <1>2, <1>3
      <3>2. kl = SubSeq(_kl, 1, Len(_kl) - 1) \o SubSeq(_kl, Len(_kl) + 1, Len(_kl))
        BY <2>1 DEF Lru!Cut
      <3>3. ListOk(kl, ki, kept) /\ Len(kl) = Len(_kl) - 1
        BY <2>1, <3>1, <3>2, <1>2, CutOk
      <3>4. _kl \in Seq(Node)
        BY <1>2 DEF ListOk
      <3>5. \A i \in 1..Len(kl) : kl[i] = _kl[IF i < Len(_kl) THEN i ELSE i + 1]
        BY <3>1, <3>2, <3>4, CutOneFacts
      <3>6. \A i \in 1..Len(kl) : kl[i].name # n
        <4> HIDE DEF kl, n, ki, kept, kv
        <4>1. QED  BY <3>1, <3>3, <3>5, <1>2, <1>4
      <3>7. /\ DOMAIN ki = DOMAIN kv /\ DOMAIN ki \subseteq Keys
            /\ \A h \in DOMAIN kept : kept[h] < now
        BY <2>1, <1>2 DEF Lru!Without
      <3>8. QED  BY <3>1, <3>3, <3>6, <3>7
    <2>2. CASE ~full
      BY <2>2, <1>2, <1>3, <1>4
    <2>3. QED  BY <2>1, <2>2
  <1> HIDE DEF full, old, kv, ki, kl, kept, n
  <1>6. CASE key \in DOMAIN kv
    <2>1. \A h \in DOMAIN used' : used'[h] < now'
      BY <1>0, <1>1, <1>2, <1>5, <1>6 DEF ListOk
    <2>2. ListOk(_kl, _ki, used)'
      BY <1>1, <1>5, <1>6 DEF ListOk
    <2>3. QED  BY <1>0, <1>1, <1>2, <1>5, <1>6, <2>1, <2>2, LenProperties DEF LruInv, ListOk
  <1>7. CASE key \notin DOMAIN kv
    <2>1. ListOk(_kl', _ki', used') /\ Len(_kl') = Len(kl) + 1
      <3>1. LET f == <<[name |-> n, key |-> key]>> \o kl
            IN  ListOk(f, Lru!With(ki, key, n), Lru!With(kept, key, now)) /\ Len(f) = Len(kl) + 1
        BY <1>2, <1>4, <1>5, <1>7, InsertOk
      <3>2. QED  BY <3>1, <1>1, <1>7
    <2>2. ListOk(_kl, _ki, used)'
      BY <2>1 DEF ListOk
    <2>3. DOMAIN _ki' = DOMAIN _kv' /\ DOMAIN _ki' \subseteq Keys
      BY <1>1, <1>5, <1>7 DEF Lru!With
    <2>4. \A h \in DOMAIN used' : used'[h] < now'
      BY <1>0, <1>1, <1>2, <1>5, <1>7 DEF Lru!With, ListOk
    <2>5. Len(_kl') <= _capacity
      <3>1. Len(kl) \in Nat
        BY <1>5, LenProperties DEF ListOk
      <3>2. QED  BY <3>1, <2>1, <1>2, <1>5
    <2>6. QED  BY <1>0, <1>1, <1>2, <2>2, <2>3, <2>4, <2>5 DEF LruInv
  <1>8. QED  BY <1>6, <1>7

(* For every capacity and any keys: the map, its list and the iterators     *)
(* stay in step, and the key that is given up when the map is full is the   *)
(* one that was not used for longest.                                        *)
THEOREM LruCorrect == Lru!Spec => []OldestForgotten
  <1>1. Lru!Init => LruInv
    <2> SUFFICES ASSUME Lru!Init PROVE LruInv
      OBVIOUS
    <2>1. /\ _kl = <<>> /\ now = 0
          /\ DOMAIN _kv = {} /\ DOMAIN _ki = {} /\ DOMAIN used = {}
      BY DEF Lru!Init, Lru!Nothing
    <2>2. _kl \in Seq(Node) /\ Len(_kl) = 0
      BY <2>1
    <2>3. QED
      BY <2>1, <2>2, CapacityAssumption DEF LruInv, ListOk, Lru!CapacityAssumption
  <1>2. LruInv /\ [Lru!Next]_(Lru!vars) => LruInv'
    <2> SUFFICES ASSUME LruInv, [Lru!Next]_(Lru!vars)
                 PROVE  LruInv'
      OBVIOUS
    <2>1. ASSUME NEW key \in Keys, Lru!find(key) PROVE LruInv'
      BY <2>1, FindStep
    <2>2. ASSUME NEW key \in Keys, Lru!erase(key) PROVE LruInv'
      BY <2>2, EraseStep
    <2>3. ASSUME NEW key \in Keys, NEW value \in Vals, Lru!insert(key, value) PROVE LruInv'
      BY <2>3, InsertStep
    <2>4. CASE Lru!clear
      <3>1. /\ _kl' = <<>> /\ now' = now + 1
            /\ DOMAIN _kv' = {} /\ DOMAIN _ki' = {} /\ DOMAIN used' = {}
        BY <2>4 DEF Lru!clear, Lru!Call, Lru!Nothing
      <3>2. _kl' \in Seq(Node) /\ Len(_kl') = 0
        BY <3>1
      <3>3. QED
        BY <3>1, <3>2, CapacityAssumption DEF LruInv, ListOk, Lru!CapacityAssumption
    <2>5. CASE UNCHANGED Lru!vars
      BY <2>5 DEF Lru!vars, LruInv, ListOk
    <2>6. QED  BY <2>1, <2>2, <2>3, <2>4, <2>5 DEF Lru!Next
  <1>3. LruInv => OldestForgotten
    <2> SUFFICES ASSUME LruInv PROVE OldestForgotten
      OBVIOUS
    <2>1. /\ ListOk(_kl, _ki, used) /\ Len(_kl) \in Nat /\ DOMAIN _kl = 1..Len(_kl)
          /\ DOMAIN used = DOMAIN _ki /\ DOMAIN _ki = DOMAIN _kv
      BY LenProperties DEF LruInv, ListOk
    <2>2. Len(_kl) = Lru!Cardinality(DOMAIN _kv)
      BY <2>1, LruSets, ListFacts
    <2>3. ASSUME NEW key \in DOMAIN _ki
          PROVE  \E i \in DOMAIN _kl : _kl[i] = [name |-> _ki[key], key |-> key]
      <3>1. PICK i \in 1..Len(_kl) : _kl[i].key = key
        BY <2>1 DEF ListOk
      <3>2. _kl[i].name = _ki[key] /\ _kl[i] \in Node
        BY <2>1, <3>1, ElementOfSeq DEF ListOk
      <3>3. _kl[i] = [name |-> _ki[key], key |-> key]
        BY <3>1, <3>2 DEF Node
      <3>4. QED  BY <2>1, <3>3
    <2>4. \A i \in 2..Len(_kl) : used[_kl[i].key] < used[_kl[i - 1].key]
      <3>1. \A i \in 2..Len(_kl) : i \in 1..Len(_kl) /\ i - 1 \in 1..Len(_kl) /\ i - 1 < i
        BY <2>1
      <3>2. QED  BY <2>1, <3>1 DEF ListOk
    <2>5. Len(_kl) <= _capacity
      BY DEF LruInv
    <2>6. QED
      BY <2>1, <2>2, <2>3, <2>4, <2>5 DEF OldestForgotten, Lru!OldestForgotten
  <1>4. QED  BY <1>1, <1>2, <1>3, PTL DEF Lru!Spec

-----------------------------------------------------------------------------
(* Array *)

Cells == Values \cup {Arrays!Raw, Arrays!Husk}

ArrayRecord == [p : Nat, cap : Nat, size : Nat, cells : Seq(Cells), n : Int]

(* An array a whose values are those of the list. *)
Holds(a, list) ==
    /\ a \in ArrayRecord /\ Len(a.cells) = a.cap
    /\ a.size <= a.cap /\ (a.p = 0 => a.cap = 0)
    /\ list \in Seq(Values) /\ Len(list) = a.size
    /\ \A i \in 1..a.size : a.cells[i] = list[i]
    /\ \A i \in (a.size + 1)..a.cap : a.cells[i] \notin Values

LEMMA ArraySets == \A S : /\ Arrays!IsFiniteSet(S) <=> IsFiniteSet(S)
                          /\ Arrays!Cardinality(S) = Cardinality(S)
  <1>1. \A S : Arrays!IsFiniteSet(S) <=> IsFiniteSet(S)
    BY DEF Arrays!IsFiniteSet, IsFiniteSet
  <1>2. \A S : Arrays!Cardinality(S) = Cardinality(S)
    BY DEF Arrays!Cardinality, Cardinality
  <1>3. QED  BY <1>1, <1>2

(* A new address is none of those in use. *)
LEMMA ArrayFresh ==
    ASSUME IsFiniteSet(DOMAIN arr_mem)
    PROVE  Arrays!Fresh(arr_mem) \in Nat \ {0} /\ Arrays!Fresh(arr_mem) \notin DOMAIN arr_mem
  <1> DEFINE D == DOMAIN arr_mem
             n == Cardinality(D)
  <1>1. n \in Nat /\ Arrays!Cardinality(D) = n
    BY FS_CardinalityType, ArraySets
  <1>2. \E q \in 1..(n + 1) : q \notin D
    <2> HIDE DEF D, n
    <2>1. QED  BY <1>1, UnusedNumber DEF D, n
  <1>3. Arrays!Fresh(arr_mem) \in 1..(n + 1) /\ Arrays!Fresh(arr_mem) \notin D
    BY <1>1, <1>2 DEF Arrays!Fresh
  <1>4. QED  BY <1>1, <1>3

(* A function on the first n numbers is a sequence. *)
LEMMA FunctionIsSeq ==
    ASSUME NEW S, NEW n \in Nat, NEW f \in [1..n -> S]
    PROVE  f \in Seq(S) /\ Len(f) = n
  OBVIOUS

LEMMA EmptyHolds == Holds(Arrays!Empty, <<>>) /\ Arrays!Empty.n = 0 /\ Arrays!Empty.p = 0
  BY DEF Arrays!Empty, Arrays!Null, Holds, ArrayRecord

(* Cells without an object. *)
LEMMA RawsFacts ==
    ASSUME NEW n \in Nat
    PROVE  /\ Arrays!Raws(n) \in Seq(Cells) /\ Len(Arrays!Raws(n)) = n
           /\ \A i \in 1..n : Arrays!Raws(n)[i] \notin Values
  BY ValuesAssumption DEF Arrays!Raws, Cells, Arrays!ValuesAssumption

LEMMA NewBlockHolds ==
    ASSUME NEW cap \in Nat, IsFiniteSet(DOMAIN arr_mem)
    PROVE  LET a == Arrays!alloc(cap)
           IN  /\ Holds(a, <<>>) /\ a.n = 0 /\ a.size = 0 /\ a.cap = cap
               /\ a.p = Arrays!Fresh(arr_mem)
  <1> DEFINE a == Arrays!alloc(cap)
             r == Arrays!Raws(cap)
  <1>1. Arrays!Fresh(arr_mem) \in Nat \ {0}
    BY ArrayFresh
  <1>2. r \in Seq(Cells) /\ Len(r) = cap /\ \A i \in 1..cap : r[i] \notin Values
    BY RawsFacts
  <1>3. Arrays!Empty \in ArrayRecord /\ Arrays!Empty.size = 0 /\ Arrays!Empty.n = 0
    BY DEF Arrays!Empty, Arrays!Null, ArrayRecord
  <1>4. /\ a \in ArrayRecord /\ a.p = Arrays!Fresh(arr_mem) /\ a.cap = cap /\ a.size = 0
        /\ a.cells = r /\ a.n = 0
    BY <1>1, <1>2, <1>3 DEF Arrays!alloc, ArrayRecord
  <1> HIDE DEF a, r
  <1>5. QED  BY <1>1, <1>2, <1>4 DEF Holds, a

(* More room for an array. *)
LEMMA ReallocHolds ==
    ASSUME IsFiniteSet(DOMAIN arr_mem), NEW a, NEW list, Holds(a, list),
           NEW n \in Nat, a.cap <= n
    PROVE  LET b == Arrays!realloc(a, n)
           IN  /\ Holds(b, list) /\ b.n = a.n /\ b.size = a.size /\ b.cap = n
               /\ b.p = Arrays!Fresh(arr_mem)
  <1> DEFINE r == Arrays!Raws(n - a.cap)
             c == a.cells \o r
             b == Arrays!realloc(a, n)
  <1>1. Arrays!Fresh(arr_mem) \in Nat \ {0}
    BY ArrayFresh
  <1>2. n - a.cap \in Nat /\ a.cap \in Nat /\ a.size \in Nat /\ a.size <= a.cap
    BY DEF Holds, ArrayRecord
  <1>3. a.cells \in Seq(Cells) /\ Len(a.cells) = a.cap
    BY DEF Holds, ArrayRecord
  <1>4. r \in Seq(Cells) /\ Len(r) = n - a.cap /\ \A i \in 1..(n - a.cap) : r[i] \notin Values
    BY <1>2, RawsFacts
  <1> HIDE DEF r
  <1>5. /\ c \in Seq(Cells) /\ Len(c) = Len(a.cells) + Len(r)
        /\ \A i \in 1..(Len(a.cells) + Len(r)) :
              c[i] = IF i <= Len(a.cells) THEN a.cells[i] ELSE r[i - Len(a.cells)]
    BY <1>3, <1>4, ConcatProperties
  <1>6. /\ b \in ArrayRecord /\ b.p = Arrays!Fresh(arr_mem) /\ b.cap = n /\ b.size = a.size
        /\ b.cells = c /\ b.n = a.n
    BY <1>1, <1>3, <1>5 DEF Holds, ArrayRecord, Arrays!realloc, r
  <1> HIDE DEF b, c
  <1>7. Len(c) = n
    BY <1>2, <1>3, <1>4, <1>5
  <1>8. \A i \in 1..a.cap : c[i] = a.cells[i]
    BY <1>2, <1>3, <1>4, <1>5
  <1>9. ASSUME NEW i \in (a.cap + 1)..n PROVE c[i] \notin Values
    <2>1. i - a.cap \in 1..(n - a.cap) /\ i \in 1..(a.cap + (n - a.cap)) /\ ~(i <= a.cap)
      BY <1>2
    <2>2. c[i] = r[i - a.cap]
      BY <2>1, <1>3, <1>4, <1>5
    <2>3. QED  BY <2>1, <2>2, <1>4
  <1>10. \A i \in 1..a.size : c[i] = list[i]
    BY <1>2, <1>8 DEF Holds
  <1>11. ASSUME NEW i \in (a.size + 1)..n PROVE c[i] \notin Values
    <2>1. CASE i <= a.cap
      <3>1. i \in (a.size + 1)..a.cap /\ i \in 1..a.cap
        BY <2>1, <1>2
      <3>2. a.cells[i] \notin Values
        BY <3>1 DEF Holds
      <3>3. QED  BY <3>1, <3>2, <1>8
    <2>2. CASE ~(i <= a.cap)
      <3>1. i \in (a.cap + 1)..n
        BY <2>2, <1>2
      <3>2. QED  BY <3>1, <1>9
    <2>3. QED  BY <2>1, <2>2
  <1>12. Holds(b, list)
    BY <1>1, <1>2, <1>6, <1>7, <1>10, <1>11 DEF Holds
  <1>13. QED  BY <1>6, <1>12 DEF b

LEMMA ReserveHolds ==
    ASSUME IsFiniteSet(DOMAIN arr_mem), NEW a, NEW list, Holds(a, list), NEW n \in Nat
    PROVE  LET b == Arrays!reserve(a, n)
           IN  /\ Holds(b, list) /\ b.n = a.n /\ b.size = a.size /\ n <= b.cap
               /\ b.p \in {a.p, Arrays!Fresh(arr_mem)}
  <1>1. CASE a.cap < n
    <2>1. Arrays!reserve(a, n) = Arrays!realloc(a, n) /\ a.cap <= n
      BY <1>1 DEF Arrays!reserve, Holds
    <2>2. QED  BY <2>1, ReallocHolds
  <1>2. CASE ~(a.cap < n)
    BY <1>2 DEF Arrays!reserve, Holds
  <1>3. QED  BY <1>1, <1>2

(* Values behind the end, in the room there is. *)
LEMMA FilledHolds ==
    ASSUME NEW a, NEW list, Holds(a, list), NEW more \in Seq(Values),
           a.size + Len(more) <= a.cap
    PROVE  LET b == Arrays!Filled(a, more)
           IN  Holds(b, list \o more) /\ b.n = a.n + Len(more) /\ b.p = a.p
  <1> DEFINE m == Len(more)
             c == [k \in DOMAIN a.cells |->
                      IF k - a.size \in DOMAIN more THEN more[k - a.size] ELSE a.cells[k]]
             b == Arrays!Filled(a, more)
             t == list \o more
  <1>1. m \in Nat /\ DOMAIN more = 1..m /\ \A i \in 1..m : more[i] \in Values
    BY LenProperties, ElementOfSeq
  <1>2. /\ a \in ArrayRecord /\ a.size \in Nat /\ a.cap \in Nat /\ a.n \in Int
        /\ a.size + m <= a.cap
    BY DEF Holds, ArrayRecord
  <1>3. /\ a.cells \in Seq(Cells) /\ Len(a.cells) = a.cap /\ DOMAIN a.cells = 1..a.cap
        /\ \A i \in 1..a.cap : a.cells[i] \in Cells
    BY LenProperties, ElementOfSeq DEF Holds, ArrayRecord
  <1>4. list \in Seq(Values) /\ Len(list) = a.size /\ \A i \in 1..a.size : a.cells[i] = list[i]
    BY DEF Holds
  <1>5. /\ t \in Seq(Values) /\ Len(t) = Len(list) + Len(more)
        /\ \A i \in 1..(Len(list) + Len(more)) :
              t[i] = IF i <= Len(list) THEN list[i] ELSE more[i - Len(list)]
    BY <1>4, ConcatProperties
  <1>6. c \in Seq(Cells) /\ Len(c) = a.cap
    <2>1. DOMAIN c = 1..a.cap /\ \A k \in 1..a.cap : c[k] \in Cells
      BY <1>1, <1>3 DEF Cells
    <2>2. c \in [1..a.cap -> Cells]
      BY <2>1
    <2> HIDE DEF c
    <2>3. QED  BY <2>2, <1>2, FunctionIsSeq
  <1>7. \A i \in 1..a.cap : c[i] = IF i - a.size \in 1..m THEN more[i - a.size] ELSE a.cells[i]
    BY <1>1, <1>3
  <1> HIDE DEF t
  <1>8. /\ b \in ArrayRecord /\ b.p = a.p /\ b.cap = a.cap /\ b.size = a.size + m
        /\ b.cells = c /\ b.n = a.n + m
    <2> DEFINE s == Arrays!Sized(a, a.size + m)
    <2>1. /\ s \in ArrayRecord /\ s.p = a.p /\ s.cap = a.cap /\ s.size = a.size + m
          /\ s.cells = a.cells /\ s.n = a.n
      BY <1>1, <1>2 DEF Arrays!Sized, ArrayRecord
    <2>2. b = [s EXCEPT !.cells = [k \in DOMAIN s.cells |->
                                      IF k - a.size \in DOMAIN more THEN more[k - a.size]
                                      ELSE s.cells[k]],
                        !.n = s.n + m]
      BY DEF Arrays!Filled
    <2> HIDE DEF s, b
    <2>3. b = [s EXCEPT !.cells = c, !.n = a.n + m]
      BY <2>1, <2>2
    <2> HIDE DEF c, m
    <2>4. a.n + m \in Int
      BY <1>1, <1>2
    <2>5. QED  BY <2>1, <2>3, <2>4, <1>6 DEF ArrayRecord
  <1> HIDE DEF b, c, m
  <1>9. ASSUME NEW i \in 1..(a.size + m) PROVE c[i] = t[i]
    <2>1. i \in 1..a.cap /\ i \in 1..(Len(list) + Len(more))
      BY <1>1, <1>2, <1>4 DEF m
    <2>2. CASE i <= a.size
      <3>1. ~(i - a.size \in 1..m) /\ i \in 1..a.size
        BY <2>2, <1>1, <1>2
      <3>2. c[i] = a.cells[i]
        BY <2>1, <3>1, <1>7
      <3>3. t[i] = list[i]
        BY <2>1, <2>2, <1>4, <1>5
      <3>4. QED  BY <3>1, <3>2, <3>3, <1>4
    <2>3. CASE ~(i <= a.size)
      <3>1. i - a.size \in 1..m
        BY <2>3, <1>1, <1>2
      <3>2. QED  BY <2>1, <2>3, <3>1, <1>4, <1>5, <1>7
    <2>4. QED  BY <2>2, <2>3
  <1>10. ASSUME NEW i \in (a.size + m + 1)..a.cap PROVE c[i] \notin Values
    <2>1. i \in 1..a.cap /\ ~(i - a.size \in 1..m) /\ i \in (a.size + 1)..a.cap
      BY <1>1, <1>2
    <2>2. QED  BY <2>1, <1>7 DEF Holds
  <1>11. Len(t) = a.size + m
    BY <1>4, <1>5 DEF m
  <1>12. a.p = 0 => a.cap = 0
    BY DEF Holds
  <1>13. Holds(b, t)
    BY <1>2, <1>5, <1>6, <1>8, <1>9, <1>10, <1>11, <1>12 DEF Holds
  <1>14. QED  BY <1>8, <1>13 DEF b, t, m

(* _make_array *)
LEMMA MadeHolds ==
    ASSUME IsFiniteSet(DOMAIN arr_mem), NEW list \in Seq(Values)
    PROVE  LET a == Arrays!_make_array(list)
           IN  Holds(a, list) /\ a.n = Len(list) /\ a.p = Arrays!Fresh(arr_mem)
  <1> DEFINE e == Arrays!alloc(Len(list))
  <1>1. Len(list) \in Nat
    BY LenProperties
  <1>2. /\ Holds(e, <<>>) /\ e.n = 0 /\ e.size = 0 /\ e.cap = Len(list)
        /\ e.p = Arrays!Fresh(arr_mem)
    BY <1>1, NewBlockHolds
  <1> HIDE DEF e
  <1>3. e.size + Len(list) <= e.cap
    BY <1>1, <1>2
  <1>4. LET b == Arrays!Filled(e, list)
        IN  Holds(b, <<>> \o list) /\ b.n = e.n + Len(list) /\ b.p = e.p
    BY <1>2, <1>3, FilledHolds
  <1>5. <<>> \o list = list
    BY ConcatEmptySeq
  <1>6. QED  BY <1>1, <1>2, <1>4, <1>5 DEF Arrays!_make_array, e

(* push_back of a value or of a list: with more room when there is too      *)
(* little.                                                                   *)
LEMMA PushedHolds ==
    ASSUME IsFiniteSet(DOMAIN arr_mem), NEW a, NEW list, Holds(a, list), NEW v \in Values
    PROVE  LET b == Arrays!push_back(a, v)
           IN  /\ Holds(b, list \o <<v>>) /\ b.n = a.n + 1
               /\ b.p \in {a.p, Arrays!Fresh(arr_mem)}
  <1> DEFINE d == IF a.cap = a.size THEN Arrays!realloc(a, a.cap + a.cap \div 2 + 1) ELSE a
             k == a.size + 1
             t == list \o <<v>>
             b == Arrays!push_back(a, v)
  <1>1. a \in ArrayRecord /\ a.size \in Nat /\ a.cap \in Nat /\ a.size <= a.cap
    BY DEF Holds, ArrayRecord
  <1>2. /\ Holds(d, list) /\ d.n = a.n /\ d.size = a.size /\ k <= d.cap
        /\ d.p \in {a.p, Arrays!Fresh(arr_mem)}
    <2>1. CASE a.cap = a.size
      <3> DEFINE n == a.cap + a.cap \div 2 + 1
      <3>1. n \in Nat /\ a.cap <= n /\ k <= n
        BY <2>1, <1>1
      <3>2. d = Arrays!realloc(a, n)
        BY <2>1
      <3> HIDE DEF n, d
      <3>3. QED  BY <3>1, <3>2, ReallocHolds
    <2>2. CASE a.cap # a.size
      BY <2>2, <1>1
    <2>3. QED  BY <2>1, <2>2
  <1> HIDE DEF d
  <1>3. /\ d \in ArrayRecord /\ d.cells \in Seq(Cells) /\ Len(d.cells) = d.cap
        /\ d.cap \in Nat /\ d.n \in Int /\ k \in 1..d.cap /\ DOMAIN d.cells = 1..d.cap
    BY <1>1, <1>2, LenProperties DEF Holds, ArrayRecord
  <1> DEFINE c == [d.cells EXCEPT ![k] = v]
  <1>4. c \in Seq(Cells) /\ Len(c) = d.cap
    BY <1>3, ExceptSeq DEF Cells
  <1>5. \A i \in 1..d.cap : c[i] = IF i = k THEN v ELSE d.cells[i]
    BY <1>3
  <1>6. /\ b \in ArrayRecord /\ b.p = d.p /\ b.cap = d.cap /\ b.size = k /\ b.cells = c
        /\ b.n = d.n + 1
    <2> DEFINE e == [d EXCEPT !.cells[k] = v, !.n = @ + 1]
    <2>1. b = Arrays!Sized(e, k)
      BY DEF Arrays!push_back, Arrays!construct, d
    <2>2. e = [d EXCEPT !.cells = c, !.n = d.n + 1]
      BY <1>3 DEF ArrayRecord
    <2> HIDE DEF b, e, c
    <2> DEFINE m == d.n + 1
    <2>0. m \in Int /\ d \in ArrayRecord
      BY <1>3
    <2> HIDE DEF m
    <2>3. /\ e \in ArrayRecord /\ e.p = d.p /\ e.cap = d.cap /\ e.cells = c /\ e.n = m
      BY <2>0, <2>2, <1>4 DEF ArrayRecord, m
    <2>4. k \in Nat
      BY <1>1
    <2> USE DEF m
    <2>5. QED  BY <2>1, <2>3, <2>4 DEF Arrays!Sized, ArrayRecord
  <1> HIDE DEF b, c
  <1>7. list \in Seq(Values) /\ Len(list) = a.size /\ <<v>> \in Seq(Values)
    BY DEF Holds
  <1>8. t = Append(list, v)
    BY <1>7, AppendIsConcat
  <1>9. /\ t \in Seq(Values) /\ Len(t) = k /\ t[k] = v
        /\ \A i \in 1..a.size : t[i] = list[i]
    BY <1>7, <1>8, AppendProperties
  <1> HIDE DEF t
  <1>10. ASSUME NEW i \in 1..k PROVE c[i] = t[i]
    <2>1. CASE i = k
      BY <2>1, <1>3, <1>5, <1>9
    <2>2. CASE i # k
      <3>1. i \in 1..a.size /\ i \in 1..d.cap
        BY <2>2, <1>1, <1>3
      <3>2. d.cells[i] = list[i]
        BY <3>1, <1>2 DEF Holds
      <3>3. QED  BY <2>2, <3>1, <3>2, <1>5, <1>9
    <2>3. QED  BY <2>1, <2>2
  <1>11. ASSUME NEW i \in (k + 1)..d.cap PROVE c[i] \notin Values
    <2>1. i \in (a.size + 1)..d.cap /\ i # k /\ i \in 1..d.cap
      BY <1>1, <1>3
    <2>2. d.cells[i] \notin Values
      BY <2>1, <1>2 DEF Holds
    <2>3. QED  BY <2>1, <2>2, <1>5
  <1>12. d.p = 0 => d.cap = 0
    BY <1>2 DEF Holds
  <1>13. Holds(b, t)
    BY <1>3, <1>4, <1>6, <1>9, <1>10, <1>11, <1>12 DEF Holds
  <1>14. QED  BY <1>2, <1>6, <1>13 DEF b, t

LEMMA PushedAllHolds ==
    ASSUME IsFiniteSet(DOMAIN arr_mem), NEW a, NEW list, Holds(a, list), NEW more \in Seq(Values)
    PROVE  LET b == Arrays!push_back_all(a, more)
           IN  /\ Holds(b, list \o more) /\ b.n = a.n + Len(more)
               /\ b.p \in {a.p, Arrays!Fresh(arr_mem)}
  <1> DEFINE n == a.size + Len(more)
             d == Arrays!reserve(a, n)
  <1>1. n \in Nat
    BY LenProperties DEF Holds, ArrayRecord
  <1>2. /\ Holds(d, list) /\ d.n = a.n /\ d.size = a.size /\ n <= d.cap
        /\ d.p \in {a.p, Arrays!Fresh(arr_mem)}
    <2> HIDE DEF n
    <2>1. QED  BY <1>1, ReserveHolds
  <1>3. Arrays!push_back_all(a, more) = Arrays!Filled(d, more)
    BY DEF Arrays!push_back_all
  <1> HIDE DEF d
  <1>4. d.size + Len(more) <= d.cap
    BY <1>2
  <1>5. QED  BY <1>2, <1>3, <1>4, FilledHolds

(* The destructors of the cells from i to j. *)
LEMMA DestructFacts ==
    ASSUME NEW a \in ArrayRecord, NEW i \in Nat, NEW j \in Nat
    PROVE  LET b == Arrays!destruct(a, i, j)
           IN  /\ b \in ArrayRecord /\ b.p = a.p /\ b.cap = a.cap /\ b.size = a.size
               /\ Len(b.cells) = Len(a.cells)
               /\ \A k \in 1..Len(a.cells) : b.cells[k] = IF k \in i..j THEN Arrays!Raw ELSE a.cells[k]
               /\ b.n = a.n - (IF j < i THEN 0 ELSE j - i + 1)
  <1> DEFINE c == [k \in DOMAIN a.cells |-> IF k \in i..j THEN Arrays!Raw ELSE a.cells[k]]
             m == IF j < i THEN 0 ELSE j - i + 1
             b == Arrays!destruct(a, i, j)
  <1>1. /\ Len(a.cells) \in Nat /\ DOMAIN a.cells = 1..Len(a.cells) /\ a.n \in Int
        /\ \A k \in 1..Len(a.cells) : a.cells[k] \in Cells
    BY LenProperties, ElementOfSeq DEF ArrayRecord
  <1>2. c \in Seq(Cells) /\ Len(c) = Len(a.cells)
    <2>1. c \in [1..Len(a.cells) -> Cells]
      BY <1>1 DEF Cells
    <2> HIDE DEF c
    <2>2. QED  BY <2>1, <1>1, FunctionIsSeq
  <1>3. \A k \in 1..Len(a.cells) : c[k] = IF k \in i..j THEN Arrays!Raw ELSE a.cells[k]
    BY <1>1
  <1>4. b = [a EXCEPT !.cells = c, !.n = a.n - m]
    BY DEF Arrays!destruct, ArrayRecord
  <1>5. a.n - m \in Int
    BY <1>1
  <1> HIDE DEF b, c, m
  <1>6. /\ b \in ArrayRecord /\ b.p = a.p /\ b.cap = a.cap /\ b.size = a.size
        /\ b.cells = c /\ b.n = a.n - m
    BY <1>2, <1>4, <1>5 DEF ArrayRecord
  <1>7. QED  BY <1>2, <1>3, <1>6 DEF b, m

(* An array that keeps its first n values. *)
LEMMA ShortHolds ==
    ASSUME NEW a, NEW list, Holds(a, list), NEW n \in Nat, n <= a.size,
           NEW b \in ArrayRecord, b.p = a.p, b.cap = a.cap, b.size = n,
           Len(b.cells) = Len(a.cells),
           \A k \in 1..n : b.cells[k] = a.cells[k],
           \A k \in (n + 1)..a.cap : b.cells[k] \notin Values
    PROVE  Holds(b, SubSeq(list, 1, n))
  <1>1. list \in Seq(Values) /\ Len(list) = a.size /\ a.size \in Nat /\ a.cap \in Nat
        /\ a.size <= a.cap
    BY DEF Holds, ArrayRecord
  <1>2. /\ SubSeq(list, 1, n) \in Seq(Values) /\ Len(SubSeq(list, 1, n)) = n
        /\ \A i \in 1..n : SubSeq(list, 1, n)[i] = list[i]
    BY <1>1, SubSeqType
  <1> DEFINE t == SubSeq(list, 1, n)
  <1> HIDE DEF t
  <1>3. \A i \in 1..n : b.cells[i] = t[i]
    BY <1>1, <1>2 DEF Holds, t
  <1>4. QED  BY <1>1, <1>2, <1>3 DEF Holds, t

LEMMA ResizedHolds ==
    ASSUME NEW a, NEW list, Holds(a, list), NEW n \in Nat, n <= a.size
    PROVE  LET b == Arrays!_resize(a, n)
           IN  Holds(b, SubSeq(list, 1, n)) /\ b.n = a.n - (a.size - n) /\ b.p = a.p
  <1> DEFINE d == Arrays!destruct(a, n + 1, a.size)
             b == Arrays!_resize(a, n)
  <1>1. a \in ArrayRecord /\ a.size \in Nat /\ a.cap \in Nat /\ a.n \in Int /\ Len(a.cells) = a.cap
        /\ a.size <= a.cap
    BY DEF Holds, ArrayRecord
  <1>2. /\ d \in ArrayRecord /\ d.p = a.p /\ d.cap = a.cap /\ d.size = a.size
        /\ Len(d.cells) = Len(a.cells)
        /\ \A k \in 1..Len(a.cells) :
              d.cells[k] = IF k \in (n + 1)..a.size THEN Arrays!Raw ELSE a.cells[k]
        /\ d.n = a.n - (IF a.size < n + 1 THEN 0 ELSE a.size - (n + 1) + 1)
    <2>1. n + 1 \in Nat
      OBVIOUS
    <2>2. QED  BY <2>1, <1>1, DestructFacts
  <1> HIDE DEF d
  <1>3. /\ b \in ArrayRecord /\ b.p = d.p /\ b.cap = d.cap /\ b.size = n /\ b.cells = d.cells
        /\ b.n = d.n
    BY <1>2 DEF Arrays!_resize, Arrays!Sized, ArrayRecord, d
  <1> HIDE DEF b
  <1>4. \A k \in 1..n : b.cells[k] = a.cells[k]
    BY <1>1, <1>2, <1>3
  <1>5. ASSUME NEW k \in (n + 1)..a.cap PROVE b.cells[k] \notin Values
    <2>1. CASE k \in (n + 1)..a.size
      BY <2>1, <1>1, <1>2, <1>3, ValuesAssumption DEF Arrays!ValuesAssumption
    <2>2. CASE k \notin (n + 1)..a.size
      <3>1. k \in (a.size + 1)..a.cap /\ k \in 1..Len(a.cells)
        BY <2>2, <1>1
      <3>2. b.cells[k] = a.cells[k]
        BY <2>2, <3>1, <1>2, <1>3
      <3>3. QED  BY <3>1, <3>2 DEF Holds
    <2>3. QED  BY <2>1, <2>2
  <1>6. Holds(b, SubSeq(list, 1, n))
    BY <1>2, <1>3, <1>4, <1>5, ShortHolds
  <1>7. b.n = a.n - (a.size - n)
    BY <1>1, <1>2, <1>3
  <1>8. QED  BY <1>2, <1>3, <1>6, <1>7 DEF b

LEMMA PoppedHolds ==
    ASSUME NEW a, NEW list, Holds(a, list), Len(list) > 0
    PROVE  LET b == Arrays!pop_back(a)
           IN  Holds(b, SubSeq(list, 1, Len(list) - 1)) /\ b.n = a.n - 1 /\ b.p = a.p
  <1> DEFINE k == a.size
             n == k - 1
             c == [a.cells EXCEPT ![k] = Arrays!Husk]
             m == a.n - 1
             b == Arrays!pop_back(a)
  <1>1. /\ a \in ArrayRecord /\ k \in Nat /\ a.cap \in Nat /\ a.n \in Int /\ Len(a.cells) = a.cap
        /\ a.cells \in Seq(Cells) /\ k <= a.cap /\ Len(list) = k /\ DOMAIN a.cells = 1..a.cap
    BY LenProperties DEF Holds, ArrayRecord
  <1>2. k \in 1..a.cap /\ n \in Nat /\ n <= k /\ m \in Int
    BY <1>1
  <1>3. c \in Seq(Cells) /\ Len(c) = a.cap
    BY <1>1, <1>2, ExceptSeq DEF Cells
  <1>4. \A i \in 1..a.cap : c[i] = IF i = k THEN Arrays!Husk ELSE a.cells[i]
    BY <1>1, <1>2
  <1>5. b = Arrays!Sized([a EXCEPT !.cells = c, !.n = m], n)
    BY <1>1 DEF Arrays!pop_back, ArrayRecord
  <1> HIDE DEF b, c, m, n, k
  <1>6. /\ b \in ArrayRecord /\ b.p = a.p /\ b.cap = a.cap /\ b.size = n /\ b.cells = c
        /\ b.n = m
    <2>1. [a EXCEPT !.cells = c, !.n = m] \in ArrayRecord
      BY <1>1, <1>2, <1>3 DEF ArrayRecord
    <2>2. QED  BY <2>1, <1>1, <1>2, <1>3, <1>5 DEF Arrays!Sized, ArrayRecord
  <1>7. \A i \in 1..n : b.cells[i] = a.cells[i]
    BY <1>1, <1>2, <1>4, <1>6 DEF n
  <1>8. ASSUME NEW i \in (n + 1)..a.cap PROVE b.cells[i] \notin Values
    <2>1. CASE i = k
      BY <2>1, <1>2, <1>4, <1>6, ValuesAssumption DEF Arrays!ValuesAssumption
    <2>2. CASE i # k
      <3>1. i \in (k + 1)..a.cap /\ i \in 1..a.cap
        BY <2>2, <1>1, <1>2 DEF n
      <3>2. QED  BY <2>2, <3>1, <1>4, <1>6 DEF Holds, k
    <2>3. QED  BY <2>1, <2>2
  <1>9. Holds(b, SubSeq(list, 1, n))
    BY <1>1, <1>2, <1>3, <1>6, <1>7, <1>8, ShortHolds DEF k
  <1>10. QED  BY <1>1, <1>6, <1>9 DEF b, n, m, k

(* remove: the last value fills the gap. *)
LEMMA RemovedHolds ==
    ASSUME NEW a, NEW list, Holds(a, list), NEW i \in 1..Len(list)
    PROVE  LET b == Arrays!remove(a, i)
               n == Len(list)
           IN  /\ Holds(b, SubSeq([list EXCEPT ![i] = list[n]], 1, n - 1))
               /\ b.n = a.n - 1 /\ b.p = a.p
  <1> DEFINE k == Len(list)
             n == k - 1
             l == [list EXCEPT ![i] = list[k]]
             t == SubSeq(l, 1, n)
             b == Arrays!remove(a, i)
  <1>1. /\ a \in ArrayRecord /\ k \in Nat /\ a.cap \in Nat /\ a.n \in Int /\ Len(a.cells) = a.cap
        /\ a.cells \in Seq(Cells) /\ k <= a.cap /\ a.size = k
        /\ list \in Seq(Values)
    BY LenProperties DEF Holds, ArrayRecord
  <1>2. k \in 1..k /\ i \in Nat /\ i <= k /\ n \in Nat /\ n <= k /\ list[k] \in Values
    BY <1>1, ElementOfSeq
  <1>3. l \in Seq(Values) /\ Len(l) = k /\ \A j \in 1..k : l[j] = IF j = i THEN list[k] ELSE list[j]
    BY <1>1, <1>2, ExceptSeq
  <1> HIDE DEF l, n
  <1>4. t \in Seq(Values) /\ Len(t) = n /\ \A j \in 1..n : t[j] = l[j]
    BY <1>2, <1>3, SubSeqType
  <1> HIDE DEF t
  <1>5. CASE i = k
    <2> DEFINE d == Arrays!destruct(a, k, k)
    <2>1. b = Arrays!Sized(d, n)
      BY <1>1, <1>5 DEF Arrays!remove, Arrays!_remove_back, n
    <2>2. /\ d \in ArrayRecord /\ d.p = a.p /\ d.cap = a.cap /\ Len(d.cells) = Len(a.cells)
          /\ \A j \in 1..Len(a.cells) : d.cells[j] = IF j \in k..k THEN Arrays!Raw ELSE a.cells[j]
          /\ d.n = a.n - (IF k < k THEN 0 ELSE k - k + 1)
      BY <1>1, DestructFacts
    <2> HIDE DEF d, b
    <2>3. /\ b \in ArrayRecord /\ b.p = a.p /\ b.cap = a.cap /\ b.size = n /\ b.cells = d.cells
          /\ b.n = d.n
      BY <2>1, <2>2, <1>2 DEF Arrays!Sized, ArrayRecord
    <2>4. \A j \in 1..n : b.cells[j] = t[j]
      <3> SUFFICES ASSUME NEW j \in 1..n PROVE b.cells[j] = t[j]
        OBVIOUS
      <3>1. j \in 1..Len(a.cells) /\ j \notin k..k /\ j \in 1..k /\ j # i
        BY <1>1, <1>2, <1>5 DEF n
      <3>2. b.cells[j] = a.cells[j] /\ a.cells[j] = list[j]
        BY <3>1, <2>2, <2>3, <1>1 DEF Holds
      <3>3. QED  BY <3>1, <3>2, <1>3, <1>4
    <2>5. ASSUME NEW j \in (n + 1)..a.cap PROVE b.cells[j] \notin Values
      <3>1. CASE j = k
        BY <3>1, <2>2, <2>3, <1>1, <1>2, ValuesAssumption DEF Arrays!ValuesAssumption
      <3>2. CASE j # k
        <4>1. j \in (k + 1)..a.cap /\ j \in 1..Len(a.cells) /\ j \notin k..k
          BY <3>2, <1>1, <1>2 DEF n
        <4>2. QED  BY <4>1, <2>2, <2>3, <1>1 DEF Holds
      <3>3. QED  BY <3>1, <3>2
    <2>6. b.n = a.n - 1
      BY <2>2, <2>3, <1>1
    <2>7. /\ b.size <= b.cap /\ (b.p = 0 => b.cap = 0) /\ Len(b.cells) = b.cap
      BY <2>2, <2>3, <1>1, <1>2 DEF Holds
    <2>8. Holds(b, t)
      BY <2>3, <2>4, <2>5, <2>7, <1>4 DEF Holds
    <2>9. QED  BY <2>3, <2>6, <2>8 DEF b, n, t, l
  <1>6. CASE i # k
    <2> DEFINE d == Arrays!destruct(a, i, i)
               c == [d.cells EXCEPT ![i] = d.cells[k], ![k] = Arrays!Husk]
    <2>1. b = Arrays!Sized([d EXCEPT !.cells[i] = d.cells[k], !.cells[k] = Arrays!Husk], n)
      BY <1>1, <1>6 DEF Arrays!remove, Arrays!_remove, Arrays!move, n
    <2>2. /\ d \in ArrayRecord /\ d.p = a.p /\ d.cap = a.cap /\ Len(d.cells) = Len(a.cells)
          /\ \A j \in 1..Len(a.cells) : d.cells[j] = IF j \in i..i THEN Arrays!Raw ELSE a.cells[j]
          /\ d.n = a.n - (IF i < i THEN 0 ELSE i - i + 1)
      BY <1>1, <1>2, DestructFacts
    <2> HIDE DEF d, b
    <2>3. /\ d.cells \in Seq(Cells) /\ DOMAIN d.cells = 1..a.cap
          /\ i \in 1..Len(d.cells) /\ k \in 1..Len(d.cells) /\ d.cells[k] \in Cells
      BY <2>2, <1>1, <1>2, LenProperties, ElementOfSeq DEF ArrayRecord
    <2>4. c \in Seq(Cells) /\ Len(c) = a.cap
      <3>1. [d.cells EXCEPT ![i] = d.cells[k]] \in Seq(Cells)
            /\ Len([d.cells EXCEPT ![i] = d.cells[k]]) = Len(d.cells)
        BY <2>3, ExceptSeq
      <3>2. QED  BY <2>2, <2>3, <3>1, <1>1, ExceptSeq DEF Cells
    <2>5. \A j \in 1..a.cap : c[j] = IF j = k THEN Arrays!Husk
                                     ELSE IF j = i THEN d.cells[k] ELSE d.cells[j]
      BY <2>3, <1>6
    <2>6. [d EXCEPT !.cells[i] = d.cells[k], !.cells[k] = Arrays!Husk] = [d EXCEPT !.cells = c]
      BY <2>2 DEF ArrayRecord
    <2> HIDE DEF c
    <2>7. /\ b \in ArrayRecord /\ b.p = a.p /\ b.cap = a.cap /\ b.size = n /\ b.cells = c
          /\ b.n = d.n
      <3>1. [d EXCEPT !.cells = c] \in ArrayRecord
        BY <2>2, <2>4 DEF ArrayRecord
      <3>2. QED  BY <2>1, <2>2, <2>4, <2>6, <3>1, <1>2 DEF Arrays!Sized, ArrayRecord
    <2>8. ASSUME NEW j \in 1..n PROVE b.cells[j] = t[j]
      <3>1. j \in 1..a.cap /\ j # k /\ j \in 1..k /\ Len(a.cells) = a.cap /\ k \in 1..a.cap
        BY <1>1, <1>2 DEF n
      <3>2. b.cells[j] = IF j = i THEN a.cells[k] ELSE a.cells[j]
        <4>1. d.cells[k] = a.cells[k]
          BY <3>1, <2>2, <1>2, <1>6
        <4>2. j # i => d.cells[j] = a.cells[j]
          BY <3>1, <2>2, <1>2
        <4>3. b.cells[j] = IF j = i THEN d.cells[k] ELSE d.cells[j]
          BY <3>1, <2>5, <2>7
        <4>4. QED  BY <4>1, <4>2, <4>3
      <3>3. t[j] = IF j = i THEN list[k] ELSE list[j]
        BY <3>1, <1>3, <1>4
      <3>4. a.cells[j] = list[j] /\ a.cells[k] = list[k]
        BY <3>1, <1>1, <1>2 DEF Holds
      <3>5. QED  BY <3>2, <3>3, <3>4
    <2>9. ASSUME NEW j \in (n + 1)..a.cap PROVE b.cells[j] \notin Values
      <3>1. CASE j = k
        BY <3>1, <2>5, <2>7, <1>1, <1>2, ValuesAssumption DEF Arrays!ValuesAssumption
      <3>2. CASE j # k
        <4>1. j \in (k + 1)..a.cap /\ j \in 1..a.cap /\ j # i /\ j \notin i..i
          BY <3>2, <1>1, <1>2 DEF n
        <4>2. QED  BY <3>2, <4>1, <2>2, <2>5, <2>7, <1>1 DEF Holds
      <3>3. QED  BY <3>1, <3>2
    <2>10. b.n = a.n - 1
      BY <2>2, <2>7, <1>1, <1>2
    <2>11. /\ b.size <= b.cap /\ (b.p = 0 => b.cap = 0) /\ Len(b.cells) = b.cap
      BY <2>4, <2>7, <1>1, <1>2 DEF Holds
    <2>12. Holds(b, t)
      BY <2>7, <2>8, <2>9, <2>11, <1>4 DEF Holds
    <2>13. QED  BY <2>7, <2>10, <2>12 DEF b, n, t, l
  <1>7. QED  BY <1>5, <1>6

LEMMA ResetHolds ==
    ASSUME NEW a, NEW list, Holds(a, list)
    PROVE  LET b == Arrays!_reset(a)
           IN  Holds(b, <<>>) /\ b.n = a.n - Len(list) /\ b.p = 0
  <1>1. a \in ArrayRecord /\ a.size \in Nat /\ a.n \in Int /\ Len(list) = a.size /\ a.size <= a.cap
        /\ a.cap \in Nat
    BY DEF Holds, ArrayRecord
  <1>2. CASE a.p = 0
    <2>1. Arrays!_reset(a) = a /\ a.size = 0
      BY <1>1, <1>2 DEF Arrays!_reset, Arrays!Null, Holds
    <2>2. list = <<>>
      BY <1>1, <2>1 DEF Holds
    <2>3. QED  BY <2>1, <2>2, <1>1, <1>2
  <1>3. CASE a.p # 0
    <2> DEFINE d == Arrays!destruct(a, 1, a.size)
               b == Arrays!_reset(a)
    <2>1. d.n = a.n - (IF a.size < 1 THEN 0 ELSE a.size - 1 + 1)
      BY <1>1, DestructFacts
    <2>2. d.n = a.n - a.size /\ d.n \in Int
      <3> HIDE DEF d
      <3>1. QED  BY <2>1, <1>1
    <2>3. b = [Arrays!Empty EXCEPT !.n = d.n]
      BY <1>3 DEF Arrays!_reset, Arrays!Null
    <2> HIDE DEF b, d
    <2>4. Holds(Arrays!Empty, <<>>) /\ Arrays!Empty \in ArrayRecord /\ Arrays!Empty.p = 0
      BY EmptyHolds DEF Holds
    <2>5. /\ b \in ArrayRecord /\ b.p = 0 /\ b.cap = Arrays!Empty.cap
          /\ b.size = Arrays!Empty.size /\ b.cells = Arrays!Empty.cells /\ b.n = d.n
      BY <2>2, <2>3, <2>4 DEF ArrayRecord
    <2>6. Holds(b, <<>>)
      BY <2>4, <2>5 DEF Holds
    <2>7. QED  BY <2>2, <2>5, <2>6, <1>1 DEF b
  <1>4. QED  BY <1>2, <1>3

-----------------------------------------------------------------------------
(* The places of the values of all arrays: a row for each array. *)
Row(x, n) == {x} \X (1..n)
Rows(f) == UNION {Row(x, f[x]) : x \in DOMAIN f}
Sizes == [x \in DOMAIN arr |-> arr[x].size]

LEMMA RowFacts ==
    ASSUME NEW x, NEW n \in Nat
    PROVE  IsFiniteSet(Row(x, n)) /\ Cardinality(Row(x, n)) = n
  <1>1. IsFiniteSet({x}) /\ Cardinality({x}) = 1
    BY FS_Singleton
  <1>2. IsFiniteSet(1..n) /\ Cardinality(1..n) = n
    BY FS_Interval
  <1>3. IsFiniteSet({x} \X (1..n)) /\ Cardinality({x} \X (1..n)) = Cardinality({x}) * Cardinality(1..n)
    BY <1>1, <1>2, FS_Product
  <1>4. QED  BY <1>1, <1>2, <1>3 DEF Row

(* One row is exchanged for another. *)
LEMMA RowsChange ==
    ASSUME NEW P, IsFiniteSet(P), NEW x, NEW m \in Nat, NEW n \in Nat,
           Row(x, m) \subseteq P, \A e \in P : e[1] = x => e \in Row(x, m)
    PROVE  LET Q == (P \ Row(x, m)) \cup Row(x, n)
           IN  IsFiniteSet(Q) /\ Cardinality(Q) = Cardinality(P) - m + n
  <1> DEFINE A == P \ Row(x, m)
             B == Row(x, n)
  <1>1. IsFiniteSet(Row(x, m)) /\ Cardinality(Row(x, m)) = m /\ IsFiniteSet(B) /\ Cardinality(B) = n
    BY RowFacts
  <1>2. P \cap Row(x, m) = Row(x, m)
    OBVIOUS
  <1>3. IsFiniteSet(A) /\ Cardinality(A) = Cardinality(P) - m
    <2>1. IsFiniteSet(A) /\ Cardinality(A) = Cardinality(P) - Cardinality(P \cap Row(x, m))
      BY FS_Difference
    <2>2. QED  BY <2>1, <1>1, <1>2
  <1>4. A \cap B = {}
    BY DEF Row
  <1>5. Cardinality(A \cap B) = 0
    BY <1>4, FS_EmptySet
  <1>6. Cardinality(P) \in Nat
    BY FS_CardinalityType
  <1> HIDE DEF A, B
  <1>7. IsFiniteSet(A \cup B) /\ Cardinality(A \cup B) = Cardinality(A) + Cardinality(B) - Cardinality(A \cap B)
    BY <1>1, <1>3, FS_Union
  <1>8. QED  BY <1>1, <1>3, <1>5, <1>6, <1>7 DEF A, B

(* The rows when an array gets another size, is made or is destroyed.       *)
LEMMA RowsWith ==
    ASSUME NEW f, IsFiniteSet(Rows(f)), \A y \in DOMAIN f : f[y] \in Nat,
           NEW x, NEW n \in Nat
    PROVE  LET g == Arrays!With(f, x, n)
               m == IF x \in DOMAIN f THEN f[x] ELSE 0
           IN  IsFiniteSet(Rows(g)) /\ Cardinality(Rows(g)) = Cardinality(Rows(f)) - m + n
  <1> DEFINE g == Arrays!With(f, x, n)
             m == IF x \in DOMAIN f THEN f[x] ELSE 0
             P == Rows(f)
  <1>1. m \in Nat /\ Row(x, m) \subseteq P
    BY DEF Rows, Row
  <1>2. \A e \in P : e[1] = x => e \in Row(x, m)
    BY DEF Rows, Row
  <1>3. DOMAIN g = DOMAIN f \cup {x} /\ g[x] = n /\ \A y \in DOMAIN f : y # x => g[y] = f[y]
    BY DEF Arrays!With
  <1> HIDE DEF g
  <1>4. Rows(g) = (P \ Row(x, m)) \cup Row(x, n)
    <2>1. Row(x, n) \subseteq Rows(g)
      BY <1>3 DEF Rows
    <2>2. ASSUME NEW e \in P, e \notin Row(x, m) PROVE e \in Rows(g)
      <3>1. PICK y \in DOMAIN f : e \in Row(y, f[y])
        BY DEF Rows
      <3>2. y # x
        BY <2>2, <3>1
      <3>3. e \in Row(y, g[y]) /\ y \in DOMAIN g
        BY <3>1, <3>2, <1>3
      <3>4. QED  BY <3>3 DEF Rows
    <2>3. ASSUME NEW e \in Rows(g), e \notin Row(x, n) PROVE e \in P \ Row(x, m)
      <3>1. PICK y \in DOMAIN g : e \in Row(y, g[y])
        BY DEF Rows
      <3>2. y # x
        BY <2>3, <3>1, <1>3
      <3>3. e \in Row(y, f[y]) /\ y \in DOMAIN f /\ e[1] # x
        BY <3>1, <3>2, <1>3 DEF Row
      <3>4. QED  BY <3>3 DEF Rows, Row
    <2>4. QED  BY <2>1, <2>2, <2>3
  <1> HIDE DEF m, P
  <1>5. /\ IsFiniteSet((P \ Row(x, m)) \cup Row(x, n))
        /\ Cardinality((P \ Row(x, m)) \cup Row(x, n)) = Cardinality(P) - m + n
    BY <1>1, <1>2, RowsChange DEF P
  <1>6. QED  BY <1>4, <1>5 DEF g, m, P

LEMMA RowsWithout ==
    ASSUME NEW f, IsFiniteSet(Rows(f)), \A y \in DOMAIN f : f[y] \in Nat, NEW x \in DOMAIN f
    PROVE  LET g == Arrays!Without(f, x)
           IN  IsFiniteSet(Rows(g)) /\ Cardinality(Rows(g)) = Cardinality(Rows(f)) - f[x]
  <1> DEFINE g == Arrays!Without(f, x)
             h == Arrays!With(f, x, 0)
  <1>1. /\ IsFiniteSet(Rows(h))
        /\ Cardinality(Rows(h)) = Cardinality(Rows(f)) - (IF x \in DOMAIN f THEN f[x] ELSE 0) + 0
    BY RowsWith
  <1>2. Rows(h) = Rows(g)
    <2>1. /\ DOMAIN g = DOMAIN f \ {x} /\ DOMAIN h = DOMAIN f /\ h[x] = 0
          /\ \A y \in DOMAIN g : g[y] = f[y] /\ h[y] = f[y]
      BY DEF Arrays!With, Arrays!Without
    <2> HIDE DEF g, h
    <2>2. Row(x, h[x]) = {}
      BY <2>1 DEF Row
    <2>3. ASSUME NEW e \in Rows(h) PROVE e \in Rows(g)
      <3>1. PICK y \in DOMAIN h : e \in Row(y, h[y])
        BY DEF Rows
      <3>2. y \in DOMAIN g /\ e \in Row(y, g[y])
        BY <2>1, <2>2, <3>1
      <3>3. QED  BY <3>2 DEF Rows
    <2>4. ASSUME NEW e \in Rows(g) PROVE e \in Rows(h)
      <3>1. PICK y \in DOMAIN g : e \in Row(y, g[y])
        BY DEF Rows
      <3>2. y \in DOMAIN h /\ e \in Row(y, h[y])
        BY <2>1, <3>1
      <3>3. QED  BY <3>2 DEF Rows
    <2>5. QED  BY <2>3, <2>4
  <1>3. Cardinality(Rows(f)) \in Nat /\ f[x] \in Nat
    BY FS_CardinalityType
  <1>4. QED  BY <1>1, <1>2, <1>3

-----------------------------------------------------------------------------
ArrayInv ==
    /\ IsFiniteSet(DOMAIN arr_mem) /\ DOMAIN arr_mem \subseteq Nat \ {0}
    /\ DOMAIN held = DOMAIN arr
    /\ \A x \in DOMAIN arr :
          /\ Holds(Arrays!At(x), held[x])
          /\ arr[x] \in ArrayRecord /\ arr[x].cells = <<>> /\ arr[x].n = 0
          /\ arr[x].p # 0 => /\ arr[x].p \in DOMAIN arr_mem
                             /\ arr_mem[arr[x].p].cap = arr[x].cap
    /\ \A q \in DOMAIN arr_mem : \E x \in DOMAIN arr : arr[x].p = q
    /\ \A x, y \in DOMAIN arr : arr[x].p = arr[y].p /\ arr[x].p # 0 => x = y
    /\ IsFiniteSet(Rows(Sizes)) /\ objects = Cardinality(Rows(Sizes))

(* An array with its cells. *)
LEMMA AtFacts ==
    ASSUME ArrayInv, NEW x \in DOMAIN arr
    PROVE  LET a == Arrays!At(x)
           IN  /\ a \in ArrayRecord /\ a.p = arr[x].p /\ a.cap = arr[x].cap
               /\ a.size = arr[x].size /\ a.n = 0
               /\ a.cells = IF arr[x].p = 0 THEN <<>> ELSE arr_mem[arr[x].p].cells
               /\ Holds(a, held[x]) /\ Len(held[x]) = arr[x].size /\ arr[x].size \in Nat
               /\ held[x] \in Seq(Values)
  <1> DEFINE a == Arrays!At(x)
             c == IF arr[x].p = 0 THEN <<>> ELSE arr_mem[arr[x].p].cells
  <1>1. a = [arr[x] EXCEPT !.cells = c]
    BY DEF Arrays!At, Arrays!Null
  <1>2. arr[x] \in ArrayRecord /\ arr[x].n = 0 /\ Holds(a, held[x])
    BY DEF ArrayInv
  <1>3. a \in ArrayRecord
    BY <1>2 DEF Holds
  <1> HIDE DEF a, c
  <1>4. a.p = arr[x].p /\ a.cap = arr[x].cap /\ a.size = arr[x].size /\ a.n = 0 /\ a.cells = c
    BY <1>1, <1>2 DEF ArrayRecord
  <1>5. Len(held[x]) = a.size /\ held[x] \in Seq(Values) /\ a.size \in Nat
    BY <1>2, <1>3 DEF Holds, ArrayRecord
  <1>6. QED  BY <1>2, <1>3, <1>4, <1>5 DEF a, c

LEMMA SlimFacts ==
    ASSUME NEW a \in ArrayRecord
    PROVE  LET b == Arrays!Slim(a)
           IN  /\ b \in ArrayRecord /\ b.p = a.p /\ b.cap = a.cap /\ b.size = a.size
               /\ b.cells = <<>> /\ b.n = 0
  <1> DEFINE b == Arrays!Slim(a)
             c == [a EXCEPT !.cells = <<>>]
  <1>1. <<>> \in Seq(Cells) /\ 0 \in Int
    OBVIOUS
  <1>2. /\ c \in ArrayRecord /\ c.p = a.p /\ c.cap = a.cap /\ c.size = a.size
        /\ c.cells = <<>>
    BY <1>1 DEF ArrayRecord
  <1>3. b = [c EXCEPT !.n = 0]
    BY <1>2 DEF Arrays!Slim, ArrayRecord
  <1> HIDE DEF b, c
  <1>4. /\ b \in ArrayRecord /\ b.p = c.p /\ b.cap = c.cap /\ b.size = c.size
        /\ b.cells = c.cells /\ b.n = 0
    BY <1>1, <1>2, <1>3 DEF ArrayRecord
  <1>5. QED  BY <1>2, <1>4 DEF b

(* What a call leaves in an array is stored: the block it had is given      *)
(* back, unless it is still the one.                                        *)
LEMMA StoreStep ==
    ASSUME ArrayInv, NEW x, NEW a, NEW list, Holds(a, list),
           Arrays!Store(x, a, list),
           \/ a.p = 0
           \/ a.p = Arrays!Fresh(arr_mem)
           \/ x \in DOMAIN arr /\ a.p = arr[x].p,
           a.n = Len(list) - (IF x \in DOMAIN arr THEN Len(held[x]) ELSE 0)
    PROVE  ArrayInv'
  <1> DEFINE b == Arrays!Slim(a)
             m == IF x \in DOMAIN arr /\ arr[x].p # a.p THEN Arrays!Without(arr_mem, arr[x].p)
                  ELSE arr_mem
             blk == [cap |-> a.cap, cells |-> a.cells]
  <1>1. /\ arr' = Arrays!With(arr, x, b) /\ held' = Arrays!With(held, x, list)
        /\ arr_mem' = (IF a.p = 0 THEN m ELSE Arrays!With(m, a.p, blk))
        /\ objects' = objects + a.n
    BY DEF Arrays!Store, Arrays!Memory, Arrays!Live, Arrays!Null
  <1>2. a \in ArrayRecord /\ a.p \in Nat /\ a.cap \in Nat /\ a.size \in Nat /\ Len(list) = a.size
        /\ list \in Seq(Values) /\ a.size <= a.cap /\ (a.p = 0 => a.cap = 0)
    BY DEF Holds, ArrayRecord
  <1>3. /\ b \in ArrayRecord /\ b.p = a.p /\ b.cap = a.cap /\ b.size = a.size
        /\ b.cells = <<>> /\ b.n = 0
    <2>1. a \in ArrayRecord
      BY <1>2
    <2>2. QED  BY <2>1, SlimFacts
  <1> HIDE DEF b
  <1>4. /\ DOMAIN arr' = DOMAIN arr \cup {x} /\ arr'[x] = b
        /\ \A y \in DOMAIN arr : y # x => arr'[y] = arr[y]
        /\ DOMAIN held' = DOMAIN held \cup {x} /\ held'[x] = list
        /\ \A y \in DOMAIN held : y # x => held'[y] = held[y]
    BY <1>1 DEF Arrays!With
  <1>5. /\ IsFiniteSet(DOMAIN arr_mem) /\ DOMAIN arr_mem \subseteq Nat \ {0}
        /\ DOMAIN held = DOMAIN arr
        /\ \A y, z \in DOMAIN arr : arr[y].p = arr[z].p /\ arr[y].p # 0 => y = z
        /\ \A q \in DOMAIN arr_mem : \E y \in DOMAIN arr : arr[y].p = q
        /\ \A y \in DOMAIN arr : arr[y].p # 0 =>
              arr[y].p \in DOMAIN arr_mem /\ arr_mem[arr[y].p].cap = arr[y].cap
    BY DEF ArrayInv
  <1>6. Arrays!Fresh(arr_mem) \in Nat \ {0} /\ Arrays!Fresh(arr_mem) \notin DOMAIN arr_mem
    BY <1>5, ArrayFresh
  <1>7. DOMAIN m = IF x \in DOMAIN arr /\ arr[x].p # a.p THEN DOMAIN arr_mem \ {arr[x].p}
                   ELSE DOMAIN arr_mem
    BY DEF Arrays!Without
  <1>8. \A q \in DOMAIN m : m[q] = arr_mem[q]
    BY DEF Arrays!Without
  <1> HIDE DEF m
  <1>9. /\ DOMAIN arr_mem' = DOMAIN m \cup ({a.p} \ {0})
        /\ a.p # 0 => arr_mem'[a.p] = blk
        /\ \A q \in DOMAIN m : q # a.p => arr_mem'[q] = arr_mem[q]
    <2>1. CASE a.p = 0
      BY <2>1, <1>1, <1>8
    <2>2. CASE a.p # 0
      BY <2>2, <1>1, <1>8 DEF Arrays!With
    <2>3. QED  BY <2>1, <2>2
  <1>10. blk.cap = a.cap /\ blk.cells = a.cells
    OBVIOUS
  <1> HIDE DEF blk
  <1>11. IsFiniteSet(DOMAIN arr_mem') /\ DOMAIN arr_mem' \subseteq Nat \ {0}
    <2>1. IsFiniteSet(DOMAIN m)
      BY <1>5, <1>7, FS_RemoveElement
    <2>2. CASE a.p = 0
      <3>1. DOMAIN arr_mem' = DOMAIN m
        BY <2>2, <1>9
      <3>2. QED  BY <3>1, <2>1, <1>5, <1>7
    <2>3. CASE a.p # 0
      <3>1. DOMAIN arr_mem' = DOMAIN m \cup {a.p}
        BY <2>3, <1>9
      <3>2. IsFiniteSet(DOMAIN arr_mem')
        BY <3>1, <2>1, FS_AddElement
      <3>3. QED  BY <3>1, <3>2, <2>3, <1>2, <1>5, <1>7
    <2>4. QED  BY <2>2, <2>3
  (* The other arrays keep what they have. *)
  <1>12. ASSUME NEW y \in DOMAIN arr, y # x, arr[y].p # 0
         PROVE  arr[y].p \in DOMAIN m /\ arr[y].p # a.p /\ arr_mem'[arr[y].p] = arr_mem[arr[y].p]
    BY <1>5, <1>6, <1>7, <1>9, <1>12
  <1>13. ASSUME NEW y \in DOMAIN arr, y # x
         PROVE  /\ Holds(Arrays!At(y), held[y])'
                /\ arr'[y].p # 0 => arr'[y].p \in DOMAIN arr_mem' /\ arr_mem'[arr'[y].p].cap = arr'[y].cap
    <2>1. Arrays!At(y)' = Arrays!At(y)
      BY <1>4, <1>12, <1>13 DEF Arrays!At, Arrays!Null
    <2>2. held'[y] = held[y]
      BY <1>4, <1>5, <1>13
    <2>3. Holds(Arrays!At(y), held[y])
      BY DEF ArrayInv
    <2>4. Holds(Arrays!At(y)', held'[y])
      BY <2>1, <2>2, <2>3
    <2>5. Holds(Arrays!At(y), held[y])'
      BY <2>4 DEF Holds
    <2>6. QED  BY <2>5, <1>4, <1>5, <1>9, <1>12, <1>13
  <1>14. /\ Holds(Arrays!At(x), held[x])'
         /\ arr'[x].p # 0 => arr'[x].p \in DOMAIN arr_mem' /\ arr_mem'[arr'[x].p].cap = arr'[x].cap
    <2> DEFINE d == Arrays!At(x)'
               c == IF a.p = 0 THEN <<>> ELSE a.cells
    <2>1. d = [b EXCEPT !.cells = c]
      BY <1>3, <1>4, <1>9, <1>10 DEF Arrays!At, Arrays!Null
    <2>2. c = a.cells /\ a.cells \in Seq(Cells)
      BY <1>2 DEF Holds, ArrayRecord
    <2> HIDE DEF d, c
    <2>3. /\ d \in ArrayRecord /\ d.p = a.p /\ d.cap = a.cap /\ d.size = a.size
          /\ d.cells = a.cells
      BY <2>1, <2>2, <1>3 DEF ArrayRecord
    <2>4. Holds(d, list)
      BY <2>3 DEF Holds
    <2>5. Holds(Arrays!At(x), held[x])'
      BY <2>4, <1>4 DEF Holds, d
    <2>6. QED  BY <2>5, <1>3, <1>4, <1>9, <1>10
  <1>15. \A q \in DOMAIN arr_mem' : \E y \in DOMAIN arr' : arr'[y].p = q
    <2> SUFFICES ASSUME NEW q \in DOMAIN arr_mem' PROVE \E y \in DOMAIN arr' : arr'[y].p = q
      OBVIOUS
    <2>1. CASE q = a.p
      BY <2>1, <1>3, <1>4
    <2>2. CASE q # a.p
      <3>1. q \in DOMAIN m
        BY <2>2, <1>9
      <3>2. PICK y \in DOMAIN arr : arr[y].p = q
        BY <3>1, <1>5, <1>7
      <3>3. y # x
        BY <2>2, <3>1, <3>2, <1>7
      <3>4. QED  BY <3>2, <3>3, <1>4
    <2>3. QED  BY <2>1, <2>2
  <1>16. \A y, z \in DOMAIN arr' : arr'[y].p = arr'[z].p /\ arr'[y].p # 0 => y = z
    <2> SUFFICES ASSUME NEW y \in DOMAIN arr', NEW z \in DOMAIN arr',
                        arr'[y].p = arr'[z].p, arr'[y].p # 0, y # z
                 PROVE  FALSE
      OBVIOUS
    <2>1. CASE y # x /\ z # x
      BY <2>1, <1>4, <1>5
    <2>2. CASE y = x
      BY <2>2, <1>3, <1>4, <1>12
    <2>3. CASE z = x
      BY <2>3, <1>3, <1>4, <1>12
    <2>4. QED  BY <2>1, <2>2, <2>3
  <1>17. IsFiniteSet(Rows(Sizes)') /\ objects' = Cardinality(Rows(Sizes)')
    <2> DEFINE k == IF x \in DOMAIN Sizes THEN Sizes[x] ELSE 0
    <2>1. Sizes' = Arrays!With(Sizes, x, a.size)
      BY <1>3, <1>4 DEF Sizes, Arrays!With
    <2>2. \A y \in DOMAIN Sizes : Sizes[y] \in Nat
      BY DEF ArrayInv, ArrayRecord, Sizes
    <2>3. IsFiniteSet(Rows(Sizes)) /\ objects = Cardinality(Rows(Sizes)) /\ objects \in Nat
      BY FS_CardinalityType DEF ArrayInv
    <2>4. LET g == Arrays!With(Sizes, x, a.size)
          IN  IsFiniteSet(Rows(g)) /\ Cardinality(Rows(g)) = Cardinality(Rows(Sizes)) - k + a.size
      <3>1. a.size \in Nat /\ IsFiniteSet(Rows(Sizes))
        BY <2>3, <1>2
      <3>2. QED  BY <2>2, <3>1, RowsWith
    <2>5. k = IF x \in DOMAIN arr THEN Len(held[x]) ELSE 0
      <3>1. k = IF x \in DOMAIN arr THEN arr[x].size ELSE 0
        BY DEF Sizes
      <3>2. x \in DOMAIN arr => Len(held[x]) = arr[x].size
        BY AtFacts
      <3>3. QED  BY <3>1, <3>2
    <2>6. k \in Nat
      BY <2>2
    <2> HIDE DEF k
    <2>7. a.n = a.size - k
      BY <2>5, <1>2
    <2>8. Rows(Sizes)' = Rows(Arrays!With(Sizes, x, a.size))
      BY <2>1 DEF Rows
    <2>9. QED  BY <2>3, <2>4, <2>6, <2>7, <2>8, <1>1, <1>2
  <1>18. \A y \in DOMAIN arr' : arr'[y] \in ArrayRecord /\ arr'[y].cells = <<>> /\ arr'[y].n = 0
    BY <1>3, <1>4 DEF ArrayInv
  <1>19. \A y \in DOMAIN arr' :
            /\ Holds(Arrays!At(y), held[y])'
            /\ arr'[y].p # 0 => arr'[y].p \in DOMAIN arr_mem' /\ arr_mem'[arr'[y].p].cap = arr'[y].cap
    <2> SUFFICES ASSUME NEW y \in DOMAIN arr'
                 PROVE  /\ Holds(Arrays!At(y), held[y])'
                        /\ arr'[y].p # 0 => arr'[y].p \in DOMAIN arr_mem' /\ arr_mem'[arr'[y].p].cap = arr'[y].cap
      OBVIOUS
    <2>1. CASE y = x
      BY <2>1, <1>14
    <2>2. CASE y # x
      BY <2>2, <1>4, <1>13
    <2>3. QED  BY <2>1, <2>2
  <1>20. QED  BY <1>4, <1>5, <1>11, <1>15, <1>16, <1>17, <1>18, <1>19 DEF ArrayInv

(* Two arrays exchange what they have, or x takes it from y, which is left  *)
(* empty, and the block that x had is given back.                           *)
LEMMA ExchangeStep ==
    ASSUME ArrayInv, NEW x, NEW y \in DOMAIN arr, x # y, NEW other, NEW list,
           arr' = Arrays!With(Arrays!With(arr, x, arr[y]), y, other),
           held' = Arrays!With(Arrays!With(held, x, held[y]), y, list),
           \/ /\ x \in DOMAIN arr /\ other = arr[x] /\ list = held[x]
              /\ UNCHANGED <<arr_mem, objects>>
           \/ /\ other = Arrays!Empty /\ list = <<>>
              /\ arr_mem' = (IF x \in DOMAIN arr THEN Arrays!Without(arr_mem, arr[x].p) ELSE arr_mem)
              /\ objects' = objects - (IF x \in DOMAIN arr THEN Len(held[x]) ELSE 0)
    PROVE  ArrayInv'
  <1> DEFINE took == other = Arrays!Empty
  <1>1. /\ IsFiniteSet(DOMAIN arr_mem) /\ DOMAIN arr_mem \subseteq Nat \ {0}
        /\ DOMAIN held = DOMAIN arr
        /\ \A u, z \in DOMAIN arr : arr[u].p = arr[z].p /\ arr[u].p # 0 => u = z
        /\ \A q \in DOMAIN arr_mem : \E u \in DOMAIN arr : arr[u].p = q
        /\ \A u \in DOMAIN arr : arr[u].p # 0 =>
              arr[u].p \in DOMAIN arr_mem /\ arr_mem[arr[u].p].cap = arr[u].cap
        /\ \A u \in DOMAIN arr : arr[u] \in ArrayRecord /\ arr[u].cells = <<>> /\ arr[u].n = 0
    BY DEF ArrayInv
  <1>2. /\ DOMAIN arr' = DOMAIN arr \cup {x} /\ arr'[x] = arr[y] /\ arr'[y] = other
        /\ \A u \in DOMAIN arr : u # x /\ u # y => arr'[u] = arr[u]
        /\ DOMAIN held' = DOMAIN held \cup {x} /\ held'[x] = held[y] /\ held'[y] = list
        /\ \A u \in DOMAIN held : u # x /\ u # y => held'[u] = held[u]
    BY <1>1 DEF Arrays!With
  <1>3. /\ Arrays!Empty \in ArrayRecord /\ Arrays!Empty.p = 0 /\ Arrays!Empty.cells = <<>>
        /\ Arrays!Empty.n = 0 /\ Arrays!Empty.size = 0
        /\ [Arrays!Empty EXCEPT !.cells = <<>>] = Arrays!Empty
    BY DEF Arrays!Empty, Arrays!Null, ArrayRecord
  <1>4. other \in ArrayRecord /\ other.cells = <<>> /\ other.n = 0
    BY <1>1, <1>3
  (* Where the block of each array is now. *)
  <1>5. ASSUME NEW u \in DOMAIN arr', arr'[u].p # 0
        PROVE  /\ arr'[u].p \in DOMAIN arr_mem /\ arr'[u].p \in DOMAIN arr_mem'
               /\ arr_mem'[arr'[u].p] = arr_mem[arr'[u].p]
               /\ arr_mem[arr'[u].p].cap = arr'[u].cap
    <2>1. CASE other = Arrays!Empty /\ list = <<>> /\ x \in DOMAIN arr
               /\ arr_mem' = Arrays!Without(arr_mem, arr[x].p)
      <3>1. u # y
        BY <2>1, <1>2, <1>3, <1>5
      <3>2. PICK z \in DOMAIN arr : z # x /\ arr'[u] = arr[z]
        BY <2>1, <3>1, <1>2
      <3>3. arr[z].p # arr[x].p
        BY <2>1, <3>2, <1>1, <1>5
      <3>4. QED  BY <2>1, <3>2, <3>3, <1>1, <1>5 DEF Arrays!Without
    <2>2. CASE arr_mem' = arr_mem
      <3>1. PICK z \in DOMAIN arr : arr'[u] = arr[z]
        BY <1>2, <1>3, <1>5
      <3>2. QED  BY <2>2, <3>1, <1>1, <1>5
    <2>3. QED  BY <2>1, <2>2
  <1>6. IsFiniteSet(DOMAIN arr_mem') /\ DOMAIN arr_mem' \subseteq DOMAIN arr_mem
    <2>1. CASE x \in DOMAIN arr /\ arr_mem' = Arrays!Without(arr_mem, arr[x].p)
      <3>1. DOMAIN arr_mem' = DOMAIN arr_mem \ {arr[x].p}
        BY <2>1 DEF Arrays!Without
      <3>2. IsFiniteSet(DOMAIN arr_mem)
        BY <1>1
      <3>3. IsFiniteSet(DOMAIN arr_mem \ {arr[x].p})
        BY <3>2, FS_RemoveElement
      <3>4. QED  BY <3>1, <3>3
    <2>2. CASE arr_mem' = arr_mem
      BY <2>2, <1>1
    <2>3. QED  BY <2>1, <2>2
  <1>7. ASSUME NEW q \in DOMAIN arr_mem' PROVE \E u \in DOMAIN arr' : arr'[u].p = q
    <2>1. PICK z \in DOMAIN arr : arr[z].p = q
      BY <1>1, <1>6
    <2>2. CASE z = y
      BY <2>1, <2>2, <1>2
    <2>3. CASE z = x
      <3>1. CASE other = arr[x] /\ x \in DOMAIN arr
        BY <2>1, <2>3, <3>1, <1>2
      <3>2. CASE arr_mem' = (IF x \in DOMAIN arr THEN Arrays!Without(arr_mem, arr[x].p) ELSE arr_mem)
        BY <2>1, <2>3, <3>2 DEF Arrays!Without
      <3>3. QED  BY <3>1, <3>2
    <2>4. CASE z # x /\ z # y
      BY <2>1, <2>4, <1>2
    <2>5. QED  BY <2>2, <2>3, <2>4
  <1>8. \A u, z \in DOMAIN arr' : arr'[u].p = arr'[z].p /\ arr'[u].p # 0 => u = z
    <2> DEFINE From(u) == IF u = x THEN y ELSE IF u = y THEN x ELSE u
    <2>1. \A u, z : From(u) = From(z) => u = z
      BY DEF From
    <2>2. \A u \in DOMAIN arr' : arr'[u].p # 0 => From(u) \in DOMAIN arr /\ arr'[u] = arr[From(u)]
      BY <1>2, <1>3
    <2> HIDE DEF From
    <2>3. QED  BY <2>1, <2>2, <1>1
  <1>9. ASSUME NEW u \in DOMAIN arr' PROVE Holds(Arrays!At(u)', held'[u])
    <2>1. ASSUME NEW z \in DOMAIN arr, arr'[u] = arr[z], held'[u] = held[z]
          PROVE  Holds(Arrays!At(u)', held'[u])
      <3>1. arr[z].p # 0 => arr_mem'[arr[z].p] = arr_mem[arr[z].p]
        BY <2>1, <1>5
      <3>2. Arrays!At(u)' = Arrays!At(z)
        BY <2>1, <3>1 DEF Arrays!At, Arrays!Null
      <3>3. Holds(Arrays!At(z), held[z])
        BY DEF ArrayInv
      <3>4. QED  BY <2>1, <3>2, <3>3
    <2>2. ASSUME arr'[u] = Arrays!Empty, held'[u] = <<>>
          PROVE  Holds(Arrays!At(u)', held'[u])
      <3>1. Arrays!At(u)' = Arrays!Empty
        BY <2>2, <1>3 DEF Arrays!At, Arrays!Null
      <3>2. QED  BY <2>2, <3>1, EmptyHolds
    <2>3. CASE u = x
      BY <2>1, <2>3, <1>2
    <2>4. CASE u = y
      BY <2>1, <2>2, <2>4, <1>2
    <2>5. CASE u # x /\ u # y
      BY <2>1, <2>5, <1>1, <1>2
    <2>6. QED  BY <2>3, <2>4, <2>5
  <1>10. IsFiniteSet(Rows(Sizes)') /\ objects' = Cardinality(Rows(Sizes)')
    <2> DEFINE S1 == Arrays!With(Sizes, x, Sizes[y])
               S2 == Arrays!With(S1, y, other.size)
               k  == IF x \in DOMAIN Sizes THEN Sizes[x] ELSE 0
    <2>1. Sizes' = S2
      BY <1>2 DEF Sizes, Arrays!With
    <2>2. \A u \in DOMAIN Sizes : Sizes[u] \in Nat
      BY <1>1 DEF ArrayRecord, Sizes
    <2>3. IsFiniteSet(Rows(Sizes)) /\ objects = Cardinality(Rows(Sizes)) /\ objects \in Nat
      BY FS_CardinalityType DEF ArrayInv
    <2>4. y \in DOMAIN Sizes /\ Sizes[y] \in Nat /\ k \in Nat /\ other.size \in Nat
      BY <2>2, <1>4 DEF Sizes, ArrayRecord
    <2>5. IsFiniteSet(Rows(S1)) /\ Cardinality(Rows(S1)) = Cardinality(Rows(Sizes)) - k + Sizes[y]
      BY <2>2, <2>3, <2>4, RowsWith
    <2>6. y \in DOMAIN S1 /\ S1[y] = Sizes[y] /\ \A u \in DOMAIN S1 : S1[u] \in Nat
      BY <2>2, <2>4 DEF Arrays!With
    <2> HIDE DEF S1
    <2>7. /\ IsFiniteSet(Rows(S2))
          /\ Cardinality(Rows(S2)) = Cardinality(Rows(S1)) - (IF y \in DOMAIN S1 THEN S1[y] ELSE 0) + other.size
      BY <2>4, <2>5, <2>6, RowsWith
    <2> HIDE DEF S2, k
    <2>8. Cardinality(Rows(S2)) = objects - k + other.size
      BY <2>3, <2>4, <2>5, <2>6, <2>7
    <2>9. k = IF x \in DOMAIN arr THEN Len(held[x]) ELSE 0
      BY AtFacts DEF Sizes, k
    <2>10. objects' = objects - k + other.size
      <3>1. CASE x \in DOMAIN arr /\ other = arr[x] /\ objects' = objects
        BY <2>3, <2>4, <3>1 DEF k, Sizes
      <3>2. CASE other = Arrays!Empty /\ objects' = objects - (IF x \in DOMAIN arr THEN Len(held[x]) ELSE 0)
        BY <2>3, <2>4, <2>9, <3>2, <1>3
      <3>3. QED  BY <3>1, <3>2
    <2>11. Rows(Sizes)' = Rows(S2)
      BY <2>1 DEF Rows
    <2>12. QED  BY <2>7, <2>8, <2>10, <2>11
  <1>11. \A u \in DOMAIN arr' : arr'[u] \in ArrayRecord /\ arr'[u].cells = <<>> /\ arr'[u].n = 0
    BY <1>1, <1>2, <1>4
  <1>12. \A u \in DOMAIN arr' :
            /\ Holds(Arrays!At(u), held[u])'
            /\ arr'[u].p # 0 => arr'[u].p \in DOMAIN arr_mem' /\ arr_mem'[arr'[u].p].cap = arr'[u].cap
    <2> SUFFICES ASSUME NEW u \in DOMAIN arr'
                 PROVE  /\ Holds(Arrays!At(u), held[u])'
                        /\ arr'[u].p # 0 => arr'[u].p \in DOMAIN arr_mem' /\ arr_mem'[arr'[u].p].cap = arr'[u].cap
      OBVIOUS
    <2>1. Holds(Arrays!At(u)', held'[u])
      BY <1>9
    <2>2. Holds(Arrays!At(u), held[u])'
      BY <2>1 DEF Holds
    <2>3. QED  BY <2>2, <1>5
  <1>13. DOMAIN held' = DOMAIN arr' /\ DOMAIN arr_mem' \subseteq Nat \ {0}
    BY <1>1, <1>2, <1>6
  <1>14. QED  BY <1>6, <1>7, <1>8, <1>10, <1>11, <1>12, <1>13 DEF ArrayInv

LEMMA DestroyStep == ASSUME ArrayInv, NEW x \in ArrayVars, Arrays!Destroy(x) PROVE ArrayInv'
  <1>1. /\ x \in DOMAIN arr
        /\ arr' = Arrays!Without(arr, x) /\ arr_mem' = Arrays!Without(arr_mem, arr[x].p)
        /\ objects' = objects + Arrays!_reset(Arrays!At(x)).n /\ held' = Arrays!Without(held, x)
    BY DEF Arrays!Destroy, Arrays!Live
  <1>2. /\ IsFiniteSet(DOMAIN arr_mem) /\ DOMAIN arr_mem \subseteq Nat \ {0}
        /\ DOMAIN held = DOMAIN arr
        /\ \A u, z \in DOMAIN arr : arr[u].p = arr[z].p /\ arr[u].p # 0 => u = z
        /\ \A q \in DOMAIN arr_mem : \E u \in DOMAIN arr : arr[u].p = q
        /\ \A u \in DOMAIN arr : arr[u].p # 0 =>
              arr[u].p \in DOMAIN arr_mem /\ arr_mem[arr[u].p].cap = arr[u].cap
        /\ \A u \in DOMAIN arr : arr[u] \in ArrayRecord /\ arr[u].cells = <<>> /\ arr[u].n = 0
    BY DEF ArrayInv
  <1>3. /\ DOMAIN arr' = DOMAIN arr \ {x} /\ \A u \in DOMAIN arr' : arr'[u] = arr[u]
        /\ DOMAIN held' = DOMAIN arr \ {x} /\ \A u \in DOMAIN held' : held'[u] = held[u]
        /\ DOMAIN arr_mem' = DOMAIN arr_mem \ {arr[x].p}
        /\ \A q \in DOMAIN arr_mem' : arr_mem'[q] = arr_mem[q]
    BY <1>1, <1>2 DEF Arrays!Without
  <1>4. IsFiniteSet(DOMAIN arr_mem')
    <2>1. IsFiniteSet(DOMAIN arr_mem)
      BY <1>2
    <2>2. IsFiniteSet(DOMAIN arr_mem \ {arr[x].p})
      BY <2>1, FS_RemoveElement
    <2>3. DOMAIN arr_mem' = DOMAIN arr_mem \ {arr[x].p}
      BY <1>3
    <2>4. QED  BY <2>2, <2>3
  <1>5. ASSUME NEW u \in DOMAIN arr', arr'[u].p # 0
        PROVE  arr'[u].p \in DOMAIN arr_mem' /\ arr_mem'[arr'[u].p].cap = arr'[u].cap
               /\ arr_mem'[arr'[u].p] = arr_mem[arr[u].p]
    BY <1>1, <1>2, <1>3, <1>5
  <1>6. ASSUME NEW u \in DOMAIN arr' PROVE Holds(Arrays!At(u), held[u])'
    <2>1. Arrays!At(u)' = Arrays!At(u) /\ held'[u] = held[u]
      BY <1>3, <1>5 DEF Arrays!At, Arrays!Null
    <2>2. Holds(Arrays!At(u), held[u])
      BY <1>3 DEF ArrayInv
    <2>3. Holds(Arrays!At(u)', held'[u])
      BY <2>1, <2>2
    <2>4. QED  BY <2>3 DEF Holds
  <1>7. ASSUME NEW q \in DOMAIN arr_mem' PROVE \E u \in DOMAIN arr' : arr'[u].p = q
    BY <1>2, <1>3
  <1>8. IsFiniteSet(Rows(Sizes)') /\ objects' = Cardinality(Rows(Sizes)')
    <2>1. Sizes' = Arrays!Without(Sizes, x)
      BY <1>3 DEF Sizes, Arrays!Without
    <2>2. x \in DOMAIN Sizes /\ \A u \in DOMAIN Sizes : Sizes[u] \in Nat
      BY <1>1, <1>2 DEF ArrayRecord, Sizes
    <2>3. IsFiniteSet(Rows(Sizes)) /\ objects = Cardinality(Rows(Sizes)) /\ objects \in Nat
      BY FS_CardinalityType DEF ArrayInv
    <2>4. LET g == Arrays!Without(Sizes, x)
          IN  IsFiniteSet(Rows(g)) /\ Cardinality(Rows(g)) = Cardinality(Rows(Sizes)) - Sizes[x]
      BY <2>2, <2>3, RowsWithout
    <2>5. /\ Arrays!At(x).n = 0 /\ Holds(Arrays!At(x), held[x]) /\ Len(held[x]) = Sizes[x]
          /\ Sizes[x] \in Nat
      BY <1>1, AtFacts DEF Sizes
    <2>6. Arrays!_reset(Arrays!At(x)).n = Arrays!At(x).n - Len(held[x])
      BY <2>5, ResetHolds
    <2>7. objects' = objects - Sizes[x]
      BY <2>3, <2>5, <2>6, <1>1
    <2>8. Rows(Sizes)' = Rows(Arrays!Without(Sizes, x))
      BY <2>1 DEF Rows
    <2>9. QED  BY <2>3, <2>4, <2>7, <2>8
  <1>9. \A u, z \in DOMAIN arr' : arr'[u].p = arr'[z].p /\ arr'[u].p # 0 => u = z
    BY <1>2, <1>3
  <1>10. /\ DOMAIN held' = DOMAIN arr' /\ DOMAIN arr_mem' \subseteq Nat \ {0}
         /\ \A u \in DOMAIN arr' : arr'[u] \in ArrayRecord /\ arr'[u].cells = <<>> /\ arr'[u].n = 0
    BY <1>2, <1>3
  <1>11. QED  BY <1>4, <1>5, <1>6, <1>7, <1>8, <1>9, <1>10 DEF ArrayInv

LEMMA ArrayInitHolds == Arrays!Init => ArrayInv
  <1> SUFFICES ASSUME Arrays!Init PROVE ArrayInv
    OBVIOUS
  <1>1. DOMAIN arr = {} /\ DOMAIN arr_mem = {} /\ DOMAIN held = {} /\ objects = 0
    BY DEF Arrays!Init, Arrays!Nothing
  <1>2. Rows(Sizes) = {}
    BY <1>1 DEF Rows, Sizes
  <1>3. IsFiniteSet(Rows(Sizes)) /\ Cardinality(Rows(Sizes)) = 0 /\ IsFiniteSet(DOMAIN arr_mem)
    BY <1>1, <1>2, FS_EmptySet
  <1>4. QED  BY <1>1, <1>3 DEF ArrayInv

(* What a call takes from an array are the values that it holds. *)
LEMMA ItemsHeld == ASSUME ArrayInv, NEW x \in DOMAIN arr PROVE Arrays!Items(x) = held[x]
  <1> DEFINE a == Arrays!At(x)
             s == SubSeq(a.cells, 1, a.size)
  <1>1. /\ a \in ArrayRecord /\ a.size = arr[x].size /\ Holds(a, held[x])
        /\ held[x] \in Seq(Values)
    BY AtFacts
  <1>2. a.size \in Nat /\ a.cells \in Seq(Cells) /\ Len(a.cells) = a.cap /\ a.size <= a.cap /\ a.cap \in Nat
    BY <1>1 DEF Holds, ArrayRecord
  <1>3. Len(held[x]) = a.size /\ \A i \in 1..a.size : a.cells[i] = held[x][i]
    BY <1>1 DEF Holds
  <1> HIDE DEF a
  <1>4. s \in Seq(Cells) /\ Len(s) = a.size /\ \A i \in 1..a.size : s[i] = a.cells[i]
    BY <1>2, SubSeqType
  <1> HIDE DEF s
  <1>5. s = held[x]
    BY <1>1, <1>2, <1>3, <1>4, SeqEqual
  <1>6. QED  BY <1>1, <1>5 DEF a, s, Arrays!Items

LEMMA ConstructStep == ASSUME ArrayInv, NEW x, Arrays!Construct(x) PROVE ArrayInv'
  <1>1. x \notin DOMAIN arr /\ IsFiniteSet(DOMAIN arr_mem)
    BY DEF Arrays!Construct, Arrays!Live, ArrayInv
  <1>2. <<>> \in Seq(Values) /\ Len(<<>>) = 0
    OBVIOUS
  <1>3. CASE Arrays!Store(x, Arrays!Empty, <<>>)
    BY <1>1, <1>2, <1>3, EmptyHolds, StoreStep
  <1>4. ASSUME NEW n \in ArrayCaps, Arrays!Store(x, Arrays!alloc(n), <<>>) PROVE ArrayInv'
    <2>1. n \in Nat
      BY ValuesAssumption DEF Arrays!ValuesAssumption
    <2>2. /\ Holds(Arrays!alloc(n), <<>>) /\ Arrays!alloc(n).n = 0
          /\ Arrays!alloc(n).p = Arrays!Fresh(arr_mem)
      BY <1>1, <2>1, NewBlockHolds
    <2>3. QED  BY <1>1, <1>2, <1>4, <2>2, StoreStep
  <1>5. ASSUME NEW l \in Lists, Arrays!Store(x, Arrays!_make_array(l), l) PROVE ArrayInv'
    <2>1. l \in Seq(Values) /\ Len(l) \in Nat
      BY ValuesAssumption DEF Arrays!ValuesAssumption
    <2>2. /\ Holds(Arrays!_make_array(l), l) /\ Arrays!_make_array(l).n = Len(l)
          /\ Arrays!_make_array(l).p = Arrays!Fresh(arr_mem)
      BY <1>1, <2>1, MadeHolds
    <2>3. QED  BY <1>1, <1>5, <2>1, <2>2, StoreStep
  <1>6. QED  BY <1>3, <1>4, <1>5 DEF Arrays!Construct

LEMMA CopyStep == ASSUME ArrayInv, NEW x, NEW y, Arrays!Copy(x, y) PROVE ArrayInv'
  <1>1. x \notin DOMAIN arr /\ y \in DOMAIN arr /\ IsFiniteSet(DOMAIN arr_mem)
    BY DEF Arrays!Copy, Arrays!Live, ArrayInv
  <1> DEFINE l == held[y]
  <1>2. l \in Seq(Values) /\ Len(l) \in Nat /\ Arrays!Items(y) = l
    BY <1>1, AtFacts, ItemsHeld
  <1>3. Arrays!Store(x, Arrays!_make_array(l), l)
    BY <1>2 DEF Arrays!Copy
  <1> HIDE DEF l
  <1>4. /\ Holds(Arrays!_make_array(l), l) /\ Arrays!_make_array(l).n = Len(l)
        /\ Arrays!_make_array(l).p = Arrays!Fresh(arr_mem)
    BY <1>1, <1>2, MadeHolds
  <1>5. QED  BY <1>1, <1>2, <1>3, <1>4, StoreStep

(* An array is assigned to: it is reset, and then made again. *)
LEMMA AgainHolds ==
    ASSUME ArrayInv, NEW x \in DOMAIN arr, NEW l \in Seq(Values)
    PROVE  LET a == Arrays!_make_array(l)
               b == [a EXCEPT !.n = @ + Arrays!_reset(Arrays!At(x)).n]
           IN  Holds(b, l) /\ b.n = Len(l) - Len(held[x]) /\ b.p = Arrays!Fresh(arr_mem)
  <1> DEFINE a == Arrays!_make_array(l)
             r == Arrays!_reset(Arrays!At(x)).n
             b == [a EXCEPT !.n = @ + r]
  <1>1. Holds(a, l) /\ a.n = Len(l) /\ a.p = Arrays!Fresh(arr_mem)
    <2>1. IsFiniteSet(DOMAIN arr_mem)
      BY DEF ArrayInv
    <2>2. QED  BY <2>1, MadeHolds
  <1>2. /\ Holds(Arrays!At(x), held[x]) /\ Arrays!At(x).n = 0
        /\ Len(held[x]) = arr[x].size /\ arr[x].size \in Nat
    BY AtFacts
  <1>3. r = - Len(held[x]) /\ r \in Int
    <2>1. r = Arrays!At(x).n - Len(held[x])
      BY <1>2, ResetHolds
    <2>2. QED  BY <1>2, <2>1
  <1> HIDE DEF a, r
  <1>4. a \in ArrayRecord /\ Len(l) \in Nat
    BY <1>1 DEF Holds
  <1>5. /\ b \in ArrayRecord /\ b.p = a.p /\ b.cap = a.cap /\ b.size = a.size
        /\ b.cells = a.cells /\ b.n = a.n + r
    BY <1>3, <1>4 DEF ArrayRecord
  <1> HIDE DEF b
  <1>6. Holds(b, l)
    BY <1>1, <1>5 DEF Holds
  <1>7. b.n = Len(l) - Len(held[x])
    BY <1>1, <1>2, <1>3, <1>4, <1>5
  <1>8. QED  BY <1>1, <1>5, <1>6, <1>7 DEF a, r, b

LEMMA AssignStep == ASSUME ArrayInv, NEW x, Arrays!Assign(x) PROVE ArrayInv'
  <1> DEFINE Again(l) == [Arrays!_make_array(l) EXCEPT !.n = @ + Arrays!_reset(Arrays!At(x)).n]
  <1>1. x \in DOMAIN arr
    BY DEF Arrays!Assign, Arrays!Live
  <1>2. ASSUME NEW l \in Seq(Values), Arrays!Store(x, Again(l), l) PROVE ArrayInv'
    <2> DEFINE b == Again(l)
    <2>1. Holds(b, l) /\ b.n = Len(l) - Len(held[x]) /\ b.p = Arrays!Fresh(arr_mem)
      BY <1>1, AgainHolds
    <2> HIDE DEF b
    <2>2. Arrays!Store(x, b, l)
      BY <1>2 DEF b
    <2>3. QED  BY <1>1, <2>1, <2>2, StoreStep
  <1>3. CASE \E y \in DOMAIN arr : Arrays!Store(x, Again(Arrays!Items(y)), held[y])
    <2>1. PICK y \in DOMAIN arr : Arrays!Store(x, Again(Arrays!Items(y)), held[y])
      BY <1>3
    <2>2. Arrays!Items(y) = held[y] /\ held[y] \in Seq(Values)
      BY AtFacts, ItemsHeld
    <2>3. Arrays!Store(x, Again(held[y]), held[y])
      BY <2>1, <2>2
    <2> HIDE DEF Again
    <2>4. QED  BY <2>2, <2>3, <1>2
  <1>4. CASE \E l \in Lists : Arrays!Store(x, Again(l), l)
    <2>1. Lists \subseteq Seq(Values)
      BY ValuesAssumption DEF Arrays!ValuesAssumption
    <2> HIDE DEF Again
    <2>2. QED  BY <2>1, <1>2, <1>4
  <1>5. \/ \E y \in DOMAIN arr : Arrays!Store(x, Again(Arrays!Items(y)), held[y])
        \/ \E l \in Lists : Arrays!Store(x, Again(l), l)
    BY DEF Arrays!Assign, Arrays!Live
  <1>6. QED  BY <1>3, <1>4, <1>5

LEMMA PushBackStep == ASSUME ArrayInv, NEW x, Arrays!PushBack(x) PROVE ArrayInv'
  <1> DEFINE a == Arrays!At(x)
  <1>1. x \in DOMAIN arr /\ IsFiniteSet(DOMAIN arr_mem)
    BY DEF Arrays!PushBack, Arrays!Live, ArrayInv
  <1>2. /\ Holds(a, held[x]) /\ a.n = 0 /\ a.p = arr[x].p /\ held[x] \in Seq(Values)
        /\ Len(held[x]) \in Nat
    BY <1>1, AtFacts
  <1>3. \/ \E v \in Values : Arrays!Store(x, Arrays!push_back(a, v), held[x] \o <<v>>)
        \/ \E l \in Lists : Arrays!Store(x, Arrays!push_back_all(a, l), held[x] \o l)
    BY DEF Arrays!PushBack
  <1> HIDE DEF a
  <1>4. ASSUME NEW v \in Values, Arrays!Store(x, Arrays!push_back(a, v), held[x] \o <<v>>)
        PROVE  ArrayInv'
    <2> DEFINE b == Arrays!push_back(a, v)
    <2>1. /\ Holds(b, held[x] \o <<v>>) /\ b.n = a.n + 1 /\ b.p \in {a.p, Arrays!Fresh(arr_mem)}
      BY <1>1, <1>2, PushedHolds
    <2>2. Len(held[x] \o <<v>>) = Len(held[x]) + 1
      BY <1>2
    <2> HIDE DEF b
    <2>3. b.n = Len(held[x] \o <<v>>) - Len(held[x])
      BY <1>2, <2>1, <2>2
    <2>4. Arrays!Store(x, b, held[x] \o <<v>>)
      BY <1>4 DEF b
    <2>5. QED  BY <1>1, <1>2, <2>1, <2>3, <2>4, StoreStep
  <1>5. ASSUME NEW l \in Lists, Arrays!Store(x, Arrays!push_back_all(a, l), held[x] \o l)
        PROVE  ArrayInv'
    <2> DEFINE b == Arrays!push_back_all(a, l)
    <2>1. l \in Seq(Values) /\ Len(l) \in Nat
      BY ValuesAssumption DEF Arrays!ValuesAssumption
    <2>2. /\ Holds(b, held[x] \o l) /\ b.n = a.n + Len(l) /\ b.p \in {a.p, Arrays!Fresh(arr_mem)}
      BY <1>1, <1>2, <2>1, PushedAllHolds
    <2>3. Len(held[x] \o l) = Len(held[x]) + Len(l)
      BY <1>2, <2>1
    <2> HIDE DEF b
    <2>4. b.n = Len(held[x] \o l) - Len(held[x])
      BY <1>2, <2>1, <2>2, <2>3
    <2>5. Arrays!Store(x, b, held[x] \o l)
      BY <1>5 DEF b
    <2>6. QED  BY <1>1, <1>2, <2>2, <2>4, <2>5, StoreStep
  <1>6. QED  BY <1>3, <1>4, <1>5

LEMMA RemoveStep == ASSUME ArrayInv, NEW x, Arrays!Remove(x) PROVE ArrayInv'
  <1> DEFINE a == Arrays!At(x)
             n == Len(held[x])
             Swapped(i) == SubSeq([held[x] EXCEPT ![i] = held[x][n]], 1, n - 1)
  <1>1. x \in DOMAIN arr /\ n > 0
    BY DEF Arrays!Remove, Arrays!Live
  <1>2. /\ Holds(a, held[x]) /\ a.n = 0 /\ a.p = arr[x].p /\ held[x] \in Seq(Values) /\ n \in Nat
    BY <1>1, AtFacts
  <1>3. \/ Arrays!Store(x, Arrays!pop_back(a), SubSeq(held[x], 1, n - 1))
        \/ \E i \in 1..n : Arrays!Store(x, Arrays!remove(a, i), Swapped(i))
    BY DEF Arrays!Remove
  <1> HIDE DEF a
  <1>4. CASE Arrays!Store(x, Arrays!pop_back(a), SubSeq(held[x], 1, n - 1))
    <2> DEFINE b == Arrays!pop_back(a)
               l == SubSeq(held[x], 1, n - 1)
    <2>1. Holds(b, l) /\ b.n = a.n - 1 /\ b.p = a.p
      BY <1>1, <1>2, PoppedHolds
    <2>2. Len(l) = n - 1
      BY <1>1, <1>2
    <2> HIDE DEF b, l
    <2>3. b.n = Len(l) - n
      BY <1>2, <2>1, <2>2
    <2>4. Arrays!Store(x, b, l)
      BY <1>4 DEF b, l
    <2>5. QED  BY <1>1, <1>2, <2>1, <2>3, <2>4, StoreStep
  <1>5. ASSUME NEW i \in 1..n, Arrays!Store(x, Arrays!remove(a, i), Swapped(i)) PROVE ArrayInv'
    <2> DEFINE b == Arrays!remove(a, i)
               l == Swapped(i)
    <2>1. Holds(b, l) /\ b.n = a.n - 1 /\ b.p = a.p
      BY <1>2, RemovedHolds
    <2>2. Len(l) = n - 1
      <3>1. [held[x] EXCEPT ![i] = held[x][n]] \in Seq(Values) /\ Len([held[x] EXCEPT ![i] = held[x][n]]) = n
        BY <1>1, <1>2
      <3>2. QED  BY <1>1, <1>2, <3>1
    <2> HIDE DEF b, l
    <2>3. b.n = Len(l) - n
      BY <1>2, <2>1, <2>2
    <2>4. Arrays!Store(x, b, l)
      BY <1>5 DEF b, l
    <2>5. QED  BY <1>1, <1>2, <2>1, <2>3, <2>4, StoreStep
  <1>6. QED  BY <1>3, <1>4, <1>5

LEMMA ResizeStep == ASSUME ArrayInv, NEW x, NEW k \in ArrayCaps, Arrays!Resize(x, k) PROVE ArrayInv'
  <1> DEFINE a == Arrays!At(x)
             n == Len(held[x])
  <1>1. x \in DOMAIN arr /\ IsFiniteSet(DOMAIN arr_mem) /\ k \in Nat
    BY ValuesAssumption DEF Arrays!Resize, Arrays!Live, Arrays!ValuesAssumption, ArrayInv
  <1>2. /\ Holds(a, held[x]) /\ a.n = 0 /\ a.p = arr[x].p /\ held[x] \in Seq(Values) /\ n \in Nat
        /\ a.size = n
    BY <1>1, AtFacts
  <1>3. \/ Arrays!Store(x, Arrays!reserve(a, k), held[x])
        \/ k <= n /\ Arrays!Store(x, Arrays!_resize(a, k), SubSeq(held[x], 1, k))
        \/ Arrays!Store(x, Arrays!_reset(a), <<>>)
    BY DEF Arrays!Resize
  <1> HIDE DEF a
  <1>4. CASE Arrays!Store(x, Arrays!reserve(a, k), held[x])
    <2> DEFINE b == Arrays!reserve(a, k)
    <2>1. Holds(b, held[x]) /\ b.n = a.n /\ b.p \in {a.p, Arrays!Fresh(arr_mem)}
      BY <1>1, <1>2, ReserveHolds
    <2> HIDE DEF b
    <2>2. b.n = n - n
      BY <1>2, <2>1
    <2>3. Arrays!Store(x, b, held[x])
      BY <1>4 DEF b
    <2>4. QED  BY <1>1, <1>2, <2>1, <2>2, <2>3, StoreStep
  <1>5. CASE k <= n /\ Arrays!Store(x, Arrays!_resize(a, k), SubSeq(held[x], 1, k))
    <2> DEFINE b == Arrays!_resize(a, k)
               l == SubSeq(held[x], 1, k)
    <2>1. Holds(b, l) /\ b.n = a.n - (a.size - k) /\ b.p = a.p
      BY <1>1, <1>2, <1>5, ResizedHolds
    <2>2. Len(l) = k
      BY <1>1, <1>2, <1>5
    <2> HIDE DEF b, l
    <2>3. b.n = Len(l) - n
      BY <1>1, <1>2, <2>1, <2>2
    <2>4. Arrays!Store(x, b, l)
      BY <1>5 DEF b, l
    <2>5. QED  BY <1>1, <1>2, <2>1, <2>3, <2>4, StoreStep
  <1>6. CASE Arrays!Store(x, Arrays!_reset(a), <<>>)
    <2> DEFINE b == Arrays!_reset(a)
    <2>1. Holds(b, <<>>) /\ b.n = a.n - n /\ b.p = 0
      BY <1>2, ResetHolds
    <2>2. Len(<<>>) = 0
      OBVIOUS
    <2> HIDE DEF b
    <2>3. b.n = Len(<<>>) - n
      BY <1>2, <2>1, <2>2
    <2>4. Arrays!Store(x, b, <<>>)
      BY <1>6 DEF b
    <2>5. QED  BY <1>1, <2>1, <2>3, <2>4, StoreStep
  <1>7. QED  BY <1>3, <1>4, <1>5, <1>6

LEMMA MoveStepHolds == ASSUME ArrayInv, NEW x, NEW y, Arrays!Move(x, y) PROVE ArrayInv'
  <1>1. y \in DOMAIN arr /\ x # y
    BY DEF Arrays!Move, Arrays!Live
  <1>2. /\ arr' = Arrays!With(Arrays!With(arr, x, arr[y]), y, Arrays!Empty)
        /\ held' = Arrays!With(Arrays!With(held, x, held[y]), y, <<>>)
        /\ arr_mem' = (IF x \in DOMAIN arr THEN Arrays!Without(arr_mem, arr[x].p) ELSE arr_mem)
        /\ objects' = objects + (IF x \in DOMAIN arr THEN Arrays!_reset(Arrays!At(x)).n ELSE 0)
    BY DEF Arrays!Move, Arrays!Live
  <1>3. objects \in Nat
    BY FS_CardinalityType DEF ArrayInv
  <1>4. objects' = objects - (IF x \in DOMAIN arr THEN Len(held[x]) ELSE 0)
    <2>1. CASE x \in DOMAIN arr
      <3>1. Holds(Arrays!At(x), held[x]) /\ Arrays!At(x).n = 0 /\ Len(held[x]) \in Nat
        BY <2>1, AtFacts
      <3>2. Arrays!_reset(Arrays!At(x)).n = Arrays!At(x).n - Len(held[x])
        BY <3>1, ResetHolds
      <3>3. QED  BY <1>2, <1>3, <2>1, <3>1, <3>2
    <2>2. CASE x \notin DOMAIN arr
      BY <1>2, <1>3, <2>2
    <2>3. QED  BY <2>1, <2>2
  <1>5. QED  BY <1>1, <1>2, <1>4, ExchangeStep

LEMMA SwapStep == ASSUME ArrayInv, NEW x, NEW y, Arrays!swap(x, y) PROVE ArrayInv'
  <1>1. /\ x \in DOMAIN arr /\ y \in DOMAIN arr
        /\ arr' = Arrays!With(Arrays!With(arr, x, arr[y]), y, arr[x])
        /\ held' = Arrays!With(Arrays!With(held, x, held[y]), y, held[x])
        /\ UNCHANGED <<arr_mem, objects>>
    BY DEF Arrays!swap, Arrays!Live
  <1>2. CASE x # y
    BY <1>1, <1>2, ExchangeStep
  (* An array that is swapped with itself. *)
  <1>3. CASE x = y
    <2>1. /\ DOMAIN arr' = DOMAIN arr /\ \A z \in DOMAIN arr : arr'[z] = arr[z]
          /\ DOMAIN held' = DOMAIN held /\ \A z \in DOMAIN held : held'[z] = held[z]
          /\ DOMAIN held = DOMAIN arr
      BY <1>1, <1>3 DEF Arrays!With, ArrayInv
    <2>2. \A z \in DOMAIN arr' : Arrays!At(z)' = Arrays!At(z)
      BY <1>1, <2>1 DEF Arrays!At
    <2>3. Sizes' = Sizes
      BY <2>1 DEF Sizes
    <2>4. \A z \in DOMAIN arr' : Holds(Arrays!At(z), held[z])'
      <3> SUFFICES ASSUME NEW z \in DOMAIN arr' PROVE Holds(Arrays!At(z), held[z])'
        OBVIOUS
      <3>1. Holds(Arrays!At(z), held[z])
        BY <2>1 DEF ArrayInv
      <3>2. Holds(Arrays!At(z)', held'[z])
        BY <2>1, <2>2, <3>1
      <3>3. QED  BY <3>2 DEF Holds
    <2>5. Rows(Sizes)' = Rows(Sizes)
      BY <2>3 DEF Rows
    <2>6. QED  BY <1>1, <2>1, <2>4, <2>5 DEF ArrayInv
  <1>4. QED  BY <1>2, <1>3

(* A walk over the first n cells, as the recursive function of Iterated is  *)
(* defined: the rest of the cells, from each of them, is the solution.      *)
LEMMA WalkFacts ==
    ASSUME NEW S, NEW c \in Seq(S), NEW n \in Nat, n <= Len(c)
    PROVE  LET walk[p \in 0..n] == IF p = n THEN <<>> ELSE <<c[p + 1]>> \o walk[p + 1]
           IN  walk[0] = SubSeq(c, 1, n)
  <1> DEFINE Solves(f) == f = [p \in 0..n |-> IF p = n THEN <<>> ELSE <<c[p + 1]>> \o f[p + 1]]
             walk == CHOOSE f : Solves(f)
             g == [p \in 0..n |-> SubSeq(c, p + 1, n)]
             T == {k \in Nat : k <= n => walk[n - k] = SubSeq(c, n - k + 1, n)}
  <1>1. \A p \in 0..n : p # n => SubSeq(c, p + 1, n) = <<c[p + 1]>> \o SubSeq(c, p + 2, n)
    <2> SUFFICES ASSUME NEW p \in 0..n, p # n
                 PROVE  SubSeq(c, p + 1, n) = <<c[p + 1]>> \o SubSeq(c, p + 2, n)
      OBVIOUS
    <2> DEFINE s == SubSeq(c, p + 1, n)
               r == SubSeq(c, p + 2, n)
               t == <<c[p + 1]>> \o r
    <2>1. /\ s \in Seq(S) /\ Len(s) = n - p
          /\ \A i \in 1..(n - p) : s[i] = c[p + i]
      BY SubSeqType
    <2>2. /\ r \in Seq(S) /\ Len(r) = n - p - 1
          /\ \A i \in 1..(n - p - 1) : r[i] = c[p + 1 + i]
      BY SubSeqType
    <2>3. c[p + 1] \in S
      OBVIOUS
    <2> HIDE DEF s, r
    <2>4. /\ t \in Seq(S) /\ Len(t) = n - p
          /\ \A i \in 1..(n - p) : t[i] = IF i = 1 THEN c[p + 1] ELSE r[i - 1]
      BY <2>2, <2>3
    <2> HIDE DEF t
    <2>5. \A i \in 1..(n - p) : s[i] = t[i]
      BY <2>1, <2>2, <2>4
    <2>6. s = t
      BY <2>1, <2>4, <2>5, SeqEqual
    <2>7. QED  BY <2>6 DEF s, r, t
  <1>2. SubSeq(c, n + 1, n) = <<>>
    OBVIOUS
  <1>3. Solves(g)
    BY <1>1, <1>2
  <1>4. Solves(walk)
    BY <1>3
  <1> HIDE DEF walk, g
  <1>5. /\ walk[n] = <<>>
        /\ \A p \in 0..n : p # n => walk[p] = <<c[p + 1]>> \o walk[p + 1]
    <2>1. walk = [p \in 0..n |-> IF p = n THEN <<>> ELSE <<c[p + 1]>> \o walk[p + 1]]
      BY <1>4
    <2> DEFINE F(p) == IF p = n THEN <<>> ELSE <<c[p + 1]>> \o walk[p + 1]
    <2> HIDE DEF Solves
    <2>2. walk = [p \in 0..n |-> F(p)]
      BY <2>1
    <2>3. F(n) = <<>> /\ \A p \in 0..n : p # n => F(p) = <<c[p + 1]>> \o walk[p + 1]
      OBVIOUS
    <2> HIDE DEF F
    <2>4. \A p \in 0..n : walk[p] = F(p)
      BY <2>2
    <2>5. QED  BY <2>3, <2>4
  <1>6. 0 \in T
    <2>1. n - 0 = n /\ n - 0 + 1 = n + 1
      OBVIOUS
    <2>2. walk[n - 0] = SubSeq(c, n - 0 + 1, n)
      BY <2>1, <1>2, <1>5
    <2>3. QED  BY <2>2
  <1>7. ASSUME NEW k \in T, k \in Nat PROVE k + 1 \in T
    <2>1. CASE k + 1 <= n
      <3> DEFINE p == n - (k + 1)
      <3>1. p \in 0..n /\ p # n /\ p + 1 = n - k /\ p + 2 = n - k + 1 /\ k <= n
        BY <2>1
      <3>2. walk[p + 1] = SubSeq(c, p + 2, n)
        BY <3>1
      <3> HIDE DEF p
      <3>3. walk[p] = SubSeq(c, p + 1, n)
        BY <1>1, <1>5, <3>1, <3>2
      <3>4. QED  BY <3>3 DEF p
    <2>2. CASE ~(k + 1 <= n)
      BY <2>2
    <2>3. QED  BY <2>1, <2>2
  <1>8. n \in T
    <2> HIDE DEF T
    <2>1. QED  BY <1>6, <1>7, NatClosed
  <1>9. walk[0] = SubSeq(c, 1, n)
    BY <1>8
  <1>10. QED  BY <1>9 DEF walk

(* What an iterator sees are the values of the array. *)
LEMMA IteratedHeld == ASSUME ArrayInv, NEW x \in DOMAIN arr PROVE Arrays!Iterated(x) = held[x]
  <1> DEFINE c == Arrays!At(x).cells
             n == arr[x].size
  <1>1. c \in Seq(Cells) /\ n \in Nat /\ n <= Len(c)
    <2>1. Arrays!At(x) \in ArrayRecord /\ Holds(Arrays!At(x), held[x]) /\ Arrays!At(x).size = n
      BY AtFacts
    <2>2. QED  BY <2>1 DEF Holds, ArrayRecord
  <1>2. SubSeq(c, 1, n) = held[x]
    <2>1. Arrays!At(x).size = n /\ Arrays!Items(x) = held[x]
      BY AtFacts, ItemsHeld
    <2>2. QED  BY <2>1 DEF Arrays!Items
  <1> HIDE DEF c, n
  <1>3. LET walk[p \in 0..n] == IF p = n THEN <<>> ELSE <<c[p + 1]>> \o walk[p + 1]
        IN  walk[0] = SubSeq(c, 1, n)
    BY <1>1, WalkFacts
  <1>4. QED  BY <1>2, <1>3 DEF Arrays!Iterated, c, n

LEMMA ArrayNext == ASSUME ArrayInv, Arrays!Next PROVE ArrayInv'
  <1>1. PICK x \in ArrayVars :
           \/ \/ Arrays!Construct(x) \/ Arrays!Destroy(x) \/ Arrays!Assign(x)
              \/ Arrays!PushBack(x) \/ Arrays!Remove(x)
           \/ \E y \in ArrayVars : Arrays!Copy(x, y) \/ Arrays!Move(x, y) \/ Arrays!swap(x, y)
           \/ \E n \in ArrayCaps : Arrays!Resize(x, n)
    BY DEF Arrays!Next
  <1>2. CASE Arrays!Construct(x)
    BY <1>2, ConstructStep
  <1>3. CASE Arrays!Destroy(x)
    BY <1>3, DestroyStep
  <1>4. CASE Arrays!Assign(x)
    BY <1>4, AssignStep
  <1>5. CASE Arrays!PushBack(x)
    BY <1>5, PushBackStep
  <1>6. CASE Arrays!Remove(x)
    BY <1>6, RemoveStep
  <1>7. ASSUME NEW y \in ArrayVars, Arrays!Copy(x, y) \/ Arrays!Move(x, y) \/ Arrays!swap(x, y)
        PROVE  ArrayInv'
    BY <1>7, CopyStep, MoveStepHolds, SwapStep
  <1>8. ASSUME NEW n \in ArrayCaps, Arrays!Resize(x, n) PROVE ArrayInv'
    BY <1>8, ResizeStep
  <1>9. QED  BY <1>1, <1>2, <1>3, <1>4, <1>5, <1>6, <1>7, <1>8

LEMMA ArrayStutter == ASSUME ArrayInv, UNCHANGED arrayVars PROVE ArrayInv'
  <1>1. arr' = arr /\ arr_mem' = arr_mem /\ objects' = objects /\ held' = held
    BY DEF arrayVars
  <1>2. Rows(Sizes)' = Rows(Sizes)
    BY <1>1 DEF Rows, Sizes
  <1>3. \A x : Holds(Arrays!At(x), held[x])' = Holds(Arrays!At(x), held[x])
    BY <1>1 DEF Arrays!At, Holds
  <1>4. QED  BY <1>1, <1>2, <1>3 DEF ArrayInv

(* What the invariant says of the arrays is what the property asks for. *)
LEMMA ArrayInvGivesProperty == ArrayInv => ArraysOwnTheirElements
  <1> SUFFICES ASSUME ArrayInv PROVE ArraysOwnTheirElements
    OBVIOUS
  <1>1. ASSUME NEW x \in DOMAIN arr
        PROVE  /\ arr[x].p # 0 => /\ arr[x].p \in DOMAIN arr_mem
                                  /\ arr_mem[arr[x].p].cap = arr[x].cap
               /\ Arrays!Items(x) = held[x] /\ Arrays!Iterated(x) = held[x]
               /\ \A i \in (arr[x].size + 1)..arr[x].cap : Arrays!At(x).cells[i] \notin Values
    <2>1. /\ Holds(Arrays!At(x), held[x]) /\ Arrays!At(x).size = arr[x].size
          /\ Arrays!At(x).cap = arr[x].cap
      BY AtFacts
    <2>2. \A i \in (arr[x].size + 1)..arr[x].cap : Arrays!At(x).cells[i] \notin Values
      BY <2>1 DEF Holds
    <2>3. arr[x].p # 0 => arr[x].p \in DOMAIN arr_mem /\ arr_mem[arr[x].p].cap = arr[x].cap
      BY DEF ArrayInv
    <2>4. QED  BY <2>2, <2>3, ItemsHeld, IteratedHeld
  <1>2. DOMAIN arr_mem = {arr[x].p : x \in DOMAIN arr} \ {0}
    <2>1. /\ DOMAIN arr_mem \subseteq Nat \ {0}
          /\ \A q \in DOMAIN arr_mem : \E x \in DOMAIN arr : arr[x].p = q
      BY DEF ArrayInv
    <2>2. \A x \in DOMAIN arr : arr[x].p # 0 => arr[x].p \in DOMAIN arr_mem
      BY DEF ArrayInv
    <2>3. QED  BY <2>1, <2>2
  <1>3. \A x, y \in DOMAIN arr : x # y /\ arr[x].p = arr[y].p => arr[x].p = 0
    BY DEF ArrayInv
  <1>4. objects = Arrays!Cardinality(Arrays!Places)
    <2>1. Arrays!Places = Rows(Sizes)
      BY DEF Arrays!Places, Arrays!Live, Rows, Row, Sizes
    <2>2. QED  BY <2>1, ArraySets DEF ArrayInv
  <1>5. QED  BY <1>1, <1>2, <1>3, <1>4
       DEF ArraysOwnTheirElements, Arrays!ArraysOwnTheirElements, Arrays!Live, Arrays!Null

(* Whatever arrays are built, copied, moved, changed and destroyed, in any  *)
(* order: each holds what was put into it, its objects are constructed and  *)
(* destroyed once, and its block is its own (co::array, array.h).           *)
THEOREM ArraysCorrect == Arrays!Spec => []ArraysOwnTheirElements
  <1>1. Arrays!Init => ArrayInv
    BY ArrayInitHolds
  <1>2. ArrayInv /\ [Arrays!Next]_(Arrays!vars) => ArrayInv'
    BY ArrayNext, ArrayStutter DEF Arrays!vars, arrayVars
  <1>3. QED  BY <1>1, <1>2, ArrayInvGivesProperty, PTL DEF Arrays!Spec

-----------------------------------------------------------------------------
(* FastString *)

Chars == Strings!Bytes \cup {Strings!Any}
StringRecord == [p : Nat, cap : Nat, size : Nat]
BlockRecord == [cap : Nat, bytes : Seq(Chars)]

(* What bytes in memory say of a text: the bytes left open may be any.      *)
Shows(bytes, t) ==
    /\ Len(t) <= Len(bytes)
    /\ \A i \in 1..Len(t) : t[i] \in {Strings!Any, bytes[i]}

(* A string o with its memory has the block it says beside those of r, the  *)
(* memory of the other strings.                                             *)
Room(o, r) ==
    /\ o.s \in StringRecord /\ o.s.p \notin DOMAIN r
    /\ o.s.p = 0 => o.s = Strings!NoString
    /\ o.s.p # 0 => /\ o.m[o.s.p] \in BlockRecord /\ o.m[o.s.p].cap = o.s.cap
                    /\ Len(o.m[o.s.p].bytes) <= o.s.cap
    /\ DOMAIN o.m = DOMAIN r \cup ({o.s.p} \ {0})
    /\ \A q \in DOMAIN r : o.m[q] = r[q]

(* ... and its text is t. *)
Says(o, t, r) ==
    /\ Room(o, r)
    /\ t \in Seq(Chars) /\ o.s.size = Len(t) /\ Shows(Strings!Block(o), t)

Rest(r) == IsFiniteSet(DOMAIN r) /\ 0 \notin DOMAIN r

LEMMA StringSets == \A S : /\ Strings!IsFiniteSet(S) <=> IsFiniteSet(S)
                           /\ Strings!Cardinality(S) = Cardinality(S)
  <1>1. \A S : Strings!IsFiniteSet(S) <=> IsFiniteSet(S)
    BY DEF Strings!IsFiniteSet, IsFiniteSet
  <1>2. \A S : Strings!Cardinality(S) = Cardinality(S)
    BY DEF Strings!Cardinality, Cardinality
  <1>3. QED  BY <1>1, <1>2

LEMMA StringFresh ==
    ASSUME NEW m, IsFiniteSet(DOMAIN m)
    PROVE  Strings!Fresh(m) \in Nat \ {0} /\ Strings!Fresh(m) \notin DOMAIN m
  <1> DEFINE D == DOMAIN m
             n == Cardinality(D)
  <1>1. n \in Nat /\ Strings!Cardinality(D) = n
    BY FS_CardinalityType, StringSets
  <1>2. \E q \in 1..(n + 1) : q \notin D
    <2> HIDE DEF D, n
    <2>1. QED  BY <1>1, UnusedNumber DEF D, n
  <1>3. Strings!Fresh(m) \in 1..(n + 1) /\ Strings!Fresh(m) \notin D
    BY <1>1, <1>2 DEF Strings!Fresh
  <1>4. QED  BY <1>1, <1>3

LEMMA BlockFacts ==
    ASSUME NEW o, NEW r, Room(o, r)
    PROVE  LET b == Strings!Block(o)
           IN  /\ b \in Seq(Chars) /\ Len(b) \in Nat /\ Len(b) <= o.s.cap
               /\ o.s.cap \in Nat /\ o.s.size \in Nat /\ o.s.p \in Nat
               /\ o.s.p = 0 => b = <<>> /\ o.s.cap = 0 /\ o.s.size = 0
               /\ o.s.p # 0 => b = o.m[o.s.p].bytes
  <1>1. CASE o.s.p = 0
    <2>1. Strings!Block(o) = <<>> /\ o.s.cap = 0 /\ o.s.size = 0
      BY <1>1 DEF Room, Strings!Block, Strings!Null, Strings!NoString
    <2>2. QED  BY <1>1, <2>1
  <1>2. CASE o.s.p # 0
    <2>1. o.m[o.s.p] \in BlockRecord /\ o.s \in StringRecord /\ Len(o.m[o.s.p].bytes) <= o.s.cap
      BY <1>2 DEF Room
    <2>2. Strings!Block(o) = o.m[o.s.p].bytes
      BY <1>2 DEF Strings!Block, Strings!Null
    <2>3. QED  BY <1>2, <2>1, <2>2, LenProperties DEF BlockRecord, StringRecord
  <1>3. QED  BY <1>1, <1>2

LEMMA NoStringRoom ==
    ASSUME NEW r, Rest(r)
    PROVE  Says(Strings!On(Strings!NoString, r), <<>>, r)
  <1> DEFINE o == Strings!On(Strings!NoString, r)
  <1>1. o.s = Strings!NoString /\ o.m = r
    BY DEF Strings!On
  <1> HIDE DEF o
  <1>2. Strings!NoString \in StringRecord /\ Strings!NoString.p = 0 /\ Strings!NoString.size = 0
    BY DEF Strings!NoString, Strings!Null, StringRecord
  <1>3. Room(o, r)
    BY <1>1, <1>2 DEF Room, Rest
  <1>4. Shows(Strings!Block(o), <<>>)
    BY <1>1, <1>2 DEF Shows, Strings!Block, Strings!Null
  <1>5. QED  BY <1>1, <1>2, <1>3, <1>4 DEF Says, o

(* A new block beside the others. *)
LEMMA NewRoom ==
    ASSUME NEW r, Rest(r), NEW m, DOMAIN m = DOMAIN r, \A q \in DOMAIN r : m[q] = r[q],
           NEW s \in StringRecord, s.p = Strings!Fresh(m),
           NEW b \in Seq(Chars), Len(b) <= s.cap
    PROVE  LET o == Strings!On(s, Strings!With(m, Strings!Fresh(m), [cap |-> s.cap, bytes |-> b]))
           IN  Room(o, r) /\ o.s = s /\ Strings!Block(o) = b
  <1> DEFINE f == Strings!Fresh(m)
             k == [cap |-> s.cap, bytes |-> b]
             w == Strings!With(m, f, k)
             o == Strings!On(s, w)
  <1>1. f \in Nat \ {0} /\ f \notin DOMAIN r
    BY StringFresh DEF Rest
  <1>2. k \in BlockRecord /\ k.cap = s.cap /\ k.bytes = b
    BY DEF BlockRecord, StringRecord
  <1>3. DOMAIN w = DOMAIN r \cup {f} /\ w[f] = k /\ \A q \in DOMAIN r : w[q] = r[q]
    <2> HIDE DEF f, k
    <2>1. QED  BY <1>1 DEF Strings!With
  <1>4. o.s = s /\ o.m = w
    BY DEF Strings!On
  <1> HIDE DEF f, k, w, o
  <1>5. Room(o, r)
    BY <1>1, <1>2, <1>3, <1>4 DEF Room, f, Rest
  <1>6. Strings!Block(o) = b
    BY <1>1, <1>2, <1>3, <1>4 DEF Strings!Block, Strings!Null, f
  <1>7. QED  BY <1>4, <1>5, <1>6 DEF o, w, k, f

LEMMA AllocRoom ==
    ASSUME NEW r, Rest(r), NEW cap \in Nat, NEW b \in Seq(Chars), Len(b) <= cap
    PROVE  LET o == Strings!alloc(r, cap, b)
           IN  /\ Room(o, r) /\ Strings!Block(o) = b
               /\ o.s.size = Len(b) /\ o.s.cap = cap
  <1> DEFINE s == [p |-> Strings!Fresh(r), cap |-> cap, size |-> Len(b)]
  <1>1. s \in StringRecord /\ s.p = Strings!Fresh(r) /\ s.cap = cap /\ s.size = Len(b)
    BY StringFresh, LenProperties DEF StringRecord, Rest
  <1>2. Strings!alloc(r, cap, b)
          = Strings!On(s, Strings!With(r, Strings!Fresh(r), [cap |-> s.cap, bytes |-> b]))
    BY DEF Strings!alloc
  <1> HIDE DEF s
  <1>3. QED  BY <1>1, <1>2, NewRoom

LEMMA ReallocRoom ==
    ASSUME NEW r, Rest(r), NEW o, Room(o, r), NEW n \in Nat, o.s.cap <= n
    PROVE  LET w == Strings!realloc(o, n)
           IN  /\ Room(w, r) /\ Strings!Block(w) = Strings!Block(o)
               /\ w.s.size = o.s.size /\ w.s.cap = n
  <1> DEFINE m == Strings!Without(o.m, o.s.p)
             s == [o.s EXCEPT !.p = Strings!Fresh(m), !.cap = n]
             b == Strings!Block(o)
  <1>1. DOMAIN m = DOMAIN r /\ \A q \in DOMAIN r : m[q] = r[q]
    BY DEF Strings!Without, Room, Rest
  <1>2. Strings!Fresh(m) \in Nat \ {0}
    <2> HIDE DEF m
    <2>1. QED  BY <1>1, StringFresh DEF Rest
  <1>3. o.s \in StringRecord
    BY DEF Room
  <1>4. s \in StringRecord /\ s.p = Strings!Fresh(m) /\ s.cap = n /\ s.size = o.s.size
    <2> HIDE DEF m
    <2>1. QED  BY <1>2, <1>3 DEF StringRecord
  <1>5. b \in Seq(Chars) /\ Len(b) <= n
    BY <1>3, BlockFacts
  <1>6. Strings!realloc(o, n)
          = Strings!On(s, Strings!With(m, Strings!Fresh(m), [cap |-> s.cap, bytes |-> b]))
    BY <1>4 DEF Strings!realloc
  <1> HIDE DEF m, s, b
  <1>7. QED  BY <1>1, <1>4, <1>5, <1>6, NewRoom DEF b

LEMMA ReserveRoom ==
    ASSUME NEW r, Rest(r), NEW o, Room(o, r), NEW n \in Nat
    PROVE  LET w == Strings!reserve(o, n)
           IN  /\ Room(w, r) /\ Strings!Block(w) = Strings!Block(o)
               /\ w.s.size = o.s.size /\ n <= w.s.cap
  <1>1. o.s.cap \in Nat
    BY BlockFacts
  <1>2. QED  BY <1>1, ReallocRoom DEF Strings!reserve

LEMMA EnsureRoom ==
    ASSUME NEW r, Rest(r), NEW o, Room(o, r), NEW n \in Nat, o.s.size <= o.s.cap
    PROVE  LET w == Strings!ensure(o, n)
           IN  /\ Room(w, r) /\ Strings!Block(w) = Strings!Block(o)
               /\ w.s.size = o.s.size /\ o.s.size + n <= w.s.cap
  <1> DEFINE c == o.s.cap + o.s.cap \div 2 + n
  <1>1. o.s.cap \in Nat /\ o.s.size \in Nat
    BY BlockFacts
  <1>2. c \in Nat /\ o.s.cap <= c /\ o.s.size + n <= c
    BY <1>1
  <1>3. Strings!ensure(o, n)
          = IF o.s.cap < o.s.size + n THEN Strings!realloc(o, c) ELSE o
    BY DEF Strings!ensure
  <1> HIDE DEF c
  <1>4. CASE o.s.cap < o.s.size + n
    BY <1>2, <1>3, <1>4, ReallocRoom
  <1>5. CASE ~(o.s.cap < o.s.size + n)
    BY <1>1, <1>3, <1>5
  <1>6. QED  BY <1>4, <1>5

(* Bytes over those from a place on: what lies before is as it was. *)
LEMMA WriteRoom ==
    ASSUME NEW r, NEW o, Room(o, r),
           NEW at \in Nat, at <= Len(Strings!Block(o)),
           NEW b \in Seq(Chars), at + Len(b) <= o.s.cap
    PROVE  LET w == Strings!Write(o, at, b)
           IN  /\ Room(w, r) /\ w.s = o.s
               /\ at + Len(b) <= Len(Strings!Block(w))
               /\ \A i \in 1..at : Strings!Block(w)[i] = Strings!Block(o)[i]
               /\ \A i \in 1..Len(b) : Strings!Block(w)[at + i] = b[i]
  <1> DEFINE w == Strings!Write(o, at, b)
             k == Strings!Block(o)
             p == o.s.p
             c == SubSeq(k, 1, at) \o b
             e == [o.m[p] EXCEPT !.bytes = c]
             n == Strings!With(o.m, p, e)
  <1>1. /\ k \in Seq(Chars) /\ Len(k) \in Nat /\ Len(k) <= o.s.cap /\ o.s.cap \in Nat
        /\ p = 0 => o.s.cap = 0 /\ Len(k) = 0
        /\ p # 0 => k = o.m[p].bytes
        /\ Len(b) \in Nat
    BY BlockFacts, LenProperties
  <1>2. CASE b = <<>>
    <2>1. w = o /\ Len(b) = 0
      BY <1>2 DEF Strings!Write
    <2>2. QED  BY <2>1, <1>1
  <1>3. CASE b # <<>>
    <2>1. Len(b) > 0
      BY <1>3, <1>1, EmptySeq
    <2>2. p # 0 /\ p \in Nat
      BY <2>1, <1>1, BlockFacts
    <2>3. /\ SubSeq(k, 1, at) \in Seq(Chars) /\ Len(SubSeq(k, 1, at)) = at
          /\ \A i \in 1..at : SubSeq(k, 1, at)[i] = k[i]
      BY <1>1, SubSeqType
    <2>4. /\ c \in Seq(Chars) /\ Len(c) = at + Len(b)
          /\ \A i \in 1..(at + Len(b)) : c[i] = IF i <= at THEN k[i] ELSE b[i - at]
      <3> DEFINE q == SubSeq(k, 1, at)
      <3> HIDE DEF q
      <3>1. /\ q \o b \in Seq(Chars) /\ Len(q \o b) = Len(q) + Len(b)
            /\ \A i \in 1..(Len(q) + Len(b)) :
                  (q \o b)[i] = IF i <= Len(q) THEN q[i] ELSE b[i - Len(q)]
        BY <2>3, ConcatProperties DEF q
      <3>2. Len(q) = at /\ \A i \in 1..at : q[i] = k[i]
        BY <2>3 DEF q
      <3>3. QED  BY <3>1, <3>2, <1>1 DEF q
    <2>5. w = Strings!On(o.s, n)
      BY <1>3, <1>1, <2>2 DEF Strings!Write, Strings!First
    <2>6. w.s = o.s /\ w.m = n
      BY <2>5 DEF Strings!On
    <2>7. o.m[p] \in BlockRecord /\ o.m[p].cap = o.s.cap
      BY <2>2 DEF Room
    <2> HIDE DEF c, w
    <2>8. e \in BlockRecord /\ e.cap = o.s.cap /\ e.bytes = c
      BY <2>4, <2>7 DEF BlockRecord
    <2> HIDE DEF e
    <2>9. DOMAIN n = DOMAIN o.m \cup {p} /\ n[p] = e /\ \A q \in DOMAIN o.m : q # p => n[q] = o.m[q]
      BY DEF Strings!With
    <2> HIDE DEF n
    <2>10. Room(w, r)
      BY <2>2, <2>4, <2>6, <2>8, <2>9 DEF Room
    <2>11. Strings!Block(w) = c
      BY <2>2, <2>6, <2>8, <2>9 DEF Strings!Block, Strings!Null
    <2>12. \A i \in 1..at : c[i] = k[i]
      BY <2>4, <1>1
    <2>13. \A i \in 1..Len(b) : c[at + i] = b[i]
      BY <2>4, <1>1
    <2>14. QED  BY <2>4, <2>6, <2>10, <2>11, <2>12, <2>13, <1>1 DEF w
  <1>4. QED  BY <1>2, <1>3

LEMMA SizedRoom ==
    ASSUME NEW r, NEW o, Room(o, r), NEW n \in Nat, n <= Len(Strings!Block(o))
    PROVE  LET w == Strings!Sized(o, n)
           IN  /\ Room(w, r) /\ Strings!Block(w) = Strings!Block(o)
               /\ w.s.size = n /\ w.s.cap = o.s.cap
  <1> DEFINE w == Strings!Sized(o, n)
             s == [o.s EXCEPT !.size = n]
  <1>1. o.s \in StringRecord
    BY DEF Room
  <1>2. s \in StringRecord /\ s.p = o.s.p /\ s.cap = o.s.cap /\ s.size = n
    BY <1>1 DEF StringRecord
  <1>3. w.s = s /\ w.m = o.m
    BY DEF Strings!Sized, Strings!On
  <1>4. o.s.p = 0 => s = o.s
    <2> SUFFICES ASSUME o.s.p = 0 PROVE s = o.s
      OBVIOUS
    <2>1. n = 0 /\ o.s.size = 0
      BY BlockFacts
    <2>2. QED  BY <2>1, <1>1 DEF StringRecord
  <1> HIDE DEF s, w
  <1>5. Room(w, r)
    BY <1>2, <1>3, <1>4 DEF Room
  <1>6. Strings!Block(w) = Strings!Block(o)
    BY <1>2, <1>3 DEF Strings!Block
  <1>7. QED  BY <1>2, <1>3, <1>5, <1>6 DEF w

-----------------------------------------------------------------------------
(* What the calls do to the text of a string. *)

(* The bytes of b, read as a text, may be c. *)
Same(b, c) == /\ b \in Seq(Chars) /\ c \in Seq(Chars) /\ Len(b) = Len(c)
              /\ \A i \in 1..Len(c) : c[i] \in {Strings!Any, b[i]}

LEMMA PutSays ==
    ASSUME NEW r, NEW o, NEW t, Says(o, t, r),
           NEW b, NEW c, Same(b, c), o.s.size + Len(b) <= o.s.cap
    PROVE  Says(Strings!Put(o, b), t \o c, r)
  <1> DEFINE n == o.s.size
             w == Strings!Write(o, n, b)
             z == Strings!Sized(w, n + Len(b))
             d == t \o c
  <1>1. /\ n \in Nat /\ n <= Len(Strings!Block(o)) /\ Room(o, r) /\ Len(t) = n
        /\ b \in Seq(Chars) /\ c \in Seq(Chars) /\ Len(b) = Len(c) /\ Len(b) \in Nat
        /\ t \in Seq(Chars) /\ n + Len(b) <= o.s.cap
    BY BlockFacts, LenProperties DEF Says, Same, Shows
  <1>2. /\ Room(w, r) /\ w.s = o.s /\ n + Len(b) <= Len(Strings!Block(w))
        /\ \A i \in 1..n : Strings!Block(w)[i] = Strings!Block(o)[i]
        /\ \A i \in 1..Len(b) : Strings!Block(w)[n + i] = b[i]
    <2>1. /\ Room(o, r) /\ n \in Nat /\ n <= Len(Strings!Block(o))
          /\ b \in Seq(Chars) /\ n + Len(b) <= o.s.cap
      BY <1>1
    <2> HIDE DEF n
    <2>2. QED  BY <2>1, WriteRoom
  <1>3. /\ Room(z, r) /\ Strings!Block(z) = Strings!Block(w) /\ z.s.size = n + Len(b)
    <2> HIDE DEF n, w
    <2>1. Room(w, r) /\ n + Len(b) \in Nat /\ n + Len(b) <= Len(Strings!Block(w))
      BY <1>1, <1>2
    <2>2. QED  BY <2>1, SizedRoom
  <1>4. Strings!Put(o, b) = z
    BY DEF Strings!Put
  <1>5. /\ d \in Seq(Chars) /\ Len(d) = n + Len(b)
        /\ \A i \in 1..(n + Len(b)) : d[i] = IF i <= n THEN t[i] ELSE c[i - n]
    <2> HIDE DEF n
    <2>1. QED  BY <1>1, ConcatProperties
  <1> HIDE DEF z, w, d
  <1>6. ASSUME NEW i \in 1..Len(d) PROVE d[i] \in {Strings!Any, Strings!Block(z)[i]}
    <2> HIDE DEF n
    <2>1. CASE i <= n
      <3>1. d[i] = t[i] /\ i \in 1..n
        BY <2>1, <1>1, <1>5
      <3>2. t[i] \in {Strings!Any, Strings!Block(o)[i]}
        BY <3>1, <1>1 DEF Says, Shows
      <3>3. QED  BY <3>1, <3>2, <1>2, <1>3
    <2>2. CASE ~(i <= n)
      <3> DEFINE j == i - n
      <3>1. j \in 1..Len(b) /\ i = n + j /\ d[i] = c[j]
        BY <2>2, <1>1, <1>5
      <3> HIDE DEF j
      <3>2. c[j] \in {Strings!Any, b[j]}
        BY <3>1, <1>1 DEF Same
      <3>3. Strings!Block(z)[i] = b[j]
        BY <3>1, <1>2, <1>3
      <3>4. QED  BY <3>1, <3>2, <3>3
    <2>3. QED  BY <2>1, <2>2
  <1>7. QED  BY <1>2, <1>3, <1>4, <1>5, <1>6 DEF Says, Shows, d

LEMMA SaysSize ==
    ASSUME NEW r, NEW o, NEW t, Says(o, t, r)
    PROVE  /\ Room(o, r) /\ o.s.size \in Nat /\ o.s.cap \in Nat /\ o.s.size <= o.s.cap
           /\ t \in Seq(Chars) /\ Len(t) = o.s.size /\ o.s.size <= Len(Strings!Block(o))
  BY BlockFacts DEF Says, Shows

LEMMA EnsureSays ==
    ASSUME NEW r, Rest(r), NEW o, NEW t, Says(o, t, r), NEW n \in Nat
    PROVE  LET w == Strings!ensure(o, n)
           IN  Says(w, t, r) /\ w.s.size = o.s.size /\ w.s.size + n <= w.s.cap
  <1>1. Room(o, r) /\ o.s.size <= o.s.cap
    BY SaysSize
  <1> DEFINE w == Strings!ensure(o, n)
  <1>2. /\ Room(w, r) /\ Strings!Block(w) = Strings!Block(o)
        /\ w.s.size = o.s.size /\ o.s.size + n <= w.s.cap
    BY <1>1, EnsureRoom
  <1> HIDE DEF w
  <1>3. QED  BY <1>2 DEF Says, w

LEMMA ReserveSays ==
    ASSUME NEW r, Rest(r), NEW o, NEW t, Says(o, t, r), NEW n \in Nat
    PROVE  LET w == Strings!reserve(o, n)
           IN  Says(w, t, r) /\ w.s.size = o.s.size /\ n <= w.s.cap
  <1>1. Room(o, r)
    BY SaysSize
  <1> DEFINE w == Strings!reserve(o, n)
  <1>2. /\ Room(w, r) /\ Strings!Block(w) = Strings!Block(o)
        /\ w.s.size = o.s.size /\ n <= w.s.cap
    BY <1>1, ReserveRoom
  <1> HIDE DEF w
  <1>3. QED  BY <1>2 DEF Says, w

LEMMA AppendSays ==
    ASSUME NEW r, Rest(r), NEW o, NEW t, Says(o, t, r), NEW b, NEW c, Same(b, c)
    PROVE  Says(Strings!append(o, b), t \o c, r)
  <1>1. Len(b) \in Nat
    BY LenProperties DEF Same
  <1>2. QED  BY <1>1, EnsureSays, PutSays DEF Strings!append

(* A number or a double whose text is no longer than the room made for it. *)
LEMMA NumberSays ==
    ASSUME NEW r, Rest(r), NEW o, NEW t, Says(o, t, r), NEW n \in Nat,
           NEW d \in Seq(Chars), Len(d) <= n
    PROVE  Says(Strings!Put(Strings!ensure(o, n), d), t \o d, r)
  <1> DEFINE w == Strings!ensure(o, n)
  <1>1. Says(w, t, r) /\ w.s.size + n <= w.s.cap
    BY EnsureSays
  <1> HIDE DEF w
  <1>2. w.s.size + Len(d) <= w.s.cap
    BY <1>1, SaysSize, LenProperties
  <1>3. Same(d, d)
    BY DEF Same
  <1>4. QED  BY <1>1, <1>2, <1>3, PutSays DEF w

LEMMA AnysFacts ==
    ASSUME NEW n \in Int, NEW c \in Chars
    PROVE  LET s == [i \in 1..n |-> c]
           IN  /\ s \in Seq(Chars) /\ \A i \in 1..Len(s) : s[i] = c
               /\ Len(s) = IF n < 0 THEN 0 ELSE n
  <1> DEFINE s == [i \in 1..n |-> c]
  <1>1. PICK m \in Nat : 1..n = 1..m /\ m = IF n < 0 THEN 0 ELSE n
    <2>1. CASE n < 0
      <3>1. 1..n = 1..0
        BY <2>1
      <3>2. QED  BY <3>1, <2>1
    <2>2. CASE ~(n < 0)
      BY <2>2
    <2>3. QED  BY <2>1, <2>2
  <1>2. s \in [1..m -> Chars] /\ \A i \in 1..m : s[i] = c
    BY <1>1
  <1> HIDE DEF s
  <1>3. s \in Seq(Chars) /\ Len(s) = m
    BY <1>2, FunctionIsSeq
  <1>4. QED  BY <1>1, <1>2, <1>3 DEF s

(* The first bytes of what is kept, whatever the block. *)
LEMMA CutSays ==
    ASSUME NEW r, NEW o, NEW t, Says(o, t, r), NEW n \in Nat, n <= Len(t)
    PROVE  Says(Strings!Sized(o, n), SubSeq(t, 1, n), r)
  <1> DEFINE w == Strings!Sized(o, n)
             u == SubSeq(t, 1, n)
  <1>1. /\ Room(o, r) /\ t \in Seq(Chars) /\ Len(t) = o.s.size /\ o.s.size \in Nat
        /\ o.s.size <= Len(Strings!Block(o)) /\ Len(Strings!Block(o)) \in Nat
    BY SaysSize, BlockFacts
  <1>2. Room(w, r) /\ Strings!Block(w) = Strings!Block(o) /\ w.s.size = n
    <2>1. Room(o, r) /\ n <= Len(Strings!Block(o))
      BY <1>1
    <2>2. QED  BY <2>1, SizedRoom
  <1>3. u \in Seq(Chars) /\ Len(u) = n /\ \A i \in 1..n : u[i] = t[i]
    BY <1>1, SubSeqType
  <1> HIDE DEF w, u
  <1>4. \A i \in 1..n : u[i] \in {Strings!Any, Strings!Block(w)[i]}
    BY <1>1, <1>2, <1>3 DEF Says, Shows
  <1>5. QED  BY <1>1, <1>2, <1>3, <1>4 DEF Says, Shows, w, u

LEMMA EmptiedSays ==
    ASSUME NEW r, NEW o, NEW t, Says(o, t, r)
    PROVE  Says(Strings!Sized(o, 0), <<>>, r)
  <1>1. t \in Seq(Chars) /\ Len(t) \in Nat
    BY SaysSize, LenProperties
  <1>2. SubSeq(t, 1, 0) \in Seq(Chars) /\ Len(SubSeq(t, 1, 0)) = 0
    BY <1>1, SubSeqType
  <1>3. SubSeq(t, 1, 0) = <<>>
    BY <1>2, EmptySeq
  <1>4. Says(Strings!Sized(o, 0), SubSeq(t, 1, 0), r)
    <2>1. 0 <= Len(t)
      BY <1>1
    <2>2. QED  BY <2>1, CutSays
  <1>5. QED  BY <1>3, <1>4

(* Bytes from the start on, that are all there is. *)
LEMMA OverSays ==
    ASSUME NEW r, NEW o, Room(o, r), NEW b, NEW c, Same(b, c), Len(b) <= o.s.cap
    PROVE  Says(Strings!Sized(Strings!Write(o, 0, b), Len(b)), c, r)
  <1> DEFINE w == Strings!Write(o, 0, b)
             z == Strings!Sized(w, Len(b))
  <1>1. /\ Len(Strings!Block(o)) \in Nat /\ b \in Seq(Chars) /\ Len(b) \in Nat
        /\ c \in Seq(Chars) /\ Len(c) = Len(b)
    BY BlockFacts, LenProperties DEF Same
  <1>2. /\ Room(w, r) /\ Len(b) <= Len(Strings!Block(w))
        /\ \A i \in 1..Len(b) : Strings!Block(w)[0 + i] = b[i]
    BY <1>1, WriteRoom
  <1>3. Room(z, r) /\ Strings!Block(z) = Strings!Block(w) /\ z.s.size = Len(b)
    <2> HIDE DEF w
    <2>1. QED  BY <1>1, <1>2, SizedRoom
  <1> HIDE DEF w, z
  <1>4. \A i \in 1..Len(c) : c[i] \in {Strings!Any, Strings!Block(z)[i]}
    BY <1>1, <1>2, <1>3 DEF Same
  <1>5. QED  BY <1>1, <1>2, <1>3, <1>4 DEF Says, Shows, w, z

LEMMA AssignSays ==
    ASSUME NEW r, Rest(r), NEW o, NEW t, Says(o, t, r), NEW b, NEW c, Same(b, c)
    PROVE  Says(Strings!assign(o, b), c, r)
  <1>1. /\ Len(b) \in Nat /\ Len(c) = Len(b) /\ c \in Seq(Chars) /\ Room(o, r)
    BY LenProperties, SaysSize DEF Same
  <1>2. CASE b = <<>>
    <2>1. c = <<>>
      BY <1>1, <1>2, EmptySeq
    <2>2. QED  BY <2>1, <1>2, EmptiedSays DEF Strings!assign
  <1>3. CASE b # <<>>
    <2> DEFINE w == Strings!reserve(o, Len(b) + 1)
    <2>0. Len(b) + 1 \in Nat
      BY <1>1
    <2>1. Room(w, r) /\ Len(b) + 1 <= w.s.cap
      BY <1>1, <2>0, ReserveRoom
    <2>2. Strings!assign(o, b) = Strings!Sized(Strings!Write(w, 0, b), Len(b))
      BY <1>3 DEF Strings!assign
    <2> HIDE DEF w
    <2>3. Len(b) <= w.s.cap
      BY <2>1, <1>1, BlockFacts
    <2>4. QED  BY <2>1, <2>2, <2>3, OverSays
  <1>4. QED  BY <1>2, <1>3

LEMMA AppendSelfSays ==
    ASSUME NEW r, Rest(r), NEW o, NEW t, Says(o, t, r)
    PROVE  Says(Strings!append_self(o), t \o t, r)
  <1> DEFINE n == o.s.size
             b == SubSeq(Strings!Block(o), 1, n)
             w == Strings!reserve(o, 2 * n)
  <1>1. /\ Room(o, r) /\ t \in Seq(Chars) /\ Len(t) = n /\ n \in Nat
        /\ n <= Len(Strings!Block(o)) /\ Strings!Block(o) \in Seq(Chars)
    BY SaysSize, BlockFacts
  <1>2. b \in Seq(Chars) /\ Len(b) = n /\ \A i \in 1..n : b[i] = Strings!Block(o)[i]
    <2> HIDE DEF n
    <2>1. QED  BY <1>1, SubSeqType
  <1>3. Same(b, t)
    <2> HIDE DEF b
    <2>1. QED  BY <1>1, <1>2 DEF Same, Says, Shows
  <1>4. Says(w, t, r) /\ w.s.size = n /\ 2 * n <= w.s.cap
    <2>1. 2 * n \in Nat
      BY <1>1
    <2>2. QED  BY <2>1, ReserveSays
  <1>5. Strings!append_self(o) = Strings!Put(w, b)
    BY DEF Strings!append_self, Strings!First
  <1> HIDE DEF b, w, n
  <1>6. w.s.size + Len(b) <= w.s.cap
    BY <1>1, <1>2, <1>4
  <1>7. QED  BY <1>3, <1>4, <1>5, <1>6, PutSays

LEMMA ResizeSays ==
    ASSUME NEW r, Rest(r), NEW o, NEW t, Says(o, t, r), NEW n \in Nat
    PROVE  Says(Strings!resize(o, n),
                SubSeq(t, 1, IF n < Len(t) THEN n ELSE Len(t))
                    \o [i \in 1..(n - Len(t)) |-> Strings!Any], r)
  <1> DEFINE w == Strings!reserve(o, n)
             l == Len(t)
             e == [i \in 1..(n - l) |-> Strings!Any]
  <1>1. Says(w, t, r) /\ w.s.size = o.s.size /\ n <= w.s.cap
    BY ReserveSays
  <1>2. /\ Room(w, r) /\ t \in Seq(Chars) /\ l = o.s.size /\ l \in Nat /\ w.s.cap \in Nat
    BY <1>1, SaysSize
  <1>3. Strings!resize(o, n) = Strings!Sized(Strings!Write(w, w.s.size, e), n)
    BY <1>1, <1>2 DEF Strings!resize
  <1>4. /\ e \in Seq(Chars) /\ Len(e) = (IF n - l < 0 THEN 0 ELSE n - l)
    <2>1. n - l \in Int /\ Strings!Any \in Chars
      BY <1>2 DEF Chars
    <2> HIDE DEF l
    <2>2. QED  BY <2>1, AnysFacts
  <1> HIDE DEF w, e
  <1>5. CASE n <= l
    <2> DEFINE u == SubSeq(t, 1, n)
    <2>1. Len(e) = 0
      BY <1>2, <1>4, <1>5
    <2>2. e = <<>>
      BY <1>4, <2>1, EmptySeq
    <2>3. Strings!resize(o, n) = Strings!Sized(w, n)
      BY <1>3, <2>2 DEF Strings!Write
    <2>4. (IF n < Len(t) THEN n ELSE Len(t)) = n
      BY <1>2, <1>5
    <2>5. u \in Seq(Chars)
      BY <1>2, <1>5, SubSeqType
    <2>6. u \o e = u
      <3> HIDE DEF u
      <3>1. QED  BY <2>2, <2>5, ConcatEmptySeq
    <2>7. Says(Strings!Sized(w, n), u, r)
      BY <1>1, <1>5, CutSays
    <2> HIDE DEF u
    <2>8. QED  BY <2>3, <2>4, <2>6, <2>7 DEF u, e
  <1>6. CASE ~(n <= l)
    <2>1. Len(e) = n - l /\ w.s.size + Len(e) = n
      BY <1>1, <1>2, <1>4, <1>6
    <2>2. Strings!resize(o, n) = Strings!Put(w, e)
      BY <1>3, <2>1 DEF Strings!Put
    <2>3. Same(e, e)
      BY <1>4 DEF Same
    <2>4. Says(Strings!Put(w, e), t \o e, r)
      BY <1>1, <2>1, <2>3, PutSays
    <2>5. (IF n < Len(t) THEN n ELSE Len(t)) = Len(t)
      BY <1>2, <1>6
    <2>6. SubSeq(t, 1, Len(t)) = t
      <3>1. /\ SubSeq(t, 1, Len(t)) \in Seq(Chars) /\ Len(SubSeq(t, 1, Len(t))) = Len(t)
            /\ \A i \in 1..Len(t) : SubSeq(t, 1, Len(t))[i] = t[i]
        BY <1>2, SubSeqType
      <3> DEFINE u == SubSeq(t, 1, Len(t))
      <3> HIDE DEF u
      <3>2. u \in Seq(Chars) /\ Len(u) = Len(t) /\ \A i \in 1..Len(u) : u[i] = t[i]
        BY <3>1 DEF u
      <3>3. u = t
        BY <3>2, <1>2, SeqEqual
      <3>4. QED  BY <3>3 DEF u
    <2>7. QED  BY <2>2, <2>4, <2>5, <2>6 DEF e
  <1>7. QED  BY <1>5, <1>6

LEMMA CStrSays ==
    ASSUME NEW r, Rest(r), NEW o, NEW t, Says(o, t, r), Strings!NUL \in Chars
    PROVE  Says(Strings!c_str(o), t, r)
  <1> DEFINE n == o.s.size
             w == Strings!reserve(o, n + 1)
             b == <<Strings!NUL>>
             z == Strings!Write(w, n, b)
  <1>0. n \in Nat /\ Len(t) = n /\ t \in Seq(Chars)
    BY SaysSize
  <1>1. Says(w, t, r) /\ w.s.size = n /\ n + 1 <= w.s.cap
    <2> DEFINE l == n + 1
    <2>1. l \in Nat
      BY <1>0
    <2> HIDE DEF l
    <2>2. Says(Strings!reserve(o, l), t, r) /\ Strings!reserve(o, l).s.size = o.s.size
          /\ l <= Strings!reserve(o, l).s.cap
      BY <2>1, ReserveSays
    <2>3. QED  BY <2>2 DEF l
  <1>2. Strings!c_str(o) = z
    BY <1>1 DEF Strings!c_str
  <1>3. b \in Seq(Chars) /\ Len(b) = 1
    OBVIOUS
  <1>4. Room(w, r) /\ n <= Len(Strings!Block(w))
    BY <1>1, SaysSize
  <1> HIDE DEF w, b, n
  <1>5. /\ Room(z, r) /\ z.s = w.s /\ n + Len(b) <= Len(Strings!Block(z))
        /\ \A i \in 1..n : Strings!Block(z)[i] = Strings!Block(w)[i]
    <2>1. /\ Room(w, r) /\ n \in Nat /\ n <= Len(Strings!Block(w))
          /\ b \in Seq(Chars) /\ n + Len(b) <= w.s.cap
      BY <1>0, <1>1, <1>3, <1>4
    <2>2. QED  BY <2>1, WriteRoom
  <1>6. n <= Len(Strings!Block(z))
    BY <1>0, <1>3, <1>5, BlockFacts
  <1> HIDE DEF z
  <1>7. QED  BY <1>0, <1>1, <1>2, <1>5, <1>6 DEF Says, Shows

LEMMA LshiftSays ==
    ASSUME NEW r, NEW o, NEW t, Says(o, t, r), NEW n \in Nat
    PROVE  Says(Strings!lshift(o, n), SubSeq(t, n + 1, Len(t)), r)
  <1> DEFINE l == Len(t)
             k == Strings!Block(o)
             b == SubSeq(k, n + 1, l)
             u == SubSeq(t, n + 1, l)
  <1>1. /\ Room(o, r) /\ t \in Seq(Chars) /\ l = o.s.size /\ l \in Nat
        /\ l <= Len(k) /\ k \in Seq(Chars) /\ Len(k) \in Nat /\ Len(k) <= o.s.cap
        /\ o.s.cap \in Nat
    BY SaysSize, BlockFacts
  <1>2. CASE l <= n
    <2>1. u = <<>>
      BY <1>1, <1>2
    <2>2. Strings!lshift(o, n) = Strings!Sized(o, 0)
      BY <1>1, <1>2 DEF Strings!lshift
    <2>3. QED  BY <2>1, <2>2, EmptiedSays
  <1>3. CASE ~(l <= n)
    <2> DEFINE m == l - n
    <2>1. m \in Nat /\ n + m = l /\ n + m <= Len(k)
      BY <1>1, <1>3
    <2>2. b \in Seq(Chars) /\ Len(b) = m /\ \A i \in 1..m : b[i] = k[n + i]
      <3>1. b = SubSeq(k, n + 1, n + m)
        BY <2>1
      <3> HIDE DEF m, k, b, l
      <3>2. QED  BY <1>1, <2>1, <3>1, SliceFacts
    <2>3. u \in Seq(Chars) /\ Len(u) = m /\ \A i \in 1..m : u[i] = t[n + i]
      <3>1. u = SubSeq(t, n + 1, n + m) /\ n + m <= Len(t)
        BY <1>1, <2>1
      <3> HIDE DEF m, u
      <3>2. QED  BY <1>1, <2>1, <3>1, SliceFacts
    <2>4. Same(b, u)
      <3> HIDE DEF b, u, m, k
      <3>1. ASSUME NEW i \in 1..m PROVE u[i] \in {Strings!Any, b[i]}
        <4>1. n + i \in 1..l
          BY <2>1, <1>1
        <4>2. t[n + i] \in {Strings!Any, k[n + i]}
          BY <4>1 DEF Says, Shows, k
        <4>3. QED  BY <4>2, <2>2, <2>3
      <3>2. QED  BY <3>1, <2>2, <2>3 DEF Same
    <2>5. Strings!lshift(o, n) = Strings!Sized(Strings!Write(o, 0, b), Len(b))
      BY <1>1, <1>3, <2>2 DEF Strings!lshift
    <2>6. Len(b) <= o.s.cap
      BY <1>1, <2>1, <2>2
    <2> HIDE DEF b, u
    <2>7. QED  BY <1>1, <2>4, <2>5, <2>6, OverSays DEF u
  <1>4. QED  BY <1>2, <1>3

-----------------------------------------------------------------------------
(* What is stored. *)

(* A string s in the memory m with the text t. *)
Sits(s, m, t) ==
    /\ s \in StringRecord /\ t \in Seq(Chars) /\ s.size = Len(t)
    /\ s.p = 0 => s = Strings!NoString
    /\ s.p # 0 => /\ s.p \in DOMAIN m /\ m[s.p] \in BlockRecord /\ m[s.p].cap = s.cap
                  /\ Len(m[s.p].bytes) <= s.cap
    /\ Shows(Strings!Block(Strings!On(s, m)), t)

StringInv ==
    /\ DOMAIN text = DOMAIN str
    /\ IsFiniteSet(DOMAIN str_mem) /\ 0 \notin DOMAIN str_mem
    /\ \A x \in DOMAIN str : Sits(str[x], str_mem, text[x])
    /\ \A x, y \in DOMAIN str : str[x].p = str[y].p /\ str[x].p # 0 => x = y
    /\ \A q \in DOMAIN str_mem : \E x \in DOMAIN str : str[x].p = q

(* The memory of the strings but x. *)
Others(x) == IF x \in DOMAIN str THEN Strings!Without(str_mem, str[x].p) ELSE str_mem

LEMMA SitsElsewhere ==
    ASSUME NEW s, NEW m, NEW t, Sits(s, m, t), NEW w,
           s.p # 0 => s.p \in DOMAIN w /\ w[s.p] = m[s.p]
    PROVE  Sits(s, w, t)
  <1>1. Strings!Block(Strings!On(s, w)) = Strings!Block(Strings!On(s, m))
    BY DEF Strings!Block, Strings!On, Strings!Null
  <1>2. QED  BY <1>1 DEF Sits

LEMMA SaysSits ==
    ASSUME NEW o, NEW t, NEW r, Says(o, t, r)
    PROVE  Sits(o.s, o.m, t)
  <1>1. Strings!Block(Strings!On(o.s, o.m)) = Strings!Block(o)
    BY DEF Strings!Block, Strings!On
  <1>2. QED  BY <1>1 DEF Says, Room, Sits

LEMMA OthersFacts ==
    ASSUME StringInv, NEW x
    PROVE  /\ Rest(Others(x))
           /\ DOMAIN Others(x) = {q \in DOMAIN str_mem : x \in DOMAIN str => q # str[x].p}
           /\ \A q \in DOMAIN Others(x) : Others(x)[q] = str_mem[q]
  <1>1. IsFiniteSet(DOMAIN str_mem) /\ 0 \notin DOMAIN str_mem
    BY DEF StringInv
  <1>2. /\ DOMAIN Others(x) = {q \in DOMAIN str_mem : x \in DOMAIN str => q # str[x].p}
        /\ \A q \in DOMAIN Others(x) : Others(x)[q] = str_mem[q]
    BY DEF Others, Strings!Without
  <1>3. IsFiniteSet(DOMAIN Others(x))
    <2>1. DOMAIN Others(x) \subseteq DOMAIN str_mem
      BY <1>2
    <2>2. QED  BY <2>1, <1>1, FS_Subset
  <1>4. QED  BY <1>1, <1>2, <1>3 DEF Rest

LEMMA StringAt ==
    ASSUME StringInv, NEW x \in DOMAIN str
    PROVE  /\ Says(Strings!At(x), text[x], Others(x))
           /\ Strings!At(x).s = str[x] /\ Strings!At(x).m = str_mem
  <1> DEFINE o == Strings!At(x)
  <1>1. o = Strings!On(str[x], str_mem) /\ o.s = str[x] /\ o.m = str_mem
    BY DEF Strings!At, Strings!On
  <1> HIDE DEF o
  <1>2. Sits(str[x], str_mem, text[x]) /\ 0 \notin DOMAIN str_mem
    BY DEF StringInv
  <1>3. str[x].p \in Nat
    BY <1>2 DEF Sits, StringRecord
  <1> DEFINE r == Others(x)
  <1>4. Room(o, r)
    <2>1. /\ DOMAIN r = DOMAIN str_mem \ {str[x].p}
          /\ \A q \in DOMAIN r : r[q] = str_mem[q]
      BY OthersFacts
    <2>2. /\ str[x] \in StringRecord /\ (str[x].p = 0 => str[x] = Strings!NoString)
          /\ str[x].p # 0 => /\ str[x].p \in DOMAIN str_mem /\ str_mem[str[x].p] \in BlockRecord
                             /\ str_mem[str[x].p].cap = str[x].cap
                             /\ Len(str_mem[str[x].p].bytes) <= str[x].cap
      BY <1>2 DEF Sits
    <2> HIDE DEF r
    <2>3. DOMAIN str_mem = DOMAIN r \cup ({str[x].p} \ {0}) /\ str[x].p \notin DOMAIN r
      BY <1>2, <2>1, <2>2
    <2>4. QED  BY <1>1, <2>1, <2>2, <2>3 DEF Room
  <1>5. QED  BY <1>1, <1>2, <1>4 DEF Says, Sits, o

(* What Value gives are bytes of the text.                                  *)
LEMMA ValueFacts ==
    ASSUME StringInv, NEW x \in DOMAIN str
    PROVE  Same(Strings!Value(x), text[x]) /\ str[x].size = Len(text[x])
  <1> DEFINE o == Strings!At(x)
             n == Len(text[x])
             v == SubSeq(Strings!Block(o), 1, n)
  <1>1. /\ Says(o, text[x], Others(x)) /\ o.s = str[x]
    BY StringAt
  <1> HIDE DEF o
  <1>2. /\ Room(o, Others(x)) /\ text[x] \in Seq(Chars) /\ n = str[x].size /\ n \in Nat
        /\ n <= Len(Strings!Block(o))
    BY <1>1, SaysSize
  <1>3. Strings!Value(x) = v
    BY <1>2 DEF Strings!Value, Strings!First, o
  <1>4. Strings!Block(o) \in Seq(Chars)
    BY <1>2, BlockFacts
  <1>5. v \in Seq(Chars) /\ Len(v) = n /\ \A i \in 1..n : v[i] = Strings!Block(o)[i]
    <2> HIDE DEF n
    <2>1. QED  BY <1>2, <1>4, SubSeqType
  <1> HIDE DEF v
  <1>6. Same(v, text[x])
    BY <1>1, <1>2, <1>5 DEF Same, Says, Shows
  <1>7. QED  BY <1>2, <1>3, <1>6

(* What a call made of a string is stored. *)
LEMMA StringStore ==
    ASSUME StringInv, NEW x, NEW o, NEW t, Says(o, t, Others(x)), Strings!Store(x, o, t)
    PROVE  StringInv'
  <1> DEFINE r == Others(x)
  <1>1. /\ DOMAIN str' = DOMAIN str \cup {x} /\ str'[x] = o.s
        /\ \A y \in DOMAIN str : y # x => str'[y] = str[y]
        /\ DOMAIN text' = DOMAIN text \cup {x} /\ text'[x] = t
        /\ \A y \in DOMAIN text : y # x => text'[y] = text[y]
        /\ str_mem' = o.m
    BY DEF Strings!Store, Strings!With
  <1>2. /\ IsFiniteSet(DOMAIN r) /\ 0 \notin DOMAIN r
        /\ DOMAIN r = {q \in DOMAIN str_mem : x \in DOMAIN str => q # str[x].p}
        /\ \A q \in DOMAIN r : r[q] = str_mem[q]
    BY OthersFacts DEF Rest
  <1>3. /\ o.s.p \notin DOMAIN r /\ o.s.p \in Nat
        /\ DOMAIN o.m = DOMAIN r \cup ({o.s.p} \ {0})
        /\ \A q \in DOMAIN r : o.m[q] = r[q]
    BY DEF Says, Room, StringRecord
  <1>4. /\ DOMAIN text = DOMAIN str
        /\ \A y \in DOMAIN str : Sits(str[y], str_mem, text[y])
        /\ \A y, z \in DOMAIN str : str[y].p = str[z].p /\ str[y].p # 0 => y = z
        /\ \A q \in DOMAIN str_mem : \E y \in DOMAIN str : str[y].p = q
    BY DEF StringInv
  <1>5. \A y \in DOMAIN str : str[y].p # 0 => str[y].p \in DOMAIN str_mem
    BY <1>4 DEF Sits
  <1>6. \A y \in DOMAIN str : y # x /\ str[y].p # 0 => str[y].p \in DOMAIN r
    BY <1>2, <1>4, <1>5
  <1> HIDE DEF r
  <1>7. DOMAIN text' = DOMAIN str'
    BY <1>1, <1>4
  <1>8. IsFiniteSet(DOMAIN str_mem') /\ 0 \notin DOMAIN str_mem'
    <2>1. IsFiniteSet({o.s.p}) /\ {o.s.p} \ {0} \subseteq {o.s.p}
      BY FS_Singleton
    <2>2. IsFiniteSet({o.s.p} \ {0})
      BY <2>1, FS_Subset
    <2>3. IsFiniteSet(DOMAIN r \cup ({o.s.p} \ {0}))
      BY <2>2, <1>2, FS_Union
    <2>4. QED  BY <2>3, <1>1, <1>2, <1>3
  <1>9. ASSUME NEW y \in DOMAIN str' PROVE Sits(str'[y], str_mem', text'[y])
    <2>1. CASE y = x
      BY <2>1, <1>1, SaysSits
    <2>2. CASE y # x
      <3>1. y \in DOMAIN str /\ str'[y] = str[y] /\ text'[y] = text[y]
        BY <2>2, <1>1, <1>4
      <3>2. str[y].p # 0 => str[y].p \in DOMAIN o.m /\ o.m[str[y].p] = str_mem[str[y].p]
        BY <3>1, <2>2, <1>2, <1>3, <1>6
      <3>3. Sits(str[y], str_mem, text[y])
        BY <3>1, <1>4
      <3>4. Sits(str[y], o.m, text[y])
        BY <3>2, <3>3, SitsElsewhere
      <3>5. QED  BY <3>1, <3>4, <1>1
    <2>3. QED  BY <2>1, <2>2
  <1>10. ASSUME NEW y \in DOMAIN str', NEW z \in DOMAIN str',
                str'[y].p = str'[z].p, str'[y].p # 0
         PROVE  y = z
    BY <1>1, <1>3, <1>4, <1>6, <1>10
  <1>11. ASSUME NEW q \in DOMAIN str_mem' PROVE \E y \in DOMAIN str' : str'[y].p = q
    <2>1. CASE q \in DOMAIN r
      <3>1. q \in DOMAIN str_mem /\ (x \in DOMAIN str => q # str[x].p)
        BY <2>1, <1>2
      <3>2. PICK y \in DOMAIN str : str[y].p = q
        BY <3>1, <1>4
      <3>3. y # x
        BY <3>1, <3>2
      <3>4. QED  BY <3>2, <3>3, <1>1
    <2>2. CASE q = o.s.p
      BY <2>2, <1>1
    <2>3. QED  BY <2>1, <2>2, <1>1, <1>3
  <1>12. QED  BY <1>7, <1>8, <1>9, <1>10, <1>11 DEF StringInv

(* Strings change their places, and blocks that no string has any more are  *)
(* given back.                                                              *)
LEMMA StringsMoved ==
    ASSUME StringInv, DOMAIN text' = DOMAIN str',
           DOMAIN str_mem' \subseteq DOMAIN str_mem,
           \A q \in DOMAIN str_mem' : str_mem'[q] = str_mem[q],
           \A z \in DOMAIN str' :
              \/ str'[z] = Strings!NoString /\ text'[z] = <<>>
              \/ \E y \in DOMAIN str :
                    /\ str'[z] = str[y] /\ text'[z] = text[y]
                    /\ str[y].p # 0 => str[y].p \in DOMAIN str_mem',
           \A y, z \in DOMAIN str' : str'[y].p = str'[z].p /\ str'[y].p # 0 => y = z,
           \A q \in DOMAIN str_mem' : \E y \in DOMAIN str' : str'[y].p = q
    PROVE  StringInv'
  <1>1. IsFiniteSet(DOMAIN str_mem') /\ 0 \notin DOMAIN str_mem'
    BY FS_Subset DEF StringInv
  <1>2. ASSUME NEW z \in DOMAIN str' PROVE Sits(str'[z], str_mem', text'[z])
    <2>1. CASE str'[z] = Strings!NoString /\ text'[z] = <<>>
      <3>1. Strings!NoString \in StringRecord /\ Strings!NoString.p = 0 /\ Strings!NoString.size = 0
        BY DEF Strings!NoString, Strings!Null, StringRecord
      <3>2. Shows(Strings!Block(Strings!On(Strings!NoString, str_mem')), <<>>)
        <4>1. Strings!Block(Strings!On(Strings!NoString, str_mem')) = <<>>
          BY <3>1 DEF Strings!Block, Strings!On, Strings!Null
        <4>2. QED  BY <4>1 DEF Shows
      <3>3. Sits(Strings!NoString, str_mem', <<>>)
        BY <3>1, <3>2 DEF Sits
      <3>4. QED  BY <2>1, <3>3
    <2>2. ASSUME NEW y \in DOMAIN str, str'[z] = str[y], text'[z] = text[y],
                 str[y].p # 0 => str[y].p \in DOMAIN str_mem'
          PROVE  Sits(str'[z], str_mem', text'[z])
      <3>1. Sits(str[y], str_mem, text[y])
        BY DEF StringInv
      <3>2. Sits(str[y], str_mem', text[y])
        BY <2>2, <3>1, SitsElsewhere
      <3>3. QED  BY <2>2, <3>2
    <2>3. QED  BY <2>1, <2>2
  <1>3. QED  BY <1>1, <1>2 DEF StringInv

LEMMA StringPlaces ==
    ASSUME StringInv
    PROVE  /\ DOMAIN text = DOMAIN str /\ 0 \notin DOMAIN str_mem
           /\ \A y \in DOMAIN str : str[y].p # 0 => str[y].p \in DOMAIN str_mem
           /\ \A y, z \in DOMAIN str : str[y].p = str[z].p /\ str[y].p # 0 => y = z
           /\ \A q \in DOMAIN str_mem : \E y \in DOMAIN str : str[y].p = q
           /\ Strings!NoString.p = 0
  BY DEF StringInv, Sits, Strings!NoString, Strings!Null

LEMMA StringDestroy == ASSUME StringInv, NEW x, Strings!Destroy(x) PROVE StringInv'
  <1>1. /\ DOMAIN str' = DOMAIN str \ {x} /\ \A y \in DOMAIN str' : str'[y] = str[y]
        /\ DOMAIN text' = DOMAIN text \ {x} /\ \A y \in DOMAIN text' : text'[y] = text[y]
        /\ DOMAIN str_mem' = DOMAIN str_mem \ {str[x].p}
        /\ \A q \in DOMAIN str_mem' : str_mem'[q] = str_mem[q]
        /\ x \in DOMAIN str
    BY DEF Strings!Destroy, Strings!Without, Strings!free, Strings!At, Strings!On, Strings!Live
  <1>2. \A y \in DOMAIN str' : str[y].p # 0 => str[y].p \in DOMAIN str_mem'
    BY <1>1, StringPlaces
  <1>3. \A q \in DOMAIN str_mem' : \E y \in DOMAIN str' : str'[y].p = q
    BY <1>1, StringPlaces
  <1>4. \A y, z \in DOMAIN str' : str'[y].p = str'[z].p /\ str'[y].p # 0 => y = z
    BY <1>1, StringPlaces
  <1>5. \A z \in DOMAIN str' : z \in DOMAIN str /\ str'[z] = str[z] /\ text'[z] = text[z]
    BY <1>1, StringPlaces
  <1>6. DOMAIN text' = DOMAIN str'
    BY <1>1, StringPlaces
  <1>7. QED  BY <1>1, <1>2, <1>3, <1>4, <1>5, <1>6, StringsMoved

LEMMA StringMove == ASSUME StringInv, NEW x, NEW y, Strings!Move(x, y) PROVE StringInv'
  <1>1. /\ x \notin DOMAIN str /\ y \in DOMAIN str
        /\ DOMAIN str' = DOMAIN str \cup {x}
        /\ str'[x] = str[y] /\ str'[y] = Strings!NoString
        /\ \A z \in DOMAIN str : z # y => str'[z] = str[z]
        /\ DOMAIN text' = DOMAIN text \cup {x, y}
        /\ text'[x] = text[y] /\ text'[y] = <<>>
        /\ \A z \in DOMAIN text : z # y /\ z # x => text'[z] = text[z]
        /\ str_mem' = str_mem
    BY DEF Strings!Move, Strings!With, Strings!Live, Strings!Emptied
  <1>2. ASSUME NEW z \in DOMAIN str', NEW w \in DOMAIN str',
               str'[z].p = str'[w].p, str'[z].p # 0
        PROVE  z = w
    BY <1>1, <1>2, StringPlaces
  <1>3. ASSUME NEW q \in DOMAIN str_mem' PROVE \E z \in DOMAIN str' : str'[z].p = q
    <2>1. PICK z \in DOMAIN str : str[z].p = q
      BY <1>1, StringPlaces
    <2>2. CASE z = y
      BY <2>1, <2>2, <1>1
    <2>3. CASE z # y
      BY <2>1, <2>3, <1>1
    <2>4. QED  BY <2>2, <2>3
  <1>4. ASSUME NEW z \in DOMAIN str'
        PROVE  \/ str'[z] = Strings!NoString /\ text'[z] = <<>>
               \/ \E w \in DOMAIN str :
                     /\ str'[z] = str[w] /\ text'[z] = text[w]
                     /\ str[w].p # 0 => str[w].p \in DOMAIN str_mem'
    BY <1>1, StringPlaces
  <1>5. DOMAIN text' = DOMAIN str'
    BY <1>1, StringPlaces
  <1>6. QED  BY <1>1, <1>2, <1>3, <1>4, <1>5, StringsMoved

LEMMA StringMoveAssign == ASSUME StringInv, NEW x, NEW y, Strings!MoveAssign(x, y) PROVE StringInv'
  <1>1. CASE x = y
    <2>1. UNCHANGED stringVars
      BY <1>1 DEF Strings!MoveAssign, Strings!vars, stringVars
    <2>2. QED  BY <2>1 DEF stringVars, StringInv
  <1>2. CASE x # y
    <2>1. /\ x \in DOMAIN str /\ y \in DOMAIN str
          /\ DOMAIN str' = DOMAIN str
          /\ str'[x] = str[y] /\ str'[y] = Strings!NoString
          /\ \A z \in DOMAIN str : z # y /\ z # x => str'[z] = str[z]
          /\ DOMAIN text' = DOMAIN text \cup {x, y}
          /\ text'[x] = text[y] /\ text'[y] = <<>>
          /\ \A z \in DOMAIN text : z # y /\ z # x => text'[z] = text[z]
          /\ DOMAIN str_mem' = DOMAIN str_mem \ {str[x].p}
          /\ \A q \in DOMAIN str_mem' : str_mem'[q] = str_mem[q]
      BY <1>2 DEF Strings!MoveAssign, Strings!With, Strings!Live, Strings!Emptied,
                  Strings!free, Strings!Without, Strings!At, Strings!On
    <2>2. ASSUME NEW z \in DOMAIN str', NEW w \in DOMAIN str',
                 str'[z].p = str'[w].p, str'[z].p # 0
          PROVE  z = w
      BY <2>1, <2>2, StringPlaces
    <2>3. ASSUME NEW q \in DOMAIN str_mem' PROVE \E z \in DOMAIN str' : str'[z].p = q
      <3>1. PICK z \in DOMAIN str : str[z].p = q
        BY <2>1, StringPlaces
      <3>2. z # x
        BY <3>1, <2>1
      <3>3. CASE z = y
        BY <3>1, <3>3, <2>1
      <3>4. CASE z # y
        BY <3>1, <3>2, <3>4, <2>1
      <3>5. QED  BY <3>3, <3>4
    <2>4. ASSUME NEW z \in DOMAIN str'
          PROVE  \/ str'[z] = Strings!NoString /\ text'[z] = <<>>
                 \/ \E w \in DOMAIN str :
                       /\ str'[z] = str[w] /\ text'[z] = text[w]
                       /\ str[w].p # 0 => str[w].p \in DOMAIN str_mem'
      <3>0. \A w \in DOMAIN str : w # x /\ str[w].p # 0 => str[w].p \in DOMAIN str_mem'
        BY <2>1, StringPlaces
      <3>1. CASE z = x
        BY <3>0, <3>1, <2>1, <1>2
      <3>2. CASE z = y
        BY <3>2, <2>1
      <3>3. CASE z # x /\ z # y
        BY <3>0, <3>3, <2>1, StringPlaces
      <3>4. QED  BY <3>1, <3>2, <3>3
    <2>5. DOMAIN text' = DOMAIN str'
      BY <2>1, StringPlaces
    <2>6. DOMAIN str_mem' \subseteq DOMAIN str_mem
      BY <2>1
    <2>7. QED  BY <2>1, <2>2, <2>3, <2>4, <2>5, <2>6, StringsMoved
  <1>3. QED  BY <1>1, <1>2

LEMMA StringSwap == ASSUME StringInv, NEW x, NEW y, Strings!swap(x, y) PROVE StringInv'
  <1>1. /\ x \in DOMAIN str /\ y \in DOMAIN str
        /\ DOMAIN str' = DOMAIN str
        /\ str'[x] = str[y] /\ str'[y] = str[x]
        /\ \A z \in DOMAIN str : z # y /\ z # x => str'[z] = str[z]
        /\ DOMAIN text' = DOMAIN text \cup {x, y}
        /\ text'[x] = text[y] /\ text'[y] = text[x]
        /\ \A z \in DOMAIN text : z # y /\ z # x => text'[z] = text[z]
        /\ str_mem' = str_mem
    BY DEF Strings!swap, Strings!With, Strings!Live
  <1>2. ASSUME NEW z \in DOMAIN str', NEW w \in DOMAIN str',
               str'[z].p = str'[w].p, str'[z].p # 0
        PROVE  z = w
    BY <1>1, <1>2, StringPlaces
  <1>3. ASSUME NEW q \in DOMAIN str_mem' PROVE \E z \in DOMAIN str' : str'[z].p = q
    <2>1. PICK z \in DOMAIN str : str[z].p = q
      BY <1>1, StringPlaces
    <2>2. QED  BY <2>1, <1>1
  <1>4. ASSUME NEW z \in DOMAIN str'
        PROVE  \E w \in DOMAIN str :
                     /\ str'[z] = str[w] /\ text'[z] = text[w]
                     /\ str[w].p # 0 => str[w].p \in DOMAIN str_mem'
    BY <1>1, StringPlaces
  <1>5. DOMAIN text' = DOMAIN str'
    BY <1>1, StringPlaces
  <1>6. QED  BY <1>1, <1>2, <1>3, <1>4, <1>5, StringsMoved

-----------------------------------------------------------------------------
(* One lemma per kind of call. *)

LEMMA TextFacts ==
    /\ Strings!NUL \in Chars /\ "0" \in Chars /\ "x" \in Chars /\ "a" \in Chars
    /\ Strings!Any \in Chars /\ Strings!Any \notin Strings!Bytes
    /\ StringCaps \subseteq Nat
    /\ \A t \in Texts : Same(t, t)
    /\ \A v \in Numbers : /\ v.size \in 1..8 /\ Same(v.digits, v.digits)
                          /\ v.digits \in Seq(Chars) /\ Len(v.digits) <= 3 * v.size
  <1>1. /\ {Strings!NUL, "a", "0", "x"} \subseteq Strings!Bytes /\ StringCaps \subseteq Nat
        /\ Texts \subseteq Seq(Strings!Bytes) /\ Strings!Any \notin Strings!Bytes
        /\ \A v \in Numbers : /\ v.size \in 1..8 /\ v.digits \in Seq(Strings!Bytes)
                              /\ Len(v.digits) <= 3 * v.size
    BY TextsAssumption DEF Strings!TextsAssumption
  <1>2. Strings!Bytes \subseteq Chars /\ Strings!Any \in Chars
    BY DEF Chars
  <1>3. ASSUME NEW t \in Seq(Strings!Bytes) PROVE t \in Seq(Chars) /\ Same(t, t)
    <2>1. t \in Seq(Chars)
      BY <1>2, SeqMonotone
    <2>2. QED  BY <2>1 DEF Same
  <1>4. QED  BY <1>1, <1>2, <1>3

(* Bytes say the text that they are. *)
LEMMA SelfSame == ASSUME NEW b \in Seq(Chars) PROVE Same(b, b)
  BY DEF Same

LEMMA MadeSays ==
    ASSUME NEW r, Rest(r), NEW b, NEW c, Same(b, c)
    PROVE  Says(Strings!made(r, b), c, r)
  <1>1. /\ b \in Seq(Chars) /\ c \in Seq(Chars) /\ Len(b) = Len(c) /\ Len(b) \in Nat
        /\ \A i \in 1..Len(c) : c[i] \in {Strings!Any, b[i]}
    BY LenProperties DEF Same
  <1>2. CASE b = <<>>
    <2>1. c = <<>>
      BY <1>1, <1>2, EmptySeq
    <2>2. QED  BY <2>1, <1>2, NoStringRoom DEF Strings!made
  <1>3. CASE b # <<>>
    <2> DEFINE o == Strings!alloc(r, Len(b) + 1, b)
    <2>1. Len(b) + 1 \in Nat /\ Len(b) <= Len(b) + 1
      BY <1>1
    <2>2. Room(o, r) /\ Strings!Block(o) = b /\ o.s.size = Len(b)
      BY <1>1, <2>1, AllocRoom
    <2>3. Strings!made(r, b) = o
      BY <1>3 DEF Strings!made
    <2> HIDE DEF o
    <2>4. QED  BY <1>1, <2>2, <2>3 DEF Says, Shows
  <1>4. QED  BY <1>2, <1>3

LEMMA AllocSays ==
    ASSUME NEW r, Rest(r), NEW n \in Nat, NEW b \in Seq(Chars), Len(b) <= n
    PROVE  Says(Strings!alloc(r, n, b), b, r)
  <1> DEFINE o == Strings!alloc(r, n, b)
  <1>1. Room(o, r) /\ Strings!Block(o) = b /\ o.s.size = Len(b)
    BY AllocRoom
  <1> HIDE DEF o
  <1>2. Len(b) \in Nat
    BY LenProperties
  <1>3. QED  BY <1>1, <1>2 DEF Says, Shows, o

LEMMA StringConstruct == ASSUME StringInv, NEW x, Strings!Construct(x) PROVE StringInv'
  <1>1. x \notin DOMAIN str /\ Others(x) = str_mem /\ Rest(str_mem)
    BY OthersFacts DEF Strings!Construct, Strings!Live, Others
  <1>2. <<>> \in Seq(Chars) /\ Len(<<>>) = 0
    OBVIOUS
  <1>3. CASE Strings!Store(x, Strings!On(Strings!NoString, str_mem), <<>>)
    BY <1>1, <1>3, NoStringRoom, StringStore
  <1>4. ASSUME NEW n \in StringCaps,
               Strings!Store(x, Strings!alloc(str_mem, n, <<>>), <<>>)
        PROVE  StringInv'
    <2>1. n \in Nat /\ Len(<<>>) <= n
      BY <1>2, TextFacts
    <2>2. Says(Strings!alloc(str_mem, n, <<>>), <<>>, str_mem)
      BY <1>1, <1>2, <2>1, AllocSays
    <2>3. QED  BY <1>1, <1>4, <2>2, StringStore
  <1>5. ASSUME NEW t \in Texts, Strings!Store(x, Strings!made(str_mem, t), t)
        PROVE  StringInv'
    BY <1>1, <1>5, TextFacts, MadeSays, StringStore
  <1>6. ASSUME NEW n \in StringCaps,
               Strings!Store(x, Strings!filled(str_mem, n, "a"), [i \in 1..n |-> "a"])
        PROVE  StringInv'
    <2> DEFINE b == [i \in 1..n |-> "a"]
    <2>1. n \in Nat /\ n + 1 \in Nat /\ n \in Int /\ "a" \in Chars
      BY TextFacts
    <2>2. b \in Seq(Chars) /\ Len(b) = n
      BY <2>1, AnysFacts
    <2>3. Strings!filled(str_mem, n, "a") = Strings!alloc(str_mem, n + 1, b)
      BY DEF Strings!filled
    <2> HIDE DEF b
    <2>4. Len(b) <= n + 1
      BY <2>1, <2>2
    <2>5. Says(Strings!alloc(str_mem, n + 1, b), b, str_mem)
      BY <1>1, <2>1, <2>2, <2>4, AllocSays
    <2>6. QED  BY <1>1, <1>6, <2>3, <2>5, StringStore DEF b
  <1>7. QED  BY <1>3, <1>4, <1>5, <1>6 DEF Strings!Construct

LEMMA StringCopy == ASSUME StringInv, NEW x, NEW y, Strings!Copy(x, y) PROVE StringInv'
  <1>1. /\ x \notin DOMAIN str /\ y \in DOMAIN str /\ Others(x) = str_mem /\ Rest(str_mem)
        /\ Strings!Store(x, Strings!made(str_mem, Strings!Value(y)), text[y])
    BY OthersFacts DEF Strings!Copy, Strings!Live, Others
  <1>2. Same(Strings!Value(y), text[y])
    BY <1>1, ValueFacts
  <1>3. QED  BY <1>1, <1>2, MadeSays, StringStore

LEMMA PartSame ==
    ASSUME NEW b, NEW c, Same(b, c), NEW k \in Nat, NEW n \in Nat, n <= Len(c)
    PROVE  Same(SubSeq(b, k + 1, n), SubSeq(c, k + 1, n))
  <1>1. /\ b \in Seq(Chars) /\ c \in Seq(Chars) /\ Len(b) = Len(c) /\ Len(c) \in Nat
        /\ \A i \in 1..Len(c) : c[i] \in {Strings!Any, b[i]}
    BY LenProperties DEF Same
  <1>2. CASE n <= k
    <2>1. SubSeq(b, k + 1, n) = <<>> /\ SubSeq(c, k + 1, n) = <<>>
      BY <1>2
    <2>2. QED  BY <2>1 DEF Same
  <1>3. CASE ~(n <= k)
    <2> DEFINE m == n - k
               u == SubSeq(b, k + 1, k + m)
               v == SubSeq(c, k + 1, k + m)
    <2>1. m \in Nat /\ k + m = n /\ k + m <= Len(b) /\ k + m <= Len(c)
      BY <1>1, <1>3
    <2> HIDE DEF m
    <2>2. u \in Seq(Chars) /\ Len(u) = m /\ \A i \in 1..m : u[i] = b[k + i]
      BY <1>1, <2>1, SliceFacts
    <2>3. v \in Seq(Chars) /\ Len(v) = m /\ \A i \in 1..m : v[i] = c[k + i]
      BY <1>1, <2>1, SliceFacts
    <2>4. \A i \in 1..m : k + i \in 1..Len(c)
      BY <1>1, <2>1
    <2>5. Same(u, v)
      <3> HIDE DEF u, v
      <3>1. QED  BY <1>1, <2>2, <2>3, <2>4 DEF Same
    <2>6. QED  BY <2>1, <2>5
  <1>4. QED  BY <1>2, <1>3

LEMMA StringSubstr ==
    ASSUME StringInv, NEW x, NEW y, NEW k \in Nat, NEW l \in Nat, Strings!substr(x, y, k, l)
    PROVE  StringInv'
  <1> DEFINE c == text[y]
             b == Strings!Value(y)
             n == IF k + l < Len(c) THEN k + l ELSE Len(c)
  <1>1. x \notin DOMAIN str /\ y \in DOMAIN str /\ Others(x) = str_mem /\ Rest(str_mem)
    BY OthersFacts DEF Strings!substr, Strings!Live, Others
  <1>2. Same(b, c)
    BY <1>1, ValueFacts
  <1>3. Len(b) = Len(c) /\ Len(c) \in Nat
    BY <1>2, LenProperties DEF Same
  <1>4. Strings!Store(x, Strings!made(str_mem, SubSeq(b, k + 1, n)), SubSeq(c, k + 1, n))
    BY <1>3 DEF Strings!substr
  <1>5. n \in Nat /\ n <= Len(c)
    BY <1>3
  <1> HIDE DEF n, b, c
  <1>6. Same(SubSeq(b, k + 1, n), SubSeq(c, k + 1, n))
    BY <1>2, <1>5, PartSame
  <1>7. QED  BY <1>1, <1>4, <1>6, MadeSays, StringStore

LEMMA StringConcat ==
    ASSUME StringInv, NEW x, NEW y, NEW t \in Texts, Strings!Concat(x, y, t)
    PROVE  StringInv'
  <1> DEFINE b == Strings!Value(y)
             c == text[y]
             n == Len(c) + Len(t) + 1
             o == Strings!alloc(str_mem, n, <<>>)
             w == Strings!append(o, b)
  <1>1. /\ x \notin DOMAIN str /\ y \in DOMAIN str /\ Others(x) = str_mem /\ Rest(str_mem)
        /\ Strings!Store(x, Strings!append(w, t), c \o t)
    BY OthersFacts DEF Strings!Concat, Strings!Live, Others
  <1>2. Same(b, c) /\ Same(t, t) /\ c \in Seq(Chars)
    BY <1>1, ValueFacts, TextFacts DEF Same
  <1>3. n \in Nat
    BY <1>2, LenProperties DEF Same
  <1>4. Says(o, <<>>, str_mem)
    <2>1. <<>> \in Seq(Chars) /\ Len(<<>>) <= n
      BY <1>3
    <2> HIDE DEF n
    <2>2. QED  BY <1>1, <1>3, <2>1, AllocSays
  <1> HIDE DEF o, b, c, w
  <1>5. Says(w, c, str_mem)
    <2>1. Says(w, <<>> \o c, str_mem)
      BY <1>1, <1>2, <1>4, AppendSays DEF w
    <2>2. QED  BY <2>1, <1>2, ConcatEmptySeq
  <1>6. Says(Strings!append(w, t), c \o t, str_mem)
    BY <1>1, <1>2, <1>5, AppendSays
  <1>7. QED  BY <1>1, <1>6, StringStore

(* A call on a string that is there.                                        *)
LEMMA LiveFacts ==
    ASSUME StringInv, NEW x \in DOMAIN str
    PROVE  /\ Rest(Others(x)) /\ Says(Strings!At(x), text[x], Others(x))
           /\ text[x] \in Seq(Chars) /\ Len(text[x]) \in Nat
           /\ Strings!At(x).s.size = Len(text[x])
           /\ Strings!free(Strings!At(x)) = Others(x)
  <1>1. Says(Strings!At(x), text[x], Others(x)) /\ Rest(Others(x))
    BY StringAt, OthersFacts
  <1>2. Strings!free(Strings!At(x)) = Others(x)
    BY StringAt DEF Strings!free, Others
  <1>3. QED  BY <1>1, <1>2, SaysSize, LenProperties

LEMMA StringAssign == ASSUME StringInv, NEW x, Strings!Assign(x) PROVE StringInv'
  <1>1. x \in DOMAIN str
    BY DEF Strings!Assign, Strings!Live
  <1>2. Rest(Others(x)) /\ Says(Strings!At(x), text[x], Others(x))
    BY <1>1, LiveFacts
  <1>3. ASSUME NEW t \in Texts, Strings!Store(x, Strings!assign(Strings!At(x), t), t)
        PROVE  StringInv'
    <2>1. Same(t, t)
      BY TextFacts
    <2>2. QED  BY <1>2, <1>3, <2>1, AssignSays, StringStore
  <1>4. ASSUME NEW y \in DOMAIN str,
               Strings!Store(x, Strings!assign(Strings!At(x), Strings!Value(y)), text[y])
        PROVE  StringInv'
    <2>1. Same(Strings!Value(y), text[y])
      BY ValueFacts
    <2>2. QED  BY <1>2, <1>4, <2>1, AssignSays, StringStore
  <1>5. QED  BY <1>3, <1>4 DEF Strings!Assign, Strings!Live

LEMMA StringAppend ==
    ASSUME StringInv, NEW x,
           Strings!AppendText(x) \/ Strings!AppendSelf(x) \/ Strings!AppendBinary(x)
    PROVE  StringInv'
  <1>1. x \in DOMAIN str
    BY DEF Strings!AppendText, Strings!AppendSelf, Strings!AppendBinary, Strings!Live
  <1>2. Rest(Others(x)) /\ Says(Strings!At(x), text[x], Others(x))
    BY <1>1, LiveFacts
  <1>3. ASSUME NEW b, Same(b, b), Strings!Store(x, Strings!append(Strings!At(x), b), text[x] \o b)
        PROVE  StringInv'
    BY <1>2, <1>3, AppendSays, StringStore
  <1>4. CASE Strings!AppendText(x)
    BY <1>3, <1>4, TextFacts DEF Strings!AppendText
  <1>5. CASE Strings!AppendSelf(x)
    BY <1>2, <1>5, AppendSelfSays, StringStore DEF Strings!AppendSelf
  <1>6. CASE Strings!AppendBinary(x)
    <2>1. PICK v \in Numbers :
             Strings!Store(x, Strings!append(Strings!At(x), [i \in 1..v.size |-> Strings!NUL]),
                           text[x] \o [i \in 1..v.size |-> Strings!NUL])
      BY <1>6 DEF Strings!AppendBinary
    <2> DEFINE b == [i \in 1..v.size |-> Strings!NUL]
    <2>2. v.size \in Int /\ Strings!NUL \in Chars
      BY TextFacts
    <2>3. b \in Seq(Chars)
      BY <2>2, AnysFacts
    <2> HIDE DEF b
    <2>4. Same(b, b)
      BY <2>3, SelfSame
    <2>5. QED  BY <2>1, <2>4, <1>3 DEF b
  <1>7. QED  BY <1>4, <1>5, <1>6

LEMMA StringCat == ASSUME StringInv, NEW x, Strings!cat(x) PROVE StringInv'
  <1>1. x \in DOMAIN str
    BY DEF Strings!cat, Strings!Live
  <1>2. Rest(Others(x)) /\ Says(Strings!At(x), text[x], Others(x))
    BY <1>1, LiveFacts
  <1>3. PICK t \in Texts, v \in Numbers :
           Strings!Store(x, Strings!put_number(Strings!append(Strings!At(x), t), v),
                         text[x] \o t \o v.digits)
    BY DEF Strings!cat
  <1> DEFINE w == Strings!append(Strings!At(x), t)
  <1>4. Says(w, text[x] \o t, Others(x))
    BY <1>2, TextFacts, AppendSays
  <1>5. 3 * v.size \in Nat /\ v.digits \in Seq(Chars) /\ Len(v.digits) <= 3 * v.size
    BY TextFacts
  <1> HIDE DEF w
  <1>6. Says(Strings!Put(Strings!ensure(w, 3 * v.size), v.digits),
             (text[x] \o t) \o v.digits, Others(x))
    BY <1>2, <1>4, <1>5, NumberSays
  <1>7. QED  BY <1>3, <1>6, StringStore DEF w, Strings!put_number

LEMMA StringOutput == ASSUME StringInv, NEW x, Strings!Output(x) PROVE StringInv'
  <1> DEFINE o == Strings!At(x)
             b == <<"0", "x", "0">>
  <1>1. x \in DOMAIN str
    BY DEF Strings!Output, Strings!Live
  <1>2. Rest(Others(x)) /\ Says(o, text[x], Others(x))
    BY <1>1, LiveFacts
  <1>3. ASSUME NEW v \in Numbers, NEW n \in Nat, Len(v.digits) <= n,
               Strings!Store(x, Strings!Put(Strings!ensure(o, n), v.digits), text[x] \o v.digits)
        PROVE  StringInv'
    <2>1. v.digits \in Seq(Chars)
      BY TextFacts
    <2> HIDE DEF o
    <2>2. QED  BY <1>2, <1>3, <2>1, NumberSays, StringStore
  <1>4. ASSUME NEW v \in Numbers
        PROVE  3 * v.size \in Nat /\ 24 \in Nat /\ Len(v.digits) <= 3 * v.size /\ Len(v.digits) <= 24
    <2>1. v.size \in 1..8 /\ Len(v.digits) <= 3 * v.size /\ v.digits \in Seq(Chars)
      BY TextFacts
    <2>2. Len(v.digits) \in Nat
      BY <2>1, LenProperties
    <2>3. QED  BY <2>1, <2>2
  <1>5. CASE Strings!Store(x, Strings!put_null(o), text[x] \o b)
    <2> DEFINE w == Strings!ensure(o, 4)
    <2>1. Says(w, text[x], Others(x))
      BY <1>2, EnsureSays
    <2>2. b \in Seq(Chars)
      BY TextFacts
    <2>3. Same(b, b)
      BY <2>2, SelfSame
    <2> HIDE DEF w, b
    <2>4. Says(Strings!append(w, b), text[x] \o b, Others(x))
      BY <1>2, <2>1, <2>3, AppendSays
    <2>5. QED  BY <1>5, <2>4, StringStore DEF Strings!put_null, w, b
  <1>6. \/ \E v \in Numbers :
              \/ Strings!Store(x, Strings!Put(Strings!ensure(o, 3 * v.size), v.digits), text[x] \o v.digits)
              \/ Strings!Store(x, Strings!Put(Strings!ensure(o, 24), v.digits), text[x] \o v.digits)
        \/ Strings!Store(x, Strings!put_null(o), text[x] \o b)
    BY DEF Strings!Output, Strings!put_number, Strings!put_double
  <1> HIDE DEF o, b
  <1>7. QED  BY <1>3, <1>4, <1>5, <1>6

LEMMA StringResize ==
    ASSUME StringInv, NEW x, NEW n \in Nat,
           Strings!Resize(x, n) \/ Strings!Reserve(x, n) \/ Strings!Lshift(x, n)
    PROVE  StringInv'
  <1> DEFINE o == Strings!At(x)
  <1>1. x \in DOMAIN str
    BY DEF Strings!Resize, Strings!Reserve, Strings!Lshift, Strings!Live
  <1>2. Rest(Others(x)) /\ Says(o, text[x], Others(x)) /\ Strings!NUL \in Chars
    BY <1>1, LiveFacts, TextFacts
  <1>3. CASE Strings!Resize(x, n)
    <2> DEFINE t == SubSeq(text[x], 1, IF n < Len(text[x]) THEN n ELSE Len(text[x]))
                       \o [i \in 1..(n - Len(text[x])) |-> Strings!Any]
    <2>1. Strings!Store(x, Strings!resize(o, n), t)
      BY <1>3 DEF Strings!Resize, Strings!First
    <2>2. Says(Strings!resize(o, n), t, Others(x))
      <3> HIDE DEF o
      <3>1. QED  BY <1>2, ResizeSays
    <2> HIDE DEF t, o
    <2>3. QED  BY <2>1, <2>2, StringStore
  <1>4. CASE Strings!Reserve(x, n)
    <2>1. PICK w : Strings!Store(x, w, text[x])
                   /\ w \in {Strings!reserve(o, n), Strings!ensure(o, n), Strings!c_str(o)}
      BY <1>4 DEF Strings!Reserve
    <2> HIDE DEF o
    <2>2. Says(w, text[x], Others(x))
      BY <1>2, <2>1, ReserveSays, EnsureSays, CStrSays
    <2>3. QED  BY <2>1, <2>2, StringStore
  <1>5. CASE Strings!Lshift(x, n)
    <2>1. Strings!Store(x, Strings!lshift(o, n), SubSeq(text[x], n + 1, Len(text[x])))
      BY <1>5 DEF Strings!Lshift
    <2> HIDE DEF o
    <2>2. Says(Strings!lshift(o, n), SubSeq(text[x], n + 1, Len(text[x])), Others(x))
      BY <1>2, LshiftSays
    <2>3. QED  BY <2>1, <2>2, StringStore
  <1>6. QED  BY <1>3, <1>4, <1>5

LEMMA StringReset == ASSUME StringInv, NEW x, Strings!Reset(x) PROVE StringInv'
  <1> DEFINE o == Strings!At(x)
  <1>1. x \in DOMAIN str
    BY DEF Strings!Reset, Strings!Live
  <1>2. Rest(Others(x)) /\ Says(o, text[x], Others(x)) /\ Strings!free(o) = Others(x)
    BY <1>1, LiveFacts
  <1>3. CASE Strings!Store(x, Strings!Sized(o, 0), <<>>)
    BY <1>2, <1>3, EmptiedSays, StringStore
  <1>4. CASE Strings!Store(x, Strings!On(Strings!NoString, Strings!free(o)), <<>>)
    <2>1. Says(Strings!On(Strings!NoString, Others(x)), <<>>, Others(x))
      BY <1>2, NoStringRoom
    <2>2. QED  BY <1>2, <1>4, <2>1, StringStore
  <1>5. QED  BY <1>3, <1>4 DEF Strings!Reset

LEMMA StringRemoveTail == ASSUME StringInv, NEW x, NEW t \in Texts, Strings!remove_tail(x, t)
                          PROVE  StringInv'
  <1> DEFINE o == Strings!At(x)
             c == text[x]
             n == Len(c) - Len(t)
             e == [i \in 1..(n - Len(c)) |-> Strings!Any]
  <1>1. x \in DOMAIN str /\ n >= 0 /\ Strings!Store(x, Strings!resize(o, n), SubSeq(c, 1, n))
    BY DEF Strings!remove_tail, Strings!Live, Strings!First
  <1>2. /\ Rest(Others(x)) /\ Says(o, c, Others(x)) /\ c \in Seq(Chars) /\ Len(c) \in Nat
        /\ Len(t) \in Nat
    BY <1>1, LiveFacts, TextFacts, LenProperties DEF Same
  <1>3. n \in Nat /\ n <= Len(c) /\ (IF n < Len(c) THEN n ELSE Len(c)) = n /\ n - Len(c) \in Int
    BY <1>1, <1>2
  <1> HIDE DEF n, o
  <1>4. Says(Strings!resize(o, n),
             SubSeq(c, 1, IF n < Len(c) THEN n ELSE Len(c)) \o e, Others(x))
    BY <1>2, <1>3, ResizeSays
  <1>5. e = <<>>
    <2>1. 1..(n - Len(c)) = {}
      BY <1>2, <1>3
    <2>2. QED  BY <2>1
  <1>6. SubSeq(c, 1, n) \in Seq(Chars)
    BY <1>2, <1>3, SubSeqType
  <1> HIDE DEF e, c
  <1>7. SubSeq(c, 1, n) \o e = SubSeq(c, 1, n)
    BY <1>5, <1>6, ConcatEmptySeq
  <1>8. Says(Strings!resize(o, n), SubSeq(c, 1, n), Others(x))
    BY <1>3, <1>4, <1>7
  <1>9. QED  BY <1>1, <1>8, StringStore

LEMMA StringShrink == ASSUME StringInv, NEW x, Strings!shrink(x) PROVE StringInv'
  <1>1. /\ x \in DOMAIN str
        /\ Strings!Store(x, Strings!made(Strings!free(Strings!At(x)), Strings!Value(x)), text[x])
    BY DEF Strings!shrink, Strings!Live
  <1>2. Rest(Others(x)) /\ Strings!free(Strings!At(x)) = Others(x) /\ Same(Strings!Value(x), text[x])
    BY <1>1, LiveFacts, ValueFacts
  <1>3. Says(Strings!made(Others(x), Strings!Value(x)), text[x], Others(x))
    BY <1>2, MadeSays
  <1>4. QED  BY <1>1, <1>2, <1>3, StringStore

LEMMA StringInit == Strings!Init => StringInv
  <1> SUFFICES ASSUME Strings!Init PROVE StringInv
    OBVIOUS
  <1>1. DOMAIN str = {} /\ DOMAIN str_mem = {} /\ DOMAIN text = {}
    BY DEF Strings!Init, Strings!Nothing
  <1>2. QED  BY <1>1, FS_EmptySet DEF StringInv

LEMMA StringNext == ASSUME StringInv, Strings!Next PROVE StringInv'
  <1>1. PICK x \in StringVars :
           \/ Strings!Construct(x) \/ Strings!Destroy(x) \/ Strings!Assign(x)
           \/ Strings!AppendText(x) \/ Strings!AppendSelf(x) \/ Strings!AppendBinary(x)
           \/ Strings!cat(x) \/ Strings!Output(x) \/ Strings!Reset(x) \/ Strings!shrink(x)
           \/ \E n \in StringCaps : Strings!Resize(x, n) \/ Strings!Reserve(x, n) \/ Strings!Lshift(x, n)
           \/ \E t \in Texts : Strings!remove_tail(x, t)
           \/ \E y \in StringVars : \/ Strings!Copy(x, y) \/ Strings!Move(x, y)
                                    \/ Strings!MoveAssign(x, y) \/ Strings!swap(x, y)
           \/ \E y \in StringVars, n \in StringCaps : Strings!substr(x, y, n, 1)
           \/ \E y \in StringVars, t \in Texts : Strings!Concat(x, y, t)
    BY DEF Strings!Next
  <1>2. CASE Strings!Construct(x) \/ Strings!Destroy(x) \/ Strings!Assign(x) \/ Strings!cat(x)
    BY <1>2, StringConstruct, StringDestroy, StringAssign, StringCat
  <1>3. CASE Strings!AppendText(x) \/ Strings!AppendSelf(x) \/ Strings!AppendBinary(x)
    BY <1>3, StringAppend
  <1>4. CASE Strings!Output(x) \/ Strings!Reset(x) \/ Strings!shrink(x)
    BY <1>4, StringOutput, StringReset, StringShrink
  <1>5. ASSUME NEW n \in StringCaps,
               Strings!Resize(x, n) \/ Strings!Reserve(x, n) \/ Strings!Lshift(x, n)
        PROVE  StringInv'
    <2>1. n \in Nat
      BY TextFacts
    <2>2. QED  BY <1>5, <2>1, StringResize
  <1>6. ASSUME NEW t \in Texts, Strings!remove_tail(x, t) PROVE StringInv'
    BY <1>6, StringRemoveTail
  <1>7. ASSUME NEW y \in StringVars,
               Strings!Copy(x, y) \/ Strings!Move(x, y) \/ Strings!MoveAssign(x, y) \/ Strings!swap(x, y)
        PROVE  StringInv'
    BY <1>7, StringCopy, StringMove, StringMoveAssign, StringSwap
  <1>8. ASSUME NEW y \in StringVars, NEW n \in StringCaps, Strings!substr(x, y, n, 1)
        PROVE  StringInv'
    <2>1. n \in Nat /\ 1 \in Nat
      BY TextFacts
    <2>2. QED  BY <1>8, <2>1, StringSubstr
  <1>9. ASSUME NEW y \in StringVars, NEW t \in Texts, Strings!Concat(x, y, t) PROVE StringInv'
    BY <1>9, StringConcat
  <1>10. QED  BY <1>1, <1>2, <1>3, <1>4, <1>5, <1>6, <1>7, <1>8, <1>9

LEMMA StringStutter == ASSUME StringInv, UNCHANGED stringVars PROVE StringInv'
  BY DEF stringVars, StringInv

LEMMA BlocksKept == StringInv => Strings!BlocksInOrder
  <1> SUFFICES ASSUME StringInv PROVE Strings!BlocksInOrder
    OBVIOUS
  <1>1. ASSUME NEW x \in DOMAIN str, str[x].p = 0
        PROVE  str[x] = Strings!NoString /\ text[x] = <<>>
    <2>1. Sits(str[x], str_mem, text[x])
      BY DEF StringInv
    <2>2. str[x] = Strings!NoString /\ text[x] \in Seq(Chars) /\ Len(text[x]) = 0
      BY <2>1, <1>1 DEF Sits, Strings!NoString
    <2>3. QED  BY <2>2, EmptySeq
  <1>2. ASSUME NEW x \in DOMAIN str, str[x].p # 0
        PROVE  /\ str[x].p \in DOMAIN str_mem
               /\ str_mem[str[x].p].cap = str[x].cap
               /\ str[x].size = Len(text[x])
               /\ str[x].size <= Len(str_mem[str[x].p].bytes)
               /\ Len(str_mem[str[x].p].bytes) <= str[x].cap
               /\ \A i \in 1..str[x].size :
                     text[x][i] \in {Strings!Any, str_mem[str[x].p].bytes[i]}
    <2>1. Sits(str[x], str_mem, text[x])
      BY DEF StringInv
    <2>2. Strings!Block(Strings!On(str[x], str_mem)) = str_mem[str[x].p].bytes
      BY <1>2 DEF Strings!Block, Strings!On, Strings!Null
    <2>3. QED  BY <2>1, <2>2, <1>2 DEF Sits, Shows
  <1>3. \A x, y \in DOMAIN str : x # y /\ str[x].p = str[y].p => str[x].p = 0
    BY DEF StringInv
  <1>4. DOMAIN str_mem \subseteq {str[x].p : x \in DOMAIN str}
    BY DEF StringInv
  <1>5. QED  BY <1>1, <1>2, <1>3, <1>4 DEF Strings!BlocksInOrder, Strings!Live, Strings!Null

-----------------------------------------------------------------------------
(* The questions, asked of texts without NUL and without open bytes. *)

Plain == Strings!Bytes \ {Strings!NUL}

LEMMA LeastFacts ==
    ASSUME NEW S, S \subseteq Nat
    PROVE  /\ S # {} => /\ Strings!Least(S) \in S
                        /\ \A i \in S : Strings!Least(S) <= i
           /\ \A m \in S : (\A i \in S : m <= i) => Strings!Least(S) = m
  <1>1. S # {} => Strings!Least(S) \in S /\ \A i \in S : Strings!Least(S) <= i
    BY LeastOf DEF Strings!Least
  <1>2. ASSUME NEW m \in S, \A i \in S : m <= i PROVE Strings!Least(S) = m
    <2> DEFINE l == Strings!Least(S)
    <2>1. l \in S /\ l <= m /\ m <= l
      BY <1>1, <1>2
    <2> HIDE DEF l
    <2>2. l \in Nat /\ m \in Nat
      BY <2>1
    <2>3. QED  BY <2>1, <2>2 DEF l
  <1>3. QED  BY <1>1, <1>2

LEMMA GreatestFacts ==
    ASSUME NEW S, NEW n \in Nat, S \subseteq 0..n, S # {}
    PROVE  LET g == CHOOSE i \in S : \A j \in S : j <= i
           IN  g \in S /\ \A j \in S : j <= g
  <1> DEFINE D == {n - i : i \in S}
  <1>1. D \subseteq Nat /\ D # {}
    <2>1. \A i \in S : n - i \in Nat
      OBVIOUS
    <2>2. PICK i : i \in S
      OBVIOUS
    <2>3. n - i \in D
      BY <2>2
    <2>4. QED  BY <2>1, <2>3
  <1>2. PICK d \in D : \A e \in D : d <= e
    <2> HIDE DEF D
    <2>1. QED  BY <1>1, LeastOf
  <1>3. PICK i \in S : d = n - i
    OBVIOUS
  <1>4. ASSUME NEW j \in S PROVE j <= i
    <2>1. d <= n - j
      BY <1>2
    <2>2. i \in 0..n /\ j \in 0..n
      OBVIOUS
    <2>3. QED  BY <1>3, <2>1, <2>2
  <1>5. QED  BY <1>4

(* No NUL ends the text early. *)
LEMMA EndsFacts ==
    ASSUME NEW t \in Seq(Plain), NEW k \in 0..Len(t)
    PROVE  Strings!Ends(t, k) = Len(t)
  <1> DEFINE l == Len(t)
             S == {i \in k..l : i = l \/ t[i + 1] = Strings!NUL}
  <1>1. l \in Nat /\ k \in Nat /\ k <= l /\ \A i \in 1..l : t[i] \in Plain
    BY LenProperties, ElementOfSeq
  <1>2. ASSUME NEW i \in S PROVE i = l
    <2>1. CASE i # l
      <3>1. i + 1 \in 1..l
        BY <2>1, <1>1
      <3>2. t[i + 1] \in Plain
        BY <3>1, <1>1
      <3>3. QED  BY <3>2, <2>1 DEF Plain
    <2>2. QED  BY <2>1
  <1>3. S \subseteq Nat /\ l \in S /\ \A i \in S : l <= i
    BY <1>1, <1>2
  <1>4. Strings!Ends(t, k) = Strings!Least(S)
    BY DEF Strings!Ends
  <1> HIDE DEF S
  <1>5. QED  BY <1>3, <1>4, LeastFacts

LEMMA MemcmpFacts ==
    ASSUME NEW t \in Seq(Plain), NEW u \in Seq(Plain), NEW n \in Nat,
           n <= Len(t), n <= Len(u)
    PROVE  /\ Strings!memcmp(t, u, n) \in Int
           /\ Strings!memcmp(u, t, n) = -Strings!memcmp(t, u, n)
           /\ (\A i \in 1..n : t[i] = u[i]) => Strings!memcmp(t, u, n) = 0
           /\ n = 0 => Strings!memcmp(t, u, n) = 0
  <1> DEFINE S == {i \in 1..n : t[i] # u[i]}
             T == {i \in 1..n : u[i] # t[i]}
             k == Strings!Least(S)
  <1>1. S = T
    OBVIOUS
  <1>2. /\ Strings!memcmp(t, u, n) = IF S = {} THEN 0 ELSE Rank[t[k]] - Rank[u[k]]
        /\ Strings!memcmp(u, t, n) = IF S = {} THEN 0 ELSE Rank[u[k]] - Rank[t[k]]
    BY <1>1 DEF Strings!memcmp
  <1>3. ASSUME S # {} PROVE Rank[t[k]] \in Nat /\ Rank[u[k]] \in Nat
    <2>1. k \in S
      <3>1. S \subseteq Nat
        OBVIOUS
      <3> HIDE DEF S
      <3>2. QED  BY <1>3, <3>1, LeastFacts
    <2>2. k \in 1..Len(t) /\ k \in 1..Len(u)
      BY <2>1, LenProperties
    <2> HIDE DEF k
    <2>3. t[k] \in Plain /\ u[k] \in Plain
      BY <2>2, ElementOfSeq
    <2>4. \A b \in Strings!Bytes : Rank[b] \in Nat
      BY TextsAssumption DEF Strings!TextsAssumption, Strings!Bytes
    <2>5. QED  BY <2>3, <2>4 DEF Plain
  <1> HIDE DEF k
  <1>4. ((\A i \in 1..n : t[i] = u[i]) => S = {}) /\ (n = 0 => S = {})
    OBVIOUS
  <1> HIDE DEF S
  <1>5. QED  BY <1>2, <1>3, <1>4

(* Exactly one of less, equal and greater, and greater is less the other    *)
(* way round.                                                               *)
LEMMA OrderFacts ==
    ASSUME NEW t \in Seq(Plain), NEW u \in Seq(Plain)
    PROVE  /\ Strings!less(t, u) \/ Strings!equal(t, u) \/ Strings!greater(t, u)
           /\ ~(Strings!less(t, u) /\ Strings!equal(t, u))
           /\ ~(Strings!less(t, u) /\ Strings!greater(t, u))
           /\ ~(Strings!equal(t, u) /\ Strings!greater(t, u))
           /\ Strings!greater(t, u) <=> Strings!less(u, t)
           /\ Strings!starts_with(u, t) => ~Strings!greater(t, u)
  <1> DEFINE m == Strings!memcmp(t, u, Len(t))
             n == Strings!memcmp(t, u, Len(u))
  <1>1. Len(t) \in Nat /\ Len(u) \in Nat
    BY LenProperties
  <1>2. CASE Len(t) < Len(u)
    <2>1. m \in Int /\ Strings!memcmp(u, t, Len(t)) = -m
      BY <1>1, <1>2, MemcmpFacts
    <2>2. Len(t) = 0 => m = 0
      <3>1. Len(t) <= Len(t) /\ Len(t) <= Len(u)
        BY <1>1, <1>2
      <3>2. QED  BY <1>1, <3>1, MemcmpFacts
    <2>3. Strings!starts_with(u, t) => m = 0
      <3> SUFFICES ASSUME Strings!starts_with(u, t), Len(t) # 0 PROVE m = 0
        BY <2>2
      <3>1. SubSeq(u, 1, Len(t)) = t
        BY DEF Strings!starts_with, Strings!First
      <3>2. \A i \in 1..Len(t) : SubSeq(u, 1, Len(t))[i] = u[i]
        BY <1>1, <1>2, SubSeqType
      <3>3. \A i \in 1..Len(t) : t[i] = u[i]
        BY <3>1, <3>2
      <3>4. Len(t) <= Len(u) /\ Len(t) <= Len(t)
        BY <1>1, <1>2
      <3>5. QED  BY <1>1, <3>3, <3>4, MemcmpFacts
    <2>4. /\ Strings!less(t, u) <=> m <= 0
          /\ Strings!greater(t, u) <=> m > 0
          /\ ~Strings!equal(t, u)
          /\ Strings!less(u, t) <=> Strings!memcmp(u, t, Len(t)) < 0
      BY <1>1, <1>2, <2>1, <2>2 DEF Strings!less, Strings!greater, Strings!equal
    <2> HIDE DEF m
    <2>5. QED  BY <2>1, <2>3, <2>4
  <1>3. CASE Len(t) = Len(u)
    <2>1. m \in Int /\ Strings!memcmp(u, t, Len(t)) = -m
      BY <1>1, <1>3, MemcmpFacts
    <2>2. Strings!starts_with(u, t) => m = 0
      <3> SUFFICES ASSUME Strings!starts_with(u, t) PROVE m = 0
        OBVIOUS
      <3>1. CASE Len(t) = 0
        <4>1. \A i \in 1..Len(t) : t[i] = u[i]
          BY <3>1
        <4>2. QED  BY <4>1, <1>1, <1>3, MemcmpFacts
      <3>2. CASE Len(t) # 0
        <4>1. SubSeq(u, 1, Len(t)) = t
          BY <3>2 DEF Strings!starts_with, Strings!First
        <4>2. \A i \in 1..Len(t) : SubSeq(u, 1, Len(t))[i] = u[i]
          BY <1>1, <1>3, SubSeqType
        <4>3. \A i \in 1..Len(t) : t[i] = u[i]
          BY <4>1, <4>2
        <4>4. QED  BY <4>3, <1>1, <1>3, MemcmpFacts
      <3>3. QED  BY <3>1, <3>2
    <2>3. /\ Strings!less(t, u) <=> m < 0
          /\ Strings!greater(t, u) <=> m > 0
          /\ Strings!equal(t, u) <=> m = 0
          /\ Strings!less(u, t) <=> Strings!memcmp(u, t, Len(t)) < 0
      BY <1>1, <1>3 DEF Strings!less, Strings!greater, Strings!equal
    <2> HIDE DEF m
    <2>4. QED  BY <2>1, <2>2, <2>3
  <1>4. CASE Len(u) < Len(t)
    <2>1. n \in Int /\ Strings!memcmp(u, t, Len(u)) = -n
      BY <1>1, <1>4, MemcmpFacts
    <2>2. Len(u) = 0 => n = 0
      <3>1. Len(u) <= Len(t) /\ Len(u) <= Len(u)
        BY <1>1, <1>4
      <3>2. QED  BY <1>1, <3>1, MemcmpFacts
    <2>3. ~Strings!starts_with(u, t)
      BY <1>1, <1>4 DEF Strings!starts_with
    <2>4. /\ Strings!less(t, u) <=> n < 0
          /\ Strings!greater(t, u) <=> n >= 0
          /\ ~Strings!equal(t, u)
          /\ Strings!less(u, t) <=> Strings!memcmp(u, t, Len(u)) <= 0
      BY <1>1, <1>4, <2>1, <2>2 DEF Strings!less, Strings!greater, Strings!equal
    <2> HIDE DEF n
    <2>5. QED  BY <2>1, <2>3, <2>4
  <1>5. QED  BY <1>1, <1>2, <1>3, <1>4

LEMMA OneOrder ==
    ASSUME NEW t \in Seq(Plain), NEW u \in Seq(Plain)
    PROVE  Strings!Cardinality({k \in {"<", "=", ">"} :
              CASE k = "<" -> Strings!less(t, u) [] k = "=" -> Strings!equal(t, u)
                [] k = ">" -> Strings!greater(t, u)}) = 1
  <1> DEFINE K == {k \in {"<", "=", ">"} :
              CASE k = "<" -> Strings!less(t, u) [] k = "=" -> Strings!equal(t, u)
                [] k = ">" -> Strings!greater(t, u)}
  <1>1. /\ "<" \in K <=> Strings!less(t, u)
        /\ "=" \in K <=> Strings!equal(t, u)
        /\ ">" \in K <=> Strings!greater(t, u)
        /\ K \subseteq {"<", "=", ">"}
    OBVIOUS
  <1> HIDE DEF K
  <1>2. K = {"<"} \/ K = {"="} \/ K = {">"}
    <2>1. /\ Strings!less(t, u) \/ Strings!equal(t, u) \/ Strings!greater(t, u)
          /\ ~(Strings!less(t, u) /\ Strings!equal(t, u))
          /\ ~(Strings!less(t, u) /\ Strings!greater(t, u))
          /\ ~(Strings!equal(t, u) /\ Strings!greater(t, u))
      BY OrderFacts
    <2>2. \/ "<" \in K /\ "=" \notin K /\ ">" \notin K
          \/ "<" \notin K /\ "=" \in K /\ ">" \notin K
          \/ "<" \notin K /\ "=" \notin K /\ ">" \in K
      BY <1>1, <2>1, Zenon
    <2>3. QED  BY <1>1, <2>2
  <1>3. Cardinality(K) = 1
    BY <1>2, FS_Singleton
  <1>4. QED  BY <1>3, StringSets DEF K

LEMMA FindFacts ==
    ASSUME NEW t \in Seq(Plain), NEW i \in 1..Len(t)
    PROVE  LET c == t[i]
           IN  /\ Strings!find_char(t, c, 0) <= Strings!rfind_char(t, c)
               /\ Strings!find_char(t, c, 0) = Strings!find_first_of(t, <<c>>, 0)
               /\ Strings!find_first_not_of(t, <<c>>, 0) # 0 <=> i = 1 \/ t[1] = c
  <1> DEFINE c == t[i]
             l == Len(t)
             S == {k \in 0..(l - 1) : t[k + 1] = c}
             f == Strings!Least(S)
             g == CHOOSE k \in S : \A j \in S : j <= k
             A == {k \in 0..l : k = l \/ \E j \in DOMAIN <<c>> : <<c>>[j] = t[k + 1]}
             B == {k \in 0..l : k = l \/ \A j \in DOMAIN <<c>> : <<c>>[j] # t[k + 1]}
  <1>1. l \in Nat /\ 0 \in 0..l /\ l > 0 /\ i - 1 \in 0..(l - 1) /\ (i - 1) + 1 = i
    BY LenProperties
  <1>2. Strings!Ends(t, 0) = l
    BY <1>1, EndsFacts
  <1>3. i - 1 \in S /\ S \subseteq Nat /\ S \subseteq 0..l
    BY <1>1
  <1>4. Strings!find_char(t, c, 0) = f
    BY <1>3 DEF Strings!find_char
  <1>5. Strings!rfind_char(t, c) = g
    BY <1>2, <1>3 DEF Strings!rfind_char
  <1>6. f \in S /\ (\A k \in S : f <= k)
    <2> HIDE DEF S
    <2>1. QED  BY <1>3, LeastFacts
  <1>7. g \in S /\ (\A k \in S : k <= g)
    <2> HIDE DEF S, l
    <2>1. QED  BY <1>1, <1>3, GreatestFacts
  <1>8. f <= g
    BY <1>6, <1>7
  <1>9. A = S \cup {l}
    <2>1. DOMAIN <<c>> = {1} /\ <<c>>[1] = c
      OBVIOUS
    <2>2. A = {k \in 0..l : k = l \/ c = t[k + 1]}
      BY <2>1
    <2>3. QED  BY <2>2, <1>1
  <1>10. B = {k \in 0..l : k = l \/ c # t[k + 1]}
    <2>1. DOMAIN <<c>> = {1} /\ <<c>>[1] = c
      OBVIOUS
    <2>2. QED  BY <2>1
  <1> DEFINE e == Strings!Ends(t, 0)
             C == {k \in 0..e : k = e \/ \E j \in DOMAIN <<c>> : <<c>>[j] = t[k + 1]}
             D == {k \in 0..e : k = e \/ \A j \in DOMAIN <<c>> : <<c>>[j] # t[k + 1]}
  <1>11. Strings!find_first_of(t, <<c>>, 0)
           = IF Strings!Least(A) = l THEN Strings!npos ELSE Strings!Least(A)
    <2>1. Strings!find_first_of(t, <<c>>, 0)
            = IF l <= 0 THEN Strings!npos
              ELSE IF Strings!Least(C) = e THEN Strings!npos ELSE Strings!Least(C)
      BY DEF Strings!find_first_of, Strings!Span
    <2>2. A = C /\ e = l
      BY <1>2
    <2> HIDE DEF A, C, e
    <2>3. QED  BY <1>1, <2>1, <2>2
  <1>12. Strings!find_first_not_of(t, <<c>>, 0)
           = IF Strings!Least(B) = l THEN Strings!npos ELSE Strings!Least(B)
    <2>1. Strings!find_first_not_of(t, <<c>>, 0)
            = IF l <= 0 THEN Strings!npos
              ELSE IF Strings!Least(D) = e THEN Strings!npos ELSE Strings!Least(D)
      BY DEF Strings!find_first_not_of, Strings!Span
    <2>2. B = D /\ e = l
      BY <1>2
    <2> HIDE DEF B, D, e
    <2>3. QED  BY <1>1, <2>1, <2>2
  <1> HIDE DEF A, B, f, g
  <1>13. Strings!Least(A) = f /\ f # l
    <2>1. f \in 0..(l - 1)
      BY <1>6
    <2>2. A \subseteq Nat /\ f \in A /\ \A k \in A : f <= k
      BY <1>1, <1>6, <1>9, <2>1
    <2>3. f # l
      BY <2>1, <1>1
    <2>4. QED  BY <2>2, <2>3, LeastFacts
  <1>14. Strings!find_first_not_of(t, <<c>>, 0) # 0 <=> t[1] = c
    <2>1. B \subseteq Nat /\ l \in B /\ (0 \in B <=> t[1] # c)
      BY <1>1, <1>10
    <2> DEFINE b == Strings!Least(B)
    <2>2. b \in B /\ (\A k \in B : b <= k) /\ b \in Nat
      BY <2>1, LeastFacts
    <2> HIDE DEF b
    <2>3. b = 0 <=> t[1] # c
      <3>1. 0 \in B => b <= 0
        BY <2>2
      <3>2. b = 0 => 0 \in B
        BY <2>2
      <3>3. QED  BY <2>1, <2>2, <3>1, <3>2
    <2>4. QED  BY <2>3, <1>1, <1>12 DEF Strings!npos, b
  <1>15. QED  BY <1>4, <1>5, <1>8, <1>11, <1>13, <1>14

(* A text starts with another at a place where that can be read. *)
LEMMA StartsFacts ==
    ASSUME NEW t \in Seq(Plain), NEW u \in Seq(Plain), NEW i \in 0..Len(t)
    PROVE  Strings!starts_with(SubSeq(t, i + 1, Len(t)), u)
             <=> i + Len(u) <= Len(t) /\ SubSeq(t, i + 1, i + Len(u)) = u
  <1> DEFINE s == SubSeq(t, i + 1, Len(t))
             m == Len(u)
             l == Len(t)
             v == SubSeq(t, i + 1, i + m)
             w == SubSeq(s, 1, m)
  <1>1. l \in Nat /\ m \in Nat /\ i \in Nat /\ i <= l
    BY LenProperties
  <1>2. s \in Seq(Plain) /\ Len(s) = l - i /\ \A k \in 1..(l - i) : s[k] = t[i + k]
    <2>1. QED  BY <1>1, RestFacts
  <1>3. ASSUME i + m <= l PROVE v \in Seq(Plain) /\ v = w
    <2>1. v \in Seq(Plain) /\ Len(v) = m /\ \A k \in 1..m : v[k] = t[i + k]
      <3> HIDE DEF m
      <3>1. QED  BY <1>1, <1>3, SliceFacts
    <2>2. m <= Len(s)
      BY <1>1, <1>2, <1>3
    <2> HIDE DEF s
    <2>3. w \in Seq(Plain) /\ Len(w) = m /\ \A k \in 1..m : w[k] = s[k]
      <3> HIDE DEF m
      <3>1. QED  BY <1>1, <1>2, <2>2, SubSeqType
    <2>4. \A k \in 1..m : s[k] = t[i + k]
      BY <1>1, <1>2, <1>3
    <2> HIDE DEF v, w, m
    <2>5. v = w
      BY <2>1, <2>3, <2>4, SeqEqual
    <2>6. QED  BY <2>1, <2>5
  <1>4. Strings!starts_with(s, u) <=> m = 0 \/ (m <= l - i /\ w = u)
    BY <1>2 DEF Strings!starts_with, Strings!First
  <1>5. CASE m = 0
    <2>1. i + m <= l /\ u = <<>>
      BY <1>1, <1>5, EmptySeq
    <2>2. v = <<>>
      BY <1>1, <1>5
    <2>3. QED  BY <1>4, <1>5, <2>1, <2>2
  <1>6. CASE m # 0
    <2>1. i + m <= l <=> m <= l - i
      BY <1>1
    <2> HIDE DEF s, v, w
    <2>2. Strings!starts_with(s, u) <=> i + m <= l /\ v = u
      BY <1>3, <1>4, <1>6, <2>1
    <2>3. QED  BY <2>2 DEF s, v
  <1>7. QED  BY <1>5, <1>6

LEMMA SearchFacts ==
    ASSUME NEW t \in Seq(Plain), NEW u \in Seq(Plain), NEW k \in 0..Len(t)
    PROVE  LET r == Strings!find_str(t, u, k)
           IN  IF r = Strings!npos
               THEN \A i \in k..(Len(t) - 1) : ~Strings!starts_with(SubSeq(t, i + 1, Len(t)), u)
               ELSE /\ Strings!starts_with(SubSeq(t, r + 1, Len(t)), u)
                    /\ Strings!find_str(t, u, r) = r
  <1> DEFINE l == Len(t)
             At(i) == i + Len(u) <= l /\ SubSeq(t, i + 1, i + Len(u)) = u
             S(j) == {i \in j..(l - 1) : At(i)}
             r == Strings!find_str(t, u, k)
  <1>1. l \in Nat /\ k \in Nat
    BY LenProperties
  <1>2. ASSUME NEW j \in 0..l
        PROVE  Strings!find_str(t, u, j)
                 = IF S(j) = {} THEN Strings!npos ELSE Strings!Least(S(j))
    <2>1. Strings!Ends(t, j) = l
      BY <1>2, EndsFacts
    <2>2. QED  BY <2>1 DEF Strings!find_str
  <1>3. \A i \in 0..l : Strings!starts_with(SubSeq(t, i + 1, l), u) <=> At(i)
    BY StartsFacts
  <1>4. \A j \in 0..l : S(j) \subseteq Nat /\ \A i \in S(j) : i \in 0..l /\ i \in j..(l - 1) /\ At(i)
    BY <1>1
  <1>5. \A j \in 0..l : \A i \in j..(l - 1) : At(i) => i \in S(j)
    OBVIOUS
  <1> HIDE DEF S, At
  <1>6. CASE S(k) = {}
    <2>1. r = Strings!npos
      BY <1>2, <1>6
    <2>2. \A i \in k..(l - 1) : ~At(i)
      BY <1>5, <1>6
    <2>3. \A i \in k..(l - 1) : i \in 0..l
      BY <1>1
    <2>4. QED  BY <2>1, <2>2, <2>3, <1>3
  <1>7. CASE S(k) # {}
    <2>1. r = Strings!Least(S(k))
      BY <1>2, <1>7
    <2>2. r \in S(k)
      BY <1>4, <1>7, <2>1, LeastFacts
    <2>3. r \in 0..l /\ r \in k..(l - 1) /\ At(r) /\ r # Strings!npos
      BY <1>4, <2>2 DEF Strings!npos
    <2> HIDE DEF r
    <2>4. r \in S(r) /\ S(r) \subseteq Nat /\ \A i \in S(r) : r <= i
      BY <1>1, <1>4, <1>5, <2>3
    <2>5. Strings!Least(S(r)) = r
      BY <2>4, LeastFacts
    <2>6. Strings!find_str(t, u, r) = r
      BY <1>2, <2>3, <2>4, <2>5
    <2>7. QED  BY <1>3, <2>3, <2>6 DEF r
  <1>8. QED  BY <1>6, <1>7

LEMMA QuestionsAnswered == StringInv => Strings!QuestionsAgree
  <1> SUFFICES ASSUME StringInv, NEW x \in DOMAIN str, NEW y \in DOMAIN str,
                      {Strings!Any, Strings!NUL}
                        \cap ({text[x][i] : i \in DOMAIN text[x]}
                                \cup {text[y][i] : i \in DOMAIN text[y]}) = {}
               PROVE  LET t == text[x]  u == text[y]
                      IN  /\ Strings!Cardinality({k \in {"<", "=", ">"} :
                                CASE k = "<" -> Strings!less(t, u)
                                  [] k = "=" -> Strings!equal(t, u)
                                  [] k = ">" -> Strings!greater(t, u)}) = 1
                          /\ Strings!less_equal(t, u) = Strings!greater_equal(u, t)
                          /\ Strings!starts_with(u, t) => Strings!less_equal(t, u)
                          /\ \A pos \in 0..Len(t) :
                                LET r == Strings!find_str(t, u, pos)
                                IN  IF r = Strings!npos
                                    THEN \A i \in pos..(Len(t) - 1) :
                                            ~Strings!starts_with(SubSeq(t, i + 1, Len(t)), u)
                                    ELSE /\ Strings!starts_with(SubSeq(t, r + 1, Len(t)), u)
                                         /\ Strings!find_str(t, u, r) = r
                          /\ \A i \in DOMAIN t :
                                /\ Strings!find_char(t, t[i], 0) <= Strings!rfind_char(t, t[i])
                                /\ Strings!find_char(t, t[i], 0)
                                     = Strings!find_first_of(t, <<t[i]>>, 0)
                                /\ Strings!find_first_not_of(t, <<t[i]>>, 0) # 0
                                     <=> i = 1 \/ t[1] = t[i]
    BY DEF Strings!QuestionsAgree, Strings!Live
  <1> DEFINE t == text[x]
             u == text[y]
  <1>1. t \in Seq(Chars) /\ u \in Seq(Chars)
    BY DEF StringInv, Sits
  <1>2. /\ \A i \in DOMAIN t : t[i] # Strings!Any /\ t[i] # Strings!NUL
        /\ \A i \in DOMAIN u : u[i] # Strings!Any /\ u[i] # Strings!NUL
    OBVIOUS
  <1>3. ASSUME NEW s \in Seq(Chars), \A i \in DOMAIN s : s[i] # Strings!Any /\ s[i] # Strings!NUL
        PROVE  s \in Seq(Plain) /\ DOMAIN s = 1..Len(s)
    <2>1. DOMAIN s = 1..Len(s) /\ Len(s) \in Nat /\ s = [i \in 1..Len(s) |-> s[i]]
      BY LenProperties
    <2>2. \A i \in 1..Len(s) : s[i] \in Plain
      BY <2>1, <1>3, ElementOfSeq DEF Plain, Chars
    <2>3. s \in [1..Len(s) -> Plain]
      BY <2>1, <2>2
    <2>4. QED  BY <2>1, <2>3, FunctionIsSeq
  <1>4. t \in Seq(Plain) /\ u \in Seq(Plain) /\ DOMAIN t = 1..Len(t)
    BY <1>1, <1>2, <1>3
  <1> HIDE DEF t, u
  <1>5. Strings!less_equal(t, u) = Strings!greater_equal(u, t)
    <2>1. Strings!greater(t, u) <=> Strings!less(u, t)
      BY <1>4, OrderFacts
    <2>2. QED  BY <2>1 DEF Strings!less_equal, Strings!greater_equal
  <1>6. Strings!starts_with(u, t) => Strings!less_equal(t, u)
    BY <1>4, OrderFacts DEF Strings!less_equal
  <1>7. \A pos \in 0..Len(t) :
           LET r == Strings!find_str(t, u, pos)
           IN  IF r = Strings!npos
               THEN \A i \in pos..(Len(t) - 1) :
                       ~Strings!starts_with(SubSeq(t, i + 1, Len(t)), u)
               ELSE /\ Strings!starts_with(SubSeq(t, r + 1, Len(t)), u)
                    /\ Strings!find_str(t, u, r) = r
    BY <1>4, SearchFacts
  <1>8. \A i \in DOMAIN t :
           /\ Strings!find_char(t, t[i], 0) <= Strings!rfind_char(t, t[i])
           /\ Strings!find_char(t, t[i], 0) = Strings!find_first_of(t, <<t[i]>>, 0)
           /\ Strings!find_first_not_of(t, <<t[i]>>, 0) # 0 <=> i = 1 \/ t[1] = t[i]
    BY <1>4, FindFacts
  <1>9. Strings!Cardinality({k \in {"<", "=", ">"} :
           CASE k = "<" -> Strings!less(t, u) [] k = "=" -> Strings!equal(t, u)
             [] k = ">" -> Strings!greater(t, u)}) = 1
    BY <1>4, OneOrder
  <1>10. QED  BY <1>5, <1>6, <1>7, <1>8, <1>9 DEF t, u

(* Whatever is done with strings (fast.h, fastring.h), blocks have one      *)
(* owner and the size it believes, nothing is written outside them, every   *)
(* string has the text the calls asked for, and what is asked of two of     *)
(* them has answers that agree.                                             *)
THEOREM StringsCorrect == Strings!Spec => []StringsHoldTheirText
  <1>1. Strings!Init => StringInv
    BY StringInit
  <1>2. StringInv /\ [Strings!Next]_(Strings!vars) => StringInv'
    BY StringNext, StringStutter DEF Strings!vars, stringVars
  <1>3. StringInv => StringsHoldTheirText
    BY BlocksKept, QuestionsAnswered
       DEF StringsHoldTheirText, Strings!StringsHoldTheirText
  <1>4. QED  BY <1>1, <1>2, <1>3, PTL DEF Strings!Spec

-----------------------------------------------------------------------------
(* Json *)

Addresses(m) == DOMAIN m \cup {0}
Boxes == [type : {"array", "object"}, cap : Nat, items : Seq(Nat \cup Names)]

(* Place i of an array or object is that of a key. *)
KeyAt(type, i) == type = "object" /\ i % 2 = 1

(* A header of a scalar, or of an array or object whose members are there.  *)
HeaderOk(m, h) ==
    \/ h \in Scalars
    \/ /\ h \in Boxes /\ Len(h.items) <= h.cap
       /\ h.type = "object" => Len(h.items) % 2 = 0
       /\ \A i \in 1..Len(h.items) :
             IF KeyAt(h.type, i) THEN h.items[i] \in Names ELSE h.items[i] \in Addresses(m)

(* d says which headers are at and below each one.  Every header but a root *)
(* is a member of exactly one other, and no header is below itself.         *)
Forest(m, d) ==
    /\ IsFiniteSet(DOMAIN m) /\ DOMAIN m \subseteq Nat \ {0} /\ m = [g \in DOMAIN m |-> m[g]]
    /\ \A g \in DOMAIN m : HeaderOk(m, m[g])
    /\ \A g \in DOMAIN m : g \in d[g] /\ d[g] \subseteq DOMAIN m
    /\ \A g \in DOMAIN m : \A c \in d[g] : d[c] \subseteq d[g] /\ (g \in d[c] => c = g)
    /\ \A g \in DOMAIN m : \A c \in Jsons!Members(m, g) : c \in d[g] /\ c # g
    /\ \A g \in DOMAIN m : \A c \in d[g] :
          c # g => \E p \in d[g] : c \in Jsons!Members(m, p)
    /\ \A g \in DOMAIN m : \A i, j \in 1..Len(Jsons!ItemsOf(m, g)) :
          i # j /\ Jsons!ItemsOf(m, g)[i] = Jsons!ItemsOf(m, g)[j]
              => Jsons!ItemsOf(m, g)[i] \notin DOMAIN m
    /\ \A g, h \in DOMAIN m : g # h => Jsons!Members(m, g) \cap Jsons!Members(m, h) = {}

(* The value at g, if v has those of the members. *)
ValueAt(m, v, g) ==
    IF g = 0 THEN Jsons!NullValue
    ELSE IF "scalar" \in DOMAIN m[g] THEN m[g]
    ELSE [type |-> m[g].type, items |-> [i \in DOMAIN m[g].items |->
             IF m[g].type = "object" /\ i % 2 = 1 THEN m[g].items[i] ELSE v[m[g].items[i]]]]
Valued(m, v) == v = [g \in DOMAIN m \cup {0} |-> ValueAt(m, v, g)]

(* The headers of the value at h. *)
Grove(d, h) == IF h = 0 THEN {} ELSE d[h]

(* Variables js with their values tr, each with a tree of its own in m.     *)
Rooted(js, m, tr, d, v) ==
    /\ Forest(m, d) /\ Valued(m, v)
    /\ js \in [JsonVars -> Addresses(m)] /\ tr = [x \in JsonVars |-> v[js[x]]]
    /\ \A x, y \in JsonVars : x # y => Grove(d, js[x]) \cap Grove(d, js[y]) = {}
    /\ \A g \in DOMAIN m : \E x \in JsonVars : g \in Grove(d, js[x])
JsonOk(js, m, tr) == \E d, v : Rooted(js, m, tr, d, v)

JsonInv == JsonOk(json, heap, tree)

LEMMA JsonSets == \A S : /\ Jsons!IsFiniteSet(S) <=> IsFiniteSet(S)
                         /\ Jsons!Cardinality(S) = Cardinality(S)
  <1>1. \A S : Jsons!IsFiniteSet(S) <=> IsFiniteSet(S)
    BY DEF Jsons!IsFiniteSet, IsFiniteSet
  <1>2. \A S : Jsons!Cardinality(S) = Cardinality(S)
    BY DEF Jsons!Cardinality, Cardinality
  <1>3. QED  BY <1>1, <1>2

LEMMA JsonFresh ==
    ASSUME NEW m, IsFiniteSet(DOMAIN m)
    PROVE  Jsons!Fresh(m) \in Nat \ {0} /\ Jsons!Fresh(m) \notin DOMAIN m
  <1> DEFINE D == DOMAIN m
             n == Cardinality(D)
  <1>1. n \in Nat /\ Jsons!Cardinality(D) = n
    BY FS_CardinalityType, JsonSets
  <1>2. \E q \in 1..(n + 1) : q \notin D
    <2> HIDE DEF D, n
    <2>1. QED  BY <1>1, UnusedNumber DEF D, n
  <1>3. Jsons!Fresh(m) \in 1..(n + 1) /\ Jsons!Fresh(m) \notin D
    BY <1>1, <1>2 DEF Jsons!Fresh
  <1>4. QED  BY <1>1, <1>3

(* A step that is taken again and again. *)
Iteration(f, S, s, G, N) ==
    f \in [0..N -> S] /\ f[0] = s /\ \A n \in 1..N : f[n] = G[f[n - 1]]

LEMMA Iterates ==
    ASSUME NEW S, NEW s \in S, NEW G \in [S -> S], NEW N \in Nat
    PROVE  \E f : Iteration(f, S, s, G, N)
  <1> DEFINE Upto(k) == \E f \in [0..k -> S] : f[0] = s /\ \A n \in 1..k : f[n] = G[f[n - 1]]
             T == {k \in Nat : Upto(k)}
  <1>1. 0 \in T
    <2> DEFINE e == [n \in 0..0 |-> s]
    <2>1. e \in [0..0 -> S] /\ e[0] = s /\ \A n \in 1..0 : e[n] = G[e[n - 1]]
      OBVIOUS
    <2> HIDE DEF e
    <2>2. Upto(0)
      BY <2>1
    <2>3. QED  BY <2>2
  <1>2. ASSUME NEW k \in T, k \in Nat PROVE k + 1 \in T
    <2>1. PICK f \in [0..k -> S] : f[0] = s /\ \A n \in 1..k : f[n] = G[f[n - 1]]
      BY <1>2
    <2> DEFINE e == [n \in 0..(k + 1) |-> IF n = k + 1 THEN G[f[k]] ELSE f[n]]
    <2>2. e \in [0..(k + 1) -> S] /\ e[0] = s
      BY <2>1, <1>2
    <2>3. ASSUME NEW n \in 1..(k + 1) PROVE e[n] = G[e[n - 1]]
      <3>1. CASE n = k + 1
        BY <3>1, <1>2
      <3>2. CASE n # k + 1
        <4>1. n \in 1..k /\ n - 1 \in 0..k /\ n \in 0..(k + 1) /\ n - 1 # k + 1
          BY <3>2, <1>2
        <4>2. e[n] = f[n] /\ e[n - 1] = f[n - 1]
          BY <4>1, <3>2
        <4>3. QED  BY <4>1, <4>2, <2>1
      <3>3. QED  BY <3>1, <3>2
    <2> HIDE DEF e
    <2>4. Upto(k + 1)
      BY <2>2, <2>3
    <2>5. QED  BY <2>4, <1>2
  <1>3. N \in T
    <2> HIDE DEF T
    <2>1. QED  BY <1>1, <1>2, NatClosed
  <1>4. QED  BY <1>3 DEF Iteration

LEMMA HeaderFacts ==
    ASSUME NEW m, NEW h \in DOMAIN m, HeaderOk(m, m[h])
    PROVE  /\ "type" \in DOMAIN m[h]
           /\ m[h] \in Scalars => /\ "scalar" \in DOMAIN m[h] /\ "items" \notin DOMAIN m[h]
                                  /\ m[h].type \in {"bool", "int", "double", "string"}
                                  /\ Jsons!ItemsOf(m, h) = <<>>
           /\ m[h] \notin Scalars => /\ "scalar" \notin DOMAIN m[h] /\ "items" \in DOMAIN m[h]
                                     /\ m[h].type \in {"array", "object"}
                                     /\ Jsons!ItemsOf(m, h) = m[h].items
                                     /\ m[h] \in Boxes
           /\ Jsons!ItemsOf(m, h) \in Seq(Nat \cup Names) /\ Len(Jsons!ItemsOf(m, h)) \in Nat
           /\ DOMAIN Jsons!ItemsOf(m, h) = 1..Len(Jsons!ItemsOf(m, h))
           /\ Jsons!Members(m, h) = {c \in DOMAIN m : \E i \in 1..Len(Jsons!ItemsOf(m, h)) :
                                                         Jsons!ItemsOf(m, h)[i] = c}
  <1>1. CASE m[h] \in Scalars
    <2>1. DOMAIN m[h] = {"type", "scalar"} /\ m[h].type \in {"bool", "int", "double", "string"}
      BY <1>1, HeadersAssumption DEF Jsons!HeadersAssumption
    <2>2. Jsons!ItemsOf(m, h) = <<>>
      BY <2>1 DEF Jsons!ItemsOf
    <2>3. Jsons!Members(m, h) = {}
      BY <2>2 DEF Jsons!Members
    <2>4. QED  BY <1>1, <2>1, <2>2, <2>3
  <1>2. CASE m[h] \notin Scalars
    <2>1. m[h] \in Boxes
      BY <1>2 DEF HeaderOk
    <2>2. DOMAIN m[h] = {"type", "cap", "items"} /\ m[h].type \in {"array", "object"}
          /\ m[h].items \in Seq(Nat \cup Names)
      BY <2>1 DEF Boxes
    <2>3. Jsons!ItemsOf(m, h) = m[h].items
      BY <2>2 DEF Jsons!ItemsOf
    <2> DEFINE s == Jsons!ItemsOf(m, h)
    <2>4. s \in Seq(Nat \cup Names) /\ Len(s) \in Nat /\ DOMAIN s = 1..Len(s)
      BY <2>2, <2>3
    <2>5. Jsons!Members(m, h) = {c \in DOMAIN m : \E i \in 1..Len(s) : s[i] = c}
      BY <2>4 DEF Jsons!Members
    <2>6. QED  BY <1>2, <2>1, <2>2, <2>3, <2>4, <2>5
  <1>3. QED  BY <1>1, <1>2

(* A member has less below it than what it is a member of. *)
LEMMA SmallerBelow ==
    ASSUME NEW m, NEW d, Forest(m, d), NEW g \in DOMAIN m
    PROVE  /\ Cardinality(d[g]) \in Nat /\ Cardinality(d[g]) <= Cardinality(DOMAIN m)
           /\ \A c \in Jsons!Members(m, g) : Cardinality(d[c]) < Cardinality(d[g])
  <1>1. IsFiniteSet(DOMAIN m) /\ d[g] \subseteq DOMAIN m
    BY DEF Forest
  <1>2. IsFiniteSet(d[g]) /\ Cardinality(d[g]) \in Nat /\ Cardinality(d[g]) <= Cardinality(DOMAIN m)
    BY <1>1, FS_Subset, FS_CardinalityType
  <1>3. ASSUME NEW c \in Jsons!Members(m, g) PROVE Cardinality(d[c]) < Cardinality(d[g])
    <2>1. c \in d[g] /\ c # g
      BY <1>3 DEF Forest
    <2>2. d[c] \subseteq d[g] /\ g \notin d[c] /\ g \in d[g]
      BY <2>1 DEF Forest
    <2>3. IsFiniteSet(d[c]) /\ Cardinality(d[c]) <= Cardinality(d[g])
          /\ Cardinality(d[c]) # Cardinality(d[g]) /\ Cardinality(d[c]) \in Nat
      BY <2>2, <1>2, FS_Subset, FS_CardinalityType
    <2>4. QED  BY <2>3, <1>2
  <1>4. QED  BY <1>2, <1>3

LEMMA BelowFacts ==
    ASSUME NEW m, NEW d, Forest(m, d), NEW h \in Addresses(m)
    PROVE  Jsons!Below(m, h) = Grove(d, h)
  <1> DEFINE N == Cardinality(DOMAIN m)
             More(S) == S \cup UNION {Jsons!Members(m, g) : g \in S}
             Solves(f) == f = [n \in 0..N |-> IF n = 0 THEN {h} \ {0} ELSE More(f[n - 1])]
             below == CHOOSE f : Solves(f)
  <1>1. N \in Nat /\ 0 \notin DOMAIN m /\ Jsons!Cardinality(DOMAIN m) = N
    BY FS_CardinalityType, JsonSets DEF Forest
  <1>2. \E f : Solves(f)
    <2> DEFINE P == SUBSET DOMAIN m
               G == [S \in P |-> More(S)]
               s == {h} \ {0}
    <2>1. \A S \in P : More(S) \in P
      BY DEF Jsons!Members
    <2>2. G \in [P -> P] /\ \A S \in P : G[S] = More(S)
      BY <2>1
    <2>3. s \in P
      BY DEF Addresses
    <2> HIDE DEF G, P, s, More, N
    <2>4. PICK f : f \in [0..N -> P] /\ f[0] = s /\ \A n \in 1..N : f[n] = G[f[n - 1]]
      <3>1. \E f : Iteration(f, P, s, G, N)
        BY <1>1, <2>2, <2>3, Iterates
      <3>2. QED  BY <3>1 DEF Iteration
    <2>5. ASSUME NEW n \in 0..N
          PROVE  f[n] = IF n = 0 THEN {h} \ {0} ELSE More(f[n - 1])
      <3>1. CASE n = 0
        BY <3>1, <2>4 DEF s
      <3>2. CASE n # 0
        <4>1. n \in 1..N /\ n - 1 \in 0..N
          BY <3>2, <1>1
        <4>2. QED  BY <4>1, <3>2, <2>2, <2>4
      <3>3. QED  BY <3>1, <3>2
    <2>6. QED  BY <2>4, <2>5
  <1>3. Solves(below)
    BY <1>2
  <1> HIDE DEF below
  <1>4. below[0] = {h} \ {0} /\ \A n \in 1..N : below[n] = More(below[n - 1])
    <2> DEFINE F(n) == IF n = 0 THEN {h} \ {0} ELSE More(below[n - 1])
    <2>1. below = [n \in 0..N |-> F(n)]
      BY <1>3
    <2>2. F(0) = {h} \ {0} /\ \A n \in 1..N : F(n) = More(below[n - 1])
      OBVIOUS
    <2> HIDE DEF F, N
    <2>3. QED  BY <1>1, <2>1, <2>2
  <1>5. Jsons!Below(m, h) = below[N]
    BY <1>1 DEF Jsons!Below, Jsons!Null, below
  <1> HIDE DEF N, Solves
  <1>6. CASE h = 0
    <2> DEFINE T == {n \in Nat : n <= N => below[n] = {}}
    <2>1. 0 \in T
      BY <1>4, <1>6
    <2>2. ASSUME NEW n \in T, n \in Nat PROVE n + 1 \in T
      <3>1. CASE n + 1 <= N
        <4>1. below[n] = {} /\ below[n + 1] = More(below[n])
          BY <3>1, <2>2, <1>1, <1>4
        <4>2. QED  BY <4>1, <2>2
      <3>2. CASE ~(n + 1 <= N)
        BY <3>2, <2>2
      <3>3. QED  BY <3>1, <3>2
    <2>3. N \in T
      <3> HIDE DEF T
      <3>1. QED  BY <2>1, <2>2, <1>1, NatClosed
    <2>4. QED  BY <2>3, <1>5, <1>6, <1>1 DEF Grove
  <1>7. CASE h # 0
    <2>1. h \in DOMAIN m /\ h \in d[h] /\ d[h] \subseteq DOMAIN m
      BY <1>7 DEF Addresses, Forest
    <2> DEFINE size(c) == Cardinality(d[c])
               T == {n \in Nat : n <= N => /\ below[n] \subseteq d[h]
                                           /\ \A c \in d[h] : size(h) <= size(c) + n => c \in below[n]}
    <2>2. ASSUME NEW c \in d[h], c # h
          PROVE  \E p \in d[h] : c \in Jsons!Members(m, p) /\ size(c) < size(p) /\ size(p) \in Nat
      <3>1. PICK p \in d[h] : c \in Jsons!Members(m, p)
        BY <2>1, <2>2 DEF Forest
      <3>2. QED  BY <3>1, <2>1, SmallerBelow
    <2>3. \A c \in d[h] : size(c) \in Nat /\ size(c) <= N
      BY <2>1, SmallerBelow DEF N
    <2>4. \A p \in d[h] : Jsons!Members(m, p) \subseteq d[h]
      BY <2>1 DEF Forest
    <2>5. 0 \in T
      <3>1. below[0] = {h}
        BY <1>4, <1>7
      <3>2. ASSUME NEW c \in d[h], size(h) <= size(c) + 0 PROVE c = h
        <4>1. SUFFICES ASSUME c # h PROVE FALSE
          OBVIOUS
        <4>2. d[c] \subseteq d[h] /\ h \notin d[c] /\ IsFiniteSet(d[h])
          BY <4>1, <2>1, FS_Subset DEF Forest
        <4>3. size(c) <= size(h) /\ size(c) # size(h)
          BY <4>2, <2>1, FS_Subset
        <4>4. QED  BY <4>3, <3>2, <2>3, <2>1
      <3>3. QED  BY <3>1, <3>2, <2>1
    <2>6. ASSUME NEW n \in T, n \in Nat PROVE n + 1 \in T
      <3>1. CASE n + 1 <= N
        <4>1. /\ below[n] \subseteq d[h]
              /\ \A c \in d[h] : size(h) <= size(c) + n => c \in below[n]
          BY <3>1, <2>6, <1>1
        <4>2. below[n + 1] = More(below[n])
          BY <3>1, <2>6, <1>1, <1>4
        <4>3. below[n + 1] \subseteq d[h]
          BY <4>1, <4>2, <2>4
        <4>4. ASSUME NEW c \in d[h], size(h) <= size(c) + (n + 1) PROVE c \in below[n + 1]
          <5>1. CASE size(h) <= size(c) + n
            BY <5>1, <4>1, <4>2
          <5>2. CASE ~(size(h) <= size(c) + n)
            <6>1. c # h
              BY <5>2, <2>3, <2>1, <2>6
            <6>2. PICK p \in d[h] : c \in Jsons!Members(m, p) /\ size(c) < size(p) /\ size(p) \in Nat
              BY <6>1, <2>2
            <6> HIDE DEF size
            <6>3. size(h) <= size(p) + n
              BY <6>2, <4>4, <2>3, <2>1, <2>6
            <6>4. p \in below[n]
              BY <6>2, <6>3, <4>1
            <6>5. QED  BY <6>2, <6>4, <4>2
          <5>3. QED  BY <5>1, <5>2
        <4>5. QED  BY <4>3, <4>4, <2>6
      <3>2. CASE ~(n + 1 <= N)
        BY <3>2, <2>6
      <3>3. QED  BY <3>1, <3>2
    <2>7. N \in T
      <3> HIDE DEF T
      <3>1. QED  BY <2>5, <2>6, <1>1, NatClosed
    <2>8. /\ below[N] \subseteq d[h]
          /\ \A c \in d[h] : size(h) <= size(c) + N => c \in below[N]
      BY <2>7, <1>1
    <2>9. \A c \in d[h] : size(h) <= size(c) + N
      BY <2>3, <2>1, <1>1
    <2>10. below[N] = d[h]
      BY <2>8, <2>9
    <2>11. QED  BY <2>10, <1>5, <1>7 DEF Grove
  <1>8. QED  BY <1>6, <1>7

(* The member at a place that is not that of a key.                         *)
LEMMA MemberFacts ==
    ASSUME NEW m, NEW d, Forest(m, d), NEW g \in DOMAIN m, m[g] \notin Scalars,
           NEW i \in 1..Len(m[g].items), ~KeyAt(m[g].type, i)
    PROVE  \/ m[g].items[i] = 0
           \/ m[g].items[i] \in Jsons!Members(m, g) /\ m[g].items[i] \in DOMAIN m
  <1>1. HeaderOk(m, m[g])
    BY DEF Forest
  <1>2. m[g].items[i] \in Addresses(m)
    BY <1>1 DEF HeaderOk
  <1>3. QED  BY <1>1, <1>2, HeaderFacts DEF Addresses

LEMMA JsonValueFacts ==
    ASSUME NEW m, NEW d, NEW v, Forest(m, d), Valued(m, v), NEW h \in Addresses(m)
    PROVE  Jsons!Value(m, h) = v[h]
  <1> DEFINE u == CHOOSE e : Valued(m, e)
             T == {k \in Nat : \A g \in DOMAIN m : Cardinality(d[g]) <= k => u[g] = v[g]}
  <1>1. Valued(m, u)
    OBVIOUS
  <1>2. Jsons!Value(m, h) = u[h]
    BY DEF Jsons!Value, Jsons!Null, Valued, ValueAt, u
  <1> HIDE DEF u
  <1>3. /\ \A g \in Addresses(m) : u[g] = ValueAt(m, u, g) /\ v[g] = ValueAt(m, v, g)
        /\ u[0] = v[0]
    <2>1. \A g \in Addresses(m) : u[g] = ValueAt(m, u, g) /\ v[g] = ValueAt(m, v, g)
      BY <1>1 DEF Valued, Addresses
    <2>2. 0 \in Addresses(m) /\ ValueAt(m, u, 0) = ValueAt(m, v, 0)
      BY DEF Addresses, ValueAt
    <2>3. QED  BY <2>1, <2>2
  <1>4. \A g \in DOMAIN m : Cardinality(d[g]) \in Nat \ {0}
    <2> SUFFICES ASSUME NEW g \in DOMAIN m PROVE Cardinality(d[g]) \in Nat \ {0}
      OBVIOUS
    <2>1. IsFiniteSet(d[g]) /\ g \in d[g]
      BY FS_Subset DEF Forest
    <2>2. QED  BY <2>1, FS_CardinalityType, FS_EmptySet
  <1>5. 0 \in T
    BY <1>4
  <1>6. ASSUME NEW k \in T, k \in Nat PROVE k + 1 \in T
    <2> SUFFICES ASSUME NEW g \in DOMAIN m, Cardinality(d[g]) <= k + 1 PROVE u[g] = v[g]
      BY <1>6
    <2>0. g \in Addresses(m) /\ g # 0
      BY DEF Addresses, Forest
    <2>1. CASE m[g] \in Scalars
      <3>1. "scalar" \in DOMAIN m[g]
        BY <2>1, HeaderFacts DEF Forest
      <3>2. QED  BY <3>1, <2>0, <1>3 DEF ValueAt
    <2>2. CASE m[g] \notin Scalars
      <3>1. "scalar" \notin DOMAIN m[g] /\ DOMAIN m[g].items = 1..Len(m[g].items)
        BY <2>2, HeaderFacts DEF Forest
      <3>2. \A i \in 1..Len(m[g].items) : ~KeyAt(m[g].type, i) => u[m[g].items[i]] = v[m[g].items[i]]
        <4> SUFFICES ASSUME NEW i \in 1..Len(m[g].items), ~KeyAt(m[g].type, i)
                     PROVE  u[m[g].items[i]] = v[m[g].items[i]]
          OBVIOUS
        <4> DEFINE c == m[g].items[i]
        <4>1. c = 0 \/ (c \in Jsons!Members(m, g) /\ c \in DOMAIN m)
          BY <2>2, MemberFacts
        <4> HIDE DEF c
        <4>2. CASE c = 0
          BY <4>2, <1>3 DEF c
        <4>3. CASE c \in Jsons!Members(m, g) /\ c \in DOMAIN m
          <5>1. Cardinality(d[c]) < Cardinality(d[g]) /\ Cardinality(d[c]) \in Nat
                /\ Cardinality(d[g]) \in Nat
            BY <4>3, SmallerBelow
          <5>2. Cardinality(d[c]) <= k
            BY <5>1, <1>6
          <5>3. QED  BY <5>2, <4>3, <1>6 DEF c
        <4>4. QED  BY <4>1, <4>2, <4>3
      <3>3. ValueAt(m, u, g) = ValueAt(m, v, g)
        BY <3>1, <3>2, <2>0 DEF ValueAt, KeyAt
      <3>4. QED  BY <3>3, <2>0, <1>3
    <2>3. QED  BY <2>1, <2>2
  <1>7. h # 0 => u[h] = v[h]
    <2> SUFFICES ASSUME h # 0 PROVE u[h] = v[h]
      OBVIOUS
    <2>1. h \in DOMAIN m
      BY DEF Addresses
    <2>2. Cardinality(d[h]) \in T
      <3> HIDE DEF T
      <3>1. QED  BY <2>1, <1>4, <1>5, <1>6, NatClosed
    <2>3. QED  BY <2>1, <2>2, <1>4
  <1>8. QED  BY <1>2, <1>3, <1>7

(* What stands in an array or object. *)
LEMMA ItemFacts ==
    ASSUME NEW m, NEW d, Forest(m, d), NEW g \in DOMAIN m,
           NEW i \in 1..Len(Jsons!ItemsOf(m, g))
    PROVE  Jsons!ItemsOf(m, g)[i] \in Names \cup {0} \cup Jsons!Members(m, g)
  <1>1. HeaderOk(m, m[g])
    BY DEF Forest
  <1>2. m[g] \notin Scalars /\ Jsons!ItemsOf(m, g) = m[g].items
    BY <1>1, HeaderFacts
  <1>3. CASE KeyAt(m[g].type, i)
    BY <1>1, <1>2, <1>3 DEF HeaderOk
  <1>4. CASE ~KeyAt(m[g].type, i)
    BY <1>2, <1>4, MemberFacts
  <1>5. QED  BY <1>3, <1>4

(* A header stays in order, with its members and its value, in a memory     *)
(* that has it and them.                                                    *)
LEMMA HeaderKept ==
    ASSUME NEW m, NEW d, NEW v, Forest(m, d), NEW g \in DOMAIN m, NEW w, NEW u,
           g \in DOMAIN w, w[g] = m[g],
           Jsons!Members(m, g) \subseteq DOMAIN w,
           DOMAIN w \cap Names = {}, 0 \notin DOMAIN w,
           u[0] = v[0], \A c \in Jsons!Members(m, g) : u[c] = v[c]
    PROVE  /\ HeaderOk(w, w[g])
           /\ Jsons!ItemsOf(w, g) = Jsons!ItemsOf(m, g)
           /\ Jsons!Members(w, g) = Jsons!Members(m, g)
           /\ g # 0 => ValueAt(w, u, g) = ValueAt(m, v, g)
  <1>1. HeaderOk(m, m[g])
    BY DEF Forest
  <1>2. Jsons!ItemsOf(w, g) = Jsons!ItemsOf(m, g)
    BY DEF Jsons!ItemsOf
  <1>3. CASE m[g] \in Scalars
    <2>1. HeaderOk(w, w[g]) /\ Jsons!ItemsOf(m, g) = <<>>
      BY <1>1, <1>3, HeaderFacts DEF HeaderOk
    <2>2. Jsons!Members(w, g) = Jsons!Members(m, g)
      BY <1>2, <2>1 DEF Jsons!Members
    <2>3. g # 0 => ValueAt(w, u, g) = ValueAt(m, v, g)
      BY <1>1, <1>3, HeaderFacts DEF ValueAt
    <2>4. QED  BY <1>2, <2>1, <2>2, <2>3
  <1>4. CASE m[g] \notin Scalars
    <2> DEFINE s == m[g].items
    <2>1. /\ Jsons!ItemsOf(m, g) = s /\ "scalar" \notin DOMAIN m[g] /\ DOMAIN s = 1..Len(s)
          /\ m[g] \in Boxes
      BY <1>1, <1>4, HeaderFacts
    <2>2. \A i \in 1..Len(s) : ~KeyAt(m[g].type, i) =>
             s[i] = 0 \/ (s[i] \in Jsons!Members(m, g) /\ s[i] \in DOMAIN m)
      BY <1>4, MemberFacts
    <2>3. HeaderOk(w, w[g])
      <3>1. \A i \in 1..Len(s) : IF KeyAt(m[g].type, i) THEN s[i] \in Names ELSE s[i] \in Addresses(w)
        BY <1>1, <1>4, <2>2 DEF HeaderOk, Addresses
      <3>2. QED  BY <3>1, <1>1, <1>4, <2>1 DEF HeaderOk
    <2>4. Jsons!Members(w, g) = Jsons!Members(m, g)
      <3>1. \A i \in 1..Len(s) : s[i] \in Names \cup {0} \cup Jsons!Members(m, g)
        BY <2>1, ItemFacts
      <3>2. \A i \in 1..Len(s) : s[i] \in DOMAIN w => s[i] \in Jsons!Members(m, g)
        BY <3>1
      <3>3. Jsons!Members(w, g) = {s[i] : i \in 1..Len(s)} \cap DOMAIN w
        BY <1>2, <2>1 DEF Jsons!Members
      <3>4. Jsons!Members(m, g) \subseteq {s[i] : i \in 1..Len(s)}
        BY <2>1 DEF Jsons!Members
      <3>5. QED  BY <3>2, <3>3, <3>4
    <2>5. g # 0 => ValueAt(w, u, g) = ValueAt(m, v, g)
      <3>1. \A i \in 1..Len(s) : ~KeyAt(m[g].type, i) => u[s[i]] = v[s[i]]
        BY <2>2
      <3> DEFINE E(f, i) == IF KeyAt(m[g].type, i) THEN s[i] ELSE f[s[i]]
                 V(f) == [type |-> m[g].type, items |-> [i \in 1..Len(s) |-> E(f, i)]]
      <3>2. V(u) = V(v)
        <4>1. \A i \in 1..Len(s) : E(u, i) = E(v, i)
          BY <3>1
        <4> HIDE DEF E, s
        <4>2. QED  BY <4>1
      <3>3. g # 0 => ValueAt(w, u, g) = V(u) /\ ValueAt(m, v, g) = V(v)
        BY <2>1 DEF ValueAt, KeyAt
      <3>4. QED  BY <3>2, <3>3
    <2>6. QED  BY <1>2, <2>3, <2>4, <2>5
  <1>5. QED  BY <1>3, <1>4

(* No name and no null is an address in use. *)
LEMMA NoAddress ==
    ASSUME NEW m, DOMAIN m \subseteq Nat \ {0}
    PROVE  DOMAIN m \cap Names = {} /\ 0 \notin DOMAIN m
  BY HeadersAssumption DEF Jsons!HeadersAssumption

(* The value of a variable is below no other header. *)
LEMMA RootFacts ==
    ASSUME NEW js, NEW m, NEW tr, NEW d, NEW v, Rooted(js, m, tr, d, v), NEW x \in JsonVars
    PROVE  /\ \A g \in DOMAIN m :
                 g \notin Grove(d, js[x]) => d[g] \cap Grove(d, js[x]) = {}
           /\ Grove(d, js[x]) \subseteq DOMAIN m
           /\ js[x] # 0 =>
                 /\ js[x] \in DOMAIN m
                 /\ \A g \in DOMAIN m : js[x] \in d[g] => g = js[x]
                 /\ \A g \in DOMAIN m : js[x] \notin Jsons!Members(m, g)
                 /\ \A y \in JsonVars : js[y] = js[x] => y = x
  <1>1. Forest(m, d) /\ \A y \in JsonVars : js[y] \in Addresses(m)
    BY DEF Rooted
  <1>2. ASSUME NEW g \in DOMAIN m, g \notin Grove(d, js[x])
        PROVE  d[g] \cap Grove(d, js[x]) = {}
    <2>1. PICK y \in JsonVars : g \in Grove(d, js[y])
      BY DEF Rooted
    <2>2. js[y] # 0 /\ js[y] \in DOMAIN m /\ g \in d[js[y]]
      BY <2>1, <1>1 DEF Grove, Addresses
    <2>3. d[g] \subseteq Grove(d, js[y])
      BY <2>2, <1>1 DEF Forest, Grove
    <2>4. y # x
      BY <2>1, <1>2
    <2>5. Grove(d, js[x]) \cap Grove(d, js[y]) = {}
      BY <2>4 DEF Rooted
    <2>6. QED  BY <2>3, <2>5
  <1>3. Grove(d, js[x]) \subseteq DOMAIN m
    BY <1>1 DEF Forest, Grove, Addresses
  <1>4. ASSUME js[x] # 0
        PROVE  /\ js[x] \in DOMAIN m
               /\ \A g \in DOMAIN m : js[x] \in d[g] => g = js[x]
               /\ \A g \in DOMAIN m : js[x] \notin Jsons!Members(m, g)
               /\ \A y \in JsonVars : js[y] = js[x] => y = x
    <2>1. js[x] \in DOMAIN m /\ Grove(d, js[x]) = d[js[x]] /\ js[x] \in d[js[x]]
      BY <1>1, <1>4 DEF Addresses, Grove, Forest
    <2>2. ASSUME NEW g \in DOMAIN m, js[x] \in d[g] PROVE g = js[x]
      <3>1. g \in d[js[x]]
        BY <2>1, <2>2, <1>2
      <3>2. QED  BY <3>1, <2>1, <2>2, <1>1 DEF Forest
    <2>3. ASSUME NEW g \in DOMAIN m, js[x] \in Jsons!Members(m, g) PROVE FALSE
      BY <2>2, <2>3, <1>1 DEF Forest
    <2>4. ASSUME NEW y \in JsonVars, js[y] = js[x], y # x PROVE FALSE
      <3>1. Grove(d, js[x]) \cap Grove(d, js[y]) = {}
        BY <2>4 DEF Rooted
      <3>2. QED  BY <3>1, <2>1, <2>4
    <2>5. QED  BY <2>1, <2>2, <2>3, <2>4
  <1>5. QED  BY <1>2, <1>3, <1>4

(* A value is reset. *)
LEMMA ResetOk ==
    ASSUME NEW js, NEW m, NEW tr, JsonOk(js, m, tr), NEW x \in JsonVars
    PROVE  JsonOk([js EXCEPT ![x] = 0], Jsons!reset(m, js[x]), [tr EXCEPT ![x] = Jsons!NullValue])
  <1>1. PICK d, v : Rooted(js, m, tr, d, v)
    BY DEF JsonOk
  <1> DEFINE R == Grove(d, js[x])
             w == Jsons!reset(m, js[x])
             u == [g \in DOMAIN w \cup {0} |-> v[g]]
             js2 == [js EXCEPT ![x] = 0]
             tr2 == [tr EXCEPT ![x] = Jsons!NullValue]
  <1>2. /\ Forest(m, d) /\ Valued(m, v) /\ \A y \in JsonVars : js[y] \in Addresses(m)
        /\ js = [y \in JsonVars |-> js[y]] /\ tr = [y \in JsonVars |-> v[js[y]]]
        /\ v[0] = Jsons!NullValue
    BY <1>1 DEF Rooted, Valued, ValueAt
  <1>3. w = [g \in DOMAIN m \ R |-> m[g]]
    BY <1>2, BelowFacts DEF Jsons!reset
  <1> HIDE DEF w
  <1>4. /\ DOMAIN w = DOMAIN m \ R /\ DOMAIN w \subseteq DOMAIN m /\ DOMAIN w \subseteq Nat \ {0}
        /\ IsFiniteSet(DOMAIN w) /\ DOMAIN w \cap Names = {} /\ 0 \notin DOMAIN w
        /\ \A g \in DOMAIN w : w[g] = m[g]
    <2>1. DOMAIN w = DOMAIN m \ R /\ \A g \in DOMAIN w : w[g] = m[g]
      BY <1>3
    <2>2. DOMAIN w \subseteq DOMAIN m /\ DOMAIN m \subseteq Nat \ {0} /\ IsFiniteSet(DOMAIN m)
      BY <2>1, <1>2 DEF Forest
    <2> HIDE DEF R
    <2>3. IsFiniteSet(DOMAIN w)
      BY <2>2, FS_Subset
    <2>4. QED  BY <2>1, <2>2, <2>3, NoAddress
  <1>5. \A g \in DOMAIN w : d[g] \subseteq DOMAIN w
    <2>1. \A g \in DOMAIN w : d[g] \cap R = {}
      BY <1>1, <1>4, RootFacts
    <2> HIDE DEF R
    <2>2. QED  BY <2>1, <1>2, <1>4 DEF Forest
  <1>6. \A g \in DOMAIN w : Jsons!Members(m, g) \subseteq DOMAIN w
    BY <1>2, <1>4, <1>5 DEF Forest
  <1>7. ASSUME NEW g \in DOMAIN w
        PROVE  /\ HeaderOk(w, w[g])
               /\ Jsons!ItemsOf(w, g) = Jsons!ItemsOf(m, g)
               /\ Jsons!Members(w, g) = Jsons!Members(m, g)
               /\ ValueAt(w, u, g) = ValueAt(m, v, g)
    <2>1. u[0] = v[0] /\ \A c \in DOMAIN w : u[c] = v[c]
      OBVIOUS
    <2> HIDE DEF u
    <2>2. QED  BY <2>1, <1>2, <1>4, <1>6, HeaderKept
  <1>8. Forest(w, d)
    <2>1. w = [g \in DOMAIN w |-> w[g]]
      BY <1>3
    <2>2. \A g \in DOMAIN w : g \in d[g] /\ d[g] \subseteq DOMAIN w
      BY <1>2, <1>4, <1>5 DEF Forest
    <2>3. \A g \in DOMAIN w : \A c \in d[g] : d[c] \subseteq d[g] /\ (g \in d[c] => c = g)
      BY <1>2, <1>4 DEF Forest
    <2>4. \A g \in DOMAIN w : \A c \in Jsons!Members(w, g) : c \in d[g] /\ c # g
      BY <1>2, <1>4, <1>7 DEF Forest
    <2>5. \A g \in DOMAIN w : \A c \in d[g] :
             c # g => \E p \in d[g] : c \in Jsons!Members(w, p)
      <3>1. \A g \in DOMAIN w : \A c \in d[g] :
               c # g => \E p \in d[g] : c \in Jsons!Members(m, p)
        BY <1>2, <1>4 DEF Forest
      <3> HIDE DEF R, u
      <3>2. QED  BY <3>1, <1>5, <1>7
    <2>6. \A g \in DOMAIN w : \A i, j \in 1..Len(Jsons!ItemsOf(w, g)) :
             i # j /\ Jsons!ItemsOf(w, g)[i] = Jsons!ItemsOf(w, g)[j]
                 => Jsons!ItemsOf(w, g)[i] \notin DOMAIN w
      <3>1. \A g \in DOMAIN w : \A i, j \in 1..Len(Jsons!ItemsOf(m, g)) :
               i # j /\ Jsons!ItemsOf(m, g)[i] = Jsons!ItemsOf(m, g)[j]
                   => Jsons!ItemsOf(m, g)[i] \notin DOMAIN w
        BY <1>2, <1>4 DEF Forest
      <3> HIDE DEF R, u
      <3>2. QED  BY <3>1, <1>7
    <2>7. \A g, h \in DOMAIN w : g # h => Jsons!Members(w, g) \cap Jsons!Members(w, h) = {}
      <3>1. \A g, h \in DOMAIN w : g # h => Jsons!Members(m, g) \cap Jsons!Members(m, h) = {}
        BY <1>2, <1>4 DEF Forest
      <3> HIDE DEF R, u
      <3>2. QED  BY <3>1, <1>7
    <2>8. \A g \in DOMAIN w : HeaderOk(w, w[g])
      BY <1>7
    <2> HIDE DEF R, u
    <2>9. QED  BY <2>1, <2>2, <2>3, <2>4, <2>5, <2>6, <2>7, <2>8, <1>4 DEF Forest
  <1>9. Valued(w, u)
    <2>1. \A g \in DOMAIN w \cup {0} : v[g] = ValueAt(w, u, g)
      <3>1. \A g \in DOMAIN w : v[g] = ValueAt(m, v, g)
        BY <1>2, <1>4 DEF Valued
      <3> HIDE DEF u
      <3>2. v[0] = ValueAt(w, u, 0)
        BY <1>2 DEF ValueAt
      <3>3. QED  BY <3>1, <3>2, <1>7
    <2> DEFINE F(g) == ValueAt(w, u, g)
    <2> HIDE DEF F
    <2>2. \A g \in DOMAIN w \cup {0} : v[g] = F(g)
      BY <2>1 DEF F
    <2>3. u = [g \in DOMAIN w \cup {0} |-> F(g)]
      BY <2>2
    <2>4. QED  BY <2>3 DEF Valued, F
  <1>10. /\ js2 = [y \in JsonVars |-> IF y = x THEN 0 ELSE js[y]]
         /\ tr2 = [y \in JsonVars |-> IF y = x THEN Jsons!NullValue ELSE v[js[y]]]
    BY <1>2
  <1> HIDE DEF js2, tr2, u
  <1>11. /\ \A y \in JsonVars : js2[y] \in Addresses(w)
         /\ \A y \in JsonVars : tr2[y] = u[js2[y]]
         /\ \A y \in JsonVars : Grove(d, js2[y]) = IF y = x THEN {} ELSE Grove(d, js[y])
    <2> SUFFICES ASSUME NEW y \in JsonVars
                 PROVE  /\ js2[y] \in Addresses(w) /\ tr2[y] = u[js2[y]]
                        /\ Grove(d, js2[y]) = IF y = x THEN {} ELSE Grove(d, js[y])
      OBVIOUS
    <2>1. u[0] = Jsons!NullValue /\ \A g \in DOMAIN w : u[g] = v[g]
      BY <1>2 DEF u
    <2>2. CASE y = x
      BY <2>1, <2>2, <1>10 DEF Addresses, Grove
    <2>3. CASE y # x /\ js[y] = 0
      BY <2>1, <2>3, <1>2, <1>10 DEF Addresses, Grove
    <2>4. CASE y # x /\ js[y] # 0
      <3>1. js[y] \in DOMAIN m /\ js[y] \in Grove(d, js[y])
        BY <2>4, <1>2 DEF Addresses, Grove, Forest
      <3>2. Grove(d, js[y]) \cap R = {}
        BY <2>4, <1>1 DEF Rooted
      <3>3. js[y] \in DOMAIN w
        BY <3>1, <3>2, <1>4
      <3>4. QED  BY <3>3, <2>1, <2>4, <1>10 DEF Addresses
    <2>5. QED  BY <2>2, <2>3, <2>4
  <1>12. \A g \in DOMAIN w : \E y \in JsonVars : g \in Grove(d, js2[y])
    <2> SUFFICES ASSUME NEW g \in DOMAIN w PROVE \E y \in JsonVars : g \in Grove(d, js2[y])
      OBVIOUS
    <2>1. PICK y \in JsonVars : g \in Grove(d, js[y])
      BY <1>1, <1>4 DEF Rooted
    <2>2. y # x
      BY <2>1, <1>4
    <2>3. QED  BY <2>1, <2>2, <1>11
  <1>13. \A y, z \in JsonVars : y # z => Grove(d, js2[y]) \cap Grove(d, js2[z]) = {}
    BY <1>1, <1>11 DEF Rooted
  <1>14. js2 \in [JsonVars -> Addresses(w)] /\ tr2 = [y \in JsonVars |-> u[js2[y]]]
    BY <1>10, <1>11
  <1>15. Rooted(js2, w, tr2, d, u)
    BY <1>8, <1>9, <1>12, <1>13, <1>14 DEF Rooted
  <1>16. QED  BY <1>15 DEF JsonOk, js2, tr2, w


(* A new value, with nothing in it yet, for a variable that has none. *)
LEMMA AddOk ==
    ASSUME NEW js, NEW m, NEW tr, JsonOk(js, m, tr), NEW x \in JsonVars, js[x] = 0,
           NEW q \in Nat \ {0}, q \notin DOMAIN m, NEW h, NEW t,
           \/ h \in Scalars /\ t = h
           \/ \E type \in {"array", "object"} :
                 h = Jsons!Container(type) /\ t = [type |-> type, items |-> <<>>]
    PROVE  JsonOk([js EXCEPT ![x] = q], Jsons!With(m, q, h), [tr EXCEPT ![x] = t])
  <1>1. PICK d, v : Rooted(js, m, tr, d, v)
    BY DEF JsonOk
  <1> DEFINE w == Jsons!With(m, q, h)
             u == [g \in DOMAIN w \cup {0} |-> IF g = q THEN t ELSE v[g]]
             b == [g \in DOMAIN w |-> IF g = q THEN {q} ELSE d[g]]
             js2 == [js EXCEPT ![x] = q]
             tr2 == [tr EXCEPT ![x] = t]
  <1>2. /\ Forest(m, d) /\ Valued(m, v) /\ \A y \in JsonVars : js[y] \in Addresses(m)
        /\ js = [y \in JsonVars |-> js[y]] /\ tr = [y \in JsonVars |-> v[js[y]]]
        /\ v[0] = Jsons!NullValue
    BY <1>1 DEF Rooted, Valued, ValueAt
  <1>3. /\ w = [g \in DOMAIN w |-> w[g]] /\ DOMAIN w = DOMAIN m \cup {q} /\ w[q] = h
        /\ \A g \in DOMAIN m : w[g] = m[g]
    BY DEF Jsons!With
  <1> HIDE DEF w
  <1>4. /\ DOMAIN w \subseteq Nat \ {0} /\ IsFiniteSet(DOMAIN w)
        /\ DOMAIN w \cap Names = {} /\ 0 \notin DOMAIN w
    <2>1. DOMAIN w \subseteq Nat \ {0} /\ IsFiniteSet(DOMAIN w)
      BY <1>2, <1>3, FS_AddElement DEF Forest
    <2>2. QED  BY <2>1, NoAddress
  <1>5. /\ u[0] = v[0] /\ u[q] = t /\ \A g \in DOMAIN m : u[g] = v[g] /\ g # q
        /\ b[q] = {q} /\ \A g \in DOMAIN m : b[g] = d[g]
        /\ u = [g \in DOMAIN w \cup {0} |-> u[g]]
    BY <1>3, <1>4
  <1> HIDE DEF u, b
  <1>6. ASSUME NEW g \in DOMAIN m
        PROVE  /\ HeaderOk(w, w[g])
               /\ Jsons!ItemsOf(w, g) = Jsons!ItemsOf(m, g)
               /\ Jsons!Members(w, g) = Jsons!Members(m, g)
               /\ ValueAt(w, u, g) = ValueAt(m, v, g)
    <2>1. \A c \in Jsons!Members(m, g) : c \in DOMAIN m
      BY DEF Jsons!Members
    <2>2. QED  BY <2>1, <1>2, <1>3, <1>4, <1>5, HeaderKept
  <1>7. /\ HeaderOk(w, w[q]) /\ Jsons!ItemsOf(w, q) = <<>> /\ Jsons!Members(w, q) = {}
        /\ ValueAt(w, u, q) = t
    <2>1. CASE h \in Scalars /\ t = h
      <3>1. HeaderOk(w, w[q])
        BY <2>1, <1>3 DEF HeaderOk
      <3>2. Jsons!ItemsOf(w, q) = <<>> /\ "scalar" \in DOMAIN w[q]
        BY <3>1, <2>1, <1>3, HeaderFacts
      <3>3. Jsons!Members(w, q) = {}
        BY <3>2 DEF Jsons!Members
      <3>4. ValueAt(w, u, q) = t
        BY <3>2, <2>1, <1>3 DEF ValueAt
      <3>5. QED  BY <3>1, <3>2, <3>3, <3>4
    <2>2. ASSUME NEW type \in {"array", "object"},
                 h = Jsons!Container(type), t = [type |-> type, items |-> <<>>]
          PROVE  /\ HeaderOk(w, w[q]) /\ Jsons!ItemsOf(w, q) = <<>> /\ Jsons!Members(w, q) = {}
                 /\ ValueAt(w, u, q) = t
      <3>1. w[q] = [type |-> type, cap |-> 0, items |-> <<>>]
        BY <2>2, <1>3 DEF Jsons!Container
      <3>2. Jsons!ItemsOf(w, q) = <<>> /\ "scalar" \notin DOMAIN w[q] /\ w[q] \in Boxes
        BY <3>1 DEF Jsons!ItemsOf, Boxes
      <3>3. HeaderOk(w, w[q])
        BY <3>1, <3>2 DEF HeaderOk
      <3>4. Jsons!Members(w, q) = {}
        BY <3>2 DEF Jsons!Members
      <3>5. ValueAt(w, u, q) = t
        BY <3>1, <3>2, <2>2 DEF ValueAt
      <3>6. QED  BY <3>2, <3>3, <3>4, <3>5
    <2>3. QED  BY <2>1, <2>2
  <1>8. Forest(w, b)
    <2>1. \A g \in DOMAIN w : HeaderOk(w, w[g])
      BY <1>3, <1>6, <1>7
    <2>2. \A g \in DOMAIN w : g \in b[g] /\ b[g] \subseteq DOMAIN w
      BY <1>2, <1>3, <1>5 DEF Forest
    <2>3. \A g \in DOMAIN w : \A c \in b[g] : b[c] \subseteq b[g] /\ (g \in b[c] => c = g)
      <3>1. \A g \in DOMAIN m : \A c \in d[g] : c \in DOMAIN m /\ d[c] \subseteq d[g] /\ (g \in d[c] => c = g)
        BY <1>2 DEF Forest
      <3>2. QED  BY <3>1, <1>3, <1>5
    <2>4. \A g \in DOMAIN w : \A c \in Jsons!Members(w, g) : c \in b[g] /\ c # g
      <3>1. \A g \in DOMAIN m : \A c \in Jsons!Members(w, g) : c \in d[g] /\ c # g
        BY <1>2, <1>6 DEF Forest
      <3>2. QED  BY <3>1, <1>3, <1>5, <1>7
    <2>5. \A g \in DOMAIN w : \A c \in b[g] : c # g => \E p \in b[g] : c \in Jsons!Members(w, p)
      <3>1. \A g \in DOMAIN m : \A c \in d[g] :
               c # g => \E p \in d[g] : p \in DOMAIN m /\ c \in Jsons!Members(m, p)
        BY <1>2 DEF Forest
      <3>2. \A g \in DOMAIN m : \A c \in b[g] : c # g => \E p \in b[g] : c \in Jsons!Members(w, p)
        BY <3>1, <1>5, <1>6
      <3>3. QED  BY <3>2, <1>3, <1>5
    <2>6. \A g \in DOMAIN w : \A i, j \in 1..Len(Jsons!ItemsOf(w, g)) :
             i # j /\ Jsons!ItemsOf(w, g)[i] = Jsons!ItemsOf(w, g)[j]
                 => Jsons!ItemsOf(w, g)[i] \notin DOMAIN w
      <3> SUFFICES ASSUME NEW g \in DOMAIN w, NEW i \in 1..Len(Jsons!ItemsOf(w, g)),
                          NEW j \in 1..Len(Jsons!ItemsOf(w, g)), i # j,
                          Jsons!ItemsOf(w, g)[i] = Jsons!ItemsOf(w, g)[j]
                   PROVE  Jsons!ItemsOf(w, g)[i] \notin DOMAIN w
        OBVIOUS
      <3>1. g \in DOMAIN m
        BY <1>3, <1>7
      <3>2. Jsons!ItemsOf(m, g)[i] \notin DOMAIN m
        BY <3>1, <1>2, <1>6 DEF Forest
      <3>3. Jsons!ItemsOf(m, g)[i] \in Names \cup {0} \cup Jsons!Members(m, g)
        BY <3>1, <1>2, <1>6, ItemFacts
      <3>4. Jsons!Members(m, g) \subseteq DOMAIN m
        BY DEF Jsons!Members
      <3>5. QED  BY <3>1, <3>2, <3>3, <3>4, <1>4, <1>6
    <2>7. \A g, k \in DOMAIN w : g # k => Jsons!Members(w, g) \cap Jsons!Members(w, k) = {}
      <3>1. \A g, k \in DOMAIN m : g # k => Jsons!Members(w, g) \cap Jsons!Members(w, k) = {}
        BY <1>2, <1>6 DEF Forest
      <3>2. QED  BY <3>1, <1>3, <1>7
    <2>8. QED  BY <2>1, <2>2, <2>3, <2>4, <2>5, <2>6, <2>7, <1>3, <1>4 DEF Forest
  <1>9. Valued(w, u)
    <2>1. \A g \in DOMAIN m : v[g] = ValueAt(m, v, g)
      BY <1>2 DEF Valued
    <2>2. u[0] = ValueAt(w, u, 0)
      BY <1>2, <1>5 DEF ValueAt
    <2> DEFINE F(g) == ValueAt(w, u, g)
    <2>3. \A g \in DOMAIN w \cup {0} : u[g] = F(g)
      BY <2>1, <2>2, <1>3, <1>5, <1>6, <1>7
    <2> HIDE DEF F
    <2>4. u = [g \in DOMAIN w \cup {0} |-> F(g)]
      BY <2>3, <1>5
    <2>5. QED  BY <2>4 DEF Valued, F
  <1>10. /\ js2 = [y \in JsonVars |-> IF y = x THEN q ELSE js[y]]
         /\ tr2 = [y \in JsonVars |-> IF y = x THEN t ELSE v[js[y]]]
    BY <1>2
  <1> HIDE DEF js2, tr2
  <1>11. /\ \A y \in JsonVars : js2[y] \in Addresses(w)
         /\ \A y \in JsonVars : tr2[y] = u[js2[y]]
         /\ \A y \in JsonVars : Grove(b, js2[y]) = IF y = x THEN {q} ELSE Grove(d, js[y])
    <2> SUFFICES ASSUME NEW y \in JsonVars
                 PROVE  /\ js2[y] \in Addresses(w) /\ tr2[y] = u[js2[y]]
                        /\ Grove(b, js2[y]) = IF y = x THEN {q} ELSE Grove(d, js[y])
      OBVIOUS
    <2>1. CASE y = x
      BY <2>1, <1>3, <1>5, <1>10 DEF Addresses, Grove
    <2>2. CASE y # x
      <3>1. js[y] = 0 \/ js[y] \in DOMAIN m
        BY <1>2 DEF Addresses
      <3>2. QED  BY <2>2, <3>1, <1>3, <1>5, <1>10 DEF Addresses, Grove
    <2>3. QED  BY <2>1, <2>2
  <1>12. \A y \in JsonVars : Grove(d, js[y]) \subseteq DOMAIN m
    BY <1>1, RootFacts
  <1>13. \A y, z \in JsonVars : y # z => Grove(b, js2[y]) \cap Grove(b, js2[z]) = {}
    BY <1>1, <1>11, <1>12 DEF Rooted
  <1>14. \A g \in DOMAIN w : \E y \in JsonVars : g \in Grove(b, js2[y])
    <2> SUFFICES ASSUME NEW g \in DOMAIN w PROVE \E y \in JsonVars : g \in Grove(b, js2[y])
      OBVIOUS
    <2>1. CASE g = q
      BY <2>1, <1>11
    <2>2. CASE g # q
      <3>1. g \in DOMAIN m
        BY <2>2, <1>3
      <3>2. PICK y \in JsonVars : g \in Grove(d, js[y])
        BY <3>1, <1>1 DEF Rooted
      <3>3. y # x
        BY <3>2 DEF Grove
      <3>4. QED  BY <3>2, <3>3, <1>11
    <2>3. QED  BY <2>1, <2>2
  <1>15. js2 \in [JsonVars -> Addresses(w)] /\ tr2 = [y \in JsonVars |-> u[js2[y]]]
    BY <1>10, <1>11
  <1>16. Rooted(js2, w, tr2, b, u)
    BY <1>8, <1>9, <1>13, <1>14, <1>15 DEF Rooted
  <1>17. QED  BY <1>16 DEF JsonOk, js2, tr2, w

(* A sequence and what is added to it. *)
LEMMA AppendedItems ==
    ASSUME NEW S, NEW a \in Seq(S), NEW more \in Seq(S)
    PROVE  /\ a \o more \in Seq(S) /\ Len(a \o more) = Len(a) + Len(more)
           /\ Len(a) \in Nat /\ Len(more) \in Nat
           /\ \A i \in 1..Len(a) : (a \o more)[i] = a[i]
           /\ \A i \in 1..Len(more) : (a \o more)[Len(a) + i] = more[i]
           /\ \A i \in 1..(Len(a) + Len(more)) :
                 i \notin 1..Len(a) => i - Len(a) \in 1..Len(more) /\ (a \o more)[i] = more[i - Len(a)]
  OBVIOUS

(* The places behind pairs are those of keys and values in turn, too.       *)
LEMMA AfterPairs ==
    ASSUME NEW n \in Nat, n % 2 = 0, NEW i \in Nat
    PROVE  /\ i % 2 = 1 <=> (i - n) % 2 = 1
           /\ i % 2 = 1 <=> (n + i) % 2 = 1
  OBVIOUS

(* A function on numbers that is two sequences, one behind the other. *)
LEMMA JoinedSeqs ==
    ASSUME NEW S, NEW a \in Seq(S), NEW b \in Seq(S), NEW c \in Seq(S), Len(c) = Len(a) + Len(b),
           \A i \in 1..Len(a) : c[i] = a[i], \A i \in 1..Len(b) : c[Len(a) + i] = b[i]
    PROVE  c = a \o b
  <1> DEFINE n == Len(a)
             p == Len(b)
             e == a \o b
  <1>1. /\ e \in Seq(S) /\ Len(e) = n + p /\ n \in Nat /\ p \in Nat
        /\ (\A i \in 1..n : e[i] = a[i])
        /\ \A i \in 1..(n + p) : i \notin 1..n => i - n \in 1..p /\ e[i] = b[i - n]
    BY AppendedItems
  <1>2. ASSUME NEW i \in 1..(n + p) PROVE c[i] = e[i]
    <2>1. CASE i \in 1..n
      BY <2>1, <1>1
    <2>2. CASE i \notin 1..n
      <3>1. i - n \in 1..p /\ n + (i - n) = i
        BY <2>2, <1>1
      <3>2. c[n + (i - n)] = b[i - n]
        BY <3>1
      <3>3. QED  BY <3>1, <3>2, <2>2, <1>1
    <2>3. QED  BY <2>1, <2>2
  <1>3. Len(c) = n + p
    OBVIOUS
  <1> HIDE DEF n, p, e
  <1>4. c = e
    BY <1>1, <1>2, <1>3, SeqEqual
  <1>5. QED  BY <1>4 DEF e

(* What is put behind the items of an array or object: keys and null        *)
(* values, and one value that a variable had.                               *)
Added(k, old, more, e) ==
    /\ k \in Boxes /\ Len(k.items) <= k.cap /\ k.type = old.type
    /\ more \in Seq(Nat \cup Names) /\ k.items = old.items \o more
    /\ k.type = "object" => Len(more) % 2 = 0
    /\ \A i \in 1..Len(more) :
          IF KeyAt(k.type, i) THEN more[i] \in Names ELSE more[i] \in {0, e}
    /\ \A i, j \in 1..Len(more) : i # j /\ more[i] = more[j] => more[i] = 0 \/ more[i] \in Names
    /\ e # 0 => \E i \in 1..Len(more) : more[i] = e
ValuesOf(k, more, te) ==
    [i \in 1..Len(more) |-> IF KeyAt(k.type, i) THEN more[i]
                            ELSE IF more[i] = 0 THEN Jsons!NullValue ELSE te]

(* The header that gets them, in the memory after that. *)
LEMMA AddedFacts ==
    ASSUME NEW m, NEW d, Forest(m, d), NEW r \in DOMAIN m, m[r] \notin Scalars,
           NEW e \in Addresses(m), e # 0 => \A g \in DOMAIN m : e \notin Jsons!Members(m, g),
           NEW k, NEW more, Added(k, m[r], more, e),
           NEW w, DOMAIN w = DOMAIN m, w[r] = k
    PROVE  /\ HeaderOk(w, w[r]) /\ w[r] \notin Scalars
           /\ Jsons!Members(w, r) = Jsons!Members(m, r) \cup ({e} \ {0})
           /\ \A i, j \in 1..Len(Jsons!ItemsOf(w, r)) :
                 i # j /\ Jsons!ItemsOf(w, r)[i] = Jsons!ItemsOf(w, r)[j]
                     => Jsons!ItemsOf(w, r)[i] \notin DOMAIN w
  <1> DEFINE s == m[r].items
             n == Len(s)
             p == Len(more)
  <1>1. HeaderOk(m, m[r]) /\ DOMAIN m \cap Names = {} /\ 0 \notin DOMAIN m
    BY NoAddress DEF Forest
  <1>2. /\ m[r] \in Boxes /\ Jsons!ItemsOf(m, r) = s /\ s \in Seq(Nat \cup Names)
        /\ Jsons!Members(m, r) = {c \in DOMAIN m : \E i \in 1..n : s[i] = c}
    BY <1>1, HeaderFacts
  <1>3. /\ k.items = s \o more /\ Len(k.items) = n + p /\ n \in Nat /\ p \in Nat
        /\ \A i \in 1..n : k.items[i] = s[i] 
        /\ \A i \in 1..p : k.items[n + i] = more[i]
        /\ \A i \in 1..(n + p) : i \notin 1..n => i - n \in 1..p /\ k.items[i] = more[i - n]
    BY <1>2, AppendedItems DEF Added
  <1>4. k \notin Scalars /\ k \in Boxes /\ Jsons!ItemsOf(w, r) = k.items
    <2>1. k \in Boxes
      BY DEF Added
    <2>2. k.type \in {"array", "object"} /\ "items" \in DOMAIN k
      BY <2>1 DEF Boxes
    <2>3. QED  BY <2>1, <2>2, HeadersAssumption DEF Jsons!HeadersAssumption, Jsons!ItemsOf
  <1>5. \A i \in 1..n : IF KeyAt(k.type, i) THEN s[i] \in Names ELSE s[i] \in Addresses(m)
    BY <1>1, <1>2 DEF HeaderOk, Added
  <1>6. k.type = "object" => n % 2 = 0 /\ p % 2 = 0
    BY <1>1 DEF HeaderOk, Added
  <1>7. ASSUME NEW i \in 1..(n + p), i \notin 1..n
        PROVE  /\ i - n \in 1..p /\ k.items[i] = more[i - n]
               /\ KeyAt(k.type, i) <=> KeyAt(k.type, i - n)
    <2>1. i - n \in 1..p /\ k.items[i] = more[i - n]
      BY <1>3, <1>7
    <2>2. k.type = "object" => (i % 2 = 1 <=> (i - n) % 2 = 1)
      <3> HIDE DEF n, p
      <3>1. i \in Nat /\ n \in Nat
        BY <1>3
      <3>2. QED  BY <3>1, <1>6, AfterPairs
    <2>3. QED  BY <2>1, <2>2 DEF KeyAt
  <1>8. HeaderOk(w, k)
    <2>1. k.type = "object" => Len(k.items) % 2 = 0
      <3> HIDE DEF n, p
      <3>1. QED  BY <1>3, <1>6
    <2>2. ASSUME NEW i \in 1..(n + p)
          PROVE  IF KeyAt(k.type, i) THEN k.items[i] \in Names ELSE k.items[i] \in Addresses(w)
      <3>1. CASE i \in 1..n
        BY <3>1, <1>3, <1>5 DEF Addresses
      <3>2. CASE i \notin 1..n
        <4>1. i - n \in 1..p /\ k.items[i] = more[i - n] /\ (KeyAt(k.type, i) <=> KeyAt(k.type, i - n))
          BY <3>2, <1>7
        <4>2. IF KeyAt(k.type, i - n) THEN more[i - n] \in Names ELSE more[i - n] \in {0, e}
          BY <4>1 DEF Added
        <4>3. QED  BY <4>1, <4>2 DEF Addresses
      <3>3. QED  BY <3>1, <3>2
    <2>3. \A i \in 1..Len(k.items) :
             IF KeyAt(k.type, i) THEN k.items[i] \in Names ELSE k.items[i] \in Addresses(w)
      BY <2>2, <1>3
    <2>4. Len(k.items) <= k.cap
      BY DEF Added
    <2>5. QED  BY <2>1, <2>3, <2>4, <1>4 DEF HeaderOk
  <1>9. \A i \in 1..p : more[i] \in Names \cup {0, e}
    BY DEF Added
  <1>10. Jsons!Members(w, r) = Jsons!Members(m, r) \cup ({e} \ {0})
    <2>1. Jsons!Members(w, r) = {c \in DOMAIN m : \E i \in 1..(n + p) : k.items[i] = c}
      <3>1. DOMAIN k.items = 1..(n + p)
        BY <1>3, <1>4 DEF Boxes
      <3> HIDE DEF n, p
      <3>2. QED  BY <3>1, <1>4 DEF Jsons!Members
    <2>2. ASSUME NEW c \in Jsons!Members(w, r) PROVE c \in Jsons!Members(m, r) \cup ({e} \ {0})
      <3>1. PICK i \in 1..(n + p) : k.items[i] = c
        BY <2>1, <2>2
      <3>2. c \in DOMAIN m
        BY <2>1, <2>2
      <3>3. CASE i \in 1..n
        BY <3>1, <3>2, <3>3, <1>2, <1>3
      <3>4. CASE i \notin 1..n
        BY <3>1, <3>2, <3>4, <1>7, <1>9, <1>1
      <3>5. QED  BY <3>3, <3>4
    <2>3. ASSUME NEW c \in Jsons!Members(m, r) PROVE c \in Jsons!Members(w, r)
      <3>1. PICK i \in 1..n : s[i] = c
        BY <2>3, <1>2
      <3>2. c \in DOMAIN m /\ i \in 1..(n + p) /\ k.items[i] = c
        BY <3>1, <2>3, <1>2, <1>3
      <3>3. QED  BY <3>2, <2>1
    <2>4. ASSUME e # 0 PROVE e \in Jsons!Members(w, r)
      <3>1. PICK i \in 1..p : more[i] = e
        BY <2>4 DEF Added
      <3>2. n + i \in 1..(n + p) /\ k.items[n + i] = e
        BY <3>1, <1>3
      <3>3. e \in DOMAIN m
        BY <2>4 DEF Addresses
      <3>4. QED  BY <3>2, <3>3, <2>1
    <2>5. QED  BY <2>2, <2>3, <2>4
  <1>11. ASSUME NEW i \in 1..(n + p), NEW j \in 1..(n + p), i # j, k.items[i] = k.items[j]
         PROVE  k.items[i] \notin DOMAIN m
    <2>1. CASE i \in 1..n /\ j \in 1..n
      <3>1. s[i] = s[j]
        BY <2>1, <1>3, <1>11
      <3>2. s[i] \notin DOMAIN m
        BY <2>1, <3>1, <1>2, <1>11 DEF Forest
      <3>3. QED  BY <3>2, <2>1, <1>3
    <2>2. CASE i \notin 1..n /\ j \notin 1..n
      <3>1. i - n \in 1..p /\ j - n \in 1..p /\ i - n # j - n /\ more[i - n] = more[j - n]
            /\ k.items[i] = more[i - n]
        BY <2>2, <1>7, <1>11, <1>3
      <3>2. more[i - n] = 0 \/ more[i - n] \in Names
        BY <3>1 DEF Added
      <3>3. QED  BY <3>1, <3>2, <1>1
    <2>3. ASSUME NEW a \in 1..n, NEW c \in 1..(n + p), c \notin 1..n, k.items[a] = k.items[c]
          PROVE  k.items[a] \notin DOMAIN m
      <3> SUFFICES ASSUME k.items[a] \in DOMAIN m PROVE FALSE
        OBVIOUS
      <3>1. k.items[a] \in Jsons!Members(m, r)
        BY <1>2, <1>3
      <3>2. k.items[c] \in Names \cup {0, e}
        BY <2>3, <1>7, <1>9
      <3>3. k.items[a] = e /\ e # 0
        BY <3>2, <2>3, <1>1
      <3>4. QED  BY <3>1, <3>3
    <2>4. CASE i \in 1..n /\ j \notin 1..n
      BY <2>3, <2>4, <1>11
    <2>5. CASE i \notin 1..n /\ j \in 1..n
      BY <2>3, <2>5, <1>11
    <2>6. QED  BY <2>1, <2>2, <2>4, <2>5
  <1>12. QED  BY <1>3, <1>4, <1>8, <1>10, <1>11

(* The value of the header that gets them. *)
LEMMA AddedValue ==
    ASSUME NEW m, NEW d, NEW v, Forest(m, d), Valued(m, v), NEW r \in DOMAIN m, m[r] \notin Scalars,
           NEW e \in Addresses(m), NEW te, v[e] = te,
           NEW k, NEW more, Added(k, m[r], more, e),
           NEW w, w[r] = k, NEW u, u[0] = v[0], u[e] = v[e],
           \A c \in Jsons!Members(m, r) : u[c] = v[c]
    PROVE  /\ v[r].type = k.type
           /\ ValueAt(w, u, r) = [type |-> k.type, items |-> v[r].items \o ValuesOf(k, more, te)]
  <1> DEFINE s == m[r].items
             n == Len(s)
             p == Len(more)
             E(f, i) == IF KeyAt(k.type, i) THEN s[i] ELSE f[s[i]]
             M(i) == IF KeyAt(k.type, i) THEN more[i] ELSE IF more[i] = 0 THEN Jsons!NullValue ELSE te
             K(i) == IF KeyAt(k.type, i) THEN k.items[i] ELSE u[k.items[i]]
  <1>1. HeaderOk(m, m[r]) /\ r # 0 /\ v[0] = Jsons!NullValue
    BY DEF Forest, Valued, ValueAt
  <1>2. /\ m[r] \in Boxes /\ Jsons!ItemsOf(m, r) = s /\ s \in Seq(Nat \cup Names)
        /\ "scalar" \notin DOMAIN m[r] /\ k.type = m[r].type /\ DOMAIN s = 1..n
    BY <1>1, HeaderFacts DEF Added
  <1>3. /\ k.items = s \o more /\ Len(k.items) = n + p /\ n \in Nat /\ p \in Nat
        /\ \A i \in 1..n : k.items[i] = s[i]
        /\ \A i \in 1..p : k.items[n + i] = more[i]
        /\ DOMAIN k.items = 1..(n + p)
    <2>1. k.items = s \o more /\ more \in Seq(Nat \cup Names)
      BY DEF Added
    <2>2. QED  BY <1>2, <2>1, AppendedItems
  <1>4. v[r] = [type |-> k.type, items |-> [i \in 1..n |-> E(v, i)]]
    <2>1. v[r] = ValueAt(m, v, r)
      BY DEF Valued
    <2>2. ValueAt(m, v, r) = [type |-> k.type, items |-> [i \in 1..n |-> E(v, i)]]
      BY <1>1, <1>2 DEF ValueAt, KeyAt
    <2>3. QED  BY <2>1, <2>2
  <1>5. ValueAt(w, u, r) = [type |-> k.type, items |-> [i \in 1..(n + p) |-> K(i)]]
    <2>1. k \in Boxes
      BY DEF Added
    <2>2. "scalar" \notin DOMAIN k
      BY <2>1 DEF Boxes
    <2> HIDE DEF n, p
    <2>3. QED  BY <2>2, <1>1, <1>3 DEF ValueAt, KeyAt
  <1>6. \A i \in 1..n : K(i) = E(v, i)
    <2> SUFFICES ASSUME NEW i \in 1..n PROVE K(i) = E(v, i)
      OBVIOUS
    <2>1. k.items[i] = s[i]
      BY <1>3
    <2>2. ~KeyAt(k.type, i) => s[i] = 0 \/ s[i] \in Jsons!Members(m, r)
      BY <1>2, MemberFacts
    <2>3. QED  BY <2>1, <2>2
  <1>7. \A i \in 1..p : K(n + i) = M(i)
    <2> SUFFICES ASSUME NEW i \in 1..p PROVE K(n + i) = M(i)
      OBVIOUS
    <2>1. k.items[n + i] = more[i] /\ n + i \in Nat /\ (n + i) - n = i
      BY <1>3
    <2>2. k.type = "object" => n % 2 = 0
      BY <1>1, <1>2 DEF HeaderOk
    <2>3. KeyAt(k.type, n + i) <=> KeyAt(k.type, i)
      <3>1. k.type = "object" => ((n + i) % 2 = 1 <=> i % 2 = 1)
        <4>1. i \in Nat /\ n \in Nat
          BY <1>3
        <4> HIDE DEF n, p
        <4>2. QED  BY <4>1, <2>2, AfterPairs
      <3>2. QED  BY <3>1 DEF KeyAt
    <2>4. ~KeyAt(k.type, i) => more[i] \in {0, e}
      BY DEF Added
    <2>5. QED  BY <2>1, <2>3, <2>4, <1>1
  <1> HIDE DEF E, M, K, n, p
  <1>8. [i \in 1..(n + p) |-> K(i)] = [i \in 1..n |-> E(v, i)] \o [i \in 1..p |-> M(i)]
    <2> DEFINE S == {E(v, i) : i \in 1..n} \cup {M(i) : i \in 1..p}
               a == [i \in 1..n |-> E(v, i)]
               b == [i \in 1..p |-> M(i)]
               c == [i \in 1..(n + p) |-> K(i)]
    <2>1. a \in [1..n -> S] /\ b \in [1..p -> S]
      OBVIOUS
    <2>2. /\ \A i \in 1..n : a[i] = E(v, i)
          /\ \A i \in 1..p : b[i] = M(i)
          /\ c = [i \in 1..(n + p) |-> c[i]]
      OBVIOUS
    <2>3. \A i \in 1..n : i \in 1..(n + p) /\ c[i] = a[i]
      <3>1. \A i \in 1..n : i \in 1..(n + p)
        BY <1>3
      <3>2. \A i \in 1..n : c[i] = K(i)
        BY <3>1
      <3> HIDE DEF a, c
      <3>3. QED  BY <3>1, <3>2, <2>2, <1>6
    <2>4. \A i \in 1..p : c[n + i] = b[i]
      <3>1. \A i \in 1..p : n + i \in 1..(n + p)
        BY <1>3
      <3>2. \A i \in 1..p : c[n + i] = K(n + i)
        BY <3>1
      <3> HIDE DEF b, c
      <3>3. QED  BY <3>2, <2>2, <1>7
    <2>5. c \in [1..(n + p) -> S]
      <3> SUFFICES ASSUME NEW i \in 1..(n + p) PROVE K(i) \in S
        OBVIOUS
      <3>1. CASE i \in 1..n
        BY <3>1, <1>6
      <3>2. CASE i \notin 1..n
        <4>1. i - n \in 1..p /\ n + (i - n) = i
          BY <3>2, <1>3
        <4>2. K(i) = M(i - n)
          <5>1. K(n + (i - n)) = M(i - n)
            BY <4>1, <1>7
          <5>2. QED  BY <4>1, <5>1
        <4>3. QED  BY <4>1, <4>2
      <3>3. QED  BY <3>1, <3>2
    <2> HIDE DEF a, b, c, S
    <2>6. a \in Seq(S) /\ b \in Seq(S) /\ Len(a) = n /\ Len(b) = p
      BY <2>1, <1>3, FunctionIsSeq
    <2>7. c \in Seq(S) /\ Len(c) = n + p
      <3> DEFINE q == n + p
      <3>1. q \in Nat
        BY <1>3
      <3> HIDE DEF q
      <3>2. c \in [1..q -> S]
        BY <2>5 DEF q
      <3>3. c \in Seq(S) /\ Len(c) = q
        BY <3>1, <3>2, FunctionIsSeq
      <3>4. QED  BY <3>3 DEF q
    <2>8. c = a \o b
      <3>1. /\ Len(c) = Len(a) + Len(b) /\ \A i \in 1..Len(a) : c[i] = a[i]
            /\ \A i \in 1..Len(b) : c[Len(a) + i] = b[i]
        BY <2>3, <2>4, <2>6, <2>7
      <3>2. QED  BY <3>1, <2>6, <2>7, JoinedSeqs
    <2>9. QED  BY <2>8 DEF a, b, c
  <1>9. ValuesOf(k, more, te) = [i \in 1..p |-> M(i)]
    BY DEF ValuesOf, M, p
  <1>10. v[r].type = k.type /\ v[r].items = [i \in 1..n |-> E(v, i)]
    BY <1>4
  <1>11. QED  BY <1>5, <1>8, <1>9, <1>10

(* The variables and their values after values are put into that of x. *)
Emptied(js, e) == [z \in JsonVars |-> IF js[z] = e THEN 0 ELSE js[z]]
Filled(js, tr, x, e, k, more, te) ==
    [z \in JsonVars |->
        IF z = x THEN [type |-> k.type, items |-> tr[x].items \o ValuesOf(k, more, te)]
        ELSE IF js[z] = e THEN Jsons!NullValue ELSE tr[z]]

(* Values are put into the array or object of a variable; the variable that *)
(* had the one that is not null has it no more.                             *)
LEMMA FillOk ==
    ASSUME NEW js, NEW m, NEW tr, JsonOk(js, m, tr), NEW x \in JsonVars, js[x] # 0,
           m[js[x]] \notin Scalars,
           NEW e, NEW te, \/ e = 0 /\ te = Jsons!NullValue
                          \/ \E y \in JsonVars \ {x} : e = js[y] /\ te = tr[y],
           NEW k, NEW more, Added(k, m[js[x]], more, e)
    PROVE  JsonOk(Emptied(js, e), Jsons!With(m, js[x], k), Filled(js, tr, x, e, k, more, te))
  <1>1. PICK d, v : Rooted(js, m, tr, d, v)
    BY DEF JsonOk
  <1> DEFINE r == js[x]
             E == Grove(d, e)
             t == [type |-> k.type, items |-> tr[x].items \o ValuesOf(k, more, te)]
             w == Jsons!With(m, r, k)
             u == [g \in DOMAIN m \cup {0} |-> IF g = r THEN t ELSE v[g]]
             b == [g \in DOMAIN m |-> IF g = r THEN d[r] \cup E ELSE d[g]]
             js2 == Emptied(js, e)
             tr2 == Filled(js, tr, x, e, k, more, te)
  <1>2. /\ Forest(m, d) /\ Valued(m, v) /\ \A y \in JsonVars : js[y] \in Addresses(m) /\ tr[y] = v[js[y]]
        /\ v[0] = Jsons!NullValue
    BY <1>1 DEF Rooted, Valued, ValueAt
  <1>3. /\ r \in DOMAIN m /\ r # 0 /\ Grove(d, r) = d[r] /\ r \in d[r]
        /\ \A g \in DOMAIN m : r \in d[g] => g = r
        /\ \A g \in DOMAIN m : r \notin Jsons!Members(m, g)
        /\ \A g \in DOMAIN m : g \notin d[r] => d[g] \cap d[r] = {}
        /\ \A y \in JsonVars : js[y] = r => y = x
    <2>1. r \in DOMAIN m /\ r # 0 /\ Grove(d, r) = d[r] /\ r \in d[r]
      BY <1>2 DEF Addresses, Grove, Forest
    <2>2. QED  BY <2>1, <1>1, RootFacts
  <1>4. DOMAIN m \subseteq Nat \ {0} /\ IsFiniteSet(DOMAIN m) /\ DOMAIN m \cap Names = {}
        /\ 0 \notin DOMAIN m
    <2>1. DOMAIN m \subseteq Nat \ {0} /\ IsFiniteSet(DOMAIN m)
      BY <1>2 DEF Forest
    <2>2. QED  BY <2>1, NoAddress
  <1> HIDE DEF r
  <1>5. /\ e \in Addresses(m) /\ te = v[e] /\ e # r /\ E \subseteq DOMAIN m /\ E \cap d[r] = {}
        /\ r \notin E
        /\ e # 0 => /\ e \in DOMAIN m /\ E = d[e] /\ e \in d[e]
                    /\ \A g \in DOMAIN m : e \notin Jsons!Members(m, g)
                    /\ \A g \in DOMAIN m : e \in d[g] => g = e
                    /\ \A z \in JsonVars : z # x /\ js[z] # e => Grove(d, js[z]) \cap E = {}
                    /\ \E y \in JsonVars : y # x /\ js[y] = e
                    /\ \A y, z \in JsonVars : js[y] = e /\ js[z] = e => y = z
        /\ e = 0 => E = {}
    <2>1. CASE e = 0
      <3>1. te = v[0]
        BY <2>1, <1>2
      <3>2. QED  BY <2>1, <3>1, <1>3 DEF Addresses, Grove
    <2>2. CASE e # 0
      <3>1. PICK y \in JsonVars \ {x} : e = js[y] /\ te = tr[y]
        BY <2>2
      <3>2. e \in DOMAIN m /\ te = v[e] /\ E = d[e] /\ e \in d[e] /\ E \subseteq DOMAIN m
        BY <3>1, <2>2, <1>2 DEF Addresses, Grove, Forest
      <3>3. \A z \in JsonVars : z # y => Grove(d, js[z]) \cap Grove(d, js[y]) = {}
        BY <1>1 DEF Rooted
      <3>4. E \cap d[r] = {}
        BY <3>1, <3>3, <1>3 DEF r
      <3>5. /\ \A g \in DOMAIN m : e \notin Jsons!Members(m, g)
            /\ \A g \in DOMAIN m : e \in d[g] => g = e
            /\ \A z \in JsonVars : js[z] = e => z = y
        BY <3>1, <2>2, <1>1, RootFacts
      <3>6. \A z \in JsonVars : z # x /\ js[z] # e => Grove(d, js[z]) \cap E = {}
        BY <3>1, <3>3
      <3>7. QED  BY <2>2, <3>1, <3>2, <3>4, <3>5, <3>6, <1>3 DEF Addresses
    <2>3. QED  BY <2>1, <2>2
  <1>6. /\ w = [g \in DOMAIN w |-> w[g]] /\ DOMAIN w = DOMAIN m /\ w[r] = k
        /\ \A g \in DOMAIN m : g # r => w[g] = m[g]
    BY <1>3 DEF Jsons!With
  <1> HIDE DEF w, E
  <1>7. /\ \A g \in DOMAIN m : g # r => u[g] = v[g]
        /\ u[0] = v[0] /\ u[r] = t /\ u[e] = v[e]
        /\ u = [g \in DOMAIN m \cup {0} |-> u[g]]
        /\ b[r] = d[r] \cup E /\ \A g \in DOMAIN m : g # r => b[g] = d[g]
    BY <1>3, <1>5 DEF Addresses
  <1> HIDE DEF u, b
  <1>8. ASSUME NEW g \in DOMAIN m, g # r
        PROVE  /\ HeaderOk(w, w[g])
               /\ Jsons!ItemsOf(w, g) = Jsons!ItemsOf(m, g)
               /\ Jsons!Members(w, g) = Jsons!Members(m, g)
               /\ ValueAt(w, u, g) = ValueAt(m, v, g)
    <2>1. \A c \in Jsons!Members(m, g) : c \in DOMAIN m /\ c # r
      BY <1>3 DEF Jsons!Members
    <2>2. /\ g \in DOMAIN w /\ w[g] = m[g] /\ Jsons!Members(m, g) \subseteq DOMAIN w
          /\ DOMAIN w \cap Names = {} /\ 0 \notin DOMAIN w /\ g # 0
      BY <2>1, <1>4, <1>6, <1>8
    <2>3. u[0] = v[0] /\ \A c \in Jsons!Members(m, g) : u[c] = v[c]
      BY <2>1, <1>7
    <2>4. QED  BY <2>2, <2>3, <1>2, HeaderKept
  <1>9. /\ HeaderOk(w, w[r]) /\ w[r] \notin Scalars
         /\ Jsons!Members(w, r) = Jsons!Members(m, r) \cup ({e} \ {0})
         /\ \A i, j \in 1..Len(Jsons!ItemsOf(w, r)) :
               i # j /\ Jsons!ItemsOf(w, r)[i] = Jsons!ItemsOf(w, r)[j]
                   => Jsons!ItemsOf(w, r)[i] \notin DOMAIN w
    <2>1. m[r] \notin Scalars /\ Added(k, m[r], more, e)
      BY DEF r
    <2>2. QED  BY <2>1, <1>2, <1>3, <1>5, <1>6, AddedFacts
  <1>10. ValueAt(w, u, r) = t
    <2>1. m[r] \notin Scalars /\ Added(k, m[r], more, e) /\ tr[x] = v[r]
      BY <1>2 DEF r
    <2>2. \A c \in Jsons!Members(m, r) : u[c] = v[c]
      BY <1>3, <1>7 DEF Jsons!Members
    <2>3. ValueAt(w, u, r) = [type |-> k.type, items |-> v[r].items \o ValuesOf(k, more, te)]
      <3>1. e \in Addresses(m) /\ v[e] = te /\ r \in DOMAIN m /\ w[r] = k
            /\ u[0] = v[0] /\ u[e] = v[e]
        BY <1>3, <1>5, <1>6, <1>7
      <3>2. Forest(m, d) /\ Valued(m, v)
        BY <1>2
      <3> HIDE DEF t
      <3>3. QED  BY <2>1, <2>2, <3>1, <3>2, AddedValue
    <2>4. QED  BY <2>1, <2>3
  <1> HIDE DEF t
  <1>11. Forest(w, b)
    <2>1. \A g \in DOMAIN w : HeaderOk(w, w[g])
      BY <1>6, <1>8, <1>9
    <2>2. \A g \in DOMAIN w : g \in b[g] /\ b[g] \subseteq DOMAIN w
      <3>1. \A g \in DOMAIN m : g \in d[g] /\ d[g] \subseteq DOMAIN m
        BY <1>2 DEF Forest
      <3>2. QED  BY <3>1, <1>3, <1>5, <1>6, <1>7
    <2>3. \A g \in DOMAIN w : \A c \in b[g] : b[c] \subseteq b[g] /\ (g \in b[c] => c = g)
      <3>1. \A g \in DOMAIN m : \A c \in d[g] : c \in DOMAIN m /\ d[c] \subseteq d[g] /\ (g \in d[c] => c = g)
        BY <1>2 DEF Forest
      <3>2. ASSUME NEW g \in DOMAIN m, g # r, NEW c \in b[g]
            PROVE  b[c] \subseteq b[g] /\ (g \in b[c] => c = g)
        <4>1. c \in d[g] /\ c # r /\ c \in DOMAIN m
          BY <3>1, <3>2, <1>3, <1>7
        <4>2. QED  BY <4>1, <3>1, <3>2, <1>7
      <3>3. ASSUME NEW c \in b[r] PROVE b[c] \subseteq b[r] /\ (r \in b[c] => c = r)
        <4>1. CASE c = r
          BY <4>1
        <4>2. CASE c # r /\ c \in d[r]
          BY <4>2, <3>1, <1>3, <1>7
        <4>3. CASE c \in E
          <5>1. e # 0 /\ c \in d[e] /\ c # r /\ e \in DOMAIN m
            BY <4>3, <1>5
          <5>2. d[c] \subseteq E /\ b[c] = d[c] /\ r \notin d[c]
            BY <5>1, <3>1, <1>5, <1>7
          <5>3. QED  BY <5>2, <1>7
        <4>4. QED  BY <4>1, <4>2, <4>3, <3>3, <1>7
      <3>4. QED  BY <3>2, <3>3, <1>6
    <2>4. \A g \in DOMAIN w : \A c \in Jsons!Members(w, g) : c \in b[g] /\ c # g
      <3>1. \A g \in DOMAIN m : \A c \in Jsons!Members(m, g) : c \in d[g] /\ c # g
        BY <1>2 DEF Forest
      <3>2. \A g \in DOMAIN m : g # r => \A c \in Jsons!Members(w, g) : c \in b[g] /\ c # g
        BY <3>1, <1>7, <1>8
      <3>3. \A c \in Jsons!Members(w, r) : c \in b[r] /\ c # r
        BY <3>1, <1>3, <1>5, <1>7, <1>9
      <3>4. QED  BY <3>2, <3>3, <1>6
    <2>5. \A g \in DOMAIN w : \A c \in b[g] : c # g => \E p \in b[g] : c \in Jsons!Members(w, p)
      <3>1. \A g \in DOMAIN m : \A c \in d[g] :
               c # g => \E p \in d[g] : p \in DOMAIN m /\ c \in Jsons!Members(m, p)
        BY <1>2 DEF Forest
      <3>2. \A g \in DOMAIN m : Jsons!Members(m, g) \subseteq Jsons!Members(w, g)
        BY <1>8, <1>9
      <3>3. ASSUME NEW g \in DOMAIN m, NEW c \in d[g], c # g
            PROVE  \E p \in d[g] : c \in Jsons!Members(w, p)
        BY <3>1, <3>2, <3>3
      <3>4. ASSUME NEW c \in E, c # e PROVE \E p \in E : c \in Jsons!Members(w, p)
        <4>1. e # 0 /\ e \in DOMAIN m /\ E = d[e]
          BY <3>4, <1>5
        <4>2. QED  BY <4>1, <3>3, <3>4
      <3>5. e # 0 => e \in Jsons!Members(w, r) /\ r \in b[r]
        BY <1>3, <1>7, <1>9
      <3>6. \A g \in DOMAIN m : g # r =>
               \A c \in b[g] : c # g => \E p \in b[g] : c \in Jsons!Members(w, p)
        BY <3>3, <1>7
      <3>7. \A c \in b[r] : c # r => \E p \in b[r] : c \in Jsons!Members(w, p)
        <4> SUFFICES ASSUME NEW c \in b[r], c # r PROVE \E p \in b[r] : c \in Jsons!Members(w, p)
          OBVIOUS
        <4>1. CASE c \in d[r]
          <5>1. PICK p \in d[r] : c \in Jsons!Members(w, p)
            BY <4>1, <3>3, <1>3
          <5>2. QED  BY <5>1, <1>7
        <4>2. CASE c \in E /\ c # e
          <5>1. PICK p \in E : c \in Jsons!Members(w, p)
            BY <4>2, <3>4
          <5>2. QED  BY <5>1, <1>7
        <4>3. CASE c \in E /\ c = e
          <5>1. e # 0
            BY <4>3, <1>5
          <5>2. QED  BY <4>3, <5>1, <3>5
        <4>4. QED  BY <4>1, <4>2, <4>3, <1>7
      <3>8. QED  BY <3>6, <3>7, <1>6
    <2>6. \A g \in DOMAIN w : \A i, j \in 1..Len(Jsons!ItemsOf(w, g)) :
             i # j /\ Jsons!ItemsOf(w, g)[i] = Jsons!ItemsOf(w, g)[j]
                 => Jsons!ItemsOf(w, g)[i] \notin DOMAIN w
      <3>1. \A g \in DOMAIN m : \A i, j \in 1..Len(Jsons!ItemsOf(m, g)) :
             i # j /\ Jsons!ItemsOf(m, g)[i] = Jsons!ItemsOf(m, g)[j]
                 => Jsons!ItemsOf(m, g)[i] \notin DOMAIN m
        BY <1>2 DEF Forest
      <3>2. \A g \in DOMAIN m : g # r => \A i, j \in 1..Len(Jsons!ItemsOf(w, g)) :
             i # j /\ Jsons!ItemsOf(w, g)[i] = Jsons!ItemsOf(w, g)[j]
                 => Jsons!ItemsOf(w, g)[i] \notin DOMAIN w
        BY <3>1, <1>6, <1>8
      <3>3. QED  BY <3>2, <1>6, <1>9
    <2>7. \A g, h \in DOMAIN w : g # h => Jsons!Members(w, g) \cap Jsons!Members(w, h) = {}
      <3>1. \A g, h \in DOMAIN m : g # h => Jsons!Members(m, g) \cap Jsons!Members(m, h) = {}
        BY <1>2 DEF Forest
      <3>2. \A g, h \in DOMAIN m : g # h /\ g # r /\ h # r =>
               Jsons!Members(w, g) \cap Jsons!Members(w, h) = {}
        BY <3>1, <1>8
      <3>3. \A g \in DOMAIN m : g # r => Jsons!Members(w, g) \cap Jsons!Members(w, r) = {}
        BY <3>1, <1>3, <1>5, <1>8, <1>9
      <3>4. QED  BY <3>2, <3>3, <1>6
    <2>8. QED  BY <2>1, <2>2, <2>3, <2>4, <2>5, <2>6, <2>7, <1>4, <1>6 DEF Forest
  <1>12. Valued(w, u)
    <2>1. \A g \in DOMAIN m : v[g] = ValueAt(m, v, g)
      BY <1>2 DEF Valued
    <2>2. u[0] = ValueAt(w, u, 0)
      BY <1>2, <1>7 DEF ValueAt
    <2> DEFINE F(g) == ValueAt(w, u, g)
    <2>3. \A g \in DOMAIN m \cup {0} : u[g] = F(g)
      BY <2>1, <2>2, <1>7, <1>8, <1>10
    <2> HIDE DEF F
    <2>4. u = [g \in DOMAIN w \cup {0} |-> F(g)]
      BY <2>3, <1>6, <1>7
    <2>5. QED  BY <2>4 DEF Valued, F
  <1>13. /\ js2 = [z \in JsonVars |-> js2[z]] /\ tr2 = [z \in JsonVars |-> tr2[z]]
         /\ \A z \in JsonVars : js2[z] = IF js[z] = e THEN 0 ELSE js[z]
         /\ \A z \in JsonVars : tr2[z] = IF z = x THEN t ELSE IF js[z] = e THEN Jsons!NullValue ELSE tr[z]
    BY DEF t, Emptied, Filled
  <1> HIDE DEF js2, tr2
  <1>14. ASSUME NEW z \in JsonVars
         PROVE  /\ js2[z] \in Addresses(w) /\ tr2[z] = u[js2[z]]
                /\ Grove(b, js2[z]) = IF z = x THEN d[r] \cup E
                                      ELSE IF js[z] = e THEN {} ELSE Grove(d, js[z])
    <2>1. CASE z = x
      BY <2>1, <1>3, <1>5, <1>6, <1>7, <1>13 DEF Addresses, Grove, r
    <2>2. CASE z # x /\ js[z] = e
      BY <2>2, <1>2, <1>7, <1>13 DEF Addresses, Grove
    <2>3. CASE z # x /\ js[z] # e
      <3>1. js[z] # r /\ (js[z] = 0 \/ js[z] \in DOMAIN m)
        BY <2>3, <1>2, <1>3 DEF Addresses
      <3>2. QED  BY <2>3, <3>1, <1>2, <1>6, <1>7, <1>13 DEF Addresses, Grove
    <2>4. QED  BY <2>1, <2>2, <2>3
  <1>15. \A y, z \in JsonVars : y # z => Grove(d, js[y]) \cap Grove(d, js[z]) = {}
    BY <1>1 DEF Rooted
  <1>16. \A z \in JsonVars : z # x => Grove(b, js2[x]) \cap Grove(b, js2[z]) = {}
    <2> SUFFICES ASSUME NEW z \in JsonVars, z # x, js[z] # e
                 PROVE  (d[r] \cup E) \cap Grove(d, js[z]) = {}
      BY <1>14
    <2>1. d[r] \cap Grove(d, js[z]) = {}
      BY <1>3, <1>15 DEF r
    <2>2. E \cap Grove(d, js[z]) = {}
      BY <1>5
    <2>3. QED  BY <2>1, <2>2
  <1>17. \A y, z \in JsonVars : y # z => Grove(b, js2[y]) \cap Grove(b, js2[z]) = {}
    BY <1>14, <1>15, <1>16
  <1>18. \A g \in DOMAIN w : \E y \in JsonVars : g \in Grove(b, js2[y])
    <2> SUFFICES ASSUME NEW g \in DOMAIN m PROVE \E y \in JsonVars : g \in Grove(b, js2[y])
      BY <1>6
    <2>1. PICK y \in JsonVars : g \in Grove(d, js[y])
      BY <1>1 DEF Rooted
    <2>2. CASE y = x
      BY <2>1, <2>2, <1>3, <1>14 DEF r
    <2>3. CASE y # x /\ js[y] = e
      BY <2>1, <2>3, <1>14 DEF E
    <2>4. CASE y # x /\ js[y] # e
      BY <2>1, <2>4, <1>14
    <2>5. QED  BY <2>2, <2>3, <2>4
  <1>19. js2 \in [JsonVars -> Addresses(w)] /\ tr2 = [y \in JsonVars |-> u[js2[y]]]
    BY <1>13, <1>14
  <1>20. Rooted(js2, w, tr2, b, u)
    BY <1>11, <1>12, <1>17, <1>18, <1>19 DEF Rooted
  <1>21. QED  BY <1>20 DEF JsonOk, js2, tr2, w, r

(* What a variable with a value was given. *)
LEMMA RootShape ==
    ASSUME NEW js, NEW m, NEW tr, JsonOk(js, m, tr)
    PROVE  /\ IsFiniteSet(DOMAIN m) /\ DOMAIN m \subseteq Nat \ {0}
           /\ js = [y \in JsonVars |-> js[y]] /\ tr = [y \in JsonVars |-> tr[y]]
           /\ \A x \in JsonVars : js[x] = 0 => tr[x] = Jsons!NullValue
           /\ \A x \in JsonVars : js[x] # 0 => js[x] \in DOMAIN m /\ tr[x].type = m[js[x]].type
           /\ \A x, y \in JsonVars : js[x] # 0 /\ js[y] = js[x] => y = x
  <1>1. PICK d, v : Rooted(js, m, tr, d, v)
    BY DEF JsonOk
  <1>2. /\ Forest(m, d) /\ Valued(m, v) /\ v[0] = Jsons!NullValue
        /\ \A x \in JsonVars : tr[x] = v[js[x]] /\ js[x] \in Addresses(m)
    BY <1>1 DEF Rooted, Valued, ValueAt
  <1>3. IsFiniteSet(DOMAIN m) /\ DOMAIN m \subseteq Nat \ {0}
    BY <1>2 DEF Forest
  <1>4. js = [y \in JsonVars |-> js[y]] /\ tr = [y \in JsonVars |-> tr[y]]
    BY <1>1 DEF Rooted
  <1>5. ASSUME NEW x \in JsonVars, js[x] # 0
        PROVE  /\ js[x] \in DOMAIN m /\ tr[x].type = m[js[x]].type
               /\ \A y \in JsonVars : js[y] = js[x] => y = x
    <2>1. js[x] \in DOMAIN m /\ \A y \in JsonVars : js[y] = js[x] => y = x
      BY <1>1, <1>5, RootFacts
    <2>2. HeaderOk(m, m[js[x]]) /\ tr[x] = ValueAt(m, v, js[x])
      BY <2>1, <1>2 DEF Forest, Valued
    <2>3. tr[x].type = m[js[x]].type
      BY <2>2, <1>5 DEF ValueAt
    <2>4. QED  BY <2>1, <2>3
  <1>6. \A x \in JsonVars : js[x] = 0 => tr[x] = Jsons!NullValue
    BY <1>2
  <1>7. QED  BY <1>3, <1>4, <1>5, <1>6

(* An array or object of a variable. *)
LEMMA RootBox ==
    ASSUME NEW js, NEW m, NEW tr, JsonOk(js, m, tr), NEW x \in JsonVars, js[x] # 0,
           m[js[x]] \notin Scalars
    PROVE  /\ m[js[x]] \in Boxes /\ Len(m[js[x]].items) <= m[js[x]].cap
           /\ tr[x] = [type |-> m[js[x]].type, items |-> tr[x].items]
           /\ \E S : tr[x].items \in Seq(S)
  <1> DEFINE r == js[x]
             s == m[r].items
  <1>1. PICK d, v : Rooted(js, m, tr, d, v)
    BY DEF JsonOk
  <1>2. /\ Forest(m, d) /\ Valued(m, v) /\ tr[x] = v[r] /\ r \in Addresses(m)
    BY <1>1 DEF Rooted
  <1>3. r \in DOMAIN m /\ r # 0
    BY <1>2 DEF Addresses
  <1>4. HeaderOk(m, m[r]) /\ tr[x] = ValueAt(m, v, r)
    BY <1>3, <1>2 DEF Forest, Valued
  <1>5. m[r] \notin Scalars
    OBVIOUS
  <1> HIDE DEF r
  <1> DEFINE W(i) == IF m[r].type = "object" /\ i % 2 = 1 THEN s[i] ELSE v[s[i]]
             S == {W(i) : i \in 1..Len(s)}
             f == [i \in 1..Len(s) |-> W(i)]
  <1>6. m[r] \in Boxes /\ "scalar" \notin DOMAIN m[r] /\ DOMAIN s = 1..Len(s) /\ Len(s) \in Nat
    BY <1>3, <1>4, <1>5, HeaderFacts
  <1>7. Len(s) <= m[r].cap
    BY <1>4, <1>5 DEF HeaderOk
  <1>8. tr[x] = [type |-> m[r].type, items |-> f]
    BY <1>3, <1>4, <1>6 DEF ValueAt
  <1>9. f \in [1..Len(s) -> S]
    OBVIOUS
  <1> HIDE DEF f, S, s
  <1>10. f \in Seq(S)
    BY <1>6, <1>9
  <1>11. QED  BY <1>6, <1>7, <1>8, <1>10 DEF s, r

(* The items that more are put to. *)
LEMMA ItemsSeq ==
    ASSUME NEW js, NEW m, NEW tr, JsonOk(js, m, tr), NEW x \in JsonVars,
           NEW type \in {"array", "object"}
    PROVE  \E S : Jsons!Items(tr[x], type) \in Seq(S)
  <1>1. CASE tr[x].type # type
    <2>1. Jsons!Items(tr[x], type) = <<>>
      BY <1>1 DEF Jsons!Items
    <2>2. <<>> \in Seq({})
      OBVIOUS
    <2>3. QED  BY <2>1, <2>2
  <1>2. CASE tr[x].type = type
    <2>1. js[x] # 0
      BY <1>2, RootShape DEF Jsons!NullValue
    <2>2. m[js[x]].type = type
      BY <1>2, <2>1, RootShape
    <2>3. m[js[x]] \notin Scalars
      BY <2>2, HeadersAssumption DEF Jsons!HeadersAssumption
    <2>4. \E S : tr[x].items \in Seq(S)
      BY <2>1, <2>3, RootBox
    <2>5. QED  BY <1>2, <2>4 DEF Jsons!Items
  <1>3. QED  BY <1>1, <1>2

(* Where that is which a variable becomes, and the values then. *)
Home(js, m, x, q, type) == IF js[x] # 0 /\ m[js[x]].type = type THEN js[x] ELSE q
MadeOf(tr, x, type) == [tr EXCEPT ![x] = [type |-> type, items |-> Jsons!Items(tr[x], type)]]

(* The array or object that a variable becomes. *)
LEMMA BecomeBox ==
    ASSUME NEW js, NEW m, NEW tr, JsonOk(js, m, tr), NEW x \in JsonVars,
           NEW q, q \in Nat \ {0}, NEW type, type \in {"array", "object"},
           NEW h, h = Home(js, m, x, q, type)
    PROVE  /\ h # 0 /\ Jsons!Become(m, js[x], q, type)[h] \notin Scalars
           /\ Jsons!Become(m, js[x], q, type)[h] \in Boxes
           /\ Jsons!Become(m, js[x], q, type)[h].type = type
           /\ Len(Jsons!Become(m, js[x], q, type)[h].items) <= Jsons!Become(m, js[x], q, type)[h].cap
  <1> DEFINE w == Jsons!Become(m, js[x], q, type)
  <1>1. CASE js[x] # 0 /\ m[js[x]].type = type
    <2>1. w = m /\ h = js[x]
      BY <1>1 DEF Jsons!Become, Jsons!Null, Home
    <2>2. m[h] \notin Scalars
      BY <1>1, <2>1, HeadersAssumption DEF Jsons!HeadersAssumption
    <2>3. js[x] # 0 /\ m[js[x]] \notin Scalars
      BY <1>1, <2>1, <2>2
    <2>4. m[js[x]] \in Boxes /\ Len(m[js[x]].items) <= m[js[x]].cap
      <3> HIDE DEF w
      <3>1. QED  BY <2>3, RootBox
    <2>5. QED  BY <1>1, <2>1, <2>2, <2>4
  <1>2. CASE ~(js[x] # 0 /\ m[js[x]].type = type)
    <2> DEFINE n == Jsons!reset(m, js[x])
               c == Jsons!Container(type)
    <2>1. w = Jsons!With(n, q, c) /\ h = q
      BY <1>2 DEF Jsons!Become, Jsons!Null, Home
    <2> HIDE DEF n, c
    <2>2. w[q] = c
      BY <2>1 DEF Jsons!With
    <2>3. c \in Boxes /\ c.type = type /\ Len(c.items) <= c.cap
      BY DEF c, Jsons!Container, Boxes
    <2>4. c \notin Scalars
      BY <2>3, HeadersAssumption DEF Jsons!HeadersAssumption
    <2>5. QED  BY <2>1, <2>2, <2>3, <2>4
  <1>3. QED  BY <1>1, <1>2

LEMMA BecomeOk ==
    ASSUME NEW js, NEW m, NEW tr, JsonOk(js, m, tr), NEW x \in JsonVars,
           NEW q, q \in Nat \ {0}, q \notin DOMAIN m, NEW type, type \in {"array", "object"}
    PROVE  JsonOk([js EXCEPT ![x] = Home(js, m, x, q, type)],
                  Jsons!Become(m, js[x], q, type), MadeOf(tr, x, type))
  <1> DEFINE h == Home(js, m, x, q, type)
             w == Jsons!Become(m, js[x], q, type)
  <1>1. js = [y \in JsonVars |-> js[y]] /\ tr = [y \in JsonVars |-> tr[y]]
    BY RootShape
  <1>2. CASE js[x] # 0 /\ m[js[x]].type = type
    <2>1. w = m /\ h = js[x]
      BY <1>2 DEF Jsons!Become, Jsons!Null, Home
    <2>2. m[js[x]] \notin Scalars
      BY <1>2, <2>1, HeadersAssumption DEF Jsons!HeadersAssumption
    <2>3. tr[x] = [type |-> type, items |-> tr[x].items]
      BY <1>2, <2>2, RootBox
    <2>4. [js EXCEPT ![x] = h] = js
      BY <1>1, <2>1
    <2>5. MadeOf(tr, x, type) = tr
      <3>1. [type |-> type, items |-> Jsons!Items(tr[x], type)] = tr[x]
        <4>1. tr[x].type = type
          BY <2>3
        <4>2. QED  BY <2>3, <4>1 DEF Jsons!Items
      <3>2. [tr EXCEPT ![x] = tr[x]] = tr
        BY <1>1
      <3>3. QED  BY <3>1, <3>2 DEF MadeOf
    <2>6. QED  BY <2>1, <2>4, <2>5
  <1>3. CASE ~(js[x] # 0 /\ m[js[x]].type = type)
    <2> DEFINE n == Jsons!reset(m, js[x])
               js1 == [js EXCEPT ![x] = 0]
               tr1 == [tr EXCEPT ![x] = Jsons!NullValue]
               c == Jsons!Container(type)
               t == [type |-> type, items |-> <<>>]
    <2>1. w = Jsons!With(n, q, c) /\ h = q
      BY <1>3 DEF Jsons!Become, Jsons!Null, Home
    <2>2. JsonOk(js1, n, tr1)
      BY ResetOk
    <2>3. q \notin DOMAIN n
      BY DEF Jsons!reset
    <2>4. js1[x] = 0
      BY <1>1
    <2> HIDE DEF n, c, js1, tr1
    <2>5. JsonOk([js1 EXCEPT ![x] = q], Jsons!With(n, q, c), [tr1 EXCEPT ![x] = t])
      BY <2>2, <2>3, <2>4, AddOk DEF c
    <2>6. Jsons!Items(tr[x], type) = <<>>
      <3>1. CASE js[x] = 0
        <4>1. tr[x].type = "null"
          BY <3>1, RootShape DEF Jsons!NullValue
        <4>2. QED  BY <4>1 DEF Jsons!Items
      <3>2. CASE js[x] # 0
        <4>1. tr[x].type # type
          BY <3>2, <1>3, RootShape
        <4>2. QED  BY <4>1 DEF Jsons!Items
      <3>3. QED  BY <3>1, <3>2
    <2>7. [js1 EXCEPT ![x] = q] = [js EXCEPT ![x] = h] /\ [tr1 EXCEPT ![x] = t] = [tr EXCEPT ![x] = t]
      BY <1>1, <2>1 DEF js1, tr1
    <2>8. [tr EXCEPT ![x] = t] = MadeOf(tr, x, type)
      BY <2>6 DEF MadeOf
    <2>9. QED  BY <2>1, <2>5, <2>7, <2>8
  <1>4. QED  BY <1>2, <1>3

(* An item behind the others of an array that has room for one. *)
Roomy(a) == a \in Boxes /\ a.cap >= 1 /\ Len(a.items) <= a.cap

LEMMA RoomFacts ==
    ASSUME NEW a \in Boxes, Len(a.items) <= a.cap, NEW first \in {8, 16}
    PROVE  /\ Roomy(Jsons!Room(a, first)) /\ Jsons!Room(a, first).type = a.type
           /\ Jsons!Room(a, first).items = a.items
  <1>1. CASE a.cap = 0
    <2>1. Jsons!Room(a, first) = [a EXCEPT !.cap = first]
      BY <1>1 DEF Jsons!Room
    <2>2. QED  BY <1>1, <2>1 DEF Roomy, Boxes
  <1>2. CASE a.cap # 0
    <2>1. Jsons!Room(a, first) = a
      BY <1>2 DEF Jsons!Room
    <2>2. QED  BY <1>2, <2>1 DEF Roomy, Boxes
  <1>3. QED  BY <1>1, <1>2

LEMMA PushedFacts ==
    ASSUME NEW a, Roomy(a), NEW p \in Nat \cup Names
    PROVE  /\ Roomy(Jsons!pushed(a, p)) /\ Jsons!pushed(a, p).type = a.type
           /\ Jsons!pushed(a, p).items = Append(a.items, p)
  <1> DEFINE g == Jsons!Grown(a)
             b == [g EXCEPT !.items = Append(@, p)]
  <1>1. a \in Boxes /\ a.cap >= 1 /\ Len(a.items) <= a.cap
    BY DEF Roomy
  <1>2. g \in Boxes /\ g.type = a.type /\ g.items = a.items /\ g.cap >= 1 /\ Len(a.items) + 1 <= g.cap
    <2>1. CASE Len(a.items) = a.cap
      <3>1. g = [a EXCEPT !.cap = 2 * @]
        BY <2>1 DEF Jsons!Grown
      <3>2. QED  BY <1>1, <2>1, <3>1 DEF Boxes
    <2>2. CASE Len(a.items) # a.cap
      <3>1. g = a
        BY <2>2 DEF Jsons!Grown
      <3>2. QED  BY <1>1, <2>2, <3>1 DEF Boxes
    <2>3. QED  BY <2>1, <2>2
  <1>3. Jsons!pushed(a, p) = b
    BY DEF Jsons!pushed
  <1> HIDE DEF g
  <1>4. /\ Append(a.items, p) \in Seq(Nat \cup Names) /\ Len(Append(a.items, p)) = Len(a.items) + 1
    BY <1>1 DEF Boxes
  <1>5. b \in Boxes /\ b.type = a.type /\ b.items = Append(a.items, p) /\ b.cap = g.cap
    BY <1>2, <1>4 DEF Boxes
  <1>6. QED  BY <1>2, <1>3, <1>4, <1>5 DEF Roomy

(* The variables and their values after values are put into x. *)
PutJs(js, x, h, e) == [z \in JsonVars |-> IF z = x THEN h ELSE IF js[z] = e THEN 0 ELSE js[z]]
PutTree(js, tr, x, e, k, more, te) ==
    [z \in JsonVars |->
        IF z = x THEN [type |-> k.type, items |-> Jsons!Items(tr[x], k.type) \o ValuesOf(k, more, te)]
        ELSE IF js[z] = e THEN Jsons!NullValue ELSE tr[z]]

(* What all the calls that put something into a variable do. *)
LEMMA PutOk ==
    ASSUME NEW js, NEW m, NEW tr, JsonOk(js, m, tr), NEW x \in JsonVars,
           NEW q, q \in Nat \ {0}, q \notin DOMAIN m, NEW type, type \in {"array", "object"},
           NEW e, NEW te, \/ e = 0 /\ te = Jsons!NullValue
                          \/ \E y \in JsonVars \ {x} : e = js[y] /\ te = tr[y],
           NEW k, NEW more,
           Added(k, Jsons!Become(m, js[x], q, type)[Home(js, m, x, q, type)], more, e)
    PROVE  JsonOk(PutJs(js, x, Home(js, m, x, q, type), e),
                  Jsons!With(Jsons!Become(m, js[x], q, type), Home(js, m, x, q, type), k),
                  PutTree(js, tr, x, e, k, more, te))
  <1> DEFINE h == Home(js, m, x, q, type)
             w == Jsons!Become(m, js[x], q, type)
             js1 == [js EXCEPT ![x] = h]
             tr1 == MadeOf(tr, x, type)
  <1>1. js = [z \in JsonVars |-> js[z]] /\ tr = [z \in JsonVars |-> tr[z]]
    BY RootShape
  <1>2. JsonOk(js1, w, tr1) /\ h # 0 /\ w[h] \notin Scalars /\ w[h].type = type
    BY BecomeOk, BecomeBox
  <1>3. /\ js1[x] = h /\ tr1[x].items = Jsons!Items(tr[x], type)
        /\ \A z \in JsonVars : z # x => js1[z] = js[z] /\ tr1[z] = tr[z]
    BY <1>1 DEF MadeOf
  <1>4. \/ e = 0 /\ te = Jsons!NullValue
        \/ \E y \in JsonVars \ {x} : e = js1[y] /\ te = tr1[y]
    BY <1>3
  <1>5. k.type = type
    BY <1>2 DEF Added
  <1>e. Added(k, w[h], more, e)
    OBVIOUS
  <1> HIDE DEF js1, tr1, h, w
  <1>6. h # e
    <2>1. \A y \in JsonVars : js1[y] = h => y = x
      BY <1>2, <1>3, RootShape
    <2>2. QED  BY <2>1, <1>2, <1>4
  <1>7. Emptied(js1, e) = PutJs(js, x, h, e)
    <2>1. \A z \in JsonVars : (IF js1[z] = e THEN 0 ELSE js1[z])
                               = IF z = x THEN h ELSE IF js[z] = e THEN 0 ELSE js[z]
      BY <1>3, <1>6
    <2>2. QED  BY <2>1 DEF Emptied, PutJs
  <1>8. Filled(js1, tr1, x, e, k, more, te) = PutTree(js, tr, x, e, k, more, te)
    BY <1>3, <1>5 DEF Filled, PutTree
  <1>9. JsonOk(Emptied(js1, e), Jsons!With(w, js1[x], k), Filled(js1, tr1, x, e, k, more, te))
    <2>1. js1[x] # 0 /\ w[js1[x]] \notin Scalars /\ Added(k, w[js1[x]], more, e)
      BY <1>2, <1>3, <1>e
    <2>2. QED  BY <2>1, <1>2, <1>4, FillOk
  <1>10. QED  BY <1>3, <1>7, <1>8, <1>9 DEF h, w

-----------------------------------------------------------------------------
LEMMA OneBehind ==
    ASSUME NEW S, NEW s \in Seq(S), NEW a
    PROVE  Append(s, a) = s \o <<a>>
  <1> DEFINE T == S \cup {a}
  <1>1. s \in Seq(T) /\ <<a>> \in Seq(T) /\ a \in T
    OBVIOUS
  <1> HIDE DEF T
  <1>2. QED  BY <1>1

LEMMA TwoBehind ==
    ASSUME NEW S, NEW s \in Seq(S), NEW a \in S, NEW b \in S
    PROVE  Append(Append(s, a), b) = s \o <<a, b>>
  OBVIOUS

(* A step that puts something into x. *)
LEMMA PutStep ==
    ASSUME JsonInv, NEW x \in JsonVars, NEW type, type \in {"array", "object"},
           NEW e, NEW te, \/ e = 0 /\ te = Jsons!NullValue
                          \/ \E y \in JsonVars \ {x} : e = json[y] /\ te = tree[y],
           NEW k, NEW more,
           Added(k, Jsons!Become(heap, json[x], Jsons!New, type)[Jsons!Target(json[x], Jsons!New, type)],
                 more, e),
           json' = PutJs(json, x, Jsons!Target(json[x], Jsons!New, type), e),
           heap' = Jsons!With(Jsons!Become(heap, json[x], Jsons!New, type),
                              Jsons!Target(json[x], Jsons!New, type), k),
           tree' = PutTree(json, tree, x, e, k, more, te)
    PROVE  JsonInv'
  <1>1. JsonOk(json, heap, tree)
    BY DEF JsonInv
  <1>2. Jsons!New \in Nat \ {0} /\ Jsons!New \notin DOMAIN heap
    BY <1>1, RootShape, JsonFresh DEF Jsons!New
  <1>3. Jsons!Target(json[x], Jsons!New, type) = Home(json, heap, x, Jsons!New, type)
    BY DEF Jsons!Target, Jsons!IsA, Jsons!Null, Home
  <1>4. JsonOk(json', heap', tree')
    BY <1>1, <1>2, <1>3, PutOk
  <1>5. QED  BY <1>4 DEF JsonInv

(* The array or object before something is put into it. *)
RoomFor(c, type, first) ==
    /\ Roomy(Jsons!Room(c, first)) /\ Jsons!Room(c, first).type = type
    /\ Jsons!Room(c, first).items = c.items /\ c.type = type /\ c.items \in Seq(Nat \cup Names)

LEMMA RoomStep ==
    ASSUME JsonInv, NEW x \in JsonVars, NEW type, type \in {"array", "object"},
           NEW first, first \in {8, 16}
    PROVE  RoomFor(Jsons!Become(heap, json[x], Jsons!New, type)[Jsons!Target(json[x], Jsons!New, type)],
                   type, first)
  <1> DEFINE c == Jsons!Become(heap, json[x], Jsons!New, type)[Jsons!Target(json[x], Jsons!New, type)]
  <1>1. JsonOk(json, heap, tree)
    BY DEF JsonInv
  <1>2. Jsons!New \in Nat \ {0}
    BY <1>1, RootShape, JsonFresh DEF Jsons!New
  <1>3. Jsons!Target(json[x], Jsons!New, type) = Home(json, heap, x, Jsons!New, type)
    BY DEF Jsons!Target, Jsons!IsA, Jsons!Null, Home
  <1>4. c \in Boxes /\ Len(c.items) <= c.cap /\ c.type = type
    BY <1>1, <1>2, <1>3, BecomeBox
  <1> HIDE DEF c
  <1>5. RoomFor(c, type, first)
    BY <1>4, RoomFacts DEF Boxes, RoomFor
  <1>6. QED  BY <1>5 DEF c

(* What t becomes with more in it. *)
Given(t, k, more, te) == [type |-> k.type, items |-> Jsons!Items(t, k.type) \o ValuesOf(k, more, te)]

Both(f, x, a, y, b) == [f EXCEPT ![x] = a, ![y] = b]

(* Variables and values when what y has is put into x. *)
LEMMA OthersValue ==
    ASSUME JsonInv
    PROVE  /\ json = [z \in JsonVars |-> json[z]] /\ tree = [z \in JsonVars |-> tree[z]]
           /\ \A z \in JsonVars : json[z] = 0 => tree[z] = Jsons!NullValue
           /\ \A z, c \in JsonVars : json[z] # 0 /\ json[c] = json[z] => c = z
           /\ \A z \in JsonVars : json[z] \in Nat
  <1>1. JsonOk(json, heap, tree)
    BY DEF JsonInv
  <1>2. \A z \in JsonVars : json[z] \in Nat
    BY <1>1, RootShape
  <1>3. QED  BY <1>1, <1>2, RootShape

LEMMA TakenFrom ==
    ASSUME JsonInv, NEW x \in JsonVars, NEW y \in JsonVars, x # y, NEW h
    PROVE  PutJs(json, x, h, json[y]) = Both(json, x, h, y, 0)
  <1> DEFINE F(z) == IF z = x THEN h ELSE IF json[z] = json[y] THEN 0 ELSE json[z]
             G(z) == IF z = y THEN 0 ELSE IF z = x THEN h ELSE json[z]
  <1>1. \A z \in JsonVars : F(z) = G(z)
    BY OthersValue
  <1>2. [json EXCEPT ![x] = h, ![y] = 0] = [z \in JsonVars |-> G(z)]
    BY OthersValue
  <1>3. PutJs(json, x, h, json[y]) = [z \in JsonVars |-> F(z)]
    BY DEF PutJs
  <1> HIDE DEF F, G
  <1>4. QED  BY <1>1, <1>2, <1>3 DEF Both

LEMMA TreeTaken ==
    ASSUME JsonInv, NEW x \in JsonVars, NEW y \in JsonVars, x # y, NEW k, NEW more
    PROVE  PutTree(json, tree, x, json[y], k, more, tree[y])
                = Both(tree, x, Given(tree[x], k, more, tree[y]), y, Jsons!NullValue)
  <1> DEFINE t == Given(tree[x], k, more, tree[y])
             F(z) == IF z = x THEN t ELSE IF json[z] = json[y] THEN Jsons!NullValue ELSE tree[z]
             G(z) == IF z = y THEN Jsons!NullValue ELSE IF z = x THEN t ELSE tree[z]
  <1>1. \A z \in JsonVars : F(z) = G(z)
    BY OthersValue
  <1>2. [tree EXCEPT ![x] = t, ![y] = Jsons!NullValue] = [z \in JsonVars |-> G(z)]
    BY OthersValue
  <1>3. PutTree(json, tree, x, json[y], k, more, tree[y]) = [z \in JsonVars |-> F(z)]
    BY DEF PutTree, Given
  <1> HIDE DEF F, G
  <1>4. QED  BY <1>1, <1>2, <1>3 DEF Both

LEMMA JsonPushStep ==
    ASSUME JsonInv, NEW x \in JsonVars, NEW y \in JsonVars, Jsons!push_back(x, y)
    PROVE  JsonInv'
  <1> DEFINE type == "array"
             h == Jsons!Target(json[x], Jsons!New, type)
             c == Jsons!Become(heap, json[x], Jsons!New, type)[h]
             a == Jsons!Room(c, 8)
             k == Jsons!pushed(a, json[y])
             more == <<json[y]>>
             t == [type |-> type, items |-> Append(Jsons!Items(tree[x], type), tree[y])]
  <1>1. /\ x # y /\ json' = Both(json, x, h, y, 0)
        /\ heap' = Jsons!With(Jsons!Become(heap, json[x], Jsons!New, type), h, k)
        /\ tree' = Both(tree, x, t, y, Jsons!NullValue)
    BY DEF Jsons!push_back, Jsons!Null, Both
  <1>2. Roomy(a) /\ a.type = type /\ a.items = c.items /\ c.type = type /\ c.items \in Seq(Nat \cup Names)
    <2>1. RoomFor(c, type, 8)
      BY RoomStep
    <2>2. QED  BY <2>1 DEF RoomFor
  <1>3. json[y] \in Nat /\ json[y] \in Nat \cup Names
    BY OthersValue
  <1> HIDE DEF a, c
  <1>4. Roomy(k) /\ k.type = type /\ k.items = Append(c.items, json[y])
    BY <1>2, <1>3, PushedFacts
  <1> HIDE DEF k
  <1>5. Added(k, c, more, json[y])
    <2>1. k.items = c.items \o more
      BY <1>2, <1>4, OneBehind
    <2>2. more \in Seq(Nat \cup Names) /\ Len(more) = 1 /\ more[1] = json[y]
      BY <1>3
    <2>3. ~KeyAt(k.type, 1) /\ k.type # "object"
      BY <1>4 DEF KeyAt
    <2> HIDE DEF more
    <2>4. \A i \in 1..Len(more) : i = 1
      BY <2>2
    <2>5. \A i \in 1..Len(more) : IF KeyAt(k.type, i) THEN more[i] \in Names ELSE more[i] \in {0, json[y]}
      BY <2>2, <2>3, <2>4
    <2>6. \A i, j \in 1..Len(more) : i # j /\ more[i] = more[j] => more[i] = 0 \/ more[i] \in Names
      BY <2>4
    <2>7. 1 \in 1..Len(more)
      BY <2>2
    <2>8. QED  BY <2>1, <2>2, <2>3, <2>5, <2>6, <2>7, <1>2, <1>4 DEF Added, Roomy
  <1>6. ValuesOf(k, more, tree[y]) = <<tree[y]>>
    <2>1. JsonOk(json, heap, tree)
      BY DEF JsonInv
    <2>2. json[y] = 0 => tree[y] = Jsons!NullValue
      BY <2>1, RootShape
    <2>3. ~KeyAt(k.type, 1)
      BY <1>4 DEF KeyAt
    <2> DEFINE V(i) == IF KeyAt(k.type, i) THEN more[i] ELSE IF more[i] = 0 THEN Jsons!NullValue ELSE tree[y]
    <2>4. V(1) = tree[y]
      BY <2>2, <2>3
    <2> HIDE DEF V
    <2>5. [i \in 1..1 |-> V(i)] = <<tree[y]>>
      BY <2>4
    <2>6. QED  BY <2>5 DEF ValuesOf, V
  <1>7. t = Given(tree[x], k, more, tree[y])
    <2>1. JsonOk(json, heap, tree)
      BY DEF JsonInv
    <2>2. PICK S : Jsons!Items(tree[x], type) \in Seq(S)
      BY <2>1, ItemsSeq
    <2>3. Append(Jsons!Items(tree[x], type), tree[y]) = Jsons!Items(tree[x], type) \o <<tree[y]>>
      BY <2>2, OneBehind
    <2>4. QED  BY <2>3, <1>4, <1>6 DEF Given
  <1> HIDE DEF t, more, h
  <1>8. /\ json' = PutJs(json, x, h, json[y])
        /\ tree' = PutTree(json, tree, x, json[y], k, more, tree[y])
    BY <1>1, <1>7, TakenFrom, TreeTaken
  <1>9. QED  BY <1>1, <1>5, <1>8, PutStep DEF c, h

LEMMA AddMemberStep ==
    ASSUME JsonInv, NEW x \in JsonVars, NEW y \in JsonVars, NEW key \in Names,
           Jsons!add_member(x, key, y)
    PROVE  JsonInv'
  <1> DEFINE type == "object"
             h == Jsons!Target(json[x], Jsons!New, type)
             c == Jsons!Become(heap, json[x], Jsons!New, type)[h]
             a == Jsons!Room(c, 16)
             b == Jsons!pushed(a, key)
             k == Jsons!pushed(b, json[y])
             more == <<key, json[y]>>
             t == [type |-> type, items |-> Jsons!Items(tree[x], type) \o <<key, tree[y]>>]
  <1>1. /\ x # y /\ json' = Both(json, x, h, y, 0)
        /\ heap' = Jsons!With(Jsons!Become(heap, json[x], Jsons!New, type), h, k)
        /\ tree' = Both(tree, x, t, y, Jsons!NullValue)
    BY DEF Jsons!add_member, Jsons!Null, Both
  <1>2. Roomy(a) /\ a.type = type /\ a.items = c.items /\ c.type = type /\ c.items \in Seq(Nat \cup Names)
    <2>1. RoomFor(c, type, 16)
      BY RoomStep
    <2>2. QED  BY <2>1 DEF RoomFor
  <1>3. json[y] \in Nat /\ json[y] \in Nat \cup Names
    BY OthersValue
  <1> HIDE DEF a, c
  <1>4. Roomy(b) /\ b.type = type /\ b.items = Append(c.items, key)
    BY <1>2, PushedFacts
  <1> HIDE DEF b
  <1>5. Roomy(k) /\ k.type = type /\ k.items = Append(Append(c.items, key), json[y])
    BY <1>3, <1>4, PushedFacts
  <1> HIDE DEF k
  <1>6. more \in Seq(Nat \cup Names) /\ Len(more) = 2 /\ more[1] = key /\ more[2] = json[y]
    BY <1>3
  <1>7. KeyAt(k.type, 1) /\ ~KeyAt(k.type, 2)
    BY <1>5 DEF KeyAt
  <1>8. Added(k, c, more, json[y])
    <2>1. k.items = c.items \o more
      BY <1>2, <1>3, <1>5, TwoBehind
    <2> HIDE DEF more
    <2>2. \A i \in 1..Len(more) : i = 1 \/ i = 2
      BY <1>6
    <2>3. \A i \in 1..Len(more) : IF KeyAt(k.type, i) THEN more[i] \in Names ELSE more[i] \in {0, json[y]}
      BY <2>2, <1>6, <1>7
    <2>4. \A i, j \in 1..Len(more) : i # j /\ more[i] = more[j] => more[i] = 0 \/ more[i] \in Names
      BY <2>2, <1>6
    <2>5. 2 \in 1..Len(more)
      BY <1>6
    <2>6. Len(more) % 2 = 0
      BY <1>6
    <2>7. QED  BY <2>1, <2>3, <2>4, <2>5, <2>6, <1>2, <1>5, <1>6 DEF Added, Roomy
  <1>9. ValuesOf(k, more, tree[y]) = <<key, tree[y]>>
    <2>1. JsonOk(json, heap, tree)
      BY DEF JsonInv
    <2>2. json[y] = 0 => tree[y] = Jsons!NullValue
      BY <2>1, RootShape
    <2> DEFINE V(i) == IF KeyAt(k.type, i) THEN more[i] ELSE IF more[i] = 0 THEN Jsons!NullValue ELSE tree[y]
    <2>3. V(1) = key /\ V(2) = tree[y]
      BY <2>2, <1>6, <1>7
    <2> HIDE DEF V
    <2>4. [i \in 1..2 |-> V(i)] = <<key, tree[y]>>
      BY <2>3
    <2>5. QED  BY <2>4 DEF ValuesOf, V
  <1>10. t = Given(tree[x], k, more, tree[y])
    BY <1>5, <1>9 DEF Given
  <1> HIDE DEF t, more, h
  <1>11. /\ json' = PutJs(json, x, h, json[y])
         /\ tree' = PutTree(json, tree, x, json[y], k, more, tree[y])
    BY <1>1, <1>10, TakenFrom, TreeTaken
  <1>12. QED  BY <1>1, <1>8, <1>11, PutStep DEF c, h

(* One null value after the other. *)
Pushes(f, a, n) == f = [i \in 0..n |-> IF i = 0 THEN a ELSE Jsons!pushed(f[i - 1], 0)]

LEMMA PushesExist ==
    ASSUME NEW a, Roomy(a), NEW n \in Nat
    PROVE  \E f : Pushes(f, a, n)
  <1> DEFINE S == {b \in Boxes : Roomy(b)}
             G == [b \in S |-> Jsons!pushed(b, 0)]
  <1>1. \A b \in S : Jsons!pushed(b, 0) \in S
    <2> SUFFICES ASSUME NEW b, Roomy(b) PROVE Jsons!pushed(b, 0) \in S
      OBVIOUS
    <2>1. 0 \in Nat \cup Names
      OBVIOUS
    <2>2. Roomy(Jsons!pushed(b, 0))
      BY <2>1, PushedFacts
    <2>3. QED  BY <2>2 DEF Roomy
  <1>2. G \in [S -> S] /\ \A b \in S : G[b] = Jsons!pushed(b, 0)
    BY <1>1
  <1>3. a \in S
    BY DEF Roomy
  <1> HIDE DEF G, S
  <1>4. PICK f : f \in [0..n -> S] /\ f[0] = a /\ \A i \in 1..n : f[i] = G[f[i - 1]]
    <2>1. \E f : Iteration(f, S, a, G, n)
      BY <1>2, <1>3, Iterates
    <2>2. QED  BY <2>1 DEF Iteration
  <1>5. ASSUME NEW i \in 0..n PROVE f[i] = IF i = 0 THEN a ELSE Jsons!pushed(f[i - 1], 0)
    <2>1. CASE i = 0
      BY <2>1, <1>4
    <2>2. CASE i # 0
      <3>1. i \in 1..n /\ i - 1 \in 0..n
        BY <2>2
      <3>2. QED  BY <3>1, <2>2, <1>2, <1>4
    <2>3. QED  BY <2>1, <2>2
  <1> DEFINE F(i) == IF i = 0 THEN a ELSE Jsons!pushed(f[i - 1], 0)
  <1>6. \A i \in 0..n : f[i] = F(i)
    BY <1>5
  <1> HIDE DEF F
  <1>7. f = [i \in 0..n |-> F(i)]
    BY <1>4, <1>6
  <1>8. Pushes(f, a, n)
    BY <1>7 DEF Pushes, F
  <1>9. QED  BY <1>8

Nulls(n) == [i \in 1..n |-> 0]

LEMMA NullsFacts ==
    ASSUME NEW n \in Nat
    PROVE  /\ Nulls(n) \in Seq({0}) /\ Nulls(n) \in Seq(Nat \cup Names) /\ Len(Nulls(n)) = n
           /\ \A i \in 1..n : Nulls(n)[i] = 0
           /\ Nulls(n + 1) = Append(Nulls(n), 0) /\ Nulls(0) = <<>>
  <1>1. Nulls(n) \in [1..n -> {0}] /\ Nulls(n) \in [1..n -> Nat \cup Names]
    BY DEF Nulls
  <1>2. Nulls(n) \in Seq({0}) /\ Nulls(n) \in Seq(Nat \cup Names) /\ Len(Nulls(n)) = n
    BY <1>1
  <1>3. \A i \in 1..n : Nulls(n)[i] = 0
    BY DEF Nulls
  <1>4. Nulls(n + 1) = Append(Nulls(n), 0) /\ Nulls(0) = <<>>
    BY DEF Nulls
  <1>5. QED  BY <1>2, <1>3, <1>4

LEMMA PushesFacts ==
    ASSUME NEW a, Roomy(a), NEW n \in Nat, NEW f, Pushes(f, a, n)
    PROVE  Roomy(f[n]) /\ f[n].type = a.type /\ f[n].items = a.items \o Nulls(n)
  <1> DEFINE P(k) == Roomy(f[k]) /\ f[k].type = a.type /\ f[k].items = a.items \o Nulls(k)
             T == {k \in Nat : k <= n => P(k)}
  <1>1. f[0] = a /\ \A k \in 1..n : f[k] = Jsons!pushed(f[k - 1], 0)
    <2> DEFINE F(i) == IF i = 0 THEN a ELSE Jsons!pushed(f[i - 1], 0)
    <2>1. f = [i \in 0..n |-> F(i)]
      BY DEF Pushes
    <2>2. F(0) = a /\ \A k \in 1..n : F(k) = Jsons!pushed(f[k - 1], 0)
      OBVIOUS
    <2> HIDE DEF F
    <2>3. QED  BY <2>1, <2>2
  <1>2. a.items \in Seq(Nat \cup Names)
    BY DEF Roomy, Boxes
  <1>3. P(0)
    <2>1. a.items \o <<>> = a.items
      BY <1>2
    <2>2. QED  BY <2>1, <1>1, NullsFacts
  <1>4. ASSUME NEW k \in Nat, P(k), k + 1 <= n PROVE P(k + 1)
    <2>1. f[k + 1] = Jsons!pushed(f[k], 0)
      BY <1>1, <1>4
    <2>2. 0 \in Nat \cup Names
      OBVIOUS
    <2>3. /\ Roomy(f[k + 1]) /\ f[k + 1].type = a.type
          /\ f[k + 1].items = Append(f[k].items, 0)
      BY <2>1, <2>2, <1>4, PushedFacts
    <2>4. Append(a.items \o Nulls(k), 0) = a.items \o Nulls(k + 1)
      <3>1. Nulls(k) \in Seq(Nat \cup Names) /\ Nulls(k + 1) = Append(Nulls(k), 0)
        BY <1>4, NullsFacts
      <3> DEFINE S == Nat \cup Names
                 b == a.items
                 c == Nulls(k)
                 e == 0
      <3>2. b \in Seq(S) /\ c \in Seq(S) /\ e \in S
        BY <3>1, <1>2
      <3> HIDE DEF S, b, c, e
      <3>3. Append(b \o c, e) = b \o Append(c, e)
        BY <3>2
      <3>4. QED  BY <3>1, <3>3 DEF b, c, e
    <2>5. QED  BY <2>3, <2>4, <1>4
  <1> HIDE DEF P
  <1>5. \A k \in T : k \in Nat => k + 1 \in T
    BY <1>4
  <1>6. 0 \in T
    BY <1>3
  <1>7. n \in T
    <2> HIDE DEF T
    <2>1. QED  BY <1>5, <1>6, NatClosed
  <1>8. P(n)
    BY <1>7
  <1>9. QED  BY <1>8 DEF P

LEMMA PushNullsStep ==
    ASSUME JsonInv, NEW x \in JsonVars, NEW n \in Repeats, Jsons!PushNulls(x, n)
    PROVE  JsonInv'
  <1> DEFINE type == "array"
             h == Jsons!Target(json[x], Jsons!New, type)
             c == Jsons!Become(heap, json[x], Jsons!New, type)[h]
             a == Jsons!Room(c, 8)
             push == CHOOSE f : Pushes(f, a, n)
             k == push[n]
             more == Nulls(n)
             t == [type |-> type, items |-> Jsons!Items(tree[x], type) \o [i \in 1..n |-> Jsons!NullValue]]
  <1>1. /\ json' = [json EXCEPT ![x] = h]
        /\ heap' = Jsons!With(Jsons!Become(heap, json[x], Jsons!New, type), h, k)
        /\ tree' = [tree EXCEPT ![x] = t]
    BY DEF Jsons!PushNulls, Jsons!Null, Pushes
  <1>2. n \in Nat
    BY HeadersAssumption DEF Jsons!HeadersAssumption
  <1>3. Roomy(a) /\ a.type = type /\ a.items = c.items /\ c.type = type /\ c.items \in Seq(Nat \cup Names)
    <2>1. RoomFor(c, type, 8)
      BY RoomStep
    <2>2. QED  BY <2>1 DEF RoomFor
  <1> HIDE DEF a, c
  <1>4. Pushes(push, a, n)
    BY <1>2, <1>3, PushesExist
  <1> HIDE DEF push
  <1>5. Roomy(k) /\ k.type = type /\ k.items = c.items \o more
    <2>1. Roomy(a) /\ n \in Nat /\ Pushes(push, a, n)
      BY <1>2, <1>3, <1>4
    <2>2. Roomy(push[n]) /\ push[n].type = a.type /\ push[n].items = a.items \o Nulls(n)
      BY <2>1, PushesFacts
    <2>3. QED  BY <2>2, <1>3
  <1> HIDE DEF k
  <1>6. more \in Seq(Nat \cup Names) /\ Len(more) = n /\ \A i \in 1..n : more[i] = 0
    BY <1>2, NullsFacts
  <1>7. ~KeyAt(k.type, 1) /\ \A i \in 1..n : ~KeyAt(k.type, i)
    BY <1>5 DEF KeyAt
  <1>8. Added(k, c, more, 0)
    <2> HIDE DEF more
    <2>1. \A i \in 1..Len(more) : IF KeyAt(k.type, i) THEN more[i] \in Names ELSE more[i] \in {0, 0}
      BY <1>6, <1>7
    <2>2. \A i, j \in 1..Len(more) : i # j /\ more[i] = more[j] => more[i] = 0 \/ more[i] \in Names
      BY <1>6
    <2>3. k.type # "object"
      BY <1>5
    <2>4. QED  BY <2>1, <2>2, <2>3, <1>3, <1>5, <1>6 DEF Added, Roomy
  <1>9. ValuesOf(k, more, Jsons!NullValue) = [i \in 1..n |-> Jsons!NullValue]
    BY <1>6, <1>7 DEF ValuesOf
  <1>10. json' = PutJs(json, x, h, 0)
    <2> DEFINE F(z) == IF z = x THEN h ELSE IF json[z] = 0 THEN 0 ELSE json[z]
               G(z) == IF z = x THEN h ELSE json[z]
    <2>1. \A z \in JsonVars : F(z) = G(z)
      OBVIOUS
    <2>2. [json EXCEPT ![x] = h] = [z \in JsonVars |-> G(z)]
      BY OthersValue
    <2>3. PutJs(json, x, h, 0) = [z \in JsonVars |-> F(z)]
      BY DEF PutJs
    <2> HIDE DEF F, G
    <2>4. QED  BY <1>1, <2>1, <2>2, <2>3
  <1>11. tree' = PutTree(json, tree, x, 0, k, more, Jsons!NullValue)
    <2> DEFINE F(z) == IF z = x THEN t ELSE IF json[z] = 0 THEN Jsons!NullValue ELSE tree[z]
               G(z) == IF z = x THEN t ELSE tree[z]
    <2>1. \A z \in JsonVars : F(z) = G(z)
      BY OthersValue
    <2>2. [tree EXCEPT ![x] = t] = [z \in JsonVars |-> G(z)]
      BY OthersValue
    <2>3. PutTree(json, tree, x, 0, k, more, Jsons!NullValue) = [z \in JsonVars |-> F(z)]
      BY <1>5, <1>9 DEF PutTree
    <2> HIDE DEF F, G
    <2>4. QED  BY <1>1, <2>1, <2>2, <2>3
  <1> HIDE DEF t, more, h
  <1>12. QED  BY <1>1, <1>8, <1>10, <1>11, PutStep DEF c, h

(* Two variables change places. *)
LEMMA SwapOk ==
    ASSUME NEW js, NEW m, NEW tr, JsonOk(js, m, tr), NEW x \in JsonVars, NEW y \in JsonVars
    PROVE  JsonOk(Both(js, x, js[y], y, js[x]), m, Both(tr, x, tr[y], y, tr[x]))
  <1>1. PICK d, v : Rooted(js, m, tr, d, v)
    BY DEF JsonOk
  <1> DEFINE p(z) == IF z = y THEN x ELSE IF z = x THEN y ELSE z
             js2 == Both(js, x, js[y], y, js[x])
             tr2 == Both(tr, x, tr[y], y, tr[x])
  <1>2. /\ js \in [JsonVars -> Addresses(m)] /\ tr = [z \in JsonVars |-> v[js[z]]]
        /\ \A z, c \in JsonVars : z # c => Grove(d, js[z]) \cap Grove(d, js[c]) = {}
        /\ \A g \in DOMAIN m : \E z \in JsonVars : g \in Grove(d, js[z])
    BY <1>1 DEF Rooted
  <1>3. \A z \in JsonVars : p(z) \in JsonVars /\ p(p(z)) = z
    OBVIOUS
  <1>4. js2 = [z \in JsonVars |-> js[p(z)]] /\ tr2 = [z \in JsonVars |-> tr[p(z)]]
    <2>1. \A z \in JsonVars : js2[z] = js[p(z)] /\ tr2[z] = tr[p(z)]
      BY <1>2 DEF Both
    <2>2. js2 = [z \in JsonVars |-> js2[z]] /\ tr2 = [z \in JsonVars |-> tr2[z]]
      BY <1>2 DEF Both
    <2> HIDE DEF js2, tr2, p
    <2>3. QED  BY <2>1, <2>2
  <1> HIDE DEF p, js2, tr2
  <1>5. js2 \in [JsonVars -> Addresses(m)]
    BY <1>2, <1>3, <1>4
  <1>6. tr2 = [z \in JsonVars |-> v[js2[z]]]
    <2>1. \A z \in JsonVars : tr[p(z)] = v[js2[z]]
      BY <1>2, <1>3, <1>4
    <2>2. QED  BY <2>1, <1>4
  <1>7. \A z, c \in JsonVars : z # c => Grove(d, js2[z]) \cap Grove(d, js2[c]) = {}
    BY <1>2, <1>3, <1>4
  <1>8. \A g \in DOMAIN m : \E z \in JsonVars : g \in Grove(d, js2[z])
    <2> SUFFICES ASSUME NEW g \in DOMAIN m PROVE \E z \in JsonVars : g \in Grove(d, js2[z])
      OBVIOUS
    <2>1. PICK z \in JsonVars : g \in Grove(d, js[z])
      BY <1>2
    <2>2. js2[p(z)] = js[z] /\ p(z) \in JsonVars
      BY <1>3, <1>4
    <2>3. QED  BY <2>1, <2>2
  <1>9. Rooted(js2, m, tr2, d, v)
    BY <1>1, <1>5, <1>6, <1>7, <1>8 DEF Rooted
  <1>10. QED  BY <1>9 DEF JsonOk, js2, tr2

LEMMA JsonSwapStep ==
    ASSUME JsonInv, NEW x \in JsonVars, NEW y \in JsonVars, Jsons!swap(x, y)
    PROVE  JsonInv'
  <1>1. JsonOk(json, heap, tree)
    BY DEF JsonInv
  <1>2. json' = Both(json, x, json[y], y, json[x]) /\ tree' = Both(tree, x, tree[y], y, tree[x])
        /\ heap' = heap
    BY DEF Jsons!swap, Both
  <1>3. QED  BY <1>1, <1>2, SwapOk DEF JsonInv

LEMMA ResetStep ==
    ASSUME JsonInv, NEW x \in JsonVars, Jsons!Reset(x)
    PROVE  JsonInv'
  <1>1. JsonOk(json, heap, tree)
    BY DEF JsonInv
  <1>2. JsonOk([json EXCEPT ![x] = 0], Jsons!reset(heap, json[x]), [tree EXCEPT ![x] = Jsons!NullValue])
    BY <1>1, ResetOk
  <1>3. QED  BY <1>2 DEF JsonInv, Jsons!Reset, Jsons!Null

LEMMA MoveStep ==
    ASSUME JsonInv, NEW x \in JsonVars, NEW y \in JsonVars, Jsons!Move(x, y)
    PROVE  JsonInv'
  <1> DEFINE js == [json EXCEPT ![x] = 0]
             m == Jsons!reset(heap, json[x])
             tr == [tree EXCEPT ![x] = Jsons!NullValue]
  <1>1. JsonOk(json, heap, tree)
    BY DEF JsonInv
  <1>2. JsonOk(js, m, tr)
    BY <1>1, ResetOk
  <1>3. x # y /\ heap' = m
    BY DEF Jsons!Move
  <1>4. json' = Both(js, x, js[y], y, js[x]) /\ tree' = Both(tr, x, tr[y], y, tr[x])
    BY <1>3, OthersValue DEF Jsons!Move, Jsons!Null, Both
  <1> HIDE DEF js, m, tr
  <1>5. JsonOk(json', heap', tree')
    BY <1>2, <1>3, <1>4, SwapOk
  <1>6. QED  BY <1>5 DEF JsonInv

LEMMA MakeStep ==
    ASSUME JsonInv, NEW x \in JsonVars, Jsons!Make(x)
    PROVE  JsonInv'
  <1> DEFINE js == [json EXCEPT ![x] = 0]
             m == Jsons!reset(heap, json[x])
             tr == [tree EXCEPT ![x] = Jsons!NullValue]
             q == Jsons!New
  <1>1. JsonOk(json, heap, tree)
    BY DEF JsonInv
  <1>2. JsonOk(js, m, tr)
    BY <1>1, ResetOk
  <1>3. q \in Nat \ {0} /\ q \notin DOMAIN heap
    BY <1>1, RootShape, JsonFresh DEF Jsons!New
  <1>4. q \notin DOMAIN m
    BY <1>3 DEF Jsons!reset
  <1>5. js[x] = 0
    BY OthersValue
  <1>6. PICK h, t :
          /\ \/ h \in Scalars /\ t = h
             \/ \E type \in {"array", "object"} :
                   h = Jsons!Container(type) /\ t = [type |-> type, items |-> <<>>]
          /\ Jsons!Assign(x, h, t)
    BY DEF Jsons!Make
  <1>7. json' = [js EXCEPT ![x] = q] /\ heap' = Jsons!With(m, q, h) /\ tree' = [tr EXCEPT ![x] = t]
    BY <1>6, OthersValue DEF Jsons!Assign
  <1> HIDE DEF js, m, tr, q
  <1>8. JsonOk([js EXCEPT ![x] = q], Jsons!With(m, q, h), [tr EXCEPT ![x] = t])
    BY <1>2, <1>3, <1>4, <1>5, <1>6, AddOk
  <1>9. QED  BY <1>7, <1>8 DEF JsonInv

LEMMA JsonInit ==
    ASSUME Jsons!Init
    PROVE  JsonInv
  <1> DEFINE d == [g \in {} |-> {}]
             v == [g \in {0} |-> Jsons!NullValue]
  <1>1. json = [x \in JsonVars |-> 0] /\ heap = [g \in {} |-> 0] /\ tree = [x \in JsonVars |-> Jsons!NullValue]
    BY DEF Jsons!Init, Jsons!Null, Jsons!Nothing
  <1>2. DOMAIN heap = {} /\ heap = [g \in DOMAIN heap |-> heap[g]]
    BY <1>1
  <1>3. Forest(heap, d)
    BY <1>2, FS_EmptySet DEF Forest
  <1>4. Valued(heap, v)
    <2>1. [g \in DOMAIN heap \cup {0} |-> ValueAt(heap, v, g)] = [g \in {0} |-> ValueAt(heap, v, g)]
      BY <1>2
    <2> DEFINE F(g) == ValueAt(heap, v, g)
    <2>2. F(0) = Jsons!NullValue
      BY DEF ValueAt
    <2> HIDE DEF F
    <2>3. [g \in {0} |-> F(g)] = v
      BY <2>2
    <2>4. QED  BY <2>1, <2>3 DEF Valued, F
  <1>5. Rooted(json, heap, tree, d, v)
    <2>1. json \in [JsonVars -> Addresses(heap)]
      BY <1>1 DEF Addresses
    <2>2. tree = [x \in JsonVars |-> v[json[x]]]
      BY <1>1
    <2>3. \A x \in JsonVars : Grove(d, json[x]) = {}
      BY <1>1 DEF Grove
    <2> HIDE DEF d, v
    <2>4. QED  BY <2>1, <2>2, <2>3, <1>2, <1>3, <1>4 DEF Rooted
  <1>6. QED  BY <1>5 DEF JsonInv, JsonOk

-----------------------------------------------------------------------------
(* What an iterator passes. *)
Walks(f, items, n, step) ==
    f = [p \in {q \in 0..n : q % step = 0} |->
            IF p = n THEN <<>> ELSE <<items[p + step]>> \o f[p + step]]

LEMMA WalkExists ==
    ASSUME NEW S, NEW items \in Seq(S), NEW step, step \in {1, 2}, Len(items) % step = 0
    PROVE  \E f : Walks(f, items, Len(items), step)
  <1> DEFINE n == Len(items)
             D == {q \in 0..n : q % step = 0}
             g(p) == [i \in 1..((n - p) \div step) |-> items[p + i * step]]
             F(p) == IF p = n THEN <<>> ELSE <<items[p + step]>> \o g(p + step)
             f == [p \in D |-> g(p)]
  <1>1. n \in Nat
    OBVIOUS
  <1>2. ASSUME NEW p \in D PROVE /\ p \in 0..n /\ g(p) = F(p) /\ (p # n => p + step \in D)
    <2>1. p \in 0..n /\ p % step = 0
      OBVIOUS
    <2> HIDE DEF n
    <2>2. CASE p = n
      <3>1. (n - p) \div step = 0
        BY <2>2, <1>1
      <3>2. [i \in 1..0 |-> items[p + i * step]] = <<>>
        OBVIOUS
      <3>3. QED  BY <2>1, <2>2, <3>1, <3>2
    <2>3. CASE p # n
      <3> DEFINE k == (n - p) \div step
                 A(i) == items[p + i * step]
                 B(i) == items[(p + step) + i * step]
      <3>1. CASE step = 1
        <4>1. p + step \in D /\ k \in Nat \ {0} /\ (n - (p + step)) \div step = k - 1
          BY <3>1, <2>1, <2>3, <1>1
        <4>2. A(1) = items[p + step] /\ \A i \in 1..(k - 1) : A(i + 1) = B(i)
          BY <3>1, <2>1, <1>1, <4>1
        <4>3. F(p) = <<items[p + step]>> \o [i \in 1..(k - 1) |-> B(i)]
          BY <4>1, <2>3
        <4>4. g(p) = [i \in 1..k |-> A(i)]
          OBVIOUS
        <4> HIDE DEF A, B, k
        <4>5. [i \in 1..k |-> A(i)] = <<A(1)>> \o [i \in 1..(k - 1) |-> B(i)]
          BY <4>1, <4>2
        <4>6. QED  BY <4>1, <4>2, <4>3, <4>4, <4>5, <2>1
      <3>2. CASE step = 2
        <4>1. p + step \in D /\ k \in Nat \ {0} /\ (n - (p + step)) \div step = k - 1
          <5>1. n % 2 = 0 /\ p % 2 = 0
            BY <3>2, <2>1 DEF n
          <5>2. p + 2 <= n /\ (p + 2) % 2 = 0
            BY <5>1, <2>1, <2>3, <1>1
          <5>3. (n - p) \div 2 \in Nat \ {0} /\ (n - (p + 2)) \div 2 = ((n - p) \div 2) - 1
            BY <5>1, <5>2, <2>1, <1>1
          <5>4. QED  BY <5>2, <5>3, <3>2, <2>1, <1>1
        <4>2. A(1) = items[p + step] /\ \A i \in 1..(k - 1) : A(i + 1) = B(i)
          BY <3>2, <2>1, <1>1, <4>1
        <4>3. F(p) = <<items[p + step]>> \o [i \in 1..(k - 1) |-> B(i)]
          BY <4>1, <2>3
        <4>4. g(p) = [i \in 1..k |-> A(i)]
          OBVIOUS
        <4> HIDE DEF A, B, k
        <4>5. [i \in 1..k |-> A(i)] = <<A(1)>> \o [i \in 1..(k - 1) |-> B(i)]
          BY <4>1, <4>2
        <4>6. QED  BY <4>1, <4>2, <4>3, <4>4, <4>5, <2>1
      <3>3. QED  BY <3>1, <3>2
    <2>4. QED  BY <2>2, <2>3
  <1>3. \A p \in D : f[p] = IF p = n THEN <<>> ELSE <<items[p + step]>> \o f[p + step]
    <2> HIDE DEF g, D, n
    <2>1. QED  BY <1>2
  <1> DEFINE H(p) == IF p = n THEN <<>> ELSE <<items[p + step]>> \o f[p + step]
  <1>4. \A p \in D : f[p] = H(p)
    BY <1>3
  <1>5. f = [p \in D |-> f[p]]
    OBVIOUS
  <1> HIDE DEF H, f, D, n
  <1>6. f = [p \in D |-> H(p)]
    BY <1>4, <1>5
  <1>7. Walks(f, items, n, step)
    BY <1>6 DEF Walks, H, D
  <1>8. QED  BY <1>7 DEF n

LEMMA WalkLength ==
    ASSUME NEW S, NEW items \in Seq(S), NEW step, step \in {1, 2}, Len(items) % step = 0,
           NEW f, Walks(f, items, Len(items), step)
    PROVE  Len(f[0]) = Len(items) \div step
  <1> DEFINE n == Len(items)
             D == {q \in 0..n : q % step = 0}
             P(k) == \A p \in D : n - p = k * step => f[p] \in Seq(S) /\ Len(f[p]) = k
             T == {k \in Nat : P(k)}
  <1>1. n \in Nat /\ n % step = 0
    OBVIOUS
  <1>2. \A p \in D : f[p] = IF p = n THEN <<>> ELSE <<items[p + step]>> \o f[p + step]
    <2> DEFINE F(p) == IF p = n THEN <<>> ELSE <<items[p + step]>> \o f[p + step]
    <2>1. f = [p \in D |-> F(p)]
      BY DEF Walks
    <2> HIDE DEF D, F
    <2>2. \A p \in D : f[p] = F(p)
      BY <2>1
    <2>3. QED  BY <2>2 DEF F
  <1>3. \A i \in 1..n : items[i] \in S
    OBVIOUS
  <1> HIDE DEF n
  <1>4. P(0)
    <2> SUFFICES ASSUME NEW p \in D, n - p = 0 * step
                 PROVE  f[p] \in Seq(S) /\ Len(f[p]) = 0
      OBVIOUS
    <2>1. p = n
      <3>1. 0 * step = 0
        OBVIOUS
      <3>2. QED  BY <3>1, <1>1
    <2>2. f[p] = <<>>
      BY <2>1, <1>2
    <2>3. QED  BY <2>2
  <1>5. ASSUME NEW k \in Nat, P(k) PROVE P(k + 1)
    <2> SUFFICES ASSUME NEW p \in D, n - p = (k + 1) * step
                 PROVE  f[p] \in Seq(S) /\ Len(f[p]) = k + 1
      OBVIOUS
    <2>1. p # n /\ p + step \in D /\ n - (p + step) = k * step /\ p + step \in 1..n
      <3>1. CASE step = 1
        BY <3>1, <1>1, <1>5
      <3>2. CASE step = 2
        BY <3>2, <1>1, <1>5
      <3>3. QED  BY <3>1, <3>2
    <2>2. f[p] = <<items[p + step]>> \o f[p + step]
      BY <2>1, <1>2
    <2>3. f[p + step] \in Seq(S) /\ Len(f[p + step]) = k
      BY <2>1, <1>5
    <2>4. items[p + step] \in S
      BY <2>1, <1>3
    <2> HIDE DEF D
    <2>5. QED  BY <2>2, <2>3, <2>4
  <1> HIDE DEF P
  <1>6. \A k \in T : k \in Nat => k + 1 \in T
    BY <1>5
  <1>7. 0 \in T
    BY <1>4
  <1>8. n \div step \in Nat /\ n - 0 = (n \div step) * step /\ 0 \in D
    <2>1. CASE step = 1
      BY <2>1, <1>1
    <2>2. CASE step = 2
      BY <2>2, <1>1
    <2>3. QED  BY <2>1, <2>2
  <1>9. n \div step \in T
    <2> HIDE DEF T
    <2>1. QED  BY <1>6, <1>7, <1>8, NatClosed
  <1>10. P(n \div step)
    BY <1>9
  <1>11. QED  BY <1>8, <1>10 DEF P, n

(* Iterators, sizes and conversions of what stands at h. *)
LEMMA IteratedFacts ==
    ASSUME NEW h \in DOMAIN heap, h # 0, HeaderOk(heap, heap[h]), heap[h].type # "string"
    PROVE  Len(Jsons!Iterated(h)) = Jsons!size(h)
  <1> DEFINE type == heap[h].type
             items == heap[h].items
             n == Len(items)
  <1>1. CASE heap[h] \in Scalars
    <2>1. type \in {"bool", "int", "double"}
      BY <1>1, HeaderFacts
    <2>2. Jsons!Iterated(h) = <<>>
      BY <2>1 DEF Jsons!Iterated, Jsons!IsA
    <2>3. Jsons!size(h) = 0
      BY <2>1 DEF Jsons!size, Jsons!Null
    <2>4. QED  BY <2>2, <2>3
  <1>2. CASE heap[h] \notin Scalars
    <2> DEFINE step == IF type = "array" THEN 1 ELSE 2
               walk == CHOOSE f : Walks(f, items, n, step)
    <2>1. type \in {"array", "object"} /\ items \in Seq(Nat \cup Names) /\ n \in Nat
      BY <1>2, HeaderFacts DEF Boxes
    <2>2. step \in {1, 2} /\ n % step = 0
      <3>1. type = "object" => n % 2 = 0
        BY <1>2 DEF HeaderOk
      <3> HIDE DEF n
      <3>2. CASE type = "array"
        BY <3>2, <2>1
      <3>3. CASE type = "object"
        BY <3>1, <3>3
      <3>4. QED  BY <3>2, <3>3, <2>1
    <2>3. Jsons!Iterated(h) = walk[0]
      BY <2>1 DEF Jsons!Iterated, Jsons!IsA, Jsons!Null, Walks
    <2> HIDE DEF step
    <2>4. Walks(walk, items, n, step)
      BY <2>1, <2>2, WalkExists
    <2> HIDE DEF walk, items, type
    <2>5. Len(walk[0]) = n \div step
      BY <2>1, <2>2, <2>4, WalkLength
    <2>6. Jsons!size(h) = n \div step
      <3>1. CASE type = "array"
        <4>1. Jsons!size(h) = n /\ step = 1
          BY <3>1 DEF Jsons!size, Jsons!array_size, Jsons!IsA, Jsons!Null, type, step, items
        <4>2. QED  BY <4>1, <2>1
      <3>2. CASE type = "object"
        BY <3>2 DEF Jsons!size, Jsons!object_size, Jsons!IsA, Jsons!Null, type, step, items
      <3>3. QED  BY <3>1, <3>2, <2>1
    <2>7. QED  BY <2>3, <2>5, <2>6
  <1>3. QED  BY <1>1, <1>2

LEMMA ConversionFacts ==
    ASSUME NEW h \in DOMAIN heap, h # 0, HeaderOk(heap, heap[h])
    PROVE  /\ heap[h].type # "string" => Jsons!as_bool(h) = (Jsons!as_double(h) # 0)
           /\ Jsons!equals(h, "int", Jsons!as_int64(h)) = (heap[h].type = "int")
  <1> DEFINE s == heap[h].scalar
  <1>1. /\ heap[h].type \in {"bool", "int", "double", "string", "array", "object"}
        /\ heap[h].type = "bool" => s \in BOOLEAN
        /\ heap[h].type \in {"int", "double"} => s \in Int
    <2>1. CASE heap[h] \in Scalars
      BY <2>1, HeadersAssumption DEF Jsons!HeadersAssumption
    <2>2. CASE heap[h] \notin Scalars
      <3>1. heap[h].type \in {"array", "object"}
        BY <2>2, HeaderFacts
      <3>2. QED  BY <3>1
    <2>3. QED  BY <2>1, <2>2
  <1>2. ASSUME heap[h].type # "string" PROVE Jsons!as_bool(h) = (Jsons!as_double(h) # 0)
    <2>1. CASE heap[h].type = "int"
      <3>1. Jsons!as_bool(h) = (s # 0)
        BY <2>1 DEF Jsons!as_bool, Jsons!Null
      <3>2. Jsons!as_double(h) = 2 * s
        BY <2>1 DEF Jsons!as_double, Jsons!as_int64, Jsons!IsA, Jsons!Null
      <3>3. s # 0 <=> 2 * s # 0
        BY <1>1, <2>1
      <3>4. QED  BY <3>1, <3>2, <3>3
    <2>2. CASE heap[h].type = "double"
      BY <2>2 DEF Jsons!as_bool, Jsons!as_double, Jsons!IsA, Jsons!Null
    <2>3. CASE heap[h].type \in {"array", "object"}
      <3>1. Jsons!as_bool(h) = FALSE
        BY <2>3 DEF Jsons!as_bool, Jsons!Null
      <3>2. Jsons!as_int64(h) = 0
        BY <2>3 DEF Jsons!as_int64, Jsons!Null
      <3>3. Jsons!as_double(h) = 0
        BY <2>3, <3>2 DEF Jsons!as_double, Jsons!IsA
      <3>4. QED  BY <3>1, <3>3
    <2>4. CASE heap[h].type = "bool"
      <3>1. Jsons!as_bool(h) = s
        <4>1. s \in BOOLEAN
          BY <1>1, <2>4
        <4>2. QED  BY <4>1, <2>4 DEF Jsons!as_bool, Jsons!Null
      <3>2. Jsons!as_int64(h) = IF s THEN 1 ELSE 0
        BY <2>4 DEF Jsons!as_int64, Jsons!Null
      <3>3. Jsons!as_double(h) = 2 * Jsons!as_int64(h)
        BY <2>4 DEF Jsons!as_double, Jsons!IsA
      <3>4. s \in BOOLEAN
        BY <1>1, <2>4
      <3>5. QED  BY <3>1, <3>2, <3>3, <3>4
    <2>5. QED  BY <2>1, <2>2, <2>3, <2>4, <1>1, <1>2
  <1>3. Jsons!equals(h, "int", Jsons!as_int64(h)) = (heap[h].type = "int")
    <2>1. CASE heap[h].type = "int"
      <3>1. Jsons!as_int64(h) = s
        BY <2>1 DEF Jsons!as_int64, Jsons!Null
      <3>2. QED  BY <2>1, <3>1 DEF Jsons!equals, Jsons!IsA, Jsons!Null
    <2>2. CASE heap[h].type # "int"
      BY <2>2 DEF Jsons!equals, Jsons!IsA
    <2>3. QED  BY <2>1, <2>2
  <1>4. QED  BY <1>2, <1>3

LEMMA JsonShape ==
    ASSUME JsonInv
    PROVE  TreesWhole
  <1>1. PICK d, v : Rooted(json, heap, tree, d, v)
    BY DEF JsonInv, JsonOk
  <1>2. /\ Forest(heap, d) /\ Valued(heap, v)
        /\ \A x \in JsonVars : json[x] \in Addresses(heap) /\ tree[x] = v[json[x]]
        /\ \A x, y \in JsonVars : x # y => Grove(d, json[x]) \cap Grove(d, json[y]) = {}
        /\ \A g \in DOMAIN heap : \E x \in JsonVars : g \in Grove(d, json[x])
    BY <1>1 DEF Rooted
  <1>3. \A x \in JsonVars : Jsons!Value(heap, json[x]) = tree[x]
    BY <1>2, JsonValueFacts
  <1>4. \A x \in JsonVars : Jsons!Below(heap, json[x]) = Grove(d, json[x])
    BY <1>2, BelowFacts
  <1>5. \A x, y \in JsonVars : x # y => Jsons!Below(heap, json[x]) \cap Jsons!Below(heap, json[y]) = {}
    BY <1>2, <1>4
  <1>6. DOMAIN heap = UNION {Jsons!Below(heap, json[x]) : x \in JsonVars}
    <2>1. \A x \in JsonVars : Grove(d, json[x]) \subseteq DOMAIN heap
      BY <1>1, RootFacts
    <2>2. QED  BY <2>1, <1>2, <1>4
  <1>7. \A g, h \in DOMAIN heap : g # h => Jsons!Members(heap, g) \cap Jsons!Members(heap, h) = {}
    BY <1>2 DEF Forest
  <1>8. ASSUME NEW h \in DOMAIN heap
        PROVE  /\ \A i, j \in DOMAIN Jsons!ItemsOf(heap, h) :
                     i # j /\ Jsons!ItemsOf(heap, h)[i] = Jsons!ItemsOf(heap, h)[j] =>
                        Jsons!ItemsOf(heap, h)[i] = Jsons!Null \/ Jsons!ItemsOf(heap, h)[i] \in Names
               /\ Jsons!ItemsOf(heap, h) # <<>> => Len(Jsons!ItemsOf(heap, h)) <= heap[h].cap
               /\ heap[h].type # "string" => Len(Jsons!Iterated(h)) = Jsons!size(h)
               /\ heap[h].type # "string" => Jsons!as_bool(h) = (Jsons!as_double(h) # 0)
               /\ Jsons!equals(h, "int", Jsons!as_int64(h)) = (heap[h].type = "int")
    <2>1. HeaderOk(heap, heap[h]) /\ h # 0
      BY <1>2 DEF Forest
    <2> DEFINE items == Jsons!ItemsOf(heap, h)
    <2>2. DOMAIN items = 1..Len(items)
      BY <2>1, HeaderFacts
    <2>3. ASSUME NEW i \in DOMAIN items, NEW j \in DOMAIN items, i # j, items[i] = items[j]
          PROVE  items[i] = Jsons!Null \/ items[i] \in Names
      <3>1. items[i] \notin DOMAIN heap
        BY <2>2, <2>3, <1>2 DEF Forest
      <3>2. items[i] \in Names \cup {0} \cup Jsons!Members(heap, h)
        BY <2>2, <1>2, ItemFacts
      <3>3. QED  BY <3>1, <3>2 DEF Jsons!Null, Jsons!Members
    <2>4. items # <<>> => Len(items) <= heap[h].cap
      <3>1. CASE heap[h] \in Scalars
        BY <3>1, <2>1, HeaderFacts
      <3>2. CASE heap[h] \notin Scalars
        <4>1. items = heap[h].items
          BY <3>2, <2>1, HeaderFacts
        <4>2. QED  BY <3>2, <4>1, <2>1 DEF HeaderOk
      <3>3. QED  BY <3>1, <3>2
    <2>5. heap[h].type # "string" => Len(Jsons!Iterated(h)) = Jsons!size(h)
      BY <2>1, IteratedFacts
    <2>6. /\ heap[h].type # "string" => Jsons!as_bool(h) = (Jsons!as_double(h) # 0)
          /\ Jsons!equals(h, "int", Jsons!as_int64(h)) = (heap[h].type = "int")
      BY <2>1, ConversionFacts
    <2> HIDE DEF items
    <2>7. QED  BY <2>3, <2>4, <2>5, <2>6 DEF items
  <1>9. Jsons!TreesWhole
    BY <1>3, <1>5, <1>6, <1>7, <1>8 DEF Jsons!TreesWhole
  <1>10. QED  BY <1>9 DEF TreesWhole

LEMMA JsonStep ==
    ASSUME JsonInv, [Jsons!Next]_jsonVars
    PROVE  JsonInv'
  <1>1. CASE UNCHANGED jsonVars
    BY <1>1 DEF JsonInv, jsonVars
  <1>2. ASSUME NEW x \in JsonVars, Jsons!Make(x) PROVE JsonInv'
    BY <1>2, MakeStep
  <1>3. ASSUME NEW x \in JsonVars, Jsons!Reset(x) PROVE JsonInv'
    BY <1>3, ResetStep
  <1>4. ASSUME NEW x \in JsonVars, NEW n \in Repeats, Jsons!PushNulls(x, n) PROVE JsonInv'
    BY <1>4, PushNullsStep
  <1>5. ASSUME NEW x \in JsonVars, NEW y \in JsonVars, Jsons!Move(x, y) PROVE JsonInv'
    BY <1>5, MoveStep
  <1>6. ASSUME NEW x \in JsonVars, NEW y \in JsonVars, Jsons!swap(x, y) PROVE JsonInv'
    BY <1>6, JsonSwapStep
  <1>7. ASSUME NEW x \in JsonVars, NEW y \in JsonVars, Jsons!push_back(x, y) PROVE JsonInv'
    BY <1>7, JsonPushStep
  <1>8. ASSUME NEW x \in JsonVars, NEW y \in JsonVars, NEW key \in Names, Jsons!add_member(x, key, y)
        PROVE  JsonInv'
    BY <1>8, AddMemberStep
  <1>9. QED  BY <1>1, <1>2, <1>3, <1>4, <1>5, <1>6, <1>7, <1>8 DEF Jsons!Next

(* Json values are what the calls made of them, each header is in one place *)
(* and freed with it, iterators pass as many values as size says, and the   *)
(* conversions agree (json.h).                                              *)
THEOREM JsonsCorrect == Jsons!Spec => []TreesWhole
  <1>1. Jsons!Init => JsonInv
    BY JsonInit
  <1>2. JsonInv /\ [Jsons!Next]_jsonVars => JsonInv'
    BY JsonStep
  <1>3. JsonInv => TreesWhole
    BY JsonShape
  <1>4. QED  BY <1>1, <1>2, <1>3, PTL DEF Jsons!Spec, Jsons!vars, jsonVars
=============================================================================
