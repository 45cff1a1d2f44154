---------------------------- MODULE Routes_proofs ----------------------------
(***************************************************************************)
(* For all sets of methods, urls, paths and vectors of callbacks: what a    *)
(* request is given follows from the registrations alone.                   *)
(***************************************************************************)
EXTENDS Routes, SequenceLemmas, TLAPS

(* The keys of a table behind a registration, and behind a lookup. *)
LEMMA PutTable ==
    ASSUME NEW table, NEW keys, NEW v
    PROVE  DOMAIN Put(table, keys, v) = DOMAIN table \cup keys
BY DEF Put

LEMMA TouchTable ==
    ASSUME NEW table, NEW key
    PROVE  DOMAIN Touch(table, key) = DOMAIN table \cup {key}
BY DEF Touch

(* The registrations are of urls; the tables hold them, and what lookups    *)
(* have added is empty; and nothing is added to the table of http routes    *)
(* before it has a route.                                                   *)
TableInv ==
    /\ DOMAIN said \subseteq Methods \X Urls
    /\ DOMAIN said_ws \subseteq Methods \X Urls
    /\ \A k : At(said, k) \in Seq(STRING)
    /\ \A k : At(map, k) = At(said, k)
    /\ \A k : At(map_ws, k) = At(said_ws, k)
    /\ DOMAIN map = {} <=> DOMAIN said = {}

LEMMA InitTable == Init => TableInv
<1>1. <<>> \in Seq(STRING)
    BY EmptySeq
<1> QED BY <1>1 DEF Init, TableInv, Empty, At

LEMMA RegisterTable == TableInv /\ Register => TableInv'
<1> SUFFICES ASSUME TableInv,
                    NEW url \in Urls, NEW methods \in (SUBSET Methods) \ {{}}, NEW v \in Vectors,
                    \/ reg(url, methods, v) \/ reg_pcre(url, methods, v) \/ reg_ws(url, methods, v)
             PROVE  TableInv'
    BY DEF Register
<1> DEFINE keys == methods \X {url}
<1>1. keys # {}
    <2>1. PICK m \in methods : TRUE
        OBVIOUS
    <2>2. <<m, url>> \in keys
        BY <2>1
    <2> QED BY <2>2
<1>k. keys \subseteq Methods \X Urls
    OBVIOUS
<1> HIDE DEF keys
<1>2. CASE reg(url, methods, v)
    <2>1. map' = Put(map, keys, v) /\ said' = Put(said, keys, v) /\ UNCHANGED <<map_ws, said_ws>>
        BY <1>2 DEF reg, keys
    <2>2. ASSUME NEW k PROVE At(map', k) = At(said', k)
        <3>1. At(map, k) = At(said, k)
            BY DEF TableInv
        <3>2. At(map', k) = IF k \in keys THEN v ELSE At(map, k)
            BY <2>1 DEF Put, At
        <3>3. At(said', k) = IF k \in keys THEN v ELSE At(said, k)
            BY <2>1 DEF Put, At
        <3> QED BY <3>1, <3>2, <3>3
    <2>3. DOMAIN map' # {} /\ DOMAIN said' # {}
        <3>1. DOMAIN map' = DOMAIN map \cup keys
            BY <2>1, PutTable
        <3>2. DOMAIN said' = DOMAIN said \cup keys
            BY <2>1, PutTable
        <3> QED BY <1>1, <3>1, <3>2
    <2>4. DOMAIN said' \subseteq Methods \X Urls
        <3>1. DOMAIN said \subseteq Methods \X Urls
            BY DEF TableInv
        <3>2. DOMAIN said' = DOMAIN said \cup keys
            BY <2>1, PutTable
        <3> QED BY <1>k, <3>1, <3>2
    <2>5. ASSUME NEW k PROVE At(said', k) \in Seq(STRING)
        <3>1. At(said', k) = IF k \in keys THEN v ELSE At(said, k)
            BY <2>1 DEF Put, At
        <3> QED BY <3>1, VectorsAssumption DEF TableInv
    <2> QED BY <2>1, <2>2, <2>3, <2>4, <2>5 DEF TableInv, At
<1>3. CASE reg_pcre(url, methods, v)
    BY <1>3 DEF reg_pcre, TableInv, At
<1>4. CASE reg_ws(url, methods, v)
    <2>1. map_ws' = Put(map_ws, keys, v) /\ said_ws' = Put(said_ws, keys, v) /\ UNCHANGED <<map, said>>
        BY <1>4 DEF reg_ws, keys
    <2>2. ASSUME NEW k PROVE At(map_ws', k) = At(said_ws', k)
        <3>1. At(map_ws, k) = At(said_ws, k)
            BY DEF TableInv
        <3>2. At(map_ws', k) = IF k \in keys THEN v ELSE At(map_ws, k)
            BY <2>1 DEF Put, At
        <3>3. At(said_ws', k) = IF k \in keys THEN v ELSE At(said_ws, k)
            BY <2>1 DEF Put, At
        <3> QED BY <3>1, <3>2, <3>3
    <2>3. DOMAIN said_ws' \subseteq Methods \X Urls
        <3>1. DOMAIN said_ws \subseteq Methods \X Urls
            BY DEF TableInv
        <3>2. DOMAIN said_ws' = DOMAIN said_ws \cup keys
            BY <2>1, PutTable
        <3> QED BY <1>k, <3>1, <3>2
    <2> QED BY <2>1, <2>2, <2>3 DEF TableInv, At
<1> QED BY <1>2, <1>3, <1>4

LEMMA LookupTable == TableInv /\ Lookup => TableInv'
<1> SUFFICES ASSUME TableInv, NEW path \in Paths, NEW method \in Methods,
                    on_header(path, method) \/ on_wsupgrade(path, method)
             PROVE  TableInv'
    BY DEF Lookup
<1>1. CASE on_header(path, method)
    <2>1. /\ map' = IF DOMAIN map = {} THEN map ELSE Touch(map, Key(path, method))
          /\ UNCHANGED <<map_ws, said, said_ws>>
        BY <1>1 DEF on_header, map_after_get
    <2>2. \A k : At(map', k) = At(map, k)
        BY <2>1 DEF Touch, At
    <2>3. DOMAIN map' = {} <=> DOMAIN map = {}
        BY <2>1, TouchTable
    <2> QED BY <2>1, <2>2, <2>3 DEF TableInv, At
<1>2. CASE on_wsupgrade(path, method)
    <2>1. /\ map_ws' = IF DOMAIN map = {} THEN map_ws ELSE Touch(map_ws, Key(path, method))
          /\ UNCHANGED <<map, said, said_ws>>
        BY <1>2 DEF on_wsupgrade, map_ws_after_get
    <2>2. \A k : At(map_ws', k) = At(map_ws, k)
        BY <2>1 DEF Touch, At
    <2> QED BY <2>1, <2>2 DEF TableInv, At
<1> QED BY <1>1, <1>2

(* The key that get and get_ws look for is that of the url that serves the  *)
(* path: there is one such url, and it is the path up to its question mark. *)
LEMMA CutWhole ==
    ASSUME NEW path \in Paths, \A i \in DOMAIN path : path[i] # "?"
    PROVE  Cut(path, 0) = path
BY DEF Cut, QuestionMark

LEMMA CutAt ==
    ASSUME NEW path \in Paths, NEW i \in QuestionMark(path)
    PROVE  /\ Cut(path, 0) \in Seq(STRING) /\ Len(Cut(path, 0)) = i - 1
           /\ Cut(path, 0) = SubSeq(path, 1, i - 1)
           /\ \A j \in 1..(i - 1) : Cut(path, 0)[j] = path[j] /\ path[j] # "?"
           /\ i \in 1..Len(path) /\ path[i] = "?" /\ i - 1 \in Nat /\ i - 1 < Len(path)
<1>1. path \in Seq(STRING) /\ Len(path) \in Nat /\ DOMAIN path = 1..Len(path)
    BY PathsAssumption, LenProperties
<1>2. /\ i \in 1..Len(path) /\ path[i] = "?"
      /\ \A j \in 1..(i - 1) : path[j] # "?"
    BY <1>1 DEF QuestionMark
<1>3. ASSUME NEW n \in QuestionMark(path) PROVE n = i
    <2>1. /\ n \in 1..Len(path) /\ path[n] = "?"
          /\ \A j \in 1..(n - 1) : path[j] # "?"
        BY <1>1 DEF QuestionMark
    <2>2. ~(n < i) /\ ~(i < n)
        BY <1>1, <1>2, <2>1
    <2> QED BY <1>1, <1>2, <2>1, <2>2
<1>4. (CHOOSE n \in QuestionMark(path) : TRUE) = i
    BY <1>3
<1> DEFINE m == i - 1
<1>5. m \in Nat /\ m < Len(path) /\ i - 1 - 0 = m
    BY <1>1, <1>2
<1>6. Cut(path, 0) = SubSeq(path, 1, m)
    BY <1>4, <1>5 DEF Cut
<1>7. /\ SubSeq(path, 1, m) \in Seq(STRING) /\ Len(SubSeq(path, 1, m)) = m
      /\ \A j \in 1..m : SubSeq(path, 1, m)[j] = path[j]
    BY <1>1, <1>5, SubSeqType
<1> QED BY <1>2, <1>5, <1>6, <1>7

LEMMA CutServes ==
    ASSUME NEW path \in Paths
    PROVE  Serves(Cut(path, 0), path)
<1>1. path \in Seq(STRING) /\ Len(path) \in Nat /\ DOMAIN path = 1..Len(path)
    BY PathsAssumption, LenProperties
<1>2. CASE \A i \in DOMAIN path : path[i] # "?"
    BY <1>2, CutWhole DEF Serves
<1>3. ASSUME NEW i \in QuestionMark(path)
      PROVE  Serves(Cut(path, 0), path)
    <2> DEFINE c == Cut(path, 0)
    <2>1. /\ c \in Seq(STRING) /\ Len(c) = i - 1 /\ c = SubSeq(path, 1, i - 1)
          /\ \A j \in 1..(i - 1) : c[j] = path[j] /\ path[j] # "?"
          /\ i \in 1..Len(path) /\ path[i] = "?" /\ i - 1 < Len(path)
        BY CutAt
    <2> HIDE DEF c
    <2>2. DOMAIN c = 1..(i - 1)
        BY <2>1, LenProperties
    <2>3. Len(c) + 1 = i /\ Len(path) > Len(c) /\ SubSeq(path, 1, Len(c)) = c
        BY <1>1, <2>1
    <2>4. Serves(c, path)
        BY <2>1, <2>2, <2>3 DEF Serves
    <2> QED BY <2>4 DEF c
<1>4. CASE \E i \in DOMAIN path : path[i] = "?"
    <2> DEFINE marks == {i \in 1..Len(path) : path[i] = "?"}
    <2>1. marks \subseteq Nat /\ marks # {}
        BY <1>1, <1>4
    <2> HIDE DEF marks
    <2>2. PICK n \in marks : \A j \in marks : n <= j
        BY <2>1, LeastOf
    <2>3. n \in QuestionMark(path)
        <3>1. n \in 1..Len(path) /\ path[n] = "?"
            BY DEF marks
        <3>2. ASSUME NEW j \in 1..(n - 1) PROVE path[j] # "?"
            <4>1. j \in 1..Len(path) /\ ~(n <= j)
                BY <1>1, <3>1
            <4> QED BY <2>2, <4>1 DEF marks
        <3> QED BY <1>1, <3>1, <3>2 DEF QuestionMark
    <2> QED BY <2>3, <1>3
<1> QED BY <1>2, <1>4

LEMMA ServesCut ==
    ASSUME NEW path \in Paths, NEW url \in Seq(STRING), Serves(url, path)
    PROVE  url = Cut(path, 0)
<1>1. /\ path \in Seq(STRING) /\ Len(path) \in Nat /\ DOMAIN path = 1..Len(path)
      /\ Len(url) \in Nat /\ DOMAIN url = 1..Len(url)
    BY PathsAssumption, LenProperties
<1>2. CASE path = url
    BY <1>2, CutWhole DEF Serves
<1>3. CASE path # url
    <2> DEFINE i == Len(url) + 1
    <2>1. /\ Len(path) > Len(url) /\ path[i] = "?" /\ SubSeq(path, 1, Len(url)) = url
          /\ \A j \in 1..Len(url) : url[j] # "?"
        BY <1>1, <1>3 DEF Serves
    <2>2. \A j \in 1..Len(url) : SubSeq(path, 1, Len(url))[j] = path[j]
        BY <1>1, <2>1, SubSeqType
    <2>3. i \in 1..Len(path) /\ i - 1 = Len(url)
        BY <1>1, <2>1
    <2> HIDE DEF i
    <2>4. i \in QuestionMark(path)
        BY <1>1, <2>1, <2>2, <2>3 DEF QuestionMark
    <2>5. Cut(path, 0) = SubSeq(path, 1, i - 1)
        BY <2>4, CutAt
    <2> QED BY <2>1, <2>3, <2>5
<1> QED BY <1>2, <1>3

(* So the callbacks that a table has for a path are those under that key.   *)
LEMMA ServingFacts ==
    ASSUME NEW table, DOMAIN table \subseteq Methods \X Urls,
           NEW path \in Paths, NEW method \in Methods
    PROVE  /\ \A k \in Serving(table, path, method) : table[k] = At(table, Key(path, method))
           /\ At(table, Key(path, method)) # <<>> =>
                 \E k \in Serving(table, path, method) :
                     table[k] = At(table, Key(path, method))
<1> DEFINE key == Key(path, method)
<1>1. key = <<method, Cut(path, 0)>>
    BY DEF Key
<1>2. ASSUME NEW k \in Serving(table, path, method)
      PROVE  table[k] = At(table, key)
    <2>1. k \in DOMAIN table /\ k[1] = method /\ Serves(k[2], path)
        BY DEF Serving
    <2>2. k = <<k[1], k[2]>> /\ k[2] \in Seq(STRING)
        BY <2>1, PathsAssumption
    <2>3. k[2] = Cut(path, 0)
        BY <2>1, <2>2, ServesCut
    <2>4. k = key
        BY <1>1, <2>1, <2>2, <2>3
    <2> QED BY <2>1, <2>4 DEF At
<1>3. ASSUME At(table, key) # <<>>
      PROVE  key \in Serving(table, path, method) /\ table[key] = At(table, key)
    <2>1. key \in DOMAIN table /\ table[key] = At(table, key)
        BY <1>3 DEF At
    <2>2. key[1] = method /\ Serves(key[2], path)
        BY <1>1, CutServes
    <2> QED BY <1>3, <2>1, <2>2 DEF Serving
<1> QED BY <1>2, <1>3

(* on_header and on_wsupgrade give a request the callbacks that were        *)
(* registered last for its path, whatever was looked up before.             *)
THEOREM LookupsCorrect == Spec => LookupsFollowRegistrations
<1>1. Init => TableInv
    BY InitTable
<1>2. TableInv /\ [Next]_vars => TableInv'
    <2>1. TableInv /\ UNCHANGED vars => TableInv'
        BY DEF TableInv, vars, At
    <2> QED BY <2>1, RegisterTable, LookupTable DEF Next
<1> DEFINE Header(path, method) ==
               on_header(path, method) =>
                   /\ \A k \in Serving(said, path, method) : vector' = said[k]
                   /\ vector' # <<>> =>
                         \/ \E k \in Serving(said, path, method) : vector' = said[k]
                         \/ \E k \in Serving(map_pcre, path, method) : vector' = map_pcre[k]
           Upgrade(path, method) ==
               on_wsupgrade(path, method) =>
                   /\ DOMAIN said # {} =>
                         \A k \in Serving(said_ws, path, method) : vector' = said_ws[k]
                   /\ vector' # <<>> =>
                         \E k \in Serving(said_ws, path, method) : vector' = said_ws[k]
<1>3. ASSUME TableInv, NEW path \in Paths, NEW method \in Methods
      PROVE  Header(path, method)
    <2> SUFFICES ASSUME on_header(path, method) PROVE Header(path, method)
        OBVIOUS
    <2> DEFINE key == Key(path, method)
    <2>1. vector' = At(said, key)
        <3>1. vector' = IF Len(get(path, method)) = 0 THEN <<>> ELSE get(path, method)
            BY DEF on_header, found, fn_size
        <3>2. get(path, method) = At(said, key)
            BY <1>3 DEF TableInv, get, At
        <3>3. At(said, key) \in Seq(STRING)
            BY <1>3 DEF TableInv
        <3>4. Len(At(said, key)) = 0 => At(said, key) = <<>>
            BY <3>3, EmptySeq
        <3> QED BY <3>1, <3>2, <3>4
    <2>2. DOMAIN said \subseteq Methods \X Urls
        BY <1>3 DEF TableInv
    <2> QED BY <2>1, <2>2, ServingFacts
<1>4. ASSUME TableInv, NEW path \in Paths, NEW method \in Methods
      PROVE  Upgrade(path, method)
    <2> SUFFICES ASSUME on_wsupgrade(path, method) PROVE Upgrade(path, method)
        OBVIOUS
    <2> DEFINE key == Key(path, method)
    <2>1. vector' = IF DOMAIN said = {} THEN <<>> ELSE At(said_ws, key)
        BY <1>4 DEF on_wsupgrade, get_ws, TableInv, At
    <2>2. DOMAIN said_ws \subseteq Methods \X Urls
        BY <1>4 DEF TableInv
    <2> QED BY <2>1, <2>2, ServingFacts
<1>5. TableInv => [\A path \in Paths, method \in Methods :
                       /\ Header(path, method)
                       /\ Upgrade(path, method)]_vars
    BY <1>3, <1>4
<1>6. (Spec => []TableInv) => (Spec => LookupsFollowRegistrations)
    BY <1>5, PTL DEF Spec, LookupsFollowRegistrations
<1>7. Spec => []TableInv
    BY <1>1, <1>2, PTL DEF Spec
<1> QED BY <1>6, <1>7

-----------------------------------------------------------------------------
(* What lookups write *)

(* The key of reg_pcre's table follows from that of the other and from      *)
(* whether the path had a query.                                            *)
KeyOfPcre(k, whole) == IF whole THEN k ELSE <<k[1], SubSeq(k[2], 1, Len(k[2]) - 1)>>

IsTable(table) == table = [h \in DOMAIN table |-> table[h]]

(* The keys of the lookups since the last registration are in the tables    *)
(* that these lookups went to.                                              *)
HttpAsked(k, whole) == /\ DOMAIN map # {} => k \in DOMAIN map
                       /\ Len(At(map, k)) = 0 => KeyOfPcre(k, whole) \in DOMAIN map_pcre
WsAsked(k)          == DOMAIN map # {} => k \in DOMAIN map_ws

AskedInv == /\ IsTable(map) /\ IsTable(map_pcre) /\ IsTable(map_ws)
            /\ \A k, whole : <<"http", k, whole>> \in asked => HttpAsked(k, whole)
            /\ \A k : <<"ws", k, TRUE>> \in asked => WsAsked(k)

LEMMA PcreKeyFacts ==
    ASSUME NEW path \in Paths, NEW method
    PROVE  PcreKey(path, method) = KeyOfPcre(Key(path, method), Cut(path, 0) = path)
<1>1. path \in Seq(STRING) /\ path # <<>> /\ path[1] # "?" /\ Len(path) \in Nat
    BY PathsAssumption, LenProperties
<1>2. CASE QuestionMark(path) = {}
    BY <1>2 DEF PcreKey, Key, Cut, KeyOfPcre
<1>3. CASE QuestionMark(path) # {}
    <2> DEFINE i == CHOOSE n \in QuestionMark(path) : TRUE
    <2>1. i \in QuestionMark(path)
        BY <1>3
    <2>2. Cut(path, 0) = SubSeq(path, 1, i - 1 - 0) /\ Cut(path, 1) = SubSeq(path, 1, i - 1 - 1)
        BY <1>3 DEF Cut
    <2> HIDE DEF i
    <2>3. DOMAIN path = 1..Len(path)
        BY <1>1, LenProperties
    <2>4. i \in 1..Len(path) /\ i # 1
        BY <1>1, <2>1, <2>3 DEF QuestionMark
    <2> DEFINE n == i - 1
               m == i - 2
               p == SubSeq(path, 1, n)
               q == SubSeq(path, 1, m)
               r == SubSeq(p, 1, m)
    <2>5. /\ n \in Nat /\ m \in Nat /\ m = n - 1 /\ m <= n /\ n < Len(path) /\ m <= Len(path)
          /\ i - 1 - 0 = n /\ i - 1 - 1 = m
        BY <1>1, <2>4
    <2>6. Cut(path, 0) = p /\ Cut(path, 1) = q
        BY <2>2, <2>5
    <2> HIDE DEF n, m
    <2>7. p \in Seq(STRING) /\ Len(p) = n /\ \A j \in 1..n : p[j] = path[j]
        BY <1>1, <2>5, SubSeqType
    <2>8. q \in Seq(STRING) /\ Len(q) = m /\ \A j \in 1..m : q[j] = path[j]
        BY <1>1, <2>5, SubSeqType
    <2> HIDE DEF p, q
    <2>9. r \in Seq(STRING) /\ Len(r) = m /\ \A j \in 1..m : r[j] = p[j]
        BY <2>5, <2>7, SubSeqType
    <2>r. r = SubSeq(p, 1, Len(p) - 1)
        BY <2>5, <2>7
    <2> HIDE DEF r
    <2>10. \A j \in 1..m : r[j] = q[j]
        BY <2>5, <2>7, <2>8, <2>9
    <2>11. r = q
        BY <2>8, <2>9, <2>10, SeqEqual
    <2>12. p # path
        BY <1>1, <2>5, <2>7
    <2> QED BY <2>6, <2>11, <2>12, <2>r DEF PcreKey, Key, KeyOfPcre
<1> QED BY <1>2, <1>3

(* To look up a key that is there changes nothing. *)
LEMMA TouchKnown ==
    ASSUME NEW table, IsTable(table), NEW k \in DOMAIN table
    PROVE  Touch(table, k) = table
BY DEF IsTable, Touch, At

LEMMA TouchFacts ==
    ASSUME NEW table, NEW k
    PROVE  /\ IsTable(Touch(table, k)) /\ DOMAIN Touch(table, k) = DOMAIN table \cup {k}
           /\ \A h : At(Touch(table, k), h) = At(table, h)
BY DEF IsTable, Touch, At

LEMMA PutFacts ==
    ASSUME NEW table, NEW keys, NEW v
    PROVE  IsTable(Put(table, keys, v))
BY DEF IsTable, Put

LEMMA AskedRegister == AskedInv /\ Register => AskedInv'
<1> SUFFICES ASSUME AskedInv,
                    NEW url \in Urls, NEW methods \in (SUBSET Methods) \ {{}}, NEW v \in Vectors,
                    \/ reg(url, methods, v) \/ reg_pcre(url, methods, v) \/ reg_ws(url, methods, v)
             PROVE  AskedInv'
    BY DEF Register
<1>1. asked' = {}
    BY DEF reg, reg_pcre, reg_ws
<1>2. IsTable(map') /\ IsTable(map_pcre') /\ IsTable(map_ws')
    BY PutFacts DEF reg, reg_pcre, reg_ws, AskedInv
<1> QED BY <1>1, <1>2 DEF AskedInv, IsTable

LEMMA AskedHeader ==
    ASSUME AskedInv, NEW path \in Paths, NEW method \in Methods, on_header(path, method)
    PROVE  AskedInv'
<1> DEFINE key == Key(path, method)
           whole == Cut(path, 0) = path
           size == Len(get(path, method))
<1>1. /\ map' = IF DOMAIN map = {} THEN map ELSE Touch(map, key)
      /\ map_pcre' = IF size = 0 THEN Touch(map_pcre, KeyOfPcre(key, whole)) ELSE map_pcre
      /\ asked' = asked \cup {<<"http", key, whole>>}
      /\ map_ws' = map_ws
      /\ size = Len(At(map, key))
    <2>1. size = Len(At(map, key))
        BY DEF get, At
    <2>2. PcreKey(path, method) = KeyOfPcre(key, whole)
        BY PcreKeyFacts
    <2> QED BY <2>1, <2>2 DEF on_header, fn_size, map_after_get
<1> HIDE DEF key, whole, size
<1>2. /\ IsTable(map') /\ IsTable(map_pcre') /\ IsTable(map_ws')
      /\ DOMAIN map \subseteq DOMAIN map' /\ DOMAIN map_pcre \subseteq DOMAIN map_pcre'
      /\ DOMAIN map' = {} <=> DOMAIN map = {}
      /\ \A h : At(map', h) = At(map, h)
    <2>1. IsTable(map) /\ IsTable(map_pcre) /\ IsTable(map_ws)
        BY DEF AskedInv
    <2>2. /\ IsTable(map') /\ DOMAIN map \subseteq DOMAIN map'
          /\ DOMAIN map' = {} <=> DOMAIN map = {}
          /\ \A h : At(map', h) = At(map, h)
        <3>1. CASE DOMAIN map = {}
            BY <3>1, <1>1, <2>1
        <3>2. CASE DOMAIN map # {}
            <4>1. map' = Touch(map, key)
                BY <3>2, <1>1
            <4>2. /\ IsTable(Touch(map, key)) /\ DOMAIN Touch(map, key) = DOMAIN map \cup {key}
                  /\ \A h : At(Touch(map, key), h) = At(map, h)
                BY TouchFacts
            <4>3. QED BY <3>2, <4>1, <4>2
        <3>3. QED BY <3>1, <3>2
    <2>3. IsTable(map_pcre') /\ DOMAIN map_pcre \subseteq DOMAIN map_pcre'
        BY <1>1, <2>1, TouchFacts
    <2> QED BY <1>1, <2>1, <2>2, <2>3
<1>3. ASSUME NEW k, NEW w, <<"http", k, w>> \in asked'
      PROVE  /\ DOMAIN map' # {} => k \in DOMAIN map'
             /\ Len(At(map', k)) = 0 => KeyOfPcre(k, w) \in DOMAIN map_pcre'
    <2>1. CASE <<"http", k, w>> \in asked
        <3>1. HttpAsked(k, w)
            BY <2>1 DEF AskedInv
        <3>2. Len(At(map', k)) = Len(At(map, k))
            BY <1>2
        <3> QED BY <1>2, <3>1, <3>2 DEF HttpAsked
    <2>2. CASE k = key /\ w = whole
        <3>1. DOMAIN map' # {} => key \in DOMAIN map'
            BY <1>1, <1>2, TouchFacts
        <3>2. Len(At(map', key)) = Len(At(map, key))
            BY <1>2
        <3>3. size = 0 => KeyOfPcre(key, whole) \in DOMAIN map_pcre'
            BY <1>1, TouchFacts
        <3> QED BY <1>1, <2>2, <3>1, <3>2, <3>3
    <2> QED BY <1>1, <1>3, <2>1, <2>2
<1>4. ASSUME NEW k, <<"ws", k, TRUE>> \in asked'
      PROVE  DOMAIN map' # {} => k \in DOMAIN map_ws'
    <2>1. <<"ws", k, TRUE>> \in asked
        BY <1>1, <1>4
    <2> QED BY <1>1, <1>2, <2>1 DEF AskedInv, WsAsked
<1> QED BY <1>2, <1>3, <1>4 DEF AskedInv, HttpAsked, WsAsked, IsTable, At

LEMMA AskedUpgrade ==
    ASSUME AskedInv, NEW path \in Paths, NEW method \in Methods, on_wsupgrade(path, method)
    PROVE  AskedInv'
<1> DEFINE key == Key(path, method)
<1>1. /\ map_ws' = IF DOMAIN map = {} THEN map_ws ELSE Touch(map_ws, key)
      /\ asked' = asked \cup {<<"ws", key, TRUE>>}
      /\ map' = map /\ map_pcre' = map_pcre
    BY DEF on_wsupgrade, map_ws_after_get
<1> HIDE DEF key
<1>2. /\ IsTable(map') /\ IsTable(map_pcre') /\ IsTable(map_ws')
      /\ DOMAIN map_ws \subseteq DOMAIN map_ws'
    BY <1>1, TouchFacts DEF AskedInv
<1>3. ASSUME NEW k, NEW w, <<"http", k, w>> \in asked'
      PROVE  /\ DOMAIN map # {} => k \in DOMAIN map
             /\ Len(At(map, k)) = 0 => KeyOfPcre(k, w) \in DOMAIN map_pcre
    <2>1. <<"http", k, w>> \in asked
        BY <1>1, <1>3
    <2> QED BY <2>1 DEF AskedInv, HttpAsked
<1>4. ASSUME NEW k, <<"ws", k, TRUE>> \in asked'
      PROVE  DOMAIN map # {} => k \in DOMAIN map_ws'
    <2>1. CASE <<"ws", k, TRUE>> \in asked
        BY <1>2, <2>1 DEF AskedInv, WsAsked
    <2>2. CASE k = key
        BY <1>1, <2>2, TouchFacts
    <2> QED BY <1>1, <1>4, <2>1, <2>2
<1> QED BY <1>1, <1>2, <1>3, <1>4 DEF AskedInv, HttpAsked, WsAsked, IsTable, At

(* KnownPathsOnlyRead: the shared tables, which no lock guards, are written *)
(* by registrations and by the first lookup of a path since the last one of *)
(* them only; every later lookup of it, with whatever query, reads.         *)
THEOREM LaterLookupsRead == Spec => KnownPathsOnlyRead
<1>1. Init => AskedInv
    BY DEF Init, AskedInv, Empty, IsTable
<1>2. AskedInv /\ [Next]_vars => AskedInv'
    <2>1. AskedInv /\ UNCHANGED vars => AskedInv'
        BY DEF AskedInv, HttpAsked, WsAsked, IsTable, At, vars
    <2> QED BY <2>1, AskedRegister, AskedHeader, AskedUpgrade DEF Next, Lookup
<1>3. AskedInv /\ [Next]_vars => [Lookup /\ asked' = asked => UNCHANGED tables]_vars
    <2> SUFFICES ASSUME AskedInv, asked' = asked, NEW path \in Paths, NEW method \in Methods,
                        on_header(path, method) \/ on_wsupgrade(path, method)
                 PROVE  UNCHANGED tables
        BY DEF Lookup
    <2> DEFINE key == Key(path, method)
               whole == Cut(path, 0) = path
    <2>1. CASE on_header(path, method)
        <3>1. /\ map' = IF DOMAIN map = {} THEN map ELSE Touch(map, key)
              /\ map_pcre' = IF Len(At(map, key)) = 0
                             THEN Touch(map_pcre, KeyOfPcre(key, whole)) ELSE map_pcre
              /\ <<"http", key, whole>> \in asked
              /\ map_ws' = map_ws
            <4>1. Len(get(path, method)) = Len(At(map, key))
                BY DEF get, At
            <4>2. PcreKey(path, method) = KeyOfPcre(key, whole)
                BY PcreKeyFacts
            <4> QED BY <2>1, <4>1, <4>2 DEF on_header, fn_size, map_after_get
        <3> HIDE DEF key, whole
        <3>2. HttpAsked(key, whole)
            BY <3>1 DEF AskedInv
        <3>3. map' = map /\ map_pcre' = map_pcre
            BY <3>1, <3>2, TouchKnown DEF AskedInv, HttpAsked
        <3> QED BY <3>1, <3>3 DEF tables
    <2>2. CASE on_wsupgrade(path, method)
        <3>1. /\ map_ws' = IF DOMAIN map = {} THEN map_ws ELSE Touch(map_ws, key)
              /\ <<"ws", key, TRUE>> \in asked
              /\ map' = map /\ map_pcre' = map_pcre
            BY <2>2 DEF on_wsupgrade, map_ws_after_get
        <3> HIDE DEF key
        <3>2. map_ws' = map_ws
            BY <3>1, TouchKnown DEF AskedInv, WsAsked
        <3> QED BY <3>1, <3>2 DEF tables
    <2> QED BY <2>1, <2>2
<1>4. (Spec => []AskedInv) => (Spec => KnownPathsOnlyRead)
    BY <1>3, PTL DEF Spec, KnownPathsOnlyRead
<1>5. Spec => []AskedInv
    BY <1>1, <1>2, PTL DEF Spec
<1> QED BY <1>4, <1>5
=============================================================================
