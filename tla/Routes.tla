-------------------------------- MODULE Routes -------------------------------
(***************************************************************************)
(* The route table (route.h) that all connections of a server share, and    *)
(* its lookups by on_header and on_wsupgrade (web.cc).  The application     *)
(* registers routes and connections look them up, in any order.             *)
(*                                                                          *)
(* A path is a sequence of characters, a table a function from keys         *)
(* <<method, url>> to vectors of callbacks.  What the callbacks do when     *)
(* reg_pcre calls them is theirs.                                           *)
(***************************************************************************)
EXTENDS Integers, Sequences

CONSTANTS Methods, Urls,    \* what is registered
          Paths,            \* what is asked for
          Vectors           \* the vectors of callbacks, by name, that are registered

(* get_pcre cuts a path at the place before its question mark, so that it   *)
(* must have one.                                                           *)
ASSUME PathsAssumption ==
    /\ Urls \cup Paths \subseteq Seq(STRING)
    /\ \A p \in Paths : p # <<>> /\ p[1] # "?"
ASSUME VectorsAssumption == Vectors \subseteq Seq(STRING)

VARIABLES map, map_pcre, map_ws,
          vector,               \* REQ's p_callback_vector or p_wscalback_vector
          said, said_ws,        \* the last registration of each key, as a table
          asked                 \* the lookups since the last registration

tables == <<map, map_pcre, map_ws>>
vars == <<map, map_pcre, map_ws, vector, said, said_ws, asked>>

Empty == [k \in {} |-> <<>>]

(* operator[] of a hash map: a key that is not there is inserted with an    *)
(* empty vector.                                                            *)
At(table, k) == IF k \in DOMAIN table THEN table[k] ELSE <<>>
Touch(table, k) == [h \in DOMAIN table \cup {k} |-> At(table, h)]
Put(table, keys, v) == [h \in DOMAIN table \cup keys |-> IF h \in keys THEN v ELSE table[h]]

QuestionMark(path) == {i \in DOMAIN path : path[i] = "?" /\ \A j \in 1..(i - 1) : path[j] # "?"}
Cut(path, less) == IF QuestionMark(path) = {} THEN path
                   ELSE SubSeq(path, 1, (CHOOSE i \in QuestionMark(path) : TRUE) - 1 - less)
Key(path, method)     == <<method, Cut(path, 0)>>
(* The path is not cut. *)
Bug_PcreKey(path, method) == <<method, path>>
PcreKey(path, method) == <<method, Cut(path, 1)>>

Init == /\ map = Empty /\ map_pcre = Empty /\ map_ws = Empty
        /\ vector = <<>>
        /\ said = Empty /\ said_ws = Empty
        /\ asked = {}

reg(url, methods, v) ==
    /\ map' = Put(map, methods \X {url}, v)
    /\ said' = Put(said, methods \X {url}, v)
    /\ asked' = {}
    /\ UNCHANGED <<map_pcre, map_ws, vector, said_ws>>

reg_pcre(url, methods, v) ==
    /\ map_pcre' = Put(map_pcre, methods \X {url}, v)
    /\ asked' = {}
    /\ UNCHANGED <<map, map_ws, vector, said, said_ws>>

reg_ws(url, methods, v) ==
    /\ map_ws' = Put(map_ws, methods \X {url}, v)
    /\ said_ws' = Put(said_ws, methods \X {url}, v)
    /\ asked' = {}
    /\ UNCHANGED <<map, map_pcre, vector, said>>

(* What a lookup finds, and the table behind it. *)
get(path, method) == IF DOMAIN map = {} THEN <<>> ELSE At(map, Key(path, method))
map_after_get(path, method) == IF DOMAIN map = {} THEN map ELSE Touch(map, Key(path, method))
get_ws(path, method) == IF DOMAIN map = {} THEN <<>> ELSE At(map_ws, Key(path, method))
map_ws_after_get(path, method) ==
    IF DOMAIN map = {} THEN map_ws ELSE Touch(map_ws, Key(path, method))

(* What on_header stores.  The size that is tested again is that of the     *)
(* first lookup, so that nothing get_pcre finds is among it.                *)
fn_size(path, method) == Len(get(path, method))
(* The size is read again, and get_pcre's result with its shorter key used. *)
Bug_found(path, method) == IF fn_size(path, method) = 0 THEN At(map_pcre, PcreKey(path, method))
                        ELSE get(path, method)
found(path, method) == IF fn_size(path, method) = 0 THEN <<>> ELSE get(path, method)

on_header(path, method) ==
    /\ map' = map_after_get(path, method)
    /\ map_pcre' = IF fn_size(path, method) = 0 THEN Touch(map_pcre, PcreKey(path, method))
                   ELSE map_pcre
    /\ vector' = found(path, method)
    /\ asked' = asked \cup {<<"http", Key(path, method), Cut(path, 0) = path>>}
    /\ UNCHANGED <<map_ws, said, said_ws>>

on_wsupgrade(path, method) ==
    /\ map_ws' = map_ws_after_get(path, method)
    /\ vector' = get_ws(path, method)
    /\ asked' = asked \cup {<<"ws", Key(path, method), TRUE>>}
    /\ UNCHANGED <<map, map_pcre, said, said_ws>>

Register == \E url \in Urls, methods \in (SUBSET Methods) \ {{}}, v \in Vectors :
               \/ reg(url, methods, v)
               \/ reg_pcre(url, methods, v)
               \/ reg_ws(url, methods, v)
Lookup == \E path \in Paths, method \in Methods :
             \/ on_header(path, method)
             \/ on_wsupgrade(path, method)

Next == Register \/ Lookup

Spec == Init /\ [][Next]_vars

-----------------------------------------------------------------------------
(* Properties *)

(* A url serves a path that is this url, or this url and a query. *)
Serves(url, path) ==
    /\ \A i \in DOMAIN url : url[i] # "?"
    /\ \/ path = url
       \/ /\ Len(path) > Len(url) /\ path[Len(url) + 1] = "?"
          /\ SubSeq(path, 1, Len(url)) = url

(* The entries of a table that have callbacks for a path. *)
Serving(table, path, method) ==
    {k \in DOMAIN table : k[1] = method /\ Serves(k[2], path) /\ table[k] # <<>>}

(* What on_header stores for a request depends on the registrations only,   *)
(* and never on which paths this or other connections have asked for: the   *)
(* callbacks that reg gave last to the url of the path, if there are any;   *)
(* and none but those that reg or reg_pcre gave to that very url.  The same *)
(* for on_wsupgrade and reg_ws, for a server that has an http route.        *)
(* Two things are left open here, and a code that does either has this      *)
(* property as well: whether a route of reg_pcre is found (it never is,     *)
(* web.cc:113-117), and whether one of reg_ws is where there is no http     *)
(* route (it is not, route.h:79).                                           *)
LookupsFollowRegistrations ==
    [][\A path \in Paths, method \in Methods :
          /\ on_header(path, method) =>
                /\ \A k \in Serving(said, path, method) : vector' = said[k]
                /\ vector' # <<>> =>
                      \/ \E k \in Serving(said, path, method) : vector' = said[k]
                      \/ \E k \in Serving(map_pcre, path, method) : vector' = map_pcre[k]
          /\ on_wsupgrade(path, method) =>
                /\ DOMAIN said # {} =>
                      \A k \in Serving(said_ws, path, method) : vector' = said_ws[k]
                /\ vector' # <<>> =>
                      \E k \in Serving(said_ws, path, method) : vector' = said_ws[k]]_vars

(* A lookup that was made since the last registration, with another query   *)
(* or the same, changes no table: connections write to the shared tables,   *)
(* which no lock guards, at the first lookup of a path only.                *)
KnownPathsOnlyRead == [][Lookup /\ asked' = asked => UNCHANGED tables]_vars
=============================================================================
