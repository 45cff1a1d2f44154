------------------------------ MODULE JsonValue -------------------------------
(***************************************************************************)
(* Json (json.h): values that own the values in them.  Variables are built, *)
(* moved (a Json argument always is), filled and reset in any order.        *)
(*                                                                          *)
(* A header is a record; one of a scalar has its value, one of an array or *)
(* object the addresses of its members in items (key, value, key, ... for   *)
(* an object) and in cap the room of its json::xx::Array, 0 while it has    *)
(* none.                                                                    *)
(* A double is a number of halves.  reset and get, declared in json.h and   *)
(* defined elsewhere, are taken by their comments.  A value is not put into *)
(* itself.                                                                  *)
(***************************************************************************)
EXTENDS Sequences, Heap

CONSTANTS Jsons,            \* the variables
          Scalars,          \* headers of scalars and strings
          Names,            \* model values
          Repeats           \* how many times in a row push_back is called

(* A name is no address. *)
HeadersAssumption ==
    /\ Names \cap Nat = {} /\ Repeats \subseteq Nat
    /\ \A s \in Scalars : /\ DOMAIN s = {"type", "scalar"}
                          /\ \/ s.type = "bool" /\ s.scalar \in BOOLEAN
                             \/ s.type \in {"int", "double"} /\ s.scalar \in Int
                             \/ s.type = "string"

VARIABLES json, heap,       \* the header of each variable; the headers
          tree              \* what the calls have made of each variable
vars == <<json, heap, tree>>

NullValue == [type |-> "null"]
Container(type) == [type |-> type, cap |-> 0, items |-> <<>>]
IsA(h, types) == h # Null /\ heap[h].type \in types

-----------------------------------------------------------------------------
(* json::xx::Array: twice the room when it is full. *)
Room(a, first) == IF a.cap = 0 THEN [a EXCEPT !.cap = first] ELSE a
Bug_Grown(a) == IF Len(a.items) > a.cap THEN [a EXCEPT !.cap = 2 * @] ELSE a
Grown(a) == IF Len(a.items) = a.cap THEN [a EXCEPT !.cap = 2 * @] ELSE a
pushed(a, v) == [Grown(a) EXCEPT !.items = Append(@, v)]

(* The headers in h, those at and below it, and the heap without them.      *)
ItemsOf(m, h) == IF "items" \in DOMAIN m[h] THEN m[h].items ELSE <<>>
Members(m, h) == {ItemsOf(m, h)[i] : i \in DOMAIN ItemsOf(m, h)} \cap DOMAIN m
Below(m, h) ==
    LET below[n \in 0..Cardinality(DOMAIN m)] ==
            IF n = 0 THEN {h} \ {Null}
            ELSE below[n - 1] \cup UNION {Members(m, g) : g \in below[n - 1]}
    IN  below[Cardinality(DOMAIN m)]
reset(m, h) == [g \in DOMAIN m \ Below(m, h) |-> m[g]]

(* The array or object behind h, made anew in the place of anything else.   *)
(* new: the address of a new header.                                        *)
Become(m, h, new, type) ==
    IF h # Null /\ m[h].type = type THEN m ELSE With(reset(m, h), new, Container(type))
Target(h, new, type) == IF IsA(h, {type}) THEN h ELSE new

New == Fresh(heap)
Value(m, h) ==
    LET value[g \in DOMAIN m \cup {Null}] ==
            IF g = Null THEN NullValue
            ELSE IF "scalar" \in DOMAIN m[g] THEN m[g]
            ELSE [type |-> m[g].type, items |-> [i \in DOMAIN m[g].items |->
                     IF m[g].type = "object" /\ i % 2 = 1 THEN m[g].items[i] ELSE value[m[g].items[i]]]]
    IN  value[h]

-----------------------------------------------------------------------------
Init == /\ json = [x \in Jsons |-> Null] /\ heap = Nothing
        /\ tree = [x \in Jsons |-> NullValue]

(* x = v with a new v: what x was is reset.                                 *)
Assign(x, h, t) == /\ json' = [json EXCEPT ![x] = New]
                   /\ heap' = With(reset(heap, json[x]), New, h)
                   /\ tree' = [tree EXCEPT ![x] = t]
Make(x) == \/ \E s \in Scalars : Assign(x, s, s)
           \/ \E type \in {"array", "object"} :
                 Assign(x, Container(type), [type |-> type, items |-> <<>>])

Move(x, y) == /\ x # y
              /\ json' = [json EXCEPT ![x] = json[y], ![y] = Null]
              /\ heap' = reset(heap, json[x])
              /\ tree' = [tree EXCEPT ![x] = tree[y], ![y] = NullValue]
swap(x, y) == /\ json' = [json EXCEPT ![x] = json[y], ![y] = json[x]]
              /\ tree' = [tree EXCEPT ![x] = tree[y], ![y] = tree[x]]
              /\ UNCHANGED heap
Reset(x) == /\ json' = [json EXCEPT ![x] = Null] /\ heap' = reset(heap, json[x])
            /\ tree' = [tree EXCEPT ![x] = NullValue]

Items(t, type) == IF t.type = type THEN t.items ELSE <<>>

push_back(x, y) ==
    LET h == Target(json[x], New, "array")
        a == Room(Become(heap, json[x], New, "array")[h], 8)
    IN  /\ x # y
        /\ json' = [json EXCEPT ![x] = h, ![y] = Null]
        /\ heap' = With(Become(heap, json[x], New, "array"), h, pushed(a, json[y]))
        /\ tree' = [tree EXCEPT ![x] = [type |-> "array", items |-> Append(Items(@, "array"), tree[y])],
                                ![y] = NullValue]

(* A null value pushed n times. *)
PushNulls(x, n) ==
    LET h == Target(json[x], New, "array")
        push[i \in 0..n] == IF i = 0 THEN Room(Become(heap, json[x], New, "array")[h], 8)
                            ELSE pushed(push[i - 1], Null)
    IN  /\ json' = [json EXCEPT ![x] = h]
        /\ heap' = With(Become(heap, json[x], New, "array"), h, push[n])
        /\ tree' = [tree EXCEPT ![x] = [type |-> "array",
                        items |-> Items(@, "array") \o [i \in 1..n |-> NullValue]]]

add_member(x, key, y) ==
    LET h == Target(json[x], New, "object")
        a == Room(Become(heap, json[x], New, "object")[h], 16)
    IN  /\ x # y
        /\ json' = [json EXCEPT ![x] = h, ![y] = Null]
        /\ heap' = With(Become(heap, json[x], New, "object"), h, pushed(pushed(a, key), json[y]))
        /\ tree' = [tree EXCEPT ![x] = [type |-> "object", items |-> Items(@, "object") \o <<key, tree[y]>>],
                                ![y] = NullValue]

Next == \E x \in Jsons :
           \/ Make(x) \/ Reset(x)
           \/ \E n \in Repeats : PushNulls(x, n)
           \/ \E y \in Jsons : \/ Move(x, y) \/ swap(x, y) \/ push_back(x, y)
                               \/ \E key \in Names : add_member(x, key, y)
Spec == Init /\ [][Next]_vars

-----------------------------------------------------------------------------
(* What can be asked of the value at h. *)
as_bool(h) == h # Null /\ CASE heap[h].type = "bool" -> heap[h].scalar
                            [] heap[h].type \in {"int", "double"} -> heap[h].scalar # 0
                            [] heap[h].type = "string" -> heap[h].scalar \in {"true", "1"}
                            [] OTHER -> FALSE
to_int64(s) == IF s = "1" THEN 1 ELSE 0
as_int64(h) == IF h = Null THEN 0
               ELSE CASE heap[h].type = "int" -> heap[h].scalar
                      [] heap[h].type = "string" -> to_int64(heap[h].scalar)
                      [] heap[h].type = "double" -> heap[h].scalar \div 2
                      [] heap[h].type = "bool" -> IF heap[h].scalar THEN 1 ELSE 0
                      [] OTHER -> 0
as_double(h) == IF IsA(h, {"double"}) THEN heap[h].scalar ELSE 2 * as_int64(h)
equals(h, type, v) == IsA(h, {type}) /\ heap[h].scalar = v
array_size(h) == IF IsA(h, {"array"}) THEN Len(heap[h].items) ELSE 0
object_size(h) == IF IsA(h, {"object"}) THEN Len(heap[h].items) \div 2 ELSE 0
string_size(h) == IF IsA(h, {"string"}) THEN Len(heap[h].scalar) ELSE 0
size(h) == IF h = Null THEN 0
           ELSE CASE heap[h].type = "array" -> array_size(h)
                  [] heap[h].type = "object" -> object_size(h)
                  [] heap[h].type = "string" -> string_size(h)
                  [] OTHER -> 0

(* The values that an iterator passes: it steps by type >> 4.               *)
Iterated(h) ==
    IF ~IsA(h, {"array", "object"}) THEN <<>>
    ELSE LET step == IF heap[h].type = "array" THEN 1 ELSE 2
             walk[p \in {q \in 0..Len(heap[h].items) : q % step = 0}] ==
                 IF p = Len(heap[h].items) THEN <<>>
                 ELSE <<heap[h].items[p + step]>> \o walk[p + step]
         IN  walk[0]

-----------------------------------------------------------------------------
(* Every variable has the value that the calls gave it; each header is in   *)
(* one place only and is freed with it; an iterator passes as many values   *)
(* as size says; nothing is written behind the room of an array; and the    *)
(* conversions agree on what is zero.                                       *)
TreesWhole ==
    /\ \A x \in Jsons : Value(heap, json[x]) = tree[x]
    /\ DOMAIN heap = UNION {Below(heap, json[x]) : x \in Jsons}
    /\ \A x, y \in Jsons : x # y => Below(heap, json[x]) \cap Below(heap, json[y]) = {}
    /\ \A g, h \in DOMAIN heap : g # h => Members(heap, g) \cap Members(heap, h) = {}
    /\ \A h \in DOMAIN heap :
          LET items == ItemsOf(heap, h)
          IN  /\ \A i, j \in DOMAIN items : i # j /\ items[i] = items[j] =>
                     items[i] = Null \/ items[i] \in Names
              /\ items # <<>> => Len(items) <= heap[h].cap
              /\ heap[h].type # "string" => Len(Iterated(h)) = size(h)
              /\ heap[h].type # "string" => as_bool(h) = (as_double(h) # 0)
              /\ equals(h, "int", as_int64(h)) = (heap[h].type = "int")
=============================================================================
