-------------------------------- MODULE Array --------------------------------
(***************************************************************************)
(* co::array (array.h) of a class T whose objects own something: arrays are *)
(* built, changed, moved and destroyed in any order.                        *)
(*                                                                          *)
(* A cell of a block holds the value of an object, Husk where an object was *)
(* moved from, or Raw.  objects counts the constructions of values less     *)
(* their destructions.  With a trivial T everything is the same but that    *)
(* nobody counts.                                                           *)
(*                                                                          *)
(* As array.h asks, resize only makes an array shorter (longer, it leaves   *)
(* its caller to construct), and an argument is not an element of the array *)
(* itself, which push_back may move before it reads the argument.           *)
(***************************************************************************)
EXTENDS Sequences, Heap

CONSTANTS Arrays, Values,
          Lists,            \* arguments that are lists of values
          Caps,
          MaxLen            \* bound: no array is made longer

Raw == "raw"
Husk == "husk"
ValuesAssumption == /\ Raw \notin Values /\ Husk \notin Values
                    /\ Lists \subseteq Seq(Values) /\ Caps \subseteq Nat

VARIABLES arr, mem, objects,
          held              \* what the calls have put into each array
vars == <<arr, mem, objects, held>>

(* An array with its cells, cells[1..cap], and with the balance of objects. *)
Empty == [p |-> Null, cap |-> 0, size |-> 0, cells |-> <<>>, n |-> 0]
Raws(n) == [i \in 1..n |-> Raw]
Sized(a, n) == [a EXCEPT !.size = n]

alloc(cap) == [Empty EXCEPT !.p = Fresh(mem), !.cap = cap, !.cells = Raws(cap)]
realloc(a, n) == [a EXCEPT !.p = Fresh(mem), !.cap = n, !.cells = @ \o Raws(n - Len(@))]
reserve(a, n) == IF a.cap < n THEN realloc(a, n) ELSE a

(* new (_p + i) T(x), and ~T of the cells from i to j.                      *)
construct(a, i, v) == [a EXCEPT !.cells[i] = v, !.n = @ + 1]
destruct(a, i, j) == [a EXCEPT !.cells = [k \in DOMAIN @ |-> IF k \in i..j THEN Raw ELSE @[k]],
                               !.n = @ - (IF j < i THEN 0 ELSE j - i + 1)]
(* T(std::move(_p[from])) at the cell to.                                   *)
move(a, from, to) == [a EXCEPT !.cells[to] = a.cells[from], !.cells[from] = Husk]

push_back(a, v) ==
    LET b == IF a.cap = a.size THEN realloc(a, a.cap + a.cap \div 2 + 1) ELSE a
    IN  Sized(construct(b, a.size + 1, v), a.size + 1)
Filled(a, list) ==
    [Sized(a, a.size + Len(list)) EXCEPT
        !.cells = [k \in DOMAIN @ |-> IF k - a.size \in DOMAIN list THEN list[k - a.size] ELSE @[k]],
        !.n = @ + Len(list)]
push_back_all(a, list) == Filled(reserve(a, a.size + Len(list)), list)
_make_array(list) == Filled(alloc(Len(list)), list)

_resize(a, n) == Sized(destruct(a, n + 1, a.size), n)
pop_back(a) == Sized([a EXCEPT !.cells[a.size] = Husk, !.n = @ - 1], a.size - 1)
_remove_back(a) == Sized(destruct(a, a.size, a.size), a.size - 1)
Bug__remove(a, i) == Sized(move(a, a.size, i), a.size - 1)
_remove(a, i) == Sized(move(destruct(a, i, i), a.size, i), a.size - 1)
remove(a, i) == IF i # a.size THEN _remove(a, i) ELSE _remove_back(a)
_reset(a) == IF a.p = Null THEN a ELSE [Empty EXCEPT !.n = destruct(a, 1, a.size).n]

-----------------------------------------------------------------------------
Live == DOMAIN arr
At(x) == [arr[x] EXCEPT !.cells = IF arr[x].p = Null THEN <<>> ELSE mem[arr[x].p].cells]
Items(x) == SubSeq(At(x).cells, 1, arr[x].size)
(* An iterator from begin() to end().                                       *)
Iterated(x) ==
    LET walk[_p \in 0..arr[x].size] ==
            IF _p = arr[x].size THEN <<>> ELSE <<At(x).cells[_p + 1]>> \o walk[_p + 1]
    IN  walk[0]
Slim(a) == [a EXCEPT !.cells = <<>>, !.n = 0]

(* The block of x is given back, the one of a is in its place.              *)
Memory(x, a) == LET m == IF x \in Live /\ arr[x].p # a.p THEN Without(mem, arr[x].p) ELSE mem
                IN  IF a.p = Null THEN m ELSE With(m, a.p, [cap |-> a.cap, cells |-> a.cells])
Store(x, a, list) ==
    /\ Len(list) <= MaxLen
    /\ arr' = With(arr, x, Slim(a)) /\ mem' = Memory(x, a)
    /\ objects' = objects + a.n /\ held' = With(held, x, list)

Init == arr = Nothing /\ mem = Nothing /\ objects = 0 /\ held = Nothing

Construct(x) == /\ x \notin Live
                /\ \/ Store(x, Empty, <<>>)
                   \/ \E n \in Caps : Store(x, alloc(n), <<>>)
                   \/ \E l \in Lists : Store(x, _make_array(l), l)
Copy(x, y) == x \notin Live /\ y \in Live /\ Store(x, _make_array(Items(y)), held[y])
Destroy(x) == /\ x \in Live
              /\ arr' = Without(arr, x) /\ mem' = Without(mem, arr[x].p)
              /\ objects' = objects + _reset(At(x)).n /\ held' = Without(held, x)

(* To a new array, or to one that is reset first.                           *)
Move(x, y) ==
    /\ y \in Live /\ x # y
    /\ arr' = With(With(arr, x, arr[y]), y, Empty)
    /\ held' = With(With(held, x, held[y]), y, <<>>)
    /\ mem' = IF x \in Live THEN Without(mem, arr[x].p) ELSE mem
    /\ objects' = objects + (IF x \in Live THEN _reset(At(x)).n ELSE 0)
swap(x, y) == /\ {x, y} \subseteq Live
              /\ arr' = With(With(arr, x, arr[y]), y, arr[x])
              /\ held' = With(With(held, x, held[y]), y, held[x])
              /\ UNCHANGED <<mem, objects>>

Assign(x) ==
    LET Again(list) == LET a == _make_array(list) IN [a EXCEPT !.n = @ + _reset(At(x)).n]
    IN  /\ x \in Live
        /\ \/ \E y \in Live \ {x} : Store(x, Again(Items(y)), held[y])
           \/ \E l \in Lists : Store(x, Again(l), l)
PushBack(x) == /\ x \in Live
               /\ \/ \E v \in Values : Store(x, push_back(At(x), v), held[x] \o <<v>>)
                  \/ \E l \in Lists : Store(x, push_back_all(At(x), l), held[x] \o l)
Remove(x) ==
    LET n == Len(held[x])
    IN  /\ x \in Live /\ n > 0
        /\ \/ Store(x, pop_back(At(x)), SubSeq(held[x], 1, n - 1))
           \/ \E i \in 1..n : Store(x, remove(At(x), i),
                                    SubSeq([held[x] EXCEPT ![i] = held[x][n]], 1, n - 1))
Resize(x, n) == /\ x \in Live
                /\ \/ Store(x, reserve(At(x), n), held[x])
                   \/ n <= Len(held[x]) /\ Store(x, _resize(At(x), n), SubSeq(held[x], 1, n))
                   \/ Store(x, _reset(At(x)), <<>>)

Next == \E x \in Arrays :
           \/ Construct(x) \/ Destroy(x) \/ Assign(x) \/ PushBack(x) \/ Remove(x)
           \/ \E y \in Arrays : Copy(x, y) \/ Move(x, y) \/ swap(x, y)
           \/ \E n \in Caps : Resize(x, n)
Spec == Init /\ [][Next]_vars

-----------------------------------------------------------------------------
(* The places of all the values that the arrays hold. *)
Places == UNION {{x} \X (1..arr[x].size) : x \in Live}

(* An array holds what was put into it, remove filling its gap from the     *)
(* end; as many values are alive as the arrays hold, so that none is        *)
(* destroyed twice, overwritten or left behind; blocks are as in            *)
(* FastString.                                                              *)
ArraysOwnTheirElements ==
    /\ \A x \in Live : /\ arr[x].p # Null => /\ arr[x].p \in DOMAIN mem
                                             /\ mem[arr[x].p].cap = arr[x].cap
                       /\ Items(x) = held[x] /\ Iterated(x) = held[x]
                       /\ \A i \in (arr[x].size + 1)..arr[x].cap : At(x).cells[i] \notin Values
    /\ DOMAIN mem = {arr[x].p : x \in Live} \ {Null}
    /\ \A x, y \in Live : x # y /\ arr[x].p = arr[y].p => arr[x].p = Null
    /\ objects = Cardinality(Places)
=============================================================================
