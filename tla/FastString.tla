------------------------------ MODULE FastString -------------------------------
(***************************************************************************)
(* fast::stream (fast.h), fastring and fastream: strings that own a block   *)
(* of memory and grow it in place.  Strings are built, changed, moved and   *)
(* destroyed in any order.                                                   *)
(*                                                                          *)
(* A byte is a character; Any is the byte of memory nothing was written to. *)
(* A block is its size and the bytes written to it, from its start.  text   *)
(* is what the calls so far have asked a string to hold.                    *)
(***************************************************************************)
EXTENDS Sequences, Heap

CONSTANTS Strings,          \* the variables that hold strings
          Texts,            \* what is appended, assigned, looked for
          Numbers,          \* records [size, digits]: sizeof(v) and its text
          Caps,             \* arguments of reserve, resize and constructors
          Rank,             \* the bytes: a function to their values
          MaxSize           \* bound: no string is made longer

Any == "any"
NUL == "NUL"
Bytes == DOMAIN Rank
TextsAssumption ==
    /\ Rank \in [Bytes -> Nat] /\ \A b, c \in Bytes : Rank[b] = Rank[c] => b = c
    /\ {NUL, "a", "0", "x"} \subseteq Bytes /\ Any \notin Bytes
    /\ Texts \subseteq Seq(Bytes) /\ Caps \subseteq Nat
    /\ \A v \in Numbers : /\ v.size \in 1..8 /\ v.digits \in Seq(Bytes)
                          /\ Len(v.digits) <= 3 * v.size

VARIABLES str, mem, text
vars == <<str, mem, text>>

npos == -1
Least(S) == CHOOSE i \in S : \A j \in S : i <= j
First(t, n) == SubSeq(t, 1, n)

-----------------------------------------------------------------------------
(* A string o with the memory it lives in, o.m.  co::realloc may move the   *)
(* block, and here does.                                                     *)
NoString == [p |-> Null, cap |-> 0, size |-> 0]
On(s, m) == [s |-> s, m |-> m]
Block(o) == IF o.s.p = Null THEN <<>> ELSE o.m[o.s.p].bytes

alloc(m, cap, bytes) ==
    On([p |-> Fresh(m), cap |-> cap, size |-> Len(bytes)],
       With(m, Fresh(m), [cap |-> cap, bytes |-> bytes]))

realloc(o, n) ==
    LET m == Without(o.m, o.s.p)
    IN  On([o.s EXCEPT !.p = Fresh(m), !.cap = n],
           With(m, Fresh(m), [cap |-> n, bytes |-> Block(o)]))

free(o) == Without(o.m, o.s.p)

reserve(o, n) == IF o.s.cap < n THEN realloc(o, n) ELSE o
ensure(o, n) == IF o.s.cap < o.s.size + n THEN realloc(o, o.s.cap + o.s.cap \div 2 + n) ELSE o

(* Bytes written over those from place at on; what lies behind is of no use *)
(* to anybody.                                                               *)
Write(o, at, bytes) ==
    IF bytes = <<>> THEN o
    ELSE On(o.s, With(o.m, o.s.p, [o.m[o.s.p] EXCEPT !.bytes = First(@, at) \o bytes]))
Sized(o, n) == On([o.s EXCEPT !.size = n], o.m)
Put(o, bytes) == Sized(Write(o, o.s.size, bytes), o.s.size + Len(bytes))

append(o, bytes) == Put(ensure(o, Len(bytes)), bytes)
put_number(o, v) == Put(ensure(o, 3 * v.size), v.digits)
put_double(o, digits) == Put(ensure(o, 24), digits)
put_null(o) == append(ensure(o, 4), <<"0", "x", "0">>)
c_str(o) == LET r == reserve(o, o.s.size + 1) IN Write(r, r.s.size, <<NUL>>)
resize(o, n) ==
    LET r == reserve(o, n)
    IN  Sized(Write(r, o.s.size, [i \in 1..(n - o.s.size) |-> Any]), n)
assign(o, bytes) ==
    IF bytes = <<>> THEN Sized(o, 0)
    ELSE Sized(Write(reserve(o, Len(bytes) + 1), 0, bytes), Len(bytes))
append_self(o) == LET b == First(Block(o), o.s.size) IN Put(reserve(o, 2 * o.s.size), b)
lshift(o, n) == IF o.s.size <= n THEN Sized(o, 0)
                ELSE Sized(Write(o, 0, SubSeq(Block(o), n + 1, o.s.size)), o.s.size - n)

(* fastring(p, n): no block for nothing.  fastring(n, c) always has one.    *)
made(m, bytes) == IF bytes = <<>> THEN On(NoString, m) ELSE alloc(m, Len(bytes) + 1, bytes)
filled(m, n, c) == alloc(m, n + 1, [i \in 1..n |-> c])

-----------------------------------------------------------------------------
(* Actions: one per kind of call.                                           *)
Live == DOMAIN str
At(x) == On(str[x], mem)
Value(x) == First(Block(At(x)), str[x].size)
Store(x, o, t) == /\ Len(t) <= MaxSize
                  /\ str' = With(str, x, o.s) /\ mem' = o.m /\ text' = With(text, x, t)

Init == str = Nothing /\ mem = Nothing /\ text = Nothing

Construct(x) ==
    /\ x \notin Live
    /\ \/ Store(x, On(NoString, mem), <<>>)
       \/ \E n \in Caps : Store(x, alloc(mem, n, <<>>), <<>>)
       \/ \E t \in Texts : Store(x, made(mem, t), t)
       \/ \E n \in Caps : Store(x, filled(mem, n, "a"), [i \in 1..n |-> "a"])
Copy(x, y) == x \notin Live /\ y \in Live /\ Store(x, made(mem, Value(y)), text[y])
substr(x, y, pos, len) ==
    LET Part(t) == SubSeq(t, pos + 1, IF pos + len < Len(t) THEN pos + len ELSE Len(t))
    IN  x \notin Live /\ y \in Live /\ Store(x, made(mem, Part(Value(y))), Part(text[y]))
Concat(x, y, t) ==
    /\ x \notin Live /\ y \in Live
    /\ Store(x, append(append(alloc(mem, Len(text[y]) + Len(t) + 1, <<>>), Value(y)), t), text[y] \o t)

Destroy(x) == /\ x \in Live
              /\ str' = Without(str, x) /\ mem' = free(At(x)) /\ text' = Without(text, x)

(* The string moved from is empty and has no block.                         *)
Bug_Emptied(s) == s
Emptied(s) == NoString
Move(x, y) == /\ x \notin Live /\ y \in Live
              /\ str' = With(With(str, x, str[y]), y, Emptied(str[y]))
              /\ text' = With(With(text, x, text[y]), y, <<>>)
              /\ UNCHANGED mem
MoveAssign(x, y) ==
    /\ {x, y} \subseteq Live
    /\ IF x = y THEN UNCHANGED vars
       ELSE /\ str' = With(With(str, x, str[y]), y, Emptied(str[y]))
            /\ text' = With(With(text, x, text[y]), y, <<>>)
            /\ mem' = free(At(x))
swap(x, y) == /\ {x, y} \subseteq Live
              /\ str' = With(With(str, x, str[y]), y, str[x])
              /\ text' = With(With(text, x, text[y]), y, text[x])
              /\ UNCHANGED mem

Assign(x) == x \in Live /\ (\/ \E t \in Texts : Store(x, assign(At(x), t), t)
                            \/ \E y \in Live \ {x} : Store(x, assign(At(x), Value(y)), text[y]))
AppendText(x) == x \in Live /\ \E t \in Texts : Store(x, append(At(x), t), text[x] \o t)
AppendSelf(x) == x \in Live /\ Store(x, append_self(At(x)), text[x] \o text[x])
(* fastream appends the bytes of an integer; cat appends one by one.        *)
AppendBinary(x) ==
    x \in Live /\ \E v \in Numbers :
        LET bytes == [i \in 1..v.size |-> NUL] IN Store(x, append(At(x), bytes), text[x] \o bytes)
cat(x) == x \in Live /\ \E t \in Texts, v \in Numbers :
              Store(x, put_number(append(At(x), t), v), text[x] \o t \o v.digits)
Output(x) ==
    /\ x \in Live
    /\ \/ \E v \in Numbers : \/ Store(x, put_number(At(x), v), text[x] \o v.digits)
                             \/ Store(x, put_double(At(x), v.digits), text[x] \o v.digits)
       \/ Store(x, put_null(At(x)), text[x] \o <<"0", "x", "0">>)
Resize(x, n) == x \in Live /\ Store(x, resize(At(x), n),
    First(text[x], IF n < Len(text[x]) THEN n ELSE Len(text[x])) \o [i \in 1..(n - Len(text[x])) |-> Any])
Reserve(x, n) == x \in Live /\ (\/ Store(x, reserve(At(x), n), text[x])
                                \/ Store(x, ensure(At(x), n), text[x])
                                \/ Store(x, c_str(At(x)), text[x]))
Reset(x) == x \in Live /\ (\/ Store(x, Sized(At(x), 0), <<>>)
                           \/ Store(x, On(NoString, free(At(x))), <<>>))
Lshift(x, n) == x \in Live /\ Store(x, lshift(At(x), n), SubSeq(text[x], n + 1, Len(text[x])))
remove_tail(x, t) ==
    LET rest == Len(text[x]) - Len(t)
    IN  x \in Live /\ rest >= 0 /\ SubSeq(Value(x), rest + 1, Len(text[x])) = t
        /\ Store(x, resize(At(x), rest), First(text[x], rest))
(* A copy is made, swapped and destroyed.                                   *)
shrink(x) == /\ x \in Live /\ str[x].size + 1 < str[x].cap
             /\ Store(x, made(free(At(x)), Value(x)), text[x])

Next == \E x \in Strings :
           \/ Construct(x) \/ Destroy(x) \/ Assign(x) \/ AppendText(x) \/ AppendSelf(x)
           \/ AppendBinary(x) \/ cat(x) \/ Output(x) \/ Reset(x) \/ shrink(x)
           \/ \E n \in Caps : Resize(x, n) \/ Reserve(x, n) \/ Lshift(x, n)
           \/ \E t \in Texts : remove_tail(x, t)
           \/ \E y \in Strings : Copy(x, y) \/ Move(x, y) \/ MoveAssign(x, y) \/ swap(x, y)
           \/ \E y \in Strings, n \in Caps : substr(x, y, n, 1)
           \/ \E y \in Strings, t \in Texts : Concat(x, y, t)
Spec == Init /\ [][Next]_vars

-----------------------------------------------------------------------------
(* The questions that do not change a string, of its text t.  Those that    *)
(* are strstr, strcspn or strspn see the text up to its first NUL.          *)
Ends(t, pos) == Least({i \in pos..Len(t) : i = Len(t) \/ t[i + 1] = NUL})
find_char(t, c, pos) ==
    LET S == {i \in pos..(Len(t) - 1) : t[i + 1] = c} IN IF S = {} THEN npos ELSE Least(S)
find_str(t, s, pos) ==
    LET S == {i \in pos..(Len(t) - 1) : i + Len(s) <= Ends(t, pos) /\ SubSeq(t, i + 1, i + Len(s)) = s}
    IN  IF S = {} THEN npos ELSE Least(S)
rfind_char(t, c) == LET S == {i \in 0..(Ends(t, 0) - 1) : t[i + 1] = c}
                    IN  IF S = {} THEN npos ELSE CHOOSE i \in S : \A j \in S : j <= i
Span(t, pos, P(_)) ==
    IF Len(t) <= pos THEN npos
    ELSE LET r == Least({i \in pos..Ends(t, pos) : i = Ends(t, pos) \/ P(t[i + 1])})
         IN  IF r = Ends(t, pos) THEN npos ELSE r
find_first_of(t, s, pos) == Span(t, pos, LAMBDA c : \E i \in DOMAIN s : s[i] = c)
find_first_not_of(t, s, pos) == Span(t, pos, LAMBDA c : \A i \in DOMAIN s : s[i] # c)
starts_with(t, s) == Len(s) = 0 \/ (Len(s) <= Len(t) /\ First(t, Len(s)) = s)
ends_with(t, s) == Len(s) = 0 \/ (Len(s) <= Len(t) /\ SubSeq(t, Len(t) - Len(s) + 1, Len(t)) = s)

(* memcmp of the first n bytes, and the operators made of it.               *)
memcmp(t, u, n) ==
    LET S == {i \in 1..n : t[i] # u[i]} IN IF S = {} THEN 0 ELSE Rank[t[Least(S)]] - Rank[u[Least(S)]]
equal(t, u) == Len(t) = Len(u) /\ memcmp(t, u, Len(t)) = 0
less(t, u) == IF Len(t) < Len(u) THEN Len(t) = 0 \/ memcmp(t, u, Len(t)) <= 0
              ELSE memcmp(t, u, Len(u)) < 0
greater(t, u) == IF Len(t) > Len(u) THEN Len(u) = 0 \/ memcmp(t, u, Len(u)) >= 0
                 ELSE memcmp(t, u, Len(t)) > 0
less_equal(t, u) == ~greater(t, u)
greater_equal(t, u) == ~less(t, u)

-----------------------------------------------------------------------------
(* Properties *)

(* A string's cap is the size its block was allocated with (co::free is     *)
(* told it), nothing is written outside a block, no two strings share one,  *)
(* and none is lost; each string holds what the calls asked for, bytes left *)
(* open by a resize aside.                                                  *)
BlocksInOrder ==
    /\ \A x \in Live :
          LET s == str[x]
          IN  IF s.p = Null THEN s = NoString /\ text[x] = <<>>
              ELSE /\ s.p \in DOMAIN mem
                   /\ mem[s.p].cap = s.cap
                   /\ s.size = Len(text[x])
                   /\ s.size <= Len(mem[s.p].bytes) /\ Len(mem[s.p].bytes) <= s.cap
                   /\ \A i \in 1..s.size : text[x][i] \in {Any, mem[s.p].bytes[i]}
    /\ \A x, y \in Live : x # y /\ str[x].p = str[y].p => str[x].p = Null
    /\ DOMAIN mem \subseteq {str[x].p : x \in Live}

(* The comparisons of any two strings agree with each other, and the        *)
(* searches with starts_with and substr, as long as no NUL is in the way.   *)
QuestionsAgree ==
    \A x, y \in Live :
        LET t == text[x]  u == text[y]
            plain == {Any, NUL} \cap ({t[i] : i \in DOMAIN t} \cup {u[i] : i \in DOMAIN u}) = {}
        IN  plain =>
                /\ Cardinality({k \in {"<", "=", ">"} : CASE k = "<" -> less(t, u)
                                   [] k = "=" -> equal(t, u) [] k = ">" -> greater(t, u)}) = 1
                /\ less_equal(t, u) = greater_equal(u, t)
                /\ starts_with(u, t) => less_equal(t, u)
                /\ \A pos \in 0..Len(t) :
                      LET r == find_str(t, u, pos)
                      IN  IF r = npos THEN \A i \in pos..(Len(t) - 1) : ~starts_with(SubSeq(t, i + 1, Len(t)), u)
                          ELSE starts_with(SubSeq(t, r + 1, Len(t)), u) /\ find_str(t, u, r) = r
                /\ \A i \in DOMAIN t :
                      /\ find_char(t, t[i], 0) <= rfind_char(t, t[i])
                      /\ find_char(t, t[i], 0) = find_first_of(t, <<t[i]>>, 0)
                      /\ find_first_not_of(t, <<t[i]>>, 0) # 0 <=> i = 1 \/ t[1] = t[i]

(* Whatever the calls, strings hold what they asked for, in memory that is  *)
(* in order, and what is asked of them is answered from that text.          *)
StringsHoldTheirText == BlocksInOrder /\ QuestionsAgree
=============================================================================
