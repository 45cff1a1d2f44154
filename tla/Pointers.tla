------------------------------- MODULE Pointers -------------------------------
(***************************************************************************)
(* co::shared_ptr, co::unique_ptr (mem.h) and thread_ptr (thread.h) in the  *)
(* hands of threads.                                                        *)
(*                                                                          *)
(* A thread has variables of its own, of all kinds, and hands objects to    *)
(* other threads by moving a variable into one of theirs; its own value of  *)
(* a thread_ptr it can only release to them.  What a call does *)
(* to its own variables is one step; what it does to the counter, and what  *)
(* it deletes, are steps of their own.                                      *)
(***************************************************************************)
EXTENDS Integers, FiniteSets

CONSTANTS Threads,
          Shared, Unique,   \* variables
          Local,            \* what a thread_ptr is for each thread
          Owner,            \* the thread of each
          MaxObjects        \* bound: as many objects are made

OwnerAssumption == Owner \in [Shared \cup Unique \cup Local -> Threads]

(* The kinds of variables are types of their own. *)
SetsAssumption == /\ IsFiniteSet(Threads) /\ IsFiniteSet(Shared)
                  /\ IsFiniteSet(Unique) /\ IsFiniteSet(Local)
                  /\ Shared \cap (Unique \cup Local) = {} /\ Unique \cap Local = {}
                  /\ MaxObjects \in Nat

Null == 0
Vars == Shared \cup Unique \cup Local
VARIABLES ptr,              \* the object of each variable
          refn,             \* the counters of the objects that are shared
          alive, deleted,   \* objects; how often each was deleted
          dropped           \* what a thread has let go: [x, at], at its next step
vars == <<ptr, refn, alive, deleted, dropped>>

Objects == 1..MaxObjects
Idle == [x |-> Null, at |-> "idle"]
Init == /\ ptr = [v \in Vars |-> Null]
        /\ refn = [o \in Objects |-> 0]
        /\ alive = {} /\ deleted = [o \in Objects |-> 0]
        /\ dropped = [t \in Threads |-> Idle]

(* A thread between two calls; it lets go of the object o in a call. *)
Free(t) == dropped[t] = Idle
Drop(t, o) == dropped' = [dropped EXCEPT ![t] = IF o = Null THEN Idle ELSE [x |-> o, at |-> "dec"]]
Delete(t, o) == dropped' = [dropped EXCEPT ![t] = IF o = Null THEN Idle ELSE [x |-> o, at |-> "del"]]

(* v.reset(new object), of any kind: the old one goes with a temporary.     *)
Make(v) ==
    \E o \in Objects \ alive :
        /\ deleted[o] = 0 /\ \A n \in Objects : n < o => n \in alive \/ deleted[n] > 0
        /\ ptr' = [ptr EXCEPT ![v] = o]
        /\ alive' = alive \cup {o}
        /\ refn' = IF v \in Shared THEN [refn EXCEPT ![o] = 1] ELSE refn
        /\ IF v \in Shared THEN Drop(Owner[v], ptr[v]) ELSE Delete(Owner[v], ptr[v])
        /\ UNCHANGED deleted

(* v = w for two variables of a thread: the counter of w's object goes up   *)
(* in the copy, and down for v's old one when the temporary is destroyed.   *)
Copy(v, w) ==
    /\ v # w /\ Owner[v] = Owner[w]
    /\ ptr' = [ptr EXCEPT ![v] = ptr[w]]
    /\ refn' = IF ptr[w] = Null THEN refn ELSE [refn EXCEPT ![ptr[w]] = @ + 1]
    /\ Drop(Owner[v], ptr[v])
    /\ UNCHANGED <<alive, deleted>>

(* v = std::move(w), which may be a variable of another thread that waits.  *)
Move(v, w) ==
    /\ v # w /\ Free(Owner[w])
    /\ {v, w} \subseteq Shared \/ {v, w} \subseteq Unique
    /\ ptr' = [ptr EXCEPT ![v] = ptr[w], ![w] = Null]
    /\ IF v \in Shared THEN Drop(Owner[v], ptr[v]) ELSE Delete(Owner[v], ptr[v])
    /\ UNCHANGED <<refn, alive, deleted>>
(* v.reset(w.release()) for a unique_ptr v and a thread_ptr w or the other  *)
(* way round.                                                               *)
release(v, w) ==
    /\ v # w /\ Owner[v] = Owner[w] /\ {v, w} \subseteq Unique \cup Local
    /\ v \in Local \/ w \in Local
    /\ ptr' = [ptr EXCEPT ![v] = ptr[w], ![w] = Null]
    /\ Delete(Owner[v], ptr[v])
    /\ UNCHANGED <<refn, alive, deleted>>
swap(v, w) ==
    /\ v # w /\ Owner[v] = Owner[w]
    /\ {v, w} \subseteq Shared \/ {v, w} \subseteq Unique
    /\ ptr' = [ptr EXCEPT ![v] = ptr[w], ![w] = ptr[v]]
    /\ UNCHANGED <<refn, alive, deleted, dropped>>
Reset(v) ==
    /\ ptr' = [ptr EXCEPT ![v] = Null]
    /\ IF v \in Shared THEN Drop(Owner[v], ptr[v]) ELSE Delete(Owner[v], ptr[v])
    /\ UNCHANGED <<refn, alive, deleted>>

(* atomic_dec, and what the thread that reads 0 does.                       *)
Bug_Dec(t) ==
    LET o == dropped[t].x
    IN  /\ dropped[t].at = "dec"
        /\ refn' = [refn EXCEPT ![o] = @ - 1]
        /\ dropped' = [dropped EXCEPT ![t] = IF refn[o] <= 2 THEN [x |-> o, at |-> "del"] ELSE Idle]
        /\ UNCHANGED <<ptr, alive, deleted>>
Dec(t) ==
    LET o == dropped[t].x
    IN  /\ dropped[t].at = "dec"
        /\ refn' = [refn EXCEPT ![o] = @ - 1]
        /\ dropped' = [dropped EXCEPT ![t] = IF refn[o] = 1 THEN [x |-> o, at |-> "del"] ELSE Idle]
        /\ UNCHANGED <<ptr, alive, deleted>>
Del(t) ==
    LET o == dropped[t].x
    IN  /\ dropped[t].at = "del"
        /\ alive' = alive \ {o} /\ deleted' = [deleted EXCEPT ![o] = @ + 1]
        /\ dropped' = [dropped EXCEPT ![t] = Idle]
        /\ UNCHANGED <<ptr, refn>>

Next == \/ \E v \in Vars : /\ Free(Owner[v])
                           /\ \/ Make(v) \/ Reset(v)
                              \/ \E w \in Vars : Move(v, w) \/ release(v, w) \/ swap(v, w)
                              \/ v \in Shared /\ \E w \in Shared : Copy(v, w)
        \/ \E t \in Threads : Dec(t) \/ Del(t)
Spec == Init /\ [][Next]_vars

-----------------------------------------------------------------------------
(* Variables and threads that have not finished letting go. *)
References(o) == Cardinality({v \in Shared : ptr[v] = o})
                 + Cardinality({t \in Threads : dropped[t] = [x |-> o, at |-> "dec"]})
InUse(o) == \E v \in Vars : ptr[v] = o

(* An object is deleted once, not before the last variable that refers to   *)
(* it has let go, whatever thread that is in, and then it is: nothing is    *)
(* left alive that no variable holds and no thread is about to delete.      *)
DeletedOnce ==
    \A o \in Objects :
        /\ InUse(o) => o \in alive
        /\ deleted[o] <= 1
        /\ refn[o] = References(o)
        /\ o \in alive /\ ~InUse(o) => \E t \in Threads : dropped[t].x = o
=============================================================================
