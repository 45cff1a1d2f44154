-------------------------------- MODULE Thread -------------------------------
(***************************************************************************)
(* Thread (thread.h) and the closure it runs (closure.h): callers join or   *)
(* detach one thread, at the same time or one after the other; the owner's  *)
(* call is the destructor, when the others have returned.                   *)
(***************************************************************************)
EXTENDS Naturals, FiniteSets

CONSTANTS Callers, Owner

OwnerAssumption == Owner \in Callers

VARIABLES _t,               \* the handle of the thread, or 0
          fun,              \* how far the thread function is
          runs, deletes,    \* of the closure
          joins, detaches,  \* calls with the handle
          pc
vars == <<_t, fun, runs, deletes, joins, detaches, pc>>

Handle == 1

(* Whatever it is made of, a closure runs when it is told to, and belongs   *)
(* to itself.                                                               *)
new_closure == runs = 0 /\ deletes = 0

Init == /\ _t = Handle /\ fun = "starts"
        /\ new_closure /\ joins = 0 /\ detaches = 0
        /\ pc = [c \in Callers |-> "ready"]

(* Closure::run, of any of its classes: the function is called, then the    *)
(* closure deletes itself.                                                  *)
run == /\ fun = "starts" /\ fun' = "called" /\ runs' = runs + 1
       /\ UNCHANGED <<_t, deletes, joins, detaches, pc>>
del == /\ fun = "called" /\ fun' = "ended" /\ deletes' = deletes + 1
       /\ UNCHANGED <<_t, runs, joins, detaches, pc>>

MayCall(c) == /\ pc[c] = "ready"
              /\ IF c = Owner THEN \A d \in Callers \ {Owner} : pc[d] \in {"ready", "done"}
                 ELSE pc[Owner] = "ready"
Bug_Taken == _t
Taken == 0
Swap(c) ==
    /\ MayCall(c)
    /\ _t' = Taken
    /\ \E place \in IF c = Owner THEN {"join"} ELSE {"join", "detach"} :
          pc' = [pc EXCEPT ![c] = IF _t = 0 THEN "done" ELSE place]
    /\ UNCHANGED <<fun, runs, deletes, joins, detaches>>
join(c) ==
    /\ pc[c] = "join" /\ fun = "ended"
    /\ joins' = joins + 1 /\ pc' = [pc EXCEPT ![c] = "done"]
    /\ UNCHANGED <<_t, fun, runs, deletes, detaches>>
detach(c) ==
    /\ pc[c] = "detach"
    /\ detaches' = detaches + 1 /\ pc' = [pc EXCEPT ![c] = "done"]
    /\ UNCHANGED <<_t, fun, runs, deletes, joins>>

Next == run \/ del \/ \E c \in Callers : Swap(c) \/ join(c) \/ detach(c)
Spec == Init /\ [][Next]_vars

-----------------------------------------------------------------------------
(* The handle is joined or detached once, whoever asks, and not at all only *)
(* while the Thread object lives; the destructor returns behind the end of  *)
(* the thread function, unless it was detached; and the closure is deleted  *)
(* once, behind its only run.                                               *)
HandleUsedOnce ==
    /\ joins + detaches <= 1
    /\ pc[Owner] = "done" => joins + detaches = 1
    /\ joins = 1 => fun = "ended" /\ runs = 1 /\ deletes = 1
    /\ deletes <= runs /\ runs <= 1
=============================================================================
