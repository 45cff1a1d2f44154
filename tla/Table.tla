-------------------------------- MODULE Table --------------------------------
(***************************************************************************)
(* co::table (table.h): rows that are allocated when they are first asked   *)
(* for, by any thread.  _v is read without the mutex first; what is read    *)
(* there may be older than what another thread has written.  Rows are named *)
(* by the order of their allocation.                                        *)
(***************************************************************************)
EXTENDS Integers, FiniteSets

CONSTANTS Threads, _ysize

SizeAssumption == _ysize \in Nat \ {0}

No == 0
Nobody == "nobody"
NobodyAssumption == Nobody \notin Threads

Rows == 0..(_ysize - 1)

VARIABLES _v, _i, _mtx,
          pc, q,            \* where a thread is in operator[], and its row
          allocated         \* rows so far
vars == <<_v, _i, _mtx, pc, q, allocated>>

Init == /\ _v = [r \in Rows |-> IF r = 0 THEN 1 ELSE No] /\ allocated = 1
        /\ _i = 1 /\ _mtx = Nobody
        /\ pc = [t \in Threads |-> "out"] /\ q = [t \in Threads |-> 0]

Go(t, place) == pc' = [pc EXCEPT ![t] = place]

(* i >> xbits is the row. *)
Ask(t) == /\ pc[t] = "out"
          /\ \E row \in Rows : q' = [q EXCEPT ![t] = row]
          /\ Go(t, "test")
          /\ UNCHANGED <<_v, _i, _mtx, allocated>>
Test(t) == /\ pc[t] = "test"
           /\ \/ _v[q[t]] # No /\ Go(t, "out")
              \/ Go(t, "lock")
           /\ UNCHANGED <<_v, _i, _mtx, q, allocated>>
Lock(t) == /\ pc[t] = "lock" /\ _mtx = Nobody
           /\ _mtx' = t /\ Go(t, "locked")
           /\ UNCHANGED <<_v, _i, q, allocated>>

Bug_Missing(t) == TRUE
Missing(t) == _v[q[t]] = No
Calloc(t) == /\ pc[t] = "locked"
             /\ IF Missing(t)
                THEN /\ allocated' = allocated + 1
                     /\ _v' = [_v EXCEPT ![q[t]] = allocated + 1]
                     /\ Go(t, "count")
                ELSE Go(t, "unlock") /\ UNCHANGED <<_v, allocated>>
             /\ UNCHANGED <<_i, _mtx, q>>
Count(t) == /\ pc[t] = "count"
            /\ _i' = IF _i <= q[t] THEN q[t] + 1 ELSE _i
            /\ Go(t, "unlock")
            /\ UNCHANGED <<_v, _mtx, q, allocated>>
Unlock(t) == /\ pc[t] = "unlock"
             /\ _mtx' = Nobody /\ Go(t, "out")
             /\ UNCHANGED <<_v, _i, q, allocated>>

Step(t) == Ask(t) \/ Test(t) \/ Lock(t) \/ Calloc(t) \/ Count(t) \/ Unlock(t)
Next == \E t \in Threads : Step(t)
Spec == Init /\ [][Next]_vars

(* The rows that ~table frees. *)
Freed == {_v[r] : r \in {k \in Rows : k < _i}} \ {No}

-----------------------------------------------------------------------------
(* Every row that was ever allocated is in the table and keeps its place:   *)
(* no two threads allocate the same one, so that no element moves under a   *)
(* reference; and the destructor, when nobody is in a call, frees all.      *)
RowsStay ==
    /\ \A n \in 1..allocated : \E r \in Rows : _v[r] = n
    /\ (\A t \in Threads : pc[t] = "out") => Freed = 1..allocated
=============================================================================
