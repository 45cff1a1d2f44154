------------------------------ MODULE SyncEvent -------------------------------
(***************************************************************************)
(* SyncEvent (thread.h): threads wait for an event, with or without a time  *)
(* limit, and others signal and reset it.  Everything a call does, it does  *)
(* under the mutex; a wait gives the mutex up while it sleeps, and that is  *)
(* where its two steps part.  A thread may wake without a signal, as those  *)
(* of the systems' condition variables do.                                  *)
(***************************************************************************)
EXTENDS Naturals, FiniteSets

CONSTANT Threads

ThreadsAssumption == IsFiniteSet(Threads)

VARIABLES _counter, _signaled,
          _manual_reset,    \* whether a signal stays until it is reset
          pc                \* what a thread does in wait, if it is there
vars == <<_counter, _signaled, _manual_reset, pc>>

Init == /\ _counter = 0 /\ _signaled \in BOOLEAN /\ _manual_reset \in BOOLEAN
        /\ pc = [t \in Threads |-> "out"]

(* cond_notify wakes all that sleep.                                        *)
Bug_cond_notify == LET S == {t \in Threads : pc[t] \in {"sleeps", "sleeps_ms"}}
                   IN  [t \in Threads |-> IF S # {} /\ t = CHOOSE u \in S : TRUE THEN "woken" ELSE pc[t]]
cond_notify == [t \in Threads |-> IF pc[t] \in {"sleeps", "sleeps_ms"} THEN "woken" ELSE pc[t]]

signal == /\ _signaled' = TRUE
          /\ pc' = IF _signaled THEN pc ELSE cond_notify
          /\ UNCHANGED _counter

reset == _signaled' = FALSE /\ UNCHANGED <<_counter, pc>>

(* The end of a wait that has seen the signal, when counter others wait.    *)
Taken(counter) == IF ~_manual_reset /\ counter = 0 THEN FALSE ELSE _signaled

wait(t, sleep) ==
    /\ pc[t] = "out"
    /\ IF _signaled THEN _signaled' = Taken(_counter) /\ UNCHANGED <<_counter, pc>>
       ELSE /\ _counter' = _counter + 1
            /\ pc' = [pc EXCEPT ![t] = sleep]
            /\ UNCHANGED _signaled

Resume(t) == /\ pc[t] = "woken"
             /\ _counter' = _counter - 1
             /\ _signaled' = Taken(_counter - 1)
             /\ pc' = [pc EXCEPT ![t] = "out"]
TimedOut(t) == /\ pc[t] = "late"
               /\ _counter' = _counter - 1
               /\ pc' = [pc EXCEPT ![t] = "out"]
               /\ UNCHANGED _signaled

Wakes(t) == /\ \/ pc[t] \in {"sleeps", "sleeps_ms"} /\ pc' = [pc EXCEPT ![t] = "woken"]
               \/ pc[t] = "sleeps_ms" /\ pc' = [pc EXCEPT ![t] = "late"]
            /\ UNCHANGED <<_counter, _signaled>>

Next == /\ \/ signal \/ reset
           \/ \E t \in Threads : \/ wait(t, "sleeps") \/ wait(t, "sleeps_ms")
                                 \/ Resume(t) \/ TimedOut(t) \/ Wakes(t)
        /\ UNCHANGED _manual_reset
Spec == Init /\ [][Next]_vars

-----------------------------------------------------------------------------
(* Nobody sleeps while the event is signaled, whoever came late, timed out  *)
(* or woke early meanwhile; and _counter, which decides who takes the       *)
(* signal, counts the threads that have not returned from their wait.       *)
NobodySleepsThroughSignal ==
    /\ _signaled => \A t \in Threads : pc[t] \notin {"sleeps", "sleeps_ms"}
    /\ _counter = Cardinality({t \in Threads : pc[t] # "out"})
=============================================================================
