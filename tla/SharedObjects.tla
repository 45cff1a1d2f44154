---------------------------- MODULE SharedObjects ----------------------------
(***************************************************************************)
(* The objects that several threads, connections or callers share, beside   *)
(* the connections' own state: the server and the application, and of the   *)
(* co library the pointers, the event, the table and the thread.  Each has  *)
(* its variables; what it promises is a property of its own behaviours.     *)
(***************************************************************************)
EXTENDS Integers, FiniteSets

CONSTANTS Callers, Owner,           \* threads; the one that owns a Thread
          PtrThreads, SharedPtrs, UniquePtrs, ThreadPtrs, PtrOwner, MaxObjects,
          _ysize,                   \* rows of the table
          MaxConnections, MaxExits, \* of the server: bounds
          Clients, MaxRequests      \* of the application; a bound

VARIABLES manual,
          ptr, refn, alive, deleted, dropped,
          _counter, _signaled, waiting,
          _v, _i, _mtx, at, q, allocated,
          _t, fun, runs, deletes, joins, detaches, pc,
          server, impl, impl_deletes, _started, _stopped, tcp, connections, exits, read,
          main, hooks, http, ws, place, requests, kind, target, keep_alive, fn, i, ran, sent

Workers == Callers \ {Owner}

Ptr == INSTANCE Pointers WITH
    Threads <- PtrThreads, Shared <- SharedPtrs, Unique <- UniquePtrs, Local <- ThreadPtrs,
    Owner <- PtrOwner
Event == INSTANCE SyncEvent WITH Threads <- Callers, _manual_reset <- manual, pc <- waiting
Table == INSTANCE Table WITH Threads <- Workers, pc <- at
Thr == INSTANCE Thread
Servers == INSTANCE ServerLifecycle WITH deletes <- impl_deletes, used <- read
App == INSTANCE Application WITH Connections <- Clients, pc <- place, asked <- requests

ASSUME PointersAssumption == Ptr!OwnerAssumption /\ Ptr!SetsAssumption
ASSUME ThreadsAssumption == Event!ThreadsAssumption /\ Thr!OwnerAssumption
ASSUME TableAssumption == Table!SizeAssumption /\ Table!NobodyAssumption

ptrVars == <<ptr, refn, alive, deleted, dropped>>
eventVars == <<_counter, _signaled, manual, waiting>>
tableVars == <<_v, _i, _mtx, at, q, allocated>>
threadVars == <<_t, fun, runs, deletes, joins, detaches, pc>>
serverVars == <<server, impl, impl_deletes, _started, _stopped, tcp, connections, exits, read>>
appVars == <<main, hooks, http, ws, place, requests, kind, target, keep_alive, fn, i, ran, sent>>

(* A shared or unique object is deleted once, by the last that lets it go.  *)
DeletedOnce == Ptr!DeletedOnce

(* No thread sleeps while the event it waits for is signaled.               *)
NobodySleepsThroughSignal == Event!NobodySleepsThroughSignal

(* No row of a table is allocated twice, moves or leaks.                    *)
RowsStay == Table!RowsStay

(* A thread is joined or detached once, behind the end of its closure.      *)
HandleUsedOnce == Thr!HandleUsedOnce

(* A ServerImpl is deleted once, and under no connection.                   *)
ImplDeletedOnce == Servers!ImplDeletedOnce

(* fn2 ends the callbacks of a request; see Application.                     *)
CallbacksStop == App!CallbacksStop
=============================================================================
