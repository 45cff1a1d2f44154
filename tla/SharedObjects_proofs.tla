------------------------ MODULE SharedObjects_proofs ------------------------
(***************************************************************************)
(* What the shared objects promise, for any number of threads, variables,   *)
(* rows, connections and requests.                                          *)
(***************************************************************************)
EXTENDS SharedObjects, SequenceLemmas, FiniteSetTheorems

-----------------------------------------------------------------------------
(* Thread *)

(* A caller that has taken the handle and not used it yet. *)
Holds(c) == pc[c] \in {"join", "detach"}

ThreadType == /\ _t \in {0, Thr!Handle}
              /\ joins \in Nat /\ detaches \in Nat
              /\ pc \in [Callers -> {"ready", "join", "detach", "done"}]
              /\ pc[Owner] # "detach"

(* The handle is in one place: with the object, with one caller, or used.   *)
HandleInv ==
    /\ _t # 0 => joins + detaches = 0 /\ \A c \in Callers : ~Holds(c)
    /\ \A c, d \in Callers : Holds(c) /\ Holds(d) => c = d
    /\ \A c \in Callers : Holds(c) => joins + detaches = 0
    /\ _t = 0 /\ (\A c \in Callers : ~Holds(c)) => joins + detaches = 1
    /\ pc[Owner] = "done" => joins + detaches = 1

(* The closure runs, then deletes itself; a join waits for both. *)
ClosureInv ==
    /\ \/ fun = "starts" /\ runs = 0 /\ deletes = 0
       \/ fun = "called" /\ runs = 1 /\ deletes = 0
       \/ fun = "ended"  /\ runs = 1 /\ deletes = 1
    /\ joins = 1 => fun = "ended"

ThreadInv == ThreadType /\ HandleInv /\ ClosureInv

(* A caller that takes the handle is the only one who has it. *)
LEMMA SwapStep ==
    ASSUME ThreadInv, NEW c \in Callers, Thr!Swap(c)
    PROVE  ThreadInv'
  <1>0. Owner \in Callers
    BY ThreadsAssumption DEF Thr!OwnerAssumption
  <1>1. /\ _t' = 0 /\ UNCHANGED <<fun, runs, deletes, joins, detaches>>
        /\ pc[c] = "ready"
    BY DEF Thr!Swap, Thr!Taken, Thr!MayCall
  <1>2. PICK x \in IF c = Owner THEN {"join"} ELSE {"join", "detach"} :
            pc' = [pc EXCEPT ![c] = IF _t = 0 THEN "done" ELSE x]
    BY DEF Thr!Swap
  <1>3. ThreadType'
    BY <1>0, <1>1, <1>2 DEF ThreadInv, ThreadType
  <1>4. HandleInv'
    <2>1. CASE _t # 0
      BY <2>1, <1>0, <1>1, <1>2 DEF ThreadInv, ThreadType, HandleInv, Holds
    <2>2. CASE _t = 0
      <3>1. \A d \in Callers : Holds(d)' <=> Holds(d)
        BY <2>2, <1>1, <1>2 DEF ThreadInv, ThreadType, Holds
      <3>2. pc'[Owner] = "done" => joins + detaches = 1
        <4>1. CASE c = Owner
          <5>1. \A d \in Callers : ~Holds(d)
            BY <4>1, <1>0, <1>1 DEF Thr!Swap, Thr!MayCall, Holds
          <5>2. QED  BY <5>1, <2>2 DEF ThreadInv, HandleInv
        <4>2. CASE c # Owner
          BY <4>2, <1>0, <1>2 DEF ThreadInv, ThreadType, HandleInv
        <4>3. QED  BY <4>1, <4>2
      <3>3. QED  BY <3>1, <3>2, <2>2, <1>1 DEF ThreadInv, HandleInv
    <2>3. QED  BY <2>1, <2>2
  <1>5. ClosureInv'
    BY <1>1 DEF ThreadInv, ClosureInv
  <1>6. QED  BY <1>3, <1>4, <1>5 DEF ThreadInv

(* The one that has the handle joins or detaches, and has it no more. *)
LEMMA UseStep ==
    ASSUME ThreadInv, NEW c \in Callers, Thr!join(c) \/ Thr!detach(c)
    PROVE  ThreadInv'
  <1>0. Owner \in Callers
    BY ThreadsAssumption DEF Thr!OwnerAssumption
  <1>1. /\ Holds(c) /\ pc' = [pc EXCEPT ![c] = "done"]
        /\ joins' + detaches' = 1
        /\ joins' \in Nat /\ detaches' \in Nat
        /\ UNCHANGED <<_t, fun, runs, deletes>>
        /\ joins' = 1 => fun = "ended"
    BY DEF Thr!join, Thr!detach, Holds, ThreadInv, ThreadType, HandleInv, ClosureInv
  <1>2. _t = 0
    BY <1>1 DEF ThreadInv, HandleInv
  <1>3. \A d \in Callers : ~Holds(d)'
    BY <1>1 DEF ThreadInv, ThreadType, HandleInv, Holds
  <1>4. ThreadType'
    BY <1>0, <1>1 DEF ThreadInv, ThreadType
  <1>5. HandleInv'
    BY <1>1, <1>2, <1>3 DEF HandleInv
  <1>6. ClosureInv'
    BY <1>1 DEF ThreadInv, ClosureInv
  <1>7. QED  BY <1>4, <1>5, <1>6 DEF ThreadInv

(* However many callers join and detach at once: the handle is used once,   *)
(* and a join and the destructor come behind the end of the closure.        *)
THEOREM HandleCorrect == Thr!Spec => []HandleUsedOnce
  <1>1. Thr!Init => ThreadInv
    BY ThreadsAssumption
    DEF Thr!Init, Thr!Handle, Thr!new_closure, Thr!OwnerAssumption, ThreadInv, ThreadType,
        HandleInv, ClosureInv, Holds
  <1>2. ThreadInv /\ [Thr!Next]_(Thr!vars) => ThreadInv'
    <2> SUFFICES ASSUME ThreadInv, [Thr!Next]_(Thr!vars)
                 PROVE  ThreadInv'
      OBVIOUS
    <2>1. CASE Thr!run \/ Thr!del
      BY <2>1 DEF Thr!run, Thr!del, ThreadInv, ThreadType, HandleInv, ClosureInv, Holds
    <2>2. ASSUME NEW c \in Callers, Thr!Swap(c) PROVE ThreadInv'
      BY <2>2, SwapStep
    <2>3. ASSUME NEW c \in Callers, Thr!join(c) \/ Thr!detach(c) PROVE ThreadInv'
      BY <2>3, UseStep
    <2>4. CASE UNCHANGED Thr!vars
      BY <2>4 DEF Thr!vars, ThreadInv, ThreadType, HandleInv, ClosureInv, Holds
    <2>5. QED  BY <2>1, <2>2, <2>3, <2>4 DEF Thr!Next
  <1>3. ThreadInv => HandleUsedOnce
    BY DEF ThreadInv, ThreadType, HandleInv, ClosureInv, HandleUsedOnce, Thr!HandleUsedOnce
  <1>4. QED  BY <1>1, <1>2, <1>3, PTL DEF Thr!Spec

-----------------------------------------------------------------------------
(* SyncEvent *)

Asleep(t) == waiting[t] \in {"sleeps", "sleeps_ms"}
Waiting   == {t \in Callers : waiting[t] # "out"}

EventType == /\ _counter \in Nat /\ _signaled \in BOOLEAN
             /\ waiting \in [Callers -> {"out", "sleeps", "sleeps_ms", "woken", "late"}]

EventInv == /\ EventType
            /\ _signaled => \A t \in Callers : ~Asleep(t)
            /\ _counter = Cardinality(Waiting)

(* An instance has the operators of FiniteSets of its own: the same ones.   *)
LEMMA EventSets == \A S : /\ Event!IsFiniteSet(S) <=> IsFiniteSet(S)
                          /\ Event!Cardinality(S) = Cardinality(S)
  <1>1. \A S : Event!IsFiniteSet(S) <=> IsFiniteSet(S)
    BY DEF Event!IsFiniteSet, IsFiniteSet
  <1>2. \A S : Event!Cardinality(S) = Cardinality(S)
    BY DEF Event!Cardinality, Cardinality
  <1>3. QED  BY <1>1, <1>2

(* There are finitely many threads. *)
LEMMA WaitingFinite == IsFiniteSet(Waiting)
  <1>1. Waiting \subseteq Callers
    BY DEF Waiting
  <1>2. IsFiniteSet(Callers)
    BY ThreadsAssumption, EventSets DEF Event!ThreadsAssumption
  <1>3. QED  BY <1>1, <1>2, FS_Subset

(* A thread that enters or leaves its wait makes one more or less of them.  *)
LEMMA WaitingCount ==
    ASSUME EventType, NEW t \in Callers, NEW p \in {"out", "sleeps", "sleeps_ms"},
           waiting' = [waiting EXCEPT ![t] = p]
    PROVE  /\ waiting[t] = "out" /\ p # "out" =>
                 Cardinality(Waiting') = Cardinality(Waiting) + 1
           /\ waiting[t] # "out" /\ p = "out" =>
                 Cardinality(Waiting') = Cardinality(Waiting) - 1
  <1>1. IsFiniteSet(Waiting)
    BY WaitingFinite
  <1>2. \A u \in Callers : waiting'[u] = IF u = t THEN p ELSE waiting[u]
    BY DEF EventType
  <1>3. CASE waiting[t] = "out" /\ p # "out"
    <2>1. Waiting' = Waiting \cup {t} /\ t \notin Waiting
      BY <1>2, <1>3 DEF Waiting
    <2>2. QED  BY <2>1, <1>1, <1>3, FS_AddElement
  <1>4. CASE waiting[t] # "out" /\ p = "out"
    <2>1. Waiting' = Waiting \ {t} /\ t \in Waiting
      BY <1>2, <1>4 DEF Waiting
    <2>2. QED  BY <2>1, <1>1, <1>4, FS_RemoveElement
  <1>5. QED  BY <1>3, <1>4

(* A signal wakes all that sleep, of whom none returns by that. *)
LEMMA SignalStep == EventInv /\ Event!signal => EventInv'
  <1> SUFFICES ASSUME EventInv, Event!signal PROVE EventInv'
    OBVIOUS
  <1>1. /\ _signaled' = TRUE /\ _counter' = _counter
        /\ waiting' \in [Callers -> {"out", "sleeps", "sleeps_ms", "woken", "late"}]
        /\ \A t \in Callers : /\ waiting'[t] # "out" <=> waiting[t] # "out"
                              /\ waiting'[t] \notin {"sleeps", "sleeps_ms"}
    <2>1. CASE _signaled
      BY <2>1 DEF EventInv, EventType, Asleep, Event!signal
    <2>2. CASE ~_signaled
      BY <2>2 DEF EventInv, EventType, Event!signal, Event!cond_notify
    <2>3. QED  BY <2>1, <2>2 DEF EventInv, EventType
  <1>2. Waiting' = Waiting
    BY <1>1 DEF Waiting
  <1>3. QED  BY <1>1, <1>2 DEF EventInv, EventType, Asleep

(* A wait sleeps only if the event is not signaled. *)
LEMMA WaitStep ==
    ASSUME EventInv, NEW t \in Callers, NEW sleep \in {"sleeps", "sleeps_ms"},
           Event!wait(t, sleep)
    PROVE  EventInv'
  <1>1. CASE _signaled
    BY <1>1 DEF Event!wait, Event!Taken, EventInv, EventType, Waiting, Asleep
  <1>2. CASE ~_signaled
    <2>1. /\ waiting[t] = "out" /\ waiting' = [waiting EXCEPT ![t] = sleep]
          /\ _counter' = _counter + 1 /\ _signaled' = _signaled
      BY <1>2 DEF Event!wait
    <2>2. Cardinality(Waiting') = Cardinality(Waiting) + 1
      BY <2>1, WaitingCount DEF EventInv
    <2>3. EventType'
      BY <2>1 DEF EventInv, EventType
    <2>4. QED  BY <2>1, <2>2, <2>3, <1>2 DEF EventInv
  <1>3. QED  BY <1>1, <1>2

(* Behind a wait, whether it was signaled or late, one thread less waits.   *)
LEMMA ReturnStep ==
    ASSUME EventInv, NEW t \in Callers, Event!Resume(t) \/ Event!TimedOut(t)
    PROVE  EventInv'
  <1>1. /\ waiting[t] # "out" /\ waiting' = [waiting EXCEPT ![t] = "out"]
        /\ _counter' = _counter - 1
        /\ _signaled' \in BOOLEAN
        /\ _signaled' => _signaled
    <2>1. CASE Event!Resume(t)
      <3>1. /\ waiting[t] = "woken" /\ waiting' = [waiting EXCEPT ![t] = "out"]
            /\ _counter' = _counter - 1
            /\ _signaled' = FALSE \/ _signaled' = _signaled
        BY <2>1 DEF Event!Resume, Event!Taken
      <3>2. _signaled \in BOOLEAN
        BY DEF EventInv, EventType
      <3>3. _signaled' \in BOOLEAN
        BY <3>1, <3>2
      <3>4. _signaled' => _signaled
        BY <3>1, Zenon
      <3>5. QED  BY <3>1, <3>3, <3>4
    <2>2. CASE Event!TimedOut(t)
      BY <2>2 DEF Event!TimedOut, EventInv, EventType
    <2>3. QED  BY <2>1, <2>2
  <1>2. Cardinality(Waiting') = Cardinality(Waiting) - 1
    BY <1>1, WaitingCount DEF EventInv
  <1>3. _counter # 0
    <2>1. IsFiniteSet(Waiting) /\ Waiting # {}
      <3>1. t \in Waiting
        BY <1>1 DEF Waiting
      <3>2. QED  BY <3>1, WaitingFinite
    <2>2. QED  BY <2>1, FS_EmptySet DEF EventInv
  <1>4. EventType'
    BY <1>1, <1>3 DEF EventInv, EventType
  <1>5. \A u \in Callers : Asleep(u)' => Asleep(u)
    BY <1>1 DEF EventInv, EventType, Asleep
  <1>6. QED  BY <1>1, <1>2, <1>4, <1>5 DEF EventInv

(* For any threads: nobody sleeps while the event is signaled, and _counter *)
(* counts those that have not returned from their wait.                     *)
THEOREM SignalCorrect == Event!Spec => []NobodySleepsThroughSignal
  <1>1. Event!Init => EventInv
    <2> SUFFICES ASSUME Event!Init PROVE EventInv
      OBVIOUS
    <2>1. Waiting = {} /\ \A t \in Callers : ~Asleep(t)
      BY DEF Event!Init, Waiting, Asleep
    <2>2. QED  BY <2>1, FS_EmptySet DEF Event!Init, EventInv, EventType
  <1>2. EventInv /\ [Event!Next]_(Event!vars) => EventInv'
    <2> SUFFICES ASSUME EventInv, [Event!Next]_(Event!vars)
                 PROVE  EventInv'
      OBVIOUS
    <2>1. CASE Event!signal
      BY <2>1, SignalStep
    <2>2. CASE Event!reset
      BY <2>2 DEF Event!reset, EventInv, EventType, Waiting, Asleep
    <2>3. ASSUME NEW t \in Callers, Event!wait(t, "sleeps") \/ Event!wait(t, "sleeps_ms")
          PROVE  EventInv'
      BY <2>3, WaitStep
    <2>4. ASSUME NEW t \in Callers, Event!Resume(t) \/ Event!TimedOut(t)
          PROVE  EventInv'
      BY <2>4, ReturnStep
    <2>5. ASSUME NEW t \in Callers, Event!Wakes(t)
          PROVE  EventInv'
      <3>1. /\ waiting' \in [Callers -> {"out", "sleeps", "sleeps_ms", "woken", "late"}]
            /\ \A u \in Callers : /\ waiting'[u] # "out" <=> waiting[u] # "out"
                                  /\ Asleep(u)' => Asleep(u)
            /\ UNCHANGED <<_counter, _signaled>>
        BY <2>5 DEF Event!Wakes, EventInv, EventType, Asleep
      <3>2. Waiting' = Waiting
        BY <3>1 DEF Waiting
      <3>3. QED  BY <3>1, <3>2 DEF EventInv, EventType
    <2>6. CASE UNCHANGED Event!vars
      BY <2>6 DEF Event!vars, EventInv, EventType, Waiting, Asleep
    <2>7. QED  BY <2>1, <2>2, <2>3, <2>4, <2>5, <2>6 DEF Event!Next
  <1>3. EventInv => NobodySleepsThroughSignal
    BY EventSets DEF EventInv, Waiting, Asleep, NobodySleepsThroughSignal,
                     Event!NobodySleepsThroughSignal
  <1>4. QED  BY <1>1, <1>2, <1>3, PTL DEF Event!Spec

-----------------------------------------------------------------------------
(* Table *)

Rows == Table!Rows
Places == {"out", "test", "lock", "locked", "count", "unlock"}
InMutex(t) == at[t] \in {"locked", "count", "unlock"}

TableType == /\ _v \in [Rows -> Nat] /\ _i \in Nat /\ allocated \in Nat \ {0}
             /\ at \in [Workers -> Places] /\ q \in [Workers -> Rows]

(* The mutex is the one of the thread that is inside. *)
InsideInv == \A t \in Workers : InMutex(t) => _mtx = t

(* The rows of the table are those that were allocated. *)
AllocatedInv == /\ \A r \in Rows : _v[r] <= allocated
                /\ \A n \in 1..allocated : \E r \in Rows : _v[r] = n

(* A row is below _i, or a thread is about to raise _i above it. *)
CountedInv == \A r \in Rows :
                _v[r] # 0 => r < _i \/ \E t \in Workers : at[t] = "count" /\ q[t] = r

TableInv == TableType /\ InsideInv /\ AllocatedInv /\ CountedInv

LEMMA RowsFacts == 0 \in Rows /\ \A r \in Rows : r \in Nat
BY TableAssumption DEF Rows, Table!Rows, Table!SizeAssumption

(* Only a thread that holds the mutex allocates, and it looks again first.  *)
LEMMA CallocStep ==
    ASSUME TableInv, NEW t \in Workers, Table!Calloc(t)
    PROVE  TableInv'
  <1>1. /\ at[t] = "locked" /\ q[t] \in Rows
        /\ UNCHANGED <<_i, _mtx, q>>
    BY DEF Table!Calloc, TableInv, TableType
  <1>2. CASE _v[q[t]] # 0
    <2>1. at' = [at EXCEPT ![t] = "unlock"] /\ UNCHANGED <<_v, allocated>>
      BY <1>2 DEF Table!Calloc, Table!Missing, Table!No, Table!Go
    <2>2. \A u \in Workers : /\ InMutex(u)' <=> InMutex(u)
                             /\ at[u] = "count" => at'[u] = "count"
      BY <2>1, <1>1 DEF TableInv, TableType, InMutex, Places
    <2>3. TableType'
      BY <1>1, <2>1 DEF TableInv, TableType, Places
    <2>4. QED
      BY <1>1, <2>1, <2>2, <2>3 DEF TableInv, InsideInv, AllocatedInv, CountedInv
  <1>3. CASE _v[q[t]] = 0
    <2> DEFINE row == q[t]
    <2>1. /\ at' = [at EXCEPT ![t] = "count"]
          /\ allocated' = allocated + 1
          /\ _v' = [_v EXCEPT ![row] = allocated + 1]
      BY <1>3 DEF Table!Calloc, Table!Missing, Table!No, Table!Go
    <2>2. TableType'
      BY <1>1, <2>1 DEF TableInv, TableType, Places
    <2>3. InsideInv'
      BY <1>1, <2>1 DEF TableInv, TableType, InsideInv, InMutex, Places
    <2>4. \A r \in Rows : _v'[r] = IF r = row THEN allocated + 1 ELSE _v[r]
      BY <2>1 DEF TableInv, TableType
    <2>5. AllocatedInv'
      <3>1. \A r \in Rows : _v'[r] <= allocated'
        BY <2>1, <2>4 DEF TableInv, TableType, AllocatedInv
      <3>2. ASSUME NEW n \in 1..allocated'
            PROVE  \E r \in Rows : _v'[r] = n
        <4>1. CASE n = allocated + 1
          BY <4>1, <1>1, <2>4
        <4>2. CASE n # allocated + 1
          <5>1. n \in 1..allocated
            BY <4>2, <2>1 DEF TableInv, TableType
          <5>2. PICK r \in Rows : _v[r] = n
            BY <5>1 DEF TableInv, AllocatedInv
          <5>3. r # row
            BY <5>1, <5>2, <1>3
          <5>4. QED  BY <5>2, <5>3, <2>4
        <4>3. QED  BY <4>1, <4>2
      <3>3. QED  BY <3>1, <3>2 DEF AllocatedInv
    <2>6. CountedInv'
      <3> SUFFICES ASSUME NEW r \in Rows, _v'[r] # 0
                   PROVE  r < _i \/ \E u \in Workers : at'[u] = "count" /\ q[u] = r
        BY <1>1 DEF CountedInv
      <3>1. CASE r = row
        BY <3>1, <2>1 DEF TableInv, TableType
      <3>2. CASE r # row
        <4>1. r < _i \/ \E u \in Workers : at[u] = "count" /\ q[u] = r
          BY <3>2, <2>4 DEF TableInv, CountedInv
        <4>2. QED  BY <4>1, <2>1, <1>1 DEF TableInv, TableType
      <3>3. QED  BY <3>1, <3>2
    <2>7. QED  BY <2>2, <2>3, <2>5, <2>6 DEF TableInv
  <1>4. QED  BY <1>2, <1>3

(* _i is raised above the row that was allocated, and not lowered. *)
LEMMA CountStep ==
    ASSUME TableInv, NEW t \in Workers, Table!Count(t)
    PROVE  TableInv'
  <1>1. /\ at[t] = "count" /\ at' = [at EXCEPT ![t] = "unlock"]
        /\ q[t] \in Rows /\ q[t] \in Nat
        /\ UNCHANGED <<_v, _mtx, q, allocated>>
    BY RowsFacts DEF Table!Count, Table!Go, TableInv, TableType
  <1>2. _i' \in Nat /\ _i <= _i' /\ q[t] < _i'
    BY <1>1 DEF Table!Count, TableInv, TableType
  <1>3. TableType'
    BY <1>1, <1>2 DEF TableInv, TableType, Places
  <1>4. InsideInv' /\ AllocatedInv'
    BY <1>1 DEF TableInv, TableType, InsideInv, AllocatedInv, InMutex, Places
  <1>5. CountedInv'
    <2> SUFFICES ASSUME NEW r \in Rows, _v[r] # 0
                 PROVE  r < _i' \/ \E u \in Workers : at'[u] = "count" /\ q[u] = r
      BY <1>1 DEF CountedInv
    <2>0. r \in Nat /\ _i \in Nat
      BY RowsFacts DEF TableInv, TableType
    <2>1. CASE r < _i
      BY <2>0, <2>1, <1>2
    <2>2. ASSUME NEW u \in Workers, at[u] = "count", q[u] = r
          PROVE  r < _i' \/ \E w \in Workers : at'[w] = "count" /\ q[w] = r
      <3>1. CASE u = t
        BY <3>1, <2>2, <1>2
      <3>2. CASE u # t
        BY <3>2, <2>2, <1>1 DEF TableInv, TableType
      <3>3. QED  BY <3>1, <3>2
    <2>3. QED  BY <2>1, <2>2 DEF TableInv, CountedInv
  <1>6. QED  BY <1>3, <1>4, <1>5 DEF TableInv

(* The steps that take and give back the mutex, or do without it. *)
LEMMA CallStep ==
    ASSUME TableInv, NEW t \in Workers,
           Table!Ask(t) \/ Table!Test(t) \/ Table!Lock(t) \/ Table!Unlock(t)
    PROVE  TableInv'
  <1>1. PICK p \in Places \ {"count"} :
            /\ at' = [at EXCEPT ![t] = p] /\ at[t] # "count"
            /\ p \in {"locked", "unlock"} => p = "locked" /\ _mtx' = t /\ _mtx = Table!Nobody
            /\ p \notin {"locked", "unlock"} => InMutex(t) \/ _mtx' = _mtx
    BY DEF Table!Ask, Table!Test, Table!Lock, Table!Unlock, Table!Go, Places, InMutex
  <1>2. q' \in [Workers -> Rows] /\ UNCHANGED <<_v, _i, allocated>>
    BY DEF Table!Ask, Table!Test, Table!Lock, Table!Unlock, TableInv, TableType, Rows
  <1>3. \A u \in Workers : u # t => q'[u] = q[u]
    BY DEF Table!Ask, Table!Test, Table!Lock, Table!Unlock, TableInv, TableType
  <1>4. \A u \in Workers : at'[u] = IF u = t THEN p ELSE at[u]
    BY <1>1 DEF TableInv, TableType
  <1>5. TableType'
    BY <1>1, <1>2 DEF TableInv, TableType
  <1>6. InsideInv'
    <2> SUFFICES ASSUME NEW u \in Workers, InMutex(u)'
                 PROVE  _mtx' = u
      BY DEF InsideInv
    <2>1. CASE u = t
      BY <2>1, <1>1, <1>4 DEF InMutex, Places
    <2>2. CASE u # t
      <3>1. InMutex(u) /\ _mtx = u
        BY <2>2, <1>4 DEF InMutex, TableInv, InsideInv
      <3>2. _mtx # Table!Nobody
        BY <3>1, TableAssumption DEF Table!NobodyAssumption
      <3>3. ~InMutex(t)
        BY <3>1, <2>2 DEF TableInv, InsideInv
      <3>4. QED  BY <3>1, <3>2, <3>3, <1>1
    <2>3. QED  BY <2>1, <2>2
  <1>7. AllocatedInv'
    BY <1>2 DEF TableInv, AllocatedInv
  <1>8. CountedInv'
    BY <1>1, <1>2, <1>3, <1>4 DEF TableInv, CountedInv
  <1>9. QED  BY <1>5, <1>6, <1>7, <1>8 DEF TableInv

(* For any threads and any table: no row is allocated twice or moves, and   *)
(* the destructor frees every one.                                          *)
THEOREM RowsCorrect == Table!Spec => []RowsStay
  <1>1. Table!Init => TableInv
    <2> SUFFICES ASSUME Table!Init PROVE TableInv
      OBVIOUS
    <2>1. TableType
      BY RowsFacts DEF Table!Init, Table!No, TableType, Places, Rows
    <2>2. InsideInv /\ AllocatedInv /\ CountedInv
      BY RowsFacts
      DEF Table!Init, Table!No, InsideInv, InMutex, AllocatedInv, CountedInv, Rows
    <2>3. QED  BY <2>1, <2>2 DEF TableInv
  <1>2. TableInv /\ [Table!Next]_(Table!vars) => TableInv'
    <2> SUFFICES ASSUME TableInv, [Table!Next]_(Table!vars)
                 PROVE  TableInv'
      OBVIOUS
    <2>1. ASSUME NEW t \in Workers, Table!Step(t)
          PROVE  TableInv'
      BY <2>1, CallocStep, CountStep, CallStep DEF Table!Step
    <2>2. CASE UNCHANGED Table!vars
      BY <2>2 DEF Table!vars, TableInv, TableType, InsideInv, InMutex, AllocatedInv, CountedInv
    <2>3. QED  BY <2>1, <2>2 DEF Table!Next
  <1>3. TableInv => RowsStay
    <2> SUFFICES ASSUME TableInv, \A t \in Workers : at[t] = "out"
                 PROVE  Table!Freed = 1..allocated
      BY DEF TableInv, AllocatedInv, RowsStay, Table!RowsStay, Rows
    <2>0. \A r \in Rows : r \in Nat /\ _v[r] \in Nat
      BY RowsFacts DEF TableInv, TableType
    <2>1. \A r \in Rows : _v[r] # 0 => r < _i
      BY DEF TableInv, CountedInv
    <2>2. ASSUME NEW n \in Table!Freed PROVE n \in 1..allocated
      <3>1. PICK r \in Rows : n = _v[r] /\ n # 0
        BY DEF Table!Freed, Table!No, Rows
      <3>2. QED  BY <3>1, <2>0 DEF TableInv, TableType, AllocatedInv
    <2>3. ASSUME NEW n \in 1..allocated PROVE n \in Table!Freed
      <3>1. PICK r \in Rows : _v[r] = n
        BY DEF TableInv, AllocatedInv
      <3>2. QED  BY <3>1, <2>1 DEF Table!Freed, Table!No, Rows
    <2>4. QED  BY <2>2, <2>3
  <1>4. QED  BY <1>1, <1>2, <1>3, PTL DEF Table!Spec

-----------------------------------------------------------------------------
(* ServerLifecycle *)

ServerType == /\ server \in {"none", "made", "destroyed"}
              /\ impl \in {"none", "alive", "deleted"}
              /\ tcp \in {"idle", "listening", "closing", "exited"}
              /\ connections \in Nat /\ impl_deletes \in Nat
              /\ _started \in BOOLEAN

(* Connections need a server that was started and has not exited.  What     *)
(* deletes ServerImpl leaves a mark: the tcp server has exited, or a server *)
(* that was not started is destroyed.                                       *)
ImplInv ==
    /\ server = "none" <=> impl = "none"
    /\ impl_deletes = IF impl = "deleted" THEN 1 ELSE 0
    /\ ~_started => tcp = "idle"
    /\ server = "none" => ~_started
    /\ connections > 0 => tcp \in {"listening", "closing"}
    /\ impl = "deleted" => tcp = "exited" \/ (server = "destroyed" /\ ~_started)
    /\ server = "destroyed" /\ ~_started => impl = "deleted"

(* It holds until something is used behind its end. *)
ServerInv == ServerType /\ (read = {} => ImplInv)

(* ~Server, that deletes a ServerImpl which was not started. *)
LEMMA DestroyStep == ServerInv /\ Servers!Destroy => ServerInv'
  <1> SUFFICES ASSUME ServerInv, Servers!Destroy PROVE ServerInv'
    OBVIOUS
  <1>1. /\ server = "made" /\ server' = "destroyed"
        /\ UNCHANGED <<_started, tcp, connections>>
        /\ \/ UNCHANGED <<impl, impl_deletes>>
           \/ impl' = "deleted" /\ impl_deletes' = impl_deletes + 1
    BY DEF Servers!Destroy
  <1>2. ServerType'
    BY <1>1 DEF ServerInv, ServerType
  <1>3. ASSUME read' = {} PROVE ImplInv'
    <2>1. read = {} /\ impl # "deleted"
      BY <1>3 DEF Servers!Destroy, Servers!ImplUsed
    <2>2. ImplInv
      BY <2>1 DEF ServerInv
    <2>3. IF _started THEN UNCHANGED <<impl, impl_deletes>>
          ELSE impl' = "deleted" /\ impl_deletes' = impl_deletes + 1
      BY <2>1 DEF Servers!Destroy, Servers!Started
    <2>4. impl = "alive" /\ impl_deletes = 0
      BY <1>1, <2>1, <2>2 DEF ImplInv, ServerInv, ServerType
    <2>5. CASE _started
      BY <2>5, <2>2, <2>3, <2>4, <1>1 DEF ImplInv
    <2>6. CASE ~_started
      BY <2>6, <2>2, <2>3, <2>4, <1>1 DEF ImplInv
    <2>7. QED  BY <2>5, <2>6
  <1>4. QED  BY <1>2, <1>3 DEF ServerInv

(* The steps of the application and of the tcp server before that. *)
LEMMA ServeStep ==
    ASSUME ServerInv,
           \/ Servers!Server \/ Servers!start \/ Servers!exit
           \/ Servers!Accept \/ Servers!Disconnect \/ Servers!OnExit
    PROVE  ServerInv'
  <1>1. read \subseteq read'
    BY DEF Servers!Server, Servers!start, Servers!exit, Servers!Accept, Servers!Disconnect,
           Servers!OnExit
  <1>2. ServerType'
    <2>1. ServerType
      BY DEF ServerInv
    <2>2. _started' \in BOOLEAN
      BY <2>1 DEF Servers!Server, Servers!start, Servers!exit, Servers!Accept,
                  Servers!Disconnect, Servers!OnExit, ServerType
    <2>3. /\ server' \in {"none", "made", "destroyed"}
          /\ impl' \in {"none", "alive", "deleted"}
          /\ tcp' \in {"idle", "listening", "closing", "exited"}
      BY <2>1 DEF Servers!Server, Servers!start, Servers!exit, Servers!Accept,
                  Servers!Disconnect, Servers!OnExit, ServerType
    <2>4. connections' \in Nat /\ impl_deletes' \in Nat
      BY <2>1 DEF Servers!Server, Servers!start, Servers!exit, Servers!Accept,
                  Servers!Disconnect, Servers!OnExit, ServerType
    <2>5. QED  BY <2>2, <2>3, <2>4 DEF ServerType
  <1>3. ASSUME read' = {} PROVE ImplInv'
    <2>1. ServerType /\ ImplInv
      BY <1>1, <1>3 DEF ServerInv
    <2>2. CASE Servers!Server
      BY <2>1, <2>2 DEF Servers!Server, ServerType, ImplInv
    <2>3. CASE Servers!start
      BY <2>1, <2>3 DEF Servers!start, ServerType, ImplInv
    <2>4. CASE Servers!exit
      BY <2>1, <2>4 DEF Servers!exit, ServerType, ImplInv
    <2>5. CASE Servers!Accept \/ Servers!Disconnect
      BY <2>1, <2>5 DEF Servers!Accept, Servers!Disconnect, ServerType, ImplInv
    <2>6. CASE Servers!OnExit
      BY <2>1, <2>6 DEF Servers!OnExit, ServerType, ImplInv
    <2>7. QED  BY <2>2, <2>3, <2>4, <2>5, <2>6
  <1>4. QED  BY <1>2, <1>3 DEF ServerInv

(* However many connections there are and however often exit is called:     *)
(* until something is used behind its end, ServerImpl is deleted once at    *)
(* most, under no connection, and with a server that was not started.       *)
THEOREM ImplDeletion == Servers!Spec => []ImplDeletedOnce
  <1>1. Servers!Init => ServerInv
    <2> SUFFICES ASSUME Servers!Init PROVE ServerInv
      OBVIOUS
    <2>1. /\ server = "none" /\ impl = "none" /\ impl_deletes = 0 /\ tcp = "idle"
          /\ connections = 0 /\ _started = FALSE
      BY DEF Servers!Init
    <2>2. _started \in BOOLEAN
      BY <2>1
    <2>3. ServerType
      BY <2>1, <2>2 DEF ServerType
    <2>4. ImplInv
      BY <2>1 DEF ImplInv
    <2>5. QED  BY <2>3, <2>4 DEF ServerInv
  <1>2. ServerInv /\ [Servers!Next]_(Servers!vars) => ServerInv'
    <2> SUFFICES ASSUME ServerInv, [Servers!Next]_(Servers!vars)
                 PROVE  ServerInv'
      OBVIOUS
    <2>1. CASE UNCHANGED Servers!vars
      BY <2>1 DEF Servers!vars, ServerInv, ServerType, ImplInv
    <2>2. QED  BY <2>1, DestroyStep, ServeStep DEF Servers!Next
  <1>3. ServerInv => ImplDeletedOnce
    BY DEF ServerInv, ServerType, ImplInv, ImplDeletedOnce, Servers!ImplDeletedOnce
  <1>4. QED  BY <1>1, <1>2, <1>3, PTL DEF Servers!Spec

-----------------------------------------------------------------------------
(* Application *)

HttpCallbacks == <<"fn1", "fn2", "fn3">>
WsCallbacks   == <<"ws_fn1", "ws_fn2", "ws_fn3">>
Routed(c)  == target[c] = <<"GET", "/a/b">>
Upgrade(c) == kind[c] = "upgrade"

(* Connections come behind all that main has set up. *)
MainInv ==
    /\ main \in {"reg", "hook", "reg_ws", "start", "sleep"}
    /\ main # "reg" => http = App!Route("/a/b", HttpCallbacks)
    /\ main \notin {"reg", "hook"} => hooks = {"before_req", "weberr", "connected", "closed"}
    /\ main \in {"start", "sleep"} => ws = App!Route("/ws", WsCallbacks)
    /\ main # "sleep" => \A c \in Clients : place[c] = "none"

Spots == {"none", "recv", "header", "upgrade", "body", "callbacks", "frames", "closed", "end"}
AppType == /\ place \in [Clients -> Spots] /\ requests \in [Clients -> Nat]
           /\ kind \in [Clients -> App!Kinds] /\ target \in [Clients -> App!Targets]
           /\ keep_alive \in [Clients -> BOOLEAN] /\ i \in [Clients -> Nat]
           /\ fn \in [Clients -> {<<>>, HttpCallbacks, WsCallbacks}]
           /\ DOMAIN ran = Clients /\ DOMAIN sent = Clients

(* What ran and was sent since the request, or the frame, at each place.    *)
Answered(c) ==
    /\ ran[c] = IF Routed(c) THEN <<"fn1", "fn2">> ELSE <<>>
    /\ sent[c] = IF Routed(c) \/ keep_alive[c] THEN <<"404">> ELSE <<>>
InCallbacks(c) ==
    /\ Routed(c) /\ fn[c] = HttpCallbacks /\ sent[c] = <<>>
    /\ \/ i[c] = 1 /\ ran[c] = <<>>
       \/ i[c] = 2 /\ ran[c] = <<"fn1">>
InFrame(c) ==
    /\ sent[c] = ran[c]
    /\ \/ i[c] = 1 /\ ran[c] = <<>>
       \/ i[c] = 2 /\ ran[c] = <<"ws_fn1">>
       \/ i[c] = 3 /\ ran[c] = <<"ws_fn1", "ws_fn2">>
Websocket(c) == target[c] = <<"GET", "/ws">> /\ fn[c] = WsCallbacks

ConnInv(c) ==
    /\ place[c] = "none" => requests[c] = 0
    /\ place[c] = "recv" /\ requests[c] > 0 => ~Upgrade(c) /\ Answered(c)
    /\ place[c] = "closed" /\ requests[c] > 0 =>
          IF Upgrade(c) THEN ran[c] = <<>> ELSE Answered(c)
    /\ place[c] = "header" => ran[c] = <<>> /\ sent[c] = <<>>
    /\ place[c] = "upgrade" => Upgrade(c) /\ ran[c] = <<>>
    /\ place[c] = "body" => /\ ~Upgrade(c) /\ Routed(c) /\ fn[c] = HttpCallbacks
                            /\ ran[c] = <<>> /\ sent[c] = <<>>
    /\ place[c] = "callbacks" =>
          IF Upgrade(c) THEN Websocket(c) /\ InFrame(c) ELSE InCallbacks(c)
    /\ place[c] = "frames" =>
          /\ Upgrade(c) /\ Websocket(c)
          /\ ran[c] = <<>> \/ (ran[c] = WsCallbacks /\ sent[c] = ran[c])

AppInv == MainInv /\ AppType /\ \A c \in Clients : ConnInv(c)

(* The routes of main, as lookups find them. *)
LEMMA FoundFacts ==
    ASSUME MainInv, main = "sleep", NEW t \in App!Targets
    PROVE  /\ App!Found(http, t) = IF t = <<"GET", "/a/b">> THEN HttpCallbacks ELSE <<>>
           /\ App!Found(ws, t) = IF t = <<"GET", "/ws">> THEN WsCallbacks ELSE <<>>
  <1>1. t \in {"GET", "PUT"} \X {"/a/b", "/ws"}
    BY DEF App!Targets
  <1>2. \/ t = <<"GET", "/a/b">> \/ t = <<"GET", "/ws">>
        \/ t = <<"PUT", "/a/b">> \/ t = <<"PUT", "/ws">>
    BY <1>1
  <1>3. /\ http = [u \in {"GET", "POST"} \X {"/a/b"} |-> HttpCallbacks]
        /\ ws = [u \in {"GET", "POST"} \X {"/ws"} |-> WsCallbacks]
    BY DEF MainInv, App!Route
  <1>4. /\ <<"GET", "/a/b">> \in {"GET", "POST"} \X {"/a/b"}
        /\ <<"GET", "/ws">> \notin {"GET", "POST"} \X {"/a/b"}
        /\ <<"PUT", "/a/b">> \notin {"GET", "POST"} \X {"/a/b"}
        /\ <<"PUT", "/ws">> \notin {"GET", "POST"} \X {"/a/b"}
        /\ <<"GET", "/ws">> \in {"GET", "POST"} \X {"/ws"}
        /\ <<"GET", "/a/b">> \notin {"GET", "POST"} \X {"/ws"}
        /\ <<"PUT", "/a/b">> \notin {"GET", "POST"} \X {"/ws"}
        /\ <<"PUT", "/ws">> \notin {"GET", "POST"} \X {"/ws"}
    OBVIOUS
  <1>5. /\ App!Found(http, t) = IF t \in {"GET", "POST"} \X {"/a/b"} THEN HttpCallbacks ELSE <<>>
        /\ App!Found(ws, t) = IF t \in {"GET", "POST"} \X {"/ws"} THEN WsCallbacks ELSE <<>>
    BY <1>3 DEF App!Found
  <1>6. <<"GET", "/a/b">> # <<"GET", "/ws">> /\ <<"GET", "/a/b">> # <<"PUT", "/a/b">>
        /\ <<"GET", "/a/b">> # <<"PUT", "/ws">> /\ <<"GET", "/ws">> # <<"PUT", "/a/b">>
        /\ <<"GET", "/ws">> # <<"PUT", "/ws">>
    OBVIOUS
  <1>7. QED  BY <1>2, <1>4, <1>5, <1>6

(* A step of a connection leaves the others alone. *)
Same(d) == /\ place'[d] = place[d] /\ requests'[d] = requests[d] /\ kind'[d] = kind[d]
           /\ target'[d] = target[d] /\ keep_alive'[d] = keep_alive[d] /\ fn'[d] = fn[d]
           /\ i'[d] = i[d] /\ ran'[d] = ran[d] /\ sent'[d] = sent[d]

LEMMA ConnectionStep ==
    ASSUME AppInv, NEW c \in Clients, UNCHANGED App!mainVars, main = "sleep",
           AppType', ConnInv(c)', \A d \in Clients \ {c} : Same(d)
    PROVE  AppInv'
  <1>1. MainInv'
    BY DEF AppInv, MainInv, App!mainVars
  <1>2. ASSUME NEW d \in Clients \ {c} PROVE ConnInv(d)'
    <2>1. ConnInv(d) /\ Same(d)
      BY <1>2 DEF AppInv
    <2>2. QED
      BY <2>1 DEF Same, ConnInv, Answered, InCallbacks, InFrame, Websocket, Routed, Upgrade
  <1>3. QED  BY <1>1, <1>2 DEF AppInv

(* A connection that does something runs in a server that was started. *)
LEMMA InSleep ==
    ASSUME AppInv, NEW c \in Clients, App!Connection(c)
    PROVE  main = "sleep"
BY DEF App!Connection, App!on_connect, App!on_header, App!on_body, App!on_wsupgrade,
       App!on_wsbody, App!Callback, App!on_close, App!Request, AppInv, MainInv

(* The places a connection goes to without a callback. *)
LEMMA OnConnect ==
    ASSUME AppInv, NEW c \in Clients, UNCHANGED App!mainVars,
           App!on_connect(c) \/ App!on_close(c)
    PROVE  AppInv'
  <1>1. main = "sleep"
    BY InSleep DEF App!Connection
  <1>2. PICK p \in Spots : /\ place' = [place EXCEPT ![c] = p]
                           /\ p = "end" \/ (p \in {"recv", "closed"} /\ requests[c] = 0)
    BY DEF App!on_connect, App!on_close, App!Go, Spots, AppInv, ConnInv
  <1>3. UNCHANGED <<requests, kind, target, keep_alive, fn, i, ran, sent>>
    BY DEF App!on_connect, App!on_close
  <1>4. AppType'
    BY <1>2, <1>3 DEF AppInv, AppType
  <1>5. ConnInv(c)'
    BY <1>2, <1>3 DEF AppInv, AppType, ConnInv
  <1>6. \A d \in Clients \ {c} : Same(d)
    BY <1>2, <1>3 DEF Same, AppInv, AppType
  <1>7. QED  BY <1>1, <1>4, <1>5, <1>6, ConnectionStep

LEMMA OnRequest ==
    ASSUME AppInv, NEW c \in Clients, UNCHANGED App!mainVars,
           NEW k \in App!Kinds, NEW t \in App!Targets, App!Request(c, k, t)
    PROVE  AppInv'
  <1>1. main = "sleep"
    BY InSleep DEF App!Connection
  <1>2. /\ place' = [place EXCEPT ![c] = "header"]
        /\ requests' = [requests EXCEPT ![c] = @ + 1]
        /\ kind' = [kind EXCEPT ![c] = k] /\ target' = [target EXCEPT ![c] = t]
        /\ ran' = [ran EXCEPT ![c] = <<>>] /\ sent' = [sent EXCEPT ![c] = <<>>]
        /\ UNCHANGED <<keep_alive, fn, i>>
    BY DEF App!Request, App!Go
  <1>3. AppType'
    BY <1>2 DEF AppInv, AppType, Spots
  <1>4. ConnInv(c)'
    BY <1>2 DEF AppInv, AppType, ConnInv
  <1>5. \A d \in Clients \ {c} : Same(d)
    BY <1>2 DEF Same, AppInv, AppType
  <1>6. QED  BY <1>1, <1>3, <1>4, <1>5, ConnectionStep

LEMMA OnHeader ==
    ASSUME AppInv, NEW c \in Clients, UNCHANGED App!mainVars, App!on_header(c)
    PROVE  AppInv'
  <1>1. main = "sleep"
    BY InSleep DEF App!Connection
  <1> DEFINE found  == App!Found(http, target[c])
             routed == found # <<>>
  <1>2. /\ place[c] = "header" /\ ran[c] = <<>> /\ sent[c] = <<>>
        /\ target[c] \in App!Targets
    BY DEF App!on_header, AppInv, AppType, ConnInv
  <1>3. found = IF Routed(c) THEN HttpCallbacks ELSE <<>>
    BY <1>1, <1>2, FoundFacts DEF AppInv, Routed
  <1>4. routed <=> Routed(c)
    BY <1>3 DEF HttpCallbacks
  <1>5. /\ fn' = [fn EXCEPT ![c] = found]
        /\ keep_alive' = [keep_alive EXCEPT ![c] = @ \/ kind[c] = "alive"]
        /\ sent' = [sent EXCEPT ![c] = IF routed \/ ~keep_alive'[c] THEN @ ELSE Append(@, "404")]
        /\ place' = [place EXCEPT ![c] =
                        IF kind[c] = "upgrade" THEN "upgrade"
                        ELSE IF routed THEN "body"
                        ELSE IF keep_alive'[c] THEN "recv" ELSE "closed"]
        /\ UNCHANGED <<requests, kind, target, i, ran>>
    BY DEF App!on_header, App!Go
  <1> HIDE DEF found, routed
  <1>6. /\ keep_alive' \in [Clients -> BOOLEAN]
        /\ \A d \in Clients \ {c} : keep_alive'[d] = keep_alive[d]
    BY <1>5 DEF AppInv, AppType
  <1>7. /\ place' \in [Clients -> Spots]
        /\ fn' \in [Clients -> {<<>>, HttpCallbacks, WsCallbacks}]
        /\ DOMAIN sent' = Clients
    BY <1>3, <1>5 DEF AppInv, AppType, Spots
  <1>8. AppType'
    BY <1>5, <1>6, <1>7 DEF AppInv, AppType
  <1>9. /\ fn'[c] = found
        /\ sent'[c] = IF Routed(c) \/ ~keep_alive'[c] THEN <<>> ELSE <<"404">>
        /\ place'[c] = IF Upgrade(c) THEN "upgrade"
                       ELSE IF Routed(c) THEN "body"
                       ELSE IF keep_alive'[c] THEN "recv" ELSE "closed"
    <2>1. Append(<<>>, "404") = <<"404">>
      OBVIOUS
    <2>2. QED  BY <2>1, <1>2, <1>4, <1>5 DEF AppInv, AppType, Upgrade
  <1>10. ran'[c] = <<>> /\ (Routed(c)' <=> Routed(c)) /\ (Upgrade(c)' <=> Upgrade(c))
    BY <1>2, <1>5 DEF Routed, Upgrade
  <1>11. ConnInv(c)'
    <2>1. CASE Upgrade(c)
      BY <2>1, <1>9, <1>10 DEF ConnInv
    <2>2. CASE ~Upgrade(c) /\ Routed(c)
      BY <2>2, <1>3, <1>9, <1>10 DEF ConnInv
    <2>3. CASE ~Upgrade(c) /\ ~Routed(c)
      <3>1. Answered(c)'
        BY <2>3, <1>9, <1>10 DEF Answered
      <3>2. QED  BY <2>3, <3>1, <1>9, <1>10 DEF ConnInv
    <2>4. QED  BY <2>1, <2>2, <2>3
  <1>12. \A d \in Clients \ {c} : Same(d)
    BY <1>5, <1>6 DEF Same, AppInv, AppType
  <1>13. QED  BY <1>1, <1>8, <1>11, <1>12, ConnectionStep

(* The callbacks of a request start behind before_req, which goes on. *)
LEMMA OnBody ==
    ASSUME AppInv, NEW c \in Clients, UNCHANGED App!mainVars, App!on_body(c)
    PROVE  AppInv'
  <1>1. main = "sleep"
    BY InSleep DEF App!Connection
  <1>2. App!Hook("before_req")
    BY DEF App!Hook, App!GoesOn
  <1>3. /\ place[c] = "body" /\ place' = [place EXCEPT ![c] = "callbacks"]
        /\ i' = [i EXCEPT ![c] = 1]
        /\ UNCHANGED <<requests, kind, target, keep_alive, fn, ran, sent>>
    BY <1>2 DEF App!on_body, App!Go
  <1>4. AppType'
    BY <1>3 DEF AppInv, AppType, Spots
  <1>5. ConnInv(c)'
    BY <1>3 DEF AppInv, AppType, ConnInv, InCallbacks, Upgrade, Routed
  <1>6. \A d \in Clients \ {c} : Same(d)
    BY <1>3 DEF Same, AppInv, AppType
  <1>7. QED  BY <1>1, <1>4, <1>5, <1>6, ConnectionStep

LEMMA OnWsUpgrade ==
    ASSUME AppInv, NEW c \in Clients, UNCHANGED App!mainVars, App!on_wsupgrade(c)
    PROVE  AppInv'
  <1>1. main = "sleep"
    BY InSleep DEF App!Connection
  <1> DEFINE found == App!Found(ws, target[c])
  <1>2. /\ place[c] = "upgrade" /\ Upgrade(c) /\ ran[c] = <<>>
        /\ target[c] \in App!Targets
    BY DEF App!on_wsupgrade, AppInv, AppType, ConnInv
  <1>3. found = IF target[c] = <<"GET", "/ws">> THEN WsCallbacks ELSE <<>>
    BY <1>1, <1>2, FoundFacts DEF AppInv
  <1>4. /\ fn' = [fn EXCEPT ![c] = found]
        /\ place' = [place EXCEPT ![c] = IF fn'[c] = <<>> THEN "closed" ELSE "frames"]
        /\ UNCHANGED <<requests, kind, target, keep_alive, i, ran, sent>>
    BY DEF App!on_wsupgrade, App!Go
  <1> HIDE DEF found
  <1>5. fn'[c] = found /\ (found = <<>> <=> target[c] # <<"GET", "/ws">>)
    BY <1>3, <1>4 DEF AppInv, AppType, WsCallbacks
  <1>6. AppType'
    BY <1>3, <1>4 DEF AppInv, AppType, Spots
  <1>7. ConnInv(c)'
    <2>1. /\ ran'[c] = <<>> /\ Upgrade(c)'
          /\ place'[c] = IF target[c] = <<"GET", "/ws">> THEN "frames" ELSE "closed"
          /\ target'[c] = target[c]
      BY <1>2, <1>4, <1>5 DEF AppInv, AppType, Upgrade
    <2>2. QED  BY <2>1, <1>3, <1>5 DEF ConnInv, Websocket
  <1>8. \A d \in Clients \ {c} : Same(d)
    BY <1>4 DEF Same, AppInv, AppType
  <1>9. QED  BY <1>1, <1>6, <1>7, <1>8, ConnectionStep

LEMMA OnWsBody ==
    ASSUME AppInv, NEW c \in Clients, UNCHANGED App!mainVars, App!on_wsbody(c)
    PROVE  AppInv'
  <1>1. main = "sleep"
    BY InSleep DEF App!Connection
  <1>2. /\ place[c] = "frames" /\ place' = [place EXCEPT ![c] = "callbacks"]
        /\ requests' = [requests EXCEPT ![c] = @ + 1]
        /\ i' = [i EXCEPT ![c] = 1]
        /\ ran' = [ran EXCEPT ![c] = <<>>] /\ sent' = [sent EXCEPT ![c] = <<>>]
        /\ UNCHANGED <<kind, target, keep_alive, fn>>
    BY DEF App!on_wsbody, App!Go
  <1>3. AppType'
    BY <1>2 DEF AppInv, AppType, Spots
  <1>4. ConnInv(c)'
    BY <1>2 DEF AppInv, AppType, ConnInv, Websocket, InFrame, Upgrade
  <1>5. \A d \in Clients \ {c} : Same(d)
    BY <1>2 DEF Same, AppInv, AppType
  <1>6. QED  BY <1>1, <1>3, <1>4, <1>5, ConnectionStep

(* What a callback adds to what ran and what was sent, in a request and in  *)
(* a frame; and the place behind it.                                        *)
LEMMA HttpCallback ==
    ASSUME AppInv, NEW c \in Clients, App!Callback(c), ~Upgrade(c)
    PROVE  ConnInv(c)'
  <1>1. place[c] = "callbacks" /\ InCallbacks(c)
    BY DEF App!Callback, AppInv, ConnInv
  <1>2. /\ \A d \in Clients : fn'[d] = fn[d] /\ kind'[d] = kind[d] /\ target'[d] = target[d]
                              /\ keep_alive'[d] = keep_alive[d]
        /\ ran'[c] = Append(ran[c], fn[c][i[c]])
        /\ sent'[c] = sent[c] \o App!Sends[fn[c][i[c]]]
        /\ i'[c] = i[c] + 1
        /\ place'[c] = IF ~App!Stops(c) THEN "callbacks"
                       ELSE IF keep_alive[c] THEN "recv" ELSE "closed"
    BY <1>1 DEF App!Callback, App!Go, AppInv, AppType, Upgrade
  <1>3. (Routed(c)' <=> Routed(c)) /\ ~Upgrade(c)' /\ Routed(c) /\ fn[c] = HttpCallbacks
    BY <1>1, <1>2 DEF Routed, Upgrade, InCallbacks
  <1>4. CASE i[c] = 1
    <2>1. fn[c][i[c]] = "fn1" /\ ~App!Stops(c)
      BY <1>3, <1>4 DEF HttpCallbacks, App!Stops, App!GoesOn
    <2>2. ran'[c] = <<"fn1">>
      <3>1. Append(<<>>, "fn1") = <<"fn1">>
        OBVIOUS
      <3>2. ran[c] = <<>>
        BY <1>1, <1>4 DEF InCallbacks
      <3>3. QED  BY <3>1, <3>2, <2>1, <1>2
    <2>3. sent'[c] = <<>>
      <3>1. App!Sends["fn1"] = <<>> /\ <<>> \o <<>> = <<>>
        BY DEF App!Sends
      <3>2. QED  BY <3>1, <2>1, <1>1, <1>2 DEF InCallbacks
    <2>4. InCallbacks(c)'
      BY <2>2, <2>3, <1>2, <1>3, <1>4 DEF InCallbacks
    <2>5. QED  BY <2>1, <2>4, <1>2, <1>3 DEF ConnInv
  <1>5. CASE i[c] = 2
    <2>1. fn[c][i[c]] = "fn2" /\ App!Stops(c)
      BY <1>3, <1>5 DEF HttpCallbacks, App!Stops, App!GoesOn
    <2>2. ran'[c] = <<"fn1", "fn2">>
      <3>1. Append(<<"fn1">>, "fn2") = <<"fn1", "fn2">>
        BY AppendToOne
      <3>2. ran[c] = <<"fn1">>
        BY <1>1, <1>5 DEF InCallbacks
      <3>3. QED  BY <3>1, <3>2, <2>1, <1>2
    <2>3. sent'[c] = <<"404">>
      <3>1. App!Sends["fn2"] = <<"404">> /\ <<>> \o <<"404">> = <<"404">>
        BY DEF App!Sends
      <3>2. QED  BY <3>1, <2>1, <1>1, <1>2 DEF InCallbacks
    <2>4. Answered(c)'
      BY <2>2, <2>3, <1>3 DEF Answered
    <2>5. place'[c] \in {"recv", "closed"}
      BY <2>1, <1>2
    <2>6. QED  BY <2>4, <2>5, <1>3 DEF ConnInv
  <1>6. QED  BY <1>1, <1>4, <1>5 DEF InCallbacks

LEMMA WsCallback ==
    ASSUME AppInv, NEW c \in Clients, App!Callback(c), Upgrade(c)
    PROVE  ConnInv(c)'
  <1>1. place[c] = "callbacks" /\ Websocket(c) /\ InFrame(c)
    BY DEF App!Callback, AppInv, ConnInv
  <1>2. /\ \A d \in Clients : fn'[d] = fn[d] /\ kind'[d] = kind[d] /\ target'[d] = target[d]
        /\ ran'[c] = Append(ran[c], fn[c][i[c]])
        /\ sent'[c] = sent[c] \o App!Sends[fn[c][i[c]]]
        /\ i'[c] = i[c] + 1
        /\ place'[c] = IF ~App!Stops(c) THEN "callbacks" ELSE "frames"
    BY <1>1 DEF App!Callback, App!Go, AppInv, AppType, Upgrade
  <1>3. Upgrade(c)' /\ Websocket(c)' /\ fn[c] = WsCallbacks /\ sent[c] = ran[c]
    BY <1>1, <1>2 DEF Upgrade, Websocket, InFrame
  <1>4. CASE i[c] = 1
    <2>1. fn[c][i[c]] = "ws_fn1" /\ ~App!Stops(c) /\ App!Sends["ws_fn1"] = <<"ws_fn1">>
      BY <1>3, <1>4 DEF WsCallbacks, App!Stops, App!GoesOn, App!Sends
    <2>2. ran[c] = <<>>
      BY <1>1, <1>4 DEF InFrame
    <2>3. Append(<<>>, "ws_fn1") = <<"ws_fn1">> /\ <<>> \o <<"ws_fn1">> = <<"ws_fn1">>
      OBVIOUS
    <2>4. ran'[c] = <<"ws_fn1">> /\ sent'[c] = <<"ws_fn1">>
      BY <2>1, <2>2, <2>3, <1>2, <1>3
    <2>5. QED  BY <2>1, <2>4, <1>2, <1>3, <1>4 DEF ConnInv, InFrame
  <1>5. CASE i[c] = 2
    <2>1. fn[c][i[c]] = "ws_fn2" /\ ~App!Stops(c) /\ App!Sends["ws_fn2"] = <<"ws_fn2">>
      BY <1>3, <1>5 DEF WsCallbacks, App!Stops, App!GoesOn, App!Sends
    <2>2. ran[c] = <<"ws_fn1">>
      BY <1>1, <1>5 DEF InFrame
    <2>3. ran'[c] = <<"ws_fn1", "ws_fn2">> /\ sent'[c] = <<"ws_fn1", "ws_fn2">>
      <3>1. /\ Append(<<"ws_fn1">>, "ws_fn2") = <<"ws_fn1", "ws_fn2">>
            /\ <<"ws_fn1">> \o <<"ws_fn2">> = <<"ws_fn1", "ws_fn2">>
        BY AppendToOne
      <3>2. QED  BY <3>1, <2>1, <2>2, <1>2, <1>3
    <2>4. QED  BY <2>1, <2>3, <1>2, <1>3, <1>5 DEF ConnInv, InFrame
  <1>6. CASE i[c] = 3
    <2>1. fn[c][i[c]] = "ws_fn3" /\ App!Stops(c) /\ App!Sends["ws_fn3"] = <<"ws_fn3">>
      BY <1>3, <1>6 DEF WsCallbacks, App!Stops, App!Sends
    <2>2. ran[c] = <<"ws_fn1", "ws_fn2">>
      BY <1>1, <1>6 DEF InFrame
    <2>3. ran'[c] = WsCallbacks /\ sent'[c] = WsCallbacks
      <3>1. /\ Append(<<"ws_fn1", "ws_fn2">>, "ws_fn3") = WsCallbacks
            /\ <<"ws_fn1", "ws_fn2">> \o <<"ws_fn3">> = WsCallbacks
        BY AppendToTwo DEF WsCallbacks
      <3>2. QED  BY <3>1, <2>1, <2>2, <1>2, <1>3
    <2>4. QED  BY <2>1, <2>3, <1>2, <1>3 DEF ConnInv
  <1>7. QED  BY <1>1, <1>4, <1>5, <1>6 DEF InFrame

LEMMA CallbackStep ==
    ASSUME AppInv, NEW c \in Clients, UNCHANGED App!mainVars, App!Callback(c)
    PROVE  AppInv'
  <1>1. main = "sleep"
    BY InSleep DEF App!Connection
  <1>2. PICK p \in Spots : place' = [place EXCEPT ![c] = p]
    <2>1. CASE ~App!Stops(c)
      <3>1. place' = [place EXCEPT ![c] = place[c]] /\ place[c] \in Spots
        BY <2>1 DEF App!Callback, AppInv, AppType
      <3>2. QED  BY <3>1
    <2>2. CASE App!Stops(c)
      BY <2>2 DEF App!Callback, App!Go, Spots
    <2>3. QED  BY <2>1, <2>2
  <1>3. /\ \E x : ran' = [ran EXCEPT ![c] = x]
        /\ \E x : sent' = [sent EXCEPT ![c] = x]
        /\ i' = [i EXCEPT ![c] = @ + 1]
        /\ UNCHANGED <<requests, kind, target, keep_alive, fn>>
    BY DEF App!Callback
  <1>4. AppType'
    BY <1>2, <1>3 DEF AppInv, AppType
  <1>5. ConnInv(c)'
    BY HttpCallback, WsCallback
  <1>6. \A d \in Clients \ {c} : Same(d)
    BY <1>2, <1>3 DEF Same, AppInv, AppType
  <1>7. QED  BY <1>1, <1>4, <1>5, <1>6, ConnectionStep

(* main sets up the routes and the hooks before there are connections.      *)
LEMMA MainStep == AppInv /\ App!Main /\ UNCHANGED App!connVars => AppInv'
  <1> SUFFICES ASSUME AppInv, App!Main, UNCHANGED App!connVars PROVE AppInv'
    OBVIOUS
  <1>1. MainInv'
    BY DEF App!Main, App!connVars, AppInv, MainInv, HttpCallbacks, WsCallbacks
  <1>2. AppType' /\ \A c \in Clients : ConnInv(c)'
    BY DEF App!connVars, AppInv, AppType, ConnInv, Answered, InCallbacks, InFrame,
           Websocket, Routed, Upgrade
  <1>3. QED  BY <1>1, <1>2 DEF AppInv

(* For any number of connections and requests: fn2 ends the callbacks of a  *)
(* request and answers it, and a frame runs those of its websocket.         *)
THEOREM CallbacksCorrect == App!Spec => []CallbacksStop
  <1>1. App!Init => AppInv
    <2> SUFFICES ASSUME App!Init PROVE AppInv
      OBVIOUS
    <2>1. MainInv
      BY DEF App!Init, MainInv
    <2>2. AppType
      BY DEF App!Init, AppType, Spots, App!Kinds, App!Targets
    <2>3. \A c \in Clients : ConnInv(c)
      BY DEF App!Init, ConnInv
    <2>4. QED  BY <2>1, <2>2, <2>3 DEF AppInv
  <1>2. AppInv /\ [App!Next]_(App!vars) => AppInv'
    <2> SUFFICES ASSUME AppInv, [App!Next]_(App!vars)
                 PROVE  AppInv'
      OBVIOUS
    <2>1. CASE App!Main /\ UNCHANGED App!connVars
      BY <2>1, MainStep
    <2>2. ASSUME NEW c \in Clients, App!Connection(c), UNCHANGED App!mainVars
          PROVE  AppInv'
      BY <2>2, OnConnect, OnRequest, OnHeader, OnBody, OnWsUpgrade, OnWsBody, CallbackStep
      DEF App!Connection
    <2>3. CASE UNCHANGED App!vars
      BY <2>3 DEF App!vars, App!mainVars, App!connVars, AppInv, MainInv, AppType, ConnInv,
                  Answered, InCallbacks, InFrame, Websocket, Routed, Upgrade
    <2>4. QED  BY <2>1, <2>2, <2>3 DEF App!Next
  <1>3. AppInv => CallbacksStop
    <2> SUFFICES ASSUME AppInv, NEW c \in Clients, requests[c] > 0,
                        place[c] \in {"recv", "closed", "frames"}
                 PROVE  /\ kind[c] # "upgrade" => Answered(c)
                        /\ ran[c] # <<>> /\ kind[c] = "upgrade" =>
                              /\ ran[c] = WsCallbacks
                              /\ sent[c] = ran[c] /\ target[c] = <<"GET", "/ws">>
      BY DEF CallbacksStop, App!CallbacksStop, Answered, Routed, WsCallbacks
    <2>1. QED  BY DEF AppInv, ConnInv, Upgrade, Websocket
  <1>4. QED  BY <1>1, <1>2, <1>3, PTL DEF App!Spec

-----------------------------------------------------------------------------
(* Pointers: an inventory of who holds an object *)

Vars == Ptr!Vars
Objects == Ptr!Objects
Soles == UniquePtrs \cup ThreadPtrs     \* variables that hold an object alone

(* How many of T have the value x in f. *)
Count(T, f, x) == Cardinality({u \in T : f[u] = x})

(* In the counter: variables, and threads that have not let go yet. *)
Shares(o)  == Count(SharedPtrs, ptr, o)
Leaves(o)  == Count(PtrThreads, dropped, [x |-> o, at |-> "dec"])
Counted(o) == Shares(o) + Leaves(o)

(* Outside of it: a variable, or a thread that is about to delete. *)
Alone(o)   == Count(Soles, ptr, o)
Deletes(o) == Count(PtrThreads, dropped, [x |-> o, at |-> "del"])
Owned(o)   == Alone(o) + Deletes(o)

PtrType == /\ ptr \in [Vars -> Objects \cup {0}]
           /\ refn \in [Objects -> Nat] /\ deleted \in [Objects -> Nat]
           /\ alive \subseteq Objects
           /\ dropped \in [PtrThreads -> {Ptr!Idle}
                              \cup [x : Objects, at : {"dec", "del"}]]

(* The counter of a shared object is the number of hands it is in.  Any     *)
(* other object, or one that its last holder has let go, is in one hand     *)
(* only.  It is alive as long as it is in any.                              *)
ObjectInv(o) ==
    /\ refn[o] = Counted(o)
    /\ Owned(o) <= 1
    /\ Owned(o) = 1 => refn[o] = 0
    /\ o \in alive <=> refn[o] + Owned(o) > 0
    /\ deleted[o] <= 1
    /\ o \in alive => deleted[o] = 0

PtrInv == PtrType /\ \A o \in Objects : ObjectInv(o)

LEMMA PtrSets == \A S : /\ Ptr!IsFiniteSet(S) <=> IsFiniteSet(S)
                        /\ Ptr!Cardinality(S) = Cardinality(S)
  <1>1. \A S : Ptr!IsFiniteSet(S) <=> IsFiniteSet(S)
    BY DEF Ptr!IsFiniteSet, IsFiniteSet
  <1>2. \A S : Ptr!Cardinality(S) = Cardinality(S)
    BY DEF Ptr!Cardinality, Cardinality
  <1>3. QED  BY <1>1, <1>2

(* The kinds of variables, and that there are finitely many. *)
LEMMA KindFacts ==
    /\ IsFiniteSet(PtrThreads) /\ IsFiniteSet(SharedPtrs) /\ IsFiniteSet(Soles)
    /\ SharedPtrs \cap Soles = {} /\ SharedPtrs \subseteq Vars /\ Soles \subseteq Vars
    /\ Vars = SharedPtrs \cup Soles
    /\ \A v \in Vars : PtrOwner[v] \in PtrThreads
    /\ 0 \notin Objects /\ Objects \subseteq Nat
  <1>0. /\ Ptr!IsFiniteSet(PtrThreads) /\ Ptr!IsFiniteSet(SharedPtrs)
        /\ Ptr!IsFiniteSet(UniquePtrs) /\ Ptr!IsFiniteSet(ThreadPtrs)
    BY PointersAssumption, Zenon DEF Ptr!SetsAssumption
  <1>2. /\ IsFiniteSet(PtrThreads) /\ IsFiniteSet(SharedPtrs)
        /\ IsFiniteSet(UniquePtrs) /\ IsFiniteSet(ThreadPtrs)
    BY <1>0, PtrSets, Zenon
  <1>1. IsFiniteSet(Soles)
    BY <1>2, FS_Union DEF Soles
  <1>3. SharedPtrs \cap Soles = {} /\ Vars = SharedPtrs \cup Soles
    BY PointersAssumption DEF Ptr!SetsAssumption, Soles, Vars, Ptr!Vars
  <1>4. \A v \in Vars : PtrOwner[v] \in PtrThreads
    BY PointersAssumption DEF Ptr!OwnerAssumption, Vars, Ptr!Vars
  <1>5. 0 \notin Objects /\ Objects \subseteq Nat
    BY PointersAssumption DEF Objects, Ptr!Objects, Ptr!SetsAssumption
  <1>6. QED  BY <1>1, <1>2, <1>3, <1>4, <1>5

One(x, y) == IF x = y THEN 1 ELSE 0

(* Of T, at most v has another value in g than in f. *)
Changes(T, f, g, v) == IsFiniteSet(T) /\ \A u \in T : u # v => g[u] = f[u]

(* Changing one value changes the counts of the old and the new one. *)
LEMMA CountUpdate ==
    ASSUME NEW T, NEW f, NEW g, NEW v, NEW x, Changes(T, f, g, v)
    PROVE  /\ Count(T, f, x) \in Nat
           /\ Count(T, g, x) =
                 IF v \in T THEN Count(T, f, x) + One(g[v], x) - One(f[v], x)
                            ELSE Count(T, f, x)
  <1> DEFINE S == {u \in T : f[u] = x}
             S2 == {u \in T : g[u] = x}
  <1>1. IsFiniteSet(S) /\ Cardinality(S) \in Nat
    <2>1. S \subseteq T
      OBVIOUS
    <2> HIDE DEF S
    <2>2. QED  BY <2>1, FS_Subset, FS_CardinalityType DEF Changes
  <1>2. \A u \in T : u # v => g[u] = f[u]
    BY DEF Changes
  <1>3. CASE v \notin T
    <2>1. S2 = S
      BY <1>2, <1>3
    <2>2. QED  BY <2>1, <1>1, <1>3 DEF Count
  <1>4. CASE v \in T /\ g[v] = x /\ f[v] # x
    <2>1. S2 = S \cup {v} /\ v \notin S
      BY <1>2, <1>4
    <2> HIDE DEF S, S2
    <2>2. Cardinality(S2) = Cardinality(S) + 1
      BY <2>1, <1>1, FS_AddElement
    <2>3. QED  BY <2>2, <1>1, <1>4 DEF Count, One, S, S2
  <1>5. CASE v \in T /\ g[v] # x /\ f[v] = x
    <2>1. S2 = S \ {v} /\ v \in S
      BY <1>2, <1>5
    <2> HIDE DEF S, S2
    <2>2. Cardinality(S2) = Cardinality(S) - 1
      BY <2>1, <1>1, FS_RemoveElement
    <2>3. QED  BY <2>2, <1>1, <1>5 DEF Count, One, S, S2
  <1>6. CASE v \in T /\ (g[v] = x <=> f[v] = x)
    <2>1. S2 = S
      BY <1>2, <1>6
    <2>2. QED  BY <2>1, <1>1, <1>6 DEF Count, One
  <1>7. QED  BY <1>3, <1>4, <1>5, <1>6

(* A count is positive if and only if somebody is counted. *)
LEMMA CountPositive ==
    ASSUME NEW T, IsFiniteSet(T), NEW f, NEW x
    PROVE  Count(T, f, x) \in Nat /\ (Count(T, f, x) > 0 <=> \E u \in T : f[u] = x)
  <1> DEFINE S == {u \in T : f[u] = x}
  <1>1. IsFiniteSet(S) /\ Cardinality(S) \in Nat
    <2>1. S \subseteq T
      OBVIOUS
    <2> HIDE DEF S
    <2>2. QED  BY <2>1, FS_Subset, FS_CardinalityType
  <1>2. Cardinality(S) = 0 <=> S = {}
    BY <1>1, FS_EmptySet
  <1>3. QED  BY <1>1, <1>2 DEF Count

(* The counts are numbers. *)
LEMMA HandTypes ==
    ASSUME NEW o
    PROVE  /\ Shares(o) \in Nat /\ Leaves(o) \in Nat /\ Alone(o) \in Nat /\ Deletes(o) \in Nat
           /\ Counted(o) \in Nat /\ Owned(o) \in Nat
BY KindFacts, CountPositive DEF Shares, Leaves, Alone, Deletes, Counted, Owned

(* A variable gets another object. *)
LEMMA VarUpdate ==
    ASSUME PtrType, NEW v \in Vars, NEW b, ptr' = [ptr EXCEPT ![v] = b], NEW o
    PROVE  /\ Shares(o)' = IF v \in SharedPtrs
                           THEN Shares(o) + One(b, o) - One(ptr[v], o) ELSE Shares(o)
           /\ Alone(o)' = IF v \in SharedPtrs
                          THEN Alone(o) ELSE Alone(o) + One(b, o) - One(ptr[v], o)
  <1>1. ptr'[v] = b /\ \A u \in Vars : u # v => ptr'[u] = ptr[u]
    BY DEF PtrType
  <1>2. Count(SharedPtrs, ptr', o) =
            IF v \in SharedPtrs THEN Count(SharedPtrs, ptr, o) + One(b, o) - One(ptr[v], o)
            ELSE Count(SharedPtrs, ptr, o)
    <2>1. Changes(SharedPtrs, ptr, ptr', v)
      BY <1>1, KindFacts DEF Changes
    <2> DEFINE g == ptr'
    <2>2. Changes(SharedPtrs, ptr, g, v)
      BY <2>1
    <2> HIDE DEF g
    <2>3. Count(SharedPtrs, g, o) =
            IF v \in SharedPtrs THEN Count(SharedPtrs, ptr, o) + One(g[v], o) - One(ptr[v], o)
            ELSE Count(SharedPtrs, ptr, o)
      BY <2>2, CountUpdate
    <2>4. QED  BY <2>3, <1>1 DEF g
  <1>3. Count(Soles, ptr', o) =
            IF v \in Soles THEN Count(Soles, ptr, o) + One(b, o) - One(ptr[v], o)
            ELSE Count(Soles, ptr, o)
    <2>1. Changes(Soles, ptr, ptr', v)
      BY <1>1, KindFacts DEF Changes
    <2> DEFINE g == ptr'
    <2>2. Changes(Soles, ptr, g, v)
      BY <2>1
    <2> HIDE DEF g
    <2>3. Count(Soles, g, o) =
            IF v \in Soles THEN Count(Soles, ptr, o) + One(g[v], o) - One(ptr[v], o)
            ELSE Count(Soles, ptr, o)
      BY <2>2, CountUpdate
    <2>4. QED  BY <2>3, <1>1 DEF g
  <1>4. v \in Soles <=> v \notin SharedPtrs
    BY KindFacts
  <1>5. QED  BY <1>2, <1>3, <1>4 DEF Shares, Alone

(* Two variables of a kind get other objects. *)
SetsPair(v, w, b, c) == v # w /\ ptr' = [ptr EXCEPT ![v] = b, ![w] = c]
LEMMA PairUpdate ==
    ASSUME PtrType, NEW v \in Vars, NEW w \in Vars, NEW b, NEW c, SetsPair(v, w, b, c), NEW o,
           v \in SharedPtrs <=> w \in SharedPtrs
    PROVE  LET change == One(b, o) + One(c, o) - One(ptr[v], o) - One(ptr[w], o)
           IN  IF v \in SharedPtrs
               THEN Shares(o)' = Shares(o) + change /\ Alone(o)' = Alone(o)
               ELSE Shares(o)' = Shares(o) /\ Alone(o)' = Alone(o) + change
  <1> DEFINE f == [ptr EXCEPT ![v] = b]
  <1>1. /\ ptr'[v] = b /\ ptr'[w] = c /\ f[v] = b /\ f[w] = ptr[w]
        /\ \A u \in Vars : u # v => f[u] = ptr[u]
        /\ \A u \in Vars : u # w => ptr'[u] = f[u]
    BY DEF PtrType, SetsPair
  <1> HIDE DEF f
  <1>3. ASSUME NEW T, IsFiniteSet(T), T \subseteq Vars, v \in T <=> w \in T
        PROVE  /\ Count(T, ptr, o) \in Nat
               /\ Count(T, ptr', o) =
                     IF v \in T THEN Count(T, ptr, o) + One(b, o) - One(ptr[v], o)
                                     + One(c, o) - One(ptr[w], o)
                                ELSE Count(T, ptr, o)
    <2>1. /\ Count(T, ptr, o) \in Nat
          /\ Count(T, f, o) = IF v \in T THEN Count(T, ptr, o) + One(f[v], o) - One(ptr[v], o)
                                         ELSE Count(T, ptr, o)
      <3>1. Changes(T, ptr, f, v)
        BY <1>1, <1>3 DEF Changes
      <3>2. QED  BY <3>1, CountUpdate
    <2>2. Count(T, ptr', o) = IF w \in T THEN Count(T, f, o) + One(ptr'[w], o) - One(f[w], o)
                                         ELSE Count(T, f, o)
      <3> DEFINE g == ptr'
      <3>1. Changes(T, f, g, w)
        BY <1>1, <1>3 DEF Changes
      <3> HIDE DEF g
      <3>2. Count(T, g, o) = IF w \in T THEN Count(T, f, o) + One(g[w], o) - One(f[w], o)
                                        ELSE Count(T, f, o)
        BY <3>1, CountUpdate
      <3>3. QED  BY <3>2 DEF g
    <2>3. QED  BY <2>1, <2>2, <1>1, <1>3
  <1>4. v \in Soles <=> v \notin SharedPtrs
    BY KindFacts
  <1>5. w \in Soles <=> w \notin SharedPtrs
    BY KindFacts
  <1>6. /\ Shares(o) \in Nat
        /\ Shares(o)' = IF v \in SharedPtrs
                        THEN Shares(o) + One(b, o) - One(ptr[v], o)
                             + One(c, o) - One(ptr[w], o)
                        ELSE Shares(o)
    BY <1>3, KindFacts DEF Shares
  <1>7. /\ Alone(o) \in Nat
        /\ Alone(o)' = IF v \in Soles
                       THEN Alone(o) + One(b, o) - One(ptr[v], o)
                            + One(c, o) - One(ptr[w], o)
                       ELSE Alone(o)
    BY <1>3, <1>4, <1>5, KindFacts DEF Alone
  <1>8. QED  BY <1>4, <1>6, <1>7 DEF One

(* Thread t has y to do next. *)
Takes(t, y) == dropped' = [dropped EXCEPT ![t] = y]

(* A thread gets something else to do. *)
LEMMA ThreadUpdate ==
    ASSUME PtrType, NEW t \in PtrThreads, NEW y, Takes(t, y), NEW o
    PROVE  /\ Leaves(o)' = Leaves(o) + One(y, [x |-> o, at |-> "dec"])
                           - One(dropped[t], [x |-> o, at |-> "dec"])
           /\ Deletes(o)' = Deletes(o) + One(y, [x |-> o, at |-> "del"])
                            - One(dropped[t], [x |-> o, at |-> "del"])
  <1>1. dropped'[t] = y /\ \A u \in PtrThreads : u # t => dropped'[u] = dropped[u]
    BY DEF PtrType, Takes
  <1>2. ASSUME NEW z
        PROVE  Count(PtrThreads, dropped', z) =
                    Count(PtrThreads, dropped, z) + One(y, z) - One(dropped[t], z)
    <2>1. Count(PtrThreads, dropped', z) =
              IF t \in PtrThreads
              THEN Count(PtrThreads, dropped, z) + One(dropped'[t], z) - One(dropped[t], z)
              ELSE Count(PtrThreads, dropped, z)
      <3> DEFINE g == dropped'
      <3>1. Changes(PtrThreads, dropped, g, t)
        BY <1>1, KindFacts DEF Changes
      <3> HIDE DEF g
      <3>2. Count(PtrThreads, g, z) =
                IF t \in PtrThreads
                THEN Count(PtrThreads, dropped, z) + One(g[t], z) - One(dropped[t], z)
                ELSE Count(PtrThreads, dropped, z)
        BY <3>1, CountUpdate
      <3>3. QED  BY <3>2 DEF g
    <2>2. QED  BY <2>1, <1>1
  <1>3. QED  BY <1>2 DEF Leaves, Deletes

(* A free thread that lets go of p takes it into its hand. *)
LEMMA LetGo ==
    ASSUME PtrType, NEW t \in PtrThreads, dropped[t] = Ptr!Idle, NEW p \in Objects \cup {0},
           NEW k \in {"dec", "del"},
           dropped' = [dropped EXCEPT ![t] = IF p = 0 THEN Ptr!Idle ELSE [x |-> p, at |-> k]]
    PROVE  /\ dropped' \in [PtrThreads -> {Ptr!Idle} \cup [x : Objects, at : {"dec", "del"}]]
           /\ \A o \in Objects :
                 /\ Leaves(o)' = Leaves(o) + (IF k = "dec" THEN One(p, o) ELSE 0)
                 /\ Deletes(o)' = Deletes(o) + (IF k = "del" THEN One(p, o) ELSE 0)
  <1> DEFINE y == IF p = 0 THEN Ptr!Idle ELSE [x |-> p, at |-> k]
  <1>1. y \in {Ptr!Idle} \cup [x : Objects, at : {"dec", "del"}]
    OBVIOUS
  <1>2. ASSUME NEW o \in Objects, NEW j \in {"dec", "del"}
        PROVE  /\ Ptr!Idle # [x |-> o, at |-> j]
               /\ y = [x |-> o, at |-> j] <=> (p = o /\ k = j)
    <2>1. Ptr!Idle # [x |-> o, at |-> j]
      BY DEF Ptr!Idle
    <2>2. CASE p = 0
      BY <2>1, <2>2, KindFacts
    <2>3. CASE p # 0
      <3>1. y = [x |-> p, at |-> k]
        BY <2>3
      <3>2. [x |-> p, at |-> k] = [x |-> o, at |-> j] <=> (p = o /\ k = j)
        OBVIOUS
      <3>3. QED  BY <3>1, <3>2, <2>1
    <2>4. QED  BY <2>2, <2>3
  <1>3. dropped' = [dropped EXCEPT ![t] = y]
    OBVIOUS
  <1> HIDE DEF y
  <1>4. dropped' \in [PtrThreads -> {Ptr!Idle} \cup [x : Objects, at : {"dec", "del"}]]
    BY <1>1, <1>3 DEF PtrType
  <1>5. ASSUME NEW o \in Objects
        PROVE  /\ Leaves(o)' = Leaves(o) + (IF k = "dec" THEN One(p, o) ELSE 0)
               /\ Deletes(o)' = Deletes(o) + (IF k = "del" THEN One(p, o) ELSE 0)
    <2>1. /\ Leaves(o)' = Leaves(o) + One(y, [x |-> o, at |-> "dec"])
                          - One(dropped[t], [x |-> o, at |-> "dec"])
          /\ Deletes(o)' = Deletes(o) + One(y, [x |-> o, at |-> "del"])
                           - One(dropped[t], [x |-> o, at |-> "del"])
      <3>1. Takes(t, y)
        BY <1>3 DEF Takes
      <3>2. QED  BY <3>1, ThreadUpdate
    <2>2. /\ One(y, [x |-> o, at |-> "dec"]) = IF k = "dec" THEN One(p, o) ELSE 0
          /\ One(y, [x |-> o, at |-> "del"]) = IF k = "del" THEN One(p, o) ELSE 0
          /\ One(dropped[t], [x |-> o, at |-> "dec"]) = 0
          /\ One(dropped[t], [x |-> o, at |-> "del"]) = 0
      BY <1>2 DEF One
    <2>3. Leaves(o) \in Nat /\ Deletes(o) \in Nat
      BY HandTypes
    <2>4. QED  BY <2>1, <2>2, <2>3 DEF One
  <1>6. QED  BY <1>4, <1>5

(* A thread lets go of what a variable of its own held. *)
LetsGo(v) == dropped' = [dropped EXCEPT ![PtrOwner[v]] =
                            IF ptr[v] = 0 THEN Ptr!Idle
                            ELSE [x |-> ptr[v], at |-> IF v \in SharedPtrs THEN "dec" ELSE "del"]]
Dropping == [PtrThreads -> {Ptr!Idle} \cup [x : Objects, at : {"dec", "del"}]]

(* The other types, and who is free. *)
LEMMA LetsGoFacts ==
    ASSUME PtrType, NEW v \in Vars, dropped[PtrOwner[v]] = Ptr!Idle, LetsGo(v)
    PROVE  /\ dropped' \in Dropping
           /\ \A o \in Objects :
                 /\ Leaves(o)' = Leaves(o) + (IF v \in SharedPtrs THEN One(ptr[v], o) ELSE 0)
                 /\ Deletes(o)' = Deletes(o) + (IF v \in SharedPtrs THEN 0 ELSE One(ptr[v], o))
  <1> DEFINE k == IF v \in SharedPtrs THEN "dec" ELSE "del"
             p == ptr[v]
             t == PtrOwner[v]
  <1>1. /\ t \in PtrThreads /\ p \in Objects \cup {0} /\ k \in {"dec", "del"}
        /\ dropped[t] = Ptr!Idle
        /\ dropped' = [dropped EXCEPT ![t] = IF p = 0 THEN Ptr!Idle ELSE [x |-> p, at |-> k]]
    BY KindFacts DEF PtrType, LetsGo
  <1>2. k = "dec" <=> v \in SharedPtrs
    OBVIOUS
  <1>3. k = "del" <=> v \notin SharedPtrs
    OBVIOUS
  <1> HIDE DEF k, p, t
  <1>4. /\ dropped' \in Dropping
        /\ \A o \in Objects :
              /\ Leaves(o)' = Leaves(o) + (IF k = "dec" THEN One(p, o) ELSE 0)
              /\ Deletes(o)' = Deletes(o) + (IF k = "del" THEN One(p, o) ELSE 0)
    BY <1>1, LetGo DEF Dropping
  <1>5. QED  BY <1>2, <1>3, <1>4 DEF p

(* A variable gets another object, and the thread lets go of the old one:   *)
(* what was in hand stays so.                                               *)
LEMMA Replaced ==
    ASSUME PtrType, NEW v \in Vars, NEW b \in Objects \cup {0},
           ptr' = [ptr EXCEPT ![v] = b], LetsGo(v), dropped[PtrOwner[v]] = Ptr!Idle
    PROVE  /\ ptr' \in [Vars -> Objects \cup {0}] /\ dropped' \in Dropping
           /\ \A o \in Objects :
                 /\ Counted(o)' = Counted(o) + (IF v \in SharedPtrs THEN One(b, o) ELSE 0)
                 /\ Owned(o)' = Owned(o) + (IF v \in SharedPtrs THEN 0 ELSE One(b, o))
  <1>1. ptr' \in [Vars -> Objects \cup {0}] /\ dropped' \in Dropping
    BY LetsGoFacts DEF PtrType
  <1>2. ASSUME NEW o \in Objects
        PROVE  /\ Counted(o)' = Counted(o) + (IF v \in SharedPtrs THEN One(b, o) ELSE 0)
               /\ Owned(o)' = Owned(o) + (IF v \in SharedPtrs THEN 0 ELSE One(b, o))
    <2>1. /\ Leaves(o)' = Leaves(o) + (IF v \in SharedPtrs THEN One(ptr[v], o) ELSE 0)
          /\ Deletes(o)' = Deletes(o) + (IF v \in SharedPtrs THEN 0 ELSE One(ptr[v], o))
      BY LetsGoFacts
    <2>2. /\ Shares(o)' = IF v \in SharedPtrs
                          THEN Shares(o) + One(b, o) - One(ptr[v], o) ELSE Shares(o)
          /\ Alone(o)' = IF v \in SharedPtrs
                         THEN Alone(o) ELSE Alone(o) + One(b, o) - One(ptr[v], o)
      BY VarUpdate
    <2>3. /\ Shares(o) \in Nat /\ Leaves(o) \in Nat /\ Alone(o) \in Nat /\ Deletes(o) \in Nat
      BY HandTypes
    <2>4. QED  BY <2>1, <2>2, <2>3 DEF Counted, Owned, One
  <1>3. QED  BY <1>1, <1>2

(* An object goes from a variable to another of its kind, whose own one the *)
(* thread lets go.                                                          *)
LEMMA Moved ==
    ASSUME PtrType, NEW v \in Vars, NEW w \in Vars, v # w, v \in SharedPtrs <=> w \in SharedPtrs,
           ptr' = [ptr EXCEPT ![v] = ptr[w], ![w] = 0],
           LetsGo(v), dropped[PtrOwner[v]] = Ptr!Idle
    PROVE  /\ ptr' \in [Vars -> Objects \cup {0}] /\ dropped' \in Dropping
           /\ \A o \in Objects : Counted(o)' = Counted(o) /\ Owned(o)' = Owned(o)
  <1>1. ptr' \in [Vars -> Objects \cup {0}] /\ dropped' \in Dropping
    BY LetsGoFacts DEF PtrType
  <1>2. ASSUME NEW o \in Objects
        PROVE  Counted(o)' = Counted(o) /\ Owned(o)' = Owned(o)
    <2>1. /\ Leaves(o)' = Leaves(o) + (IF v \in SharedPtrs THEN One(ptr[v], o) ELSE 0)
          /\ Deletes(o)' = Deletes(o) + (IF v \in SharedPtrs THEN 0 ELSE One(ptr[v], o))
      BY LetsGoFacts
    <2> DEFINE b == ptr[w]
               c == 0
    <2>2. SetsPair(v, w, b, c) /\ One(c, o) = 0
      BY KindFacts DEF SetsPair, One
    <2> HIDE DEF b, c
    <2>3. LET change == One(b, o) + One(c, o) - One(ptr[v], o) - One(ptr[w], o)
          IN  IF v \in SharedPtrs
              THEN Shares(o)' = Shares(o) + change /\ Alone(o)' = Alone(o)
              ELSE Shares(o)' = Shares(o) /\ Alone(o)' = Alone(o) + change
      BY <2>2, PairUpdate
    <2>4. /\ Shares(o) \in Nat /\ Leaves(o) \in Nat /\ Alone(o) \in Nat /\ Deletes(o) \in Nat
      BY HandTypes
    <2>5. /\ Counted(o)' = Shares(o)' + Leaves(o)' /\ Counted(o) = Shares(o) + Leaves(o)
          /\ Owned(o)' = Alone(o)' + Deletes(o)' /\ Owned(o) = Alone(o) + Deletes(o)
      BY DEF Counted, Owned
    <2>6. QED  BY <2>1, <2>2, <2>3, <2>4, <2>5 DEF One, b
  <1>3. QED  BY <1>1, <1>2

(* Where nothing else changes, the inventory is all that counts. *)
LEMMA SameHands ==
    ASSUME PtrInv, UNCHANGED <<refn, alive, deleted>>,
           ptr' \in [Vars -> Objects \cup {0}] /\ dropped' \in Dropping,
           \A o \in Objects : Counted(o)' = Counted(o) /\ Owned(o)' = Owned(o)
    PROVE  PtrInv'
  <1>1. PtrType'
    BY DEF PtrInv, PtrType, Dropping
  <1>2. ASSUME NEW o \in Objects PROVE ObjectInv(o)'
    BY <1>2 DEF PtrInv, ObjectInv
  <1>3. QED  BY <1>1, <1>2 DEF PtrInv

LEMMA DropFacts ==
    ASSUME PtrInv, NEW v \in Vars,
           IF v \in SharedPtrs THEN Ptr!Drop(PtrOwner[v], ptr[v])
                               ELSE Ptr!Delete(PtrOwner[v], ptr[v])
    PROVE  LetsGo(v)
BY DEF Ptr!Drop, Ptr!Delete, Ptr!Null, LetsGo

LEMMA MakeStep ==
    ASSUME PtrInv, NEW v \in Vars, Ptr!Free(PtrOwner[v]), Ptr!Make(v)
    PROVE  PtrInv'
  <1>1. PICK b \in Objects \ alive :
            /\ deleted[b] = 0
            /\ ptr' = [ptr EXCEPT ![v] = b]
            /\ alive' = alive \cup {b}
            /\ refn' = IF v \in SharedPtrs THEN [refn EXCEPT ![b] = 1] ELSE refn
            /\ IF v \in SharedPtrs THEN Ptr!Drop(PtrOwner[v], ptr[v])
                                   ELSE Ptr!Delete(PtrOwner[v], ptr[v])
            /\ UNCHANGED deleted
    BY Zenon DEF Ptr!Make, Objects
  <1>2. LetsGo(v) /\ dropped[PtrOwner[v]] = Ptr!Idle
    BY <1>1, DropFacts DEF Ptr!Free
  <1>3. /\ ptr' \in [Vars -> Objects \cup {0}] /\ dropped' \in Dropping
        /\ \A o \in Objects :
              /\ Counted(o)' = Counted(o) + (IF v \in SharedPtrs THEN One(b, o) ELSE 0)
              /\ Owned(o)' = Owned(o) + (IF v \in SharedPtrs THEN 0 ELSE One(b, o))
    BY <1>1, <1>2, Replaced DEF PtrInv
  <1>4. PtrType'
    BY <1>1, <1>3 DEF PtrInv, PtrType, Dropping
  <1>5. ASSUME NEW o \in Objects PROVE ObjectInv(o)'
    <2>1. ObjectInv(o) /\ Counted(o) \in Nat /\ Owned(o) \in Nat
      BY HandTypes DEF PtrInv
    <2>2. /\ Counted(o)' = Counted(o) + (IF v \in SharedPtrs THEN One(b, o) ELSE 0)
          /\ Owned(o)' = Owned(o) + (IF v \in SharedPtrs THEN 0 ELSE One(b, o))
      BY <1>3
    <2>3. CASE o # b
      <3>1. refn'[o] = refn[o] /\ (o \in alive' <=> o \in alive) /\ deleted' = deleted
        BY <1>1, <2>3 DEF PtrInv, PtrType
      <3>2. Counted(o)' = Counted(o) /\ Owned(o)' = Owned(o)
        BY <2>1, <2>2, <2>3 DEF One
      <3>3. QED  BY <2>1, <3>1, <3>2 DEF ObjectInv
    <2>4. CASE o = b
      <3>1. Counted(o) = 0 /\ Owned(o) = 0 /\ refn[o] = 0 /\ deleted[o] = 0
        BY <1>1, <2>1, <2>4 DEF ObjectInv
      <3>2. /\ Counted(o)' = IF v \in SharedPtrs THEN 1 ELSE 0
            /\ Owned(o)' = IF v \in SharedPtrs THEN 0 ELSE 1
        BY <2>2, <2>4, <3>1 DEF One
      <3>3. /\ refn'[o] = IF v \in SharedPtrs THEN 1 ELSE 0
            /\ o \in alive' /\ deleted'[o] = 0
        BY <1>1, <2>4, <3>1 DEF PtrInv, PtrType
      <3>4. QED  BY <3>2, <3>3 DEF ObjectInv
    <2>5. QED  BY <2>3, <2>4
  <1>6. QED  BY <1>4, <1>5 DEF PtrInv

LEMMA CopyStep ==
    ASSUME PtrInv, NEW v \in SharedPtrs, NEW w \in SharedPtrs,
           Ptr!Free(PtrOwner[v]), Ptr!Copy(v, w)
    PROVE  PtrInv'
  <1> DEFINE b == ptr[w]
  <1>1. /\ v \in Vars /\ w \in Vars /\ b \in Objects \cup {0} /\ 0 \notin Objects
        /\ ptr' = [ptr EXCEPT ![v] = b]
        /\ refn' = IF b = 0 THEN refn ELSE [refn EXCEPT ![b] = @ + 1]
        /\ UNCHANGED <<alive, deleted>>
    BY KindFacts DEF PtrInv, PtrType, Ptr!Copy, Ptr!Null
  <1>2. LetsGo(v) /\ dropped[PtrOwner[v]] = Ptr!Idle
    BY <1>1, DropFacts DEF Ptr!Free, Ptr!Copy
  <1>w. b = ptr[w]
    OBVIOUS
  <1> HIDE DEF b
  <1>3. /\ ptr' \in [Vars -> Objects \cup {0}] /\ dropped' \in Dropping
        /\ \A o \in Objects :
              /\ Counted(o)' = Counted(o) + (IF v \in SharedPtrs THEN One(b, o) ELSE 0)
              /\ Owned(o)' = Owned(o) + (IF v \in SharedPtrs THEN 0 ELSE One(b, o))
    BY <1>1, <1>2, Replaced DEF PtrInv
  <1>4. PtrType'
    BY <1>1, <1>3 DEF PtrInv, PtrType, Dropping
  <1>5. ASSUME NEW o \in Objects PROVE ObjectInv(o)'
    <2>1. ObjectInv(o) /\ Counted(o) \in Nat /\ Owned(o) \in Nat
      BY HandTypes DEF PtrInv
    <2>2. /\ Counted(o)' = Counted(o) + One(b, o) /\ Owned(o)' = Owned(o)
      BY <1>3, <2>1 DEF One
    <2>3. refn'[o] = refn[o] + One(b, o)
      BY <1>1, <2>1 DEF PtrInv, PtrType, One
    <2>4. b = o => Counted(o) > 0
      <3>1. b = o => Shares(o) > 0
        BY <1>w, KindFacts, CountPositive DEF Shares
      <3>2. QED  BY <3>1, HandTypes DEF Counted
    <2>5. QED  BY <1>1, <2>1, <2>2, <2>3, <2>4 DEF ObjectInv, One
  <1>6. QED  BY <1>4, <1>5 DEF PtrInv

LEMMA MovesStep ==
    ASSUME PtrInv, NEW v \in Vars, NEW w \in Vars, Ptr!Free(PtrOwner[v]),
           Ptr!Move(v, w) \/ Ptr!release(v, w)
    PROVE  PtrInv'
  <1>1. /\ v # w /\ ptr' = [ptr EXCEPT ![v] = ptr[w], ![w] = 0]
        /\ UNCHANGED <<refn, alive, deleted>>
    BY DEF Ptr!Move, Ptr!release, Ptr!Null
  <1>2. v \in SharedPtrs <=> w \in SharedPtrs
    BY PointersAssumption DEF Ptr!Move, Ptr!release, Ptr!SetsAssumption
  <1>3. LetsGo(v) /\ dropped[PtrOwner[v]] = Ptr!Idle
    <2>1. CASE Ptr!Move(v, w)
      BY <2>1, DropFacts DEF Ptr!Free, Ptr!Move
    <2>2. CASE Ptr!release(v, w)
      <3>1. v \notin SharedPtrs
        BY <2>2, PointersAssumption DEF Ptr!release, Ptr!SetsAssumption
      <3>2. QED  BY <2>2, <3>1, DropFacts DEF Ptr!Free, Ptr!release
    <2>3. QED  BY <2>1, <2>2
  <1>4. /\ ptr' \in [Vars -> Objects \cup {0}] /\ dropped' \in Dropping
        /\ \A o \in Objects : Counted(o)' = Counted(o) /\ Owned(o)' = Owned(o)
    BY <1>1, <1>2, <1>3, Moved DEF PtrInv
  <1>5. QED  BY <1>1, <1>4, SameHands

LEMMA PtrSwapStep ==
    ASSUME PtrInv, NEW v \in Vars, NEW w \in Vars, Ptr!swap(v, w)
    PROVE  PtrInv'
  <1> DEFINE b == ptr[w]
             c == ptr[v]
  <1>1. /\ v # w /\ ptr' = [ptr EXCEPT ![v] = b, ![w] = c]
        /\ UNCHANGED <<refn, alive, deleted>> /\ dropped' = dropped
    BY DEF Ptr!swap
  <1>2. v \in SharedPtrs <=> w \in SharedPtrs
    BY PointersAssumption DEF Ptr!swap, Ptr!SetsAssumption
  <1>3. ptr' \in [Vars -> Objects \cup {0}] /\ dropped' \in Dropping
    BY <1>1 DEF PtrInv, PtrType, Dropping
  <1>4. ASSUME NEW o \in Objects PROVE Counted(o)' = Counted(o) /\ Owned(o)' = Owned(o)
    <2>1. SetsPair(v, w, b, c) /\ b = ptr[w] /\ c = ptr[v]
      BY <1>1 DEF SetsPair
    <2> HIDE DEF b, c
    <2>2. LET change == One(b, o) + One(c, o) - One(ptr[v], o) - One(ptr[w], o)
          IN  IF v \in SharedPtrs
              THEN Shares(o)' = Shares(o) + change /\ Alone(o)' = Alone(o)
              ELSE Shares(o)' = Shares(o) /\ Alone(o)' = Alone(o) + change
      BY <1>2, <2>1, PairUpdate DEF PtrInv
    <2>3. Leaves(o)' = Leaves(o) /\ Deletes(o)' = Deletes(o)
      BY <1>1 DEF Leaves, Deletes, Count
    <2>4. /\ Shares(o) \in Nat /\ Leaves(o) \in Nat /\ Alone(o) \in Nat /\ Deletes(o) \in Nat
      BY HandTypes
    <2>5. /\ Counted(o)' = Shares(o)' + Leaves(o)' /\ Counted(o) = Shares(o) + Leaves(o)
          /\ Owned(o)' = Alone(o)' + Deletes(o)' /\ Owned(o) = Alone(o) + Deletes(o)
      BY DEF Counted, Owned
    <2>6. QED  BY <2>1, <2>2, <2>3, <2>4, <2>5 DEF One
  <1>5. QED  BY <1>1, <1>3, <1>4, SameHands

LEMMA ResetStep ==
    ASSUME PtrInv, NEW v \in Vars, Ptr!Free(PtrOwner[v]), Ptr!Reset(v)
    PROVE  PtrInv'
  <1> DEFINE b == 0
  <1>1. b \in Objects \cup {0} /\ ptr' = [ptr EXCEPT ![v] = b] /\ UNCHANGED <<refn, alive, deleted>>
    BY DEF Ptr!Reset, Ptr!Null
  <1>2. LetsGo(v) /\ dropped[PtrOwner[v]] = Ptr!Idle
    BY DropFacts DEF Ptr!Free, Ptr!Reset
  <1>3. \A o \in Objects : One(b, o) = 0
    BY KindFacts DEF One
  <1> HIDE DEF b
  <1>4. /\ ptr' \in [Vars -> Objects \cup {0}] /\ dropped' \in Dropping
        /\ \A o \in Objects :
              /\ Counted(o)' = Counted(o) + (IF v \in SharedPtrs THEN One(b, o) ELSE 0)
              /\ Owned(o)' = Owned(o) + (IF v \in SharedPtrs THEN 0 ELSE One(b, o))
    BY <1>1, <1>2, Replaced DEF PtrInv
  <1>5. \A o \in Objects : Counted(o)' = Counted(o) /\ Owned(o)' = Owned(o)
    BY <1>3, <1>4, HandTypes
  <1>6. QED  BY <1>1, <1>4, <1>5, SameHands

(* What a thread that has an object in its hand does to the inventory when  *)
(* it turns to y.                                                           *)
LEMMA DecStep ==
    ASSUME PtrInv, NEW t \in PtrThreads, Ptr!Dec(t)
    PROVE  PtrInv'
  <1> DEFINE p == dropped[t].x
             y == IF refn[p] = 1 THEN [x |-> p, at |-> "del"] ELSE Ptr!Idle
  <1>1. dropped[t] = [x |-> p, at |-> "dec"] /\ p \in Objects
    BY DEF PtrInv, PtrType, Ptr!Dec, Ptr!Idle
  <1>2. /\ refn' = [refn EXCEPT ![p] = @ - 1] /\ dropped' = [dropped EXCEPT ![t] = y]
        /\ UNCHANGED <<ptr, alive, deleted>>
    BY DEF Ptr!Dec
  <1>3. refn[p] \in Nat /\ y \in {Ptr!Idle} \cup [x : Objects, at : {"dec", "del"}]
    BY <1>1 DEF PtrInv, PtrType
  <1>4. ASSUME NEW o \in Objects
        PROVE  /\ One(y, [x |-> o, at |-> "dec"]) = 0
               /\ One(y, [x |-> o, at |-> "del"]) = IF o = p /\ refn[p] = 1 THEN 1 ELSE 0
               /\ One(dropped[t], [x |-> o, at |-> "dec"]) = One(p, o)
               /\ One(dropped[t], [x |-> o, at |-> "del"]) = 0
    <2>1. /\ Ptr!Idle # [x |-> o, at |-> "dec"] /\ Ptr!Idle # [x |-> o, at |-> "del"]
      BY DEF Ptr!Idle
    <2>2. /\ [x |-> p, at |-> "dec"] # [x |-> o, at |-> "del"]
          /\ [x |-> p, at |-> "del"] # [x |-> o, at |-> "dec"]
          /\ [x |-> p, at |-> "dec"] = [x |-> o, at |-> "dec"] <=> p = o
          /\ [x |-> p, at |-> "del"] = [x |-> o, at |-> "del"] <=> p = o
      OBVIOUS
    <2>3. QED  BY <1>1, <2>1, <2>2 DEF One
  <1> HIDE DEF p, y
  <1>5. refn[p] > 0
    <2>1. Leaves(p) > 0
      <3> DEFINE x == [x |-> p, at |-> "dec"]
      <3>1. dropped[t] = x
        BY <1>1
      <3> HIDE DEF x
      <3>2. Count(PtrThreads, dropped, x) > 0
        BY <3>1, KindFacts, CountPositive
      <3>3. QED  BY <3>2 DEF Leaves, x
    <2>2. QED  BY <1>1, <2>1, HandTypes DEF PtrInv, ObjectInv, Counted
  <1>6. PtrType'
    BY <1>1, <1>2, <1>3, <1>5 DEF PtrInv, PtrType
  <1>7. ASSUME NEW o \in Objects PROVE ObjectInv(o)'
    <2>1. /\ ObjectInv(o) /\ Shares(o) \in Nat /\ Leaves(o) \in Nat
          /\ Alone(o) \in Nat /\ Deletes(o) \in Nat
      BY HandTypes DEF PtrInv
    <2>2. /\ Leaves(o)' = Leaves(o) + One(y, [x |-> o, at |-> "dec"])
                           - One(dropped[t], [x |-> o, at |-> "dec"])
          /\ Deletes(o)' = Deletes(o) + One(y, [x |-> o, at |-> "del"])
                            - One(dropped[t], [x |-> o, at |-> "del"])
      <3>1. PtrType /\ Takes(t, y)
        BY <1>2 DEF PtrInv, Takes
      <3>2. QED  BY <3>1, ThreadUpdate
    <2>3. Shares(o)' = Shares(o) /\ Alone(o)' = Alone(o)
      BY <1>2 DEF Shares, Alone, Count
    <2>4. /\ Counted(o)' = Counted(o) - One(p, o)
          /\ Owned(o)' = Owned(o) + (IF o = p /\ refn[p] = 1 THEN 1 ELSE 0)
      BY <1>4, <2>1, <2>2, <2>3 DEF Counted, Owned, One
    <2>5. refn'[o] = refn[o] - One(p, o) /\ alive' = alive /\ deleted' = deleted
      BY <1>2, <2>1, <1>3 DEF PtrInv, PtrType, One
    <2>6. Counted(o) \in Nat /\ Owned(o) \in Nat
      BY HandTypes
    <2>7. QED  BY <1>3, <1>5, <2>1, <2>4, <2>5, <2>6 DEF ObjectInv, One
  <1>8. QED  BY <1>6, <1>7 DEF PtrInv

LEMMA DelStep ==
    ASSUME PtrInv, NEW t \in PtrThreads, Ptr!Del(t)
    PROVE  PtrInv'
  <1> DEFINE p == dropped[t].x
             y == Ptr!Idle
  <1>1. dropped[t] = [x |-> p, at |-> "del"] /\ p \in Objects
    BY DEF PtrInv, PtrType, Ptr!Del, Ptr!Idle
  <1>2. /\ alive' = alive \ {p} /\ deleted' = [deleted EXCEPT ![p] = @ + 1]
        /\ dropped' = [dropped EXCEPT ![t] = y] /\ UNCHANGED <<ptr, refn>>
    BY DEF Ptr!Del
  <1>4. ASSUME NEW o \in Objects
        PROVE  /\ One(y, [x |-> o, at |-> "dec"]) = 0 /\ One(y, [x |-> o, at |-> "del"]) = 0
               /\ One(dropped[t], [x |-> o, at |-> "dec"]) = 0
               /\ One(dropped[t], [x |-> o, at |-> "del"]) = One(p, o)
    <2>1. /\ y # [x |-> o, at |-> "dec"] /\ y # [x |-> o, at |-> "del"]
      BY DEF Ptr!Idle
    <2>2. /\ [x |-> p, at |-> "del"] # [x |-> o, at |-> "dec"]
          /\ [x |-> p, at |-> "del"] = [x |-> o, at |-> "del"] <=> p = o
      OBVIOUS
    <2>3. QED  BY <1>1, <2>1, <2>2 DEF One
  <1>y. y = Ptr!Idle
    OBVIOUS
  <1> HIDE DEF p, y
  <1>5. Deletes(p) > 0
    <2> DEFINE x == [x |-> p, at |-> "del"]
    <2>1. dropped[t] = x
      BY <1>1
    <2> HIDE DEF x
    <2>2. Count(PtrThreads, dropped, x) > 0
      BY <2>1, KindFacts, CountPositive
    <2>3. QED  BY <2>2 DEF Deletes, x
  <1>6. PtrType'
    BY <1>1, <1>2, <1>y DEF PtrInv, PtrType
  <1>7. ASSUME NEW o \in Objects PROVE ObjectInv(o)'
    <2>1. /\ ObjectInv(o) /\ Shares(o) \in Nat /\ Leaves(o) \in Nat
          /\ Alone(o) \in Nat /\ Deletes(o) \in Nat
      BY HandTypes DEF PtrInv
    <2>2. /\ Leaves(o)' = Leaves(o) + One(y, [x |-> o, at |-> "dec"])
                           - One(dropped[t], [x |-> o, at |-> "dec"])
          /\ Deletes(o)' = Deletes(o) + One(y, [x |-> o, at |-> "del"])
                            - One(dropped[t], [x |-> o, at |-> "del"])
      <3>1. PtrType /\ Takes(t, y)
        BY <1>2 DEF PtrInv, Takes
      <3>2. QED  BY <3>1, ThreadUpdate
    <2>3. Shares(o)' = Shares(o) /\ Alone(o)' = Alone(o)
      BY <1>2 DEF Shares, Alone, Count
    <2>4. Counted(o)' = Counted(o) /\ Owned(o)' = Owned(o) - One(p, o)
      BY <1>4, <2>1, <2>2, <2>3 DEF Counted, Owned, One
    <2>5. /\ refn' = refn /\ deleted'[o] = deleted[o] + One(p, o)
          /\ o \in alive' <=> o \in alive /\ o # p
      BY <1>2, <2>1 DEF PtrInv, PtrType, One
    <2>6. Counted(o) \in Nat /\ Owned(o) \in Nat /\ (o = p => Owned(o) > 0)
      BY <1>5, <2>1, HandTypes DEF Owned
    <2>7. CASE o = p
      BY <2>1, <2>4, <2>5, <2>6, <2>7 DEF ObjectInv, One
    <2>8. CASE o # p
      <3>1. /\ Counted(o)' = Counted(o) /\ Owned(o)' = Owned(o)
            /\ deleted'[o] = deleted[o] /\ refn' = refn /\ (o \in alive' <=> o \in alive)
        <4>1. One(p, o) = 0
          BY <2>8 DEF One
        <4>2. deleted[o] \in Nat
          BY DEF PtrInv, PtrType
        <4>3. QED  BY <2>4, <2>5, <2>6, <2>8, <4>1, <4>2
      <3>2. QED  BY <2>1, <3>1 DEF ObjectInv
    <2>9. QED  BY <2>7, <2>8
  <1>8. QED  BY <1>6, <1>7 DEF PtrInv

(* DeletedOnce: the object that a variable of any thread refers to is alive, *)
(* the counter is the number of those who are to decrement it, nothing is    *)
(* deleted twice and nothing is left alive that nobody will delete, for any  *)
(* number of threads and of pointers of each kind.                           *)
THEOREM DeletionCorrect == Ptr!Spec => []DeletedOnce
  <1>1. Ptr!Init => PtrInv
    <2> SUFFICES ASSUME Ptr!Init PROVE PtrInv
      OBVIOUS
    <2>1. PtrType
      BY DEF Ptr!Init, PtrType, Vars, Objects, Ptr!Null
    <2>2. ASSUME NEW o \in Objects PROVE ObjectInv(o)
      <3>1. /\ \A v \in Vars : ptr[v] # o
            /\ \A t \in PtrThreads, j \in {"dec", "del"} : dropped[t] # [x |-> o, at |-> j]
        BY KindFacts DEF Ptr!Init, Ptr!Idle, Ptr!Null, Vars
      <3>2. Shares(o) = 0 /\ Alone(o) = 0
        BY <3>1, KindFacts, CountPositive DEF Shares, Alone
      <3> DEFINE x == [x |-> o, at |-> "dec"]
                 y == [x |-> o, at |-> "del"]
      <3>3. \A t \in PtrThreads : dropped[t] # x /\ dropped[t] # y
        BY <3>1
      <3> HIDE DEF x, y
      <3>4. Count(PtrThreads, dropped, x) = 0 /\ Count(PtrThreads, dropped, y) = 0
        BY <3>3, KindFacts, CountPositive
      <3>5. Leaves(o) = 0 /\ Deletes(o) = 0
        BY <3>4 DEF Leaves, Deletes, x, y
      <3>6. Counted(o) = 0 /\ Owned(o) = 0
        BY <3>2, <3>5 DEF Counted, Owned
      <3>7. refn[o] = 0 /\ deleted[o] = 0 /\ o \notin alive
        BY DEF Ptr!Init, Objects
      <3>8. QED  BY <3>6, <3>7 DEF ObjectInv
    <2>3. QED  BY <2>1, <2>2 DEF PtrInv
  <1>2. PtrInv /\ [Ptr!Next]_(Ptr!vars) => PtrInv'
    <2> SUFFICES ASSUME PtrInv, [Ptr!Next]_(Ptr!vars) PROVE PtrInv'
      OBVIOUS
    <2>1. ASSUME NEW v \in Vars, Ptr!Free(PtrOwner[v]), Ptr!Make(v) \/ Ptr!Reset(v)
          PROVE  PtrInv'
      BY <2>1, MakeStep, ResetStep
    <2>2. ASSUME NEW v \in Vars, NEW w \in Vars, Ptr!Free(PtrOwner[v]),
                 Ptr!Move(v, w) \/ Ptr!release(v, w) \/ Ptr!swap(v, w)
          PROVE  PtrInv'
      BY <2>2, MovesStep, PtrSwapStep
    <2>3. ASSUME NEW v \in SharedPtrs, NEW w \in SharedPtrs, Ptr!Free(PtrOwner[v]), Ptr!Copy(v, w)
          PROVE  PtrInv'
      BY <2>3, CopyStep
    <2>4. ASSUME NEW t \in PtrThreads, Ptr!Dec(t) \/ Ptr!Del(t)
          PROVE  PtrInv'
      BY <2>4, DecStep, DelStep
    <2>5. CASE UNCHANGED Ptr!vars
      <3>1. PtrType'
        BY <2>5 DEF PtrInv, PtrType, Ptr!vars
      <3>2. ASSUME NEW o \in Objects PROVE ObjectInv(o)'
        BY <2>5, <3>2 DEF PtrInv, ObjectInv, Ptr!vars, Counted, Owned, Shares, Leaves, Alone,
           Deletes, Count
      <3>3. QED  BY <3>1, <3>2 DEF PtrInv
    <2>6. QED  BY <2>1, <2>2, <2>3, <2>4, <2>5 DEF Ptr!Next, Vars
  <1>3. PtrInv => DeletedOnce
    <2> SUFFICES ASSUME PtrInv, NEW o \in Objects
                 PROVE  /\ Ptr!InUse(o) => o \in alive
                        /\ deleted[o] <= 1
                        /\ refn[o] = Ptr!References(o)
                        /\ o \in alive /\ ~Ptr!InUse(o) => \E t \in PtrThreads : dropped[t].x = o
      BY DEF DeletedOnce, Ptr!DeletedOnce, Objects
    <2>1. /\ ObjectInv(o) /\ Shares(o) \in Nat /\ Leaves(o) \in Nat
          /\ Alone(o) \in Nat /\ Deletes(o) \in Nat
      BY HandTypes DEF PtrInv
    <2>2. Ptr!References(o) = Counted(o)
      BY PtrSets, Zenon DEF Ptr!References, Counted, Shares, Leaves, Count
    <2>3. Ptr!InUse(o) <=> Shares(o) > 0 \/ Alone(o) > 0
      <3>1. /\ Shares(o) > 0 <=> \E v \in SharedPtrs : ptr[v] = o
            /\ Alone(o) > 0 <=> \E v \in Soles : ptr[v] = o
        BY KindFacts, CountPositive DEF Shares, Alone
      <3>2. QED  BY <3>1, KindFacts DEF Ptr!InUse, Vars
    <2>4. Leaves(o) + Deletes(o) > 0 => \E t \in PtrThreads : dropped[t].x = o
      <3> DEFINE x == [x |-> o, at |-> "dec"]
                 y == [x |-> o, at |-> "del"]
      <3>1. x.x = o /\ y.x = o
        OBVIOUS
      <3>2. Leaves(o) = Count(PtrThreads, dropped, x) /\ Deletes(o) = Count(PtrThreads, dropped, y)
        BY DEF Leaves, Deletes
      <3> HIDE DEF x, y
      <3>3. /\ Count(PtrThreads, dropped, x) > 0 <=> \E t \in PtrThreads : dropped[t] = x
            /\ Count(PtrThreads, dropped, y) > 0 <=> \E t \in PtrThreads : dropped[t] = y
        BY KindFacts, CountPositive
      <3>4. QED  BY <2>1, <3>1, <3>2, <3>3
    <2>5. QED  BY <2>1, <2>2, <2>3, <2>4 DEF ObjectInv, Counted, Owned
  <1>4. QED  BY <1>1, <1>2, <1>3, PTL DEF Ptr!Spec
=============================================================================
