--------------------------------- MODULE Heap --------------------------------
(***************************************************************************)
(* Memory as co::alloc, co::realloc and co::free (mem.h, whose code is in   *)
(* another repository) hand it out: a function from the addresses in use to *)
(* blocks, which are records with the size they were asked for as cap.      *)
(***************************************************************************)
EXTENDS Integers, FiniteSets

Null == 0

Nothing == [k \in {} |-> Null]
With(f, k, v) == [h \in DOMAIN f \cup {k} |-> IF h = k THEN v ELSE f[h]]
Without(f, k) == [h \in DOMAIN f \ {k} |-> f[h]]

(* An address that is not in use. *)
Fresh(m) == CHOOSE q \in 1..(Cardinality(DOMAIN m) + 1) : q \notin DOMAIN m
=============================================================================
