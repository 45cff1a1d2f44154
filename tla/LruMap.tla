-------------------------------- MODULE LruMap --------------------------------
(***************************************************************************)
(* LruMap (lru_map.h): a map that forgets the key that was not used for     *)
(* longest.  _kv and _ki are functions; the list _kl is a sequence of       *)
(* nodes, records with a name and a key, and an iterator of it is the name  *)
(* of a node.  Keys are lvalues: insert reads its key again after it may    *)
(* have moved it.                                                           *)
(***************************************************************************)
EXTENDS Sequences, Heap

CONSTANTS Keys, Vals,
          _capacity,
          MaxCalls          \* bound: as many calls are made

CapacityAssumption == _capacity \in Nat \ {0}

VARIABLES _kv, _ki, _kl,
          used,             \* when each key was used last,
          now               \* in calls made so far
vars == <<_kv, _ki, _kl, used, now>>

Place(node) == CHOOSE i \in DOMAIN _kl : _kl[i].name = node
NewNode == CHOOSE n \in 1..(Len(_kl) + 1) : \A i \in DOMAIN _kl : _kl[i].name # n
Cut(i) == SubSeq(_kl, 1, i - 1) \o SubSeq(_kl, i + 1, Len(_kl))
Call == now < MaxCalls /\ now' = now + 1

Init == _kv = Nothing /\ _ki = Nothing /\ _kl = <<>> /\ used = Nothing /\ now = 0

(* A key that is found moves to the front of the list.                      *)
Bug_Front(i) == <<_kl[i]>> \o Tail(_kl)
Front(i) == <<_kl[i]>> \o Cut(i)
find(key) ==
    /\ Call
    /\ _kl' = IF key \in DOMAIN _kv /\ _kl[1].key # key THEN Front(Place(_ki[key])) ELSE _kl
    /\ used' = IF key \in DOMAIN _kv THEN With(used, key, now) ELSE used
    /\ UNCHANGED <<_kv, _ki>>

(* A full map forgets its oldest key first, whether the new one is there or *)
(* not.                                                                     *)
insert(key, value) ==
    LET full == Cardinality(DOMAIN _kv) >= _capacity
        old  == _kl[Len(_kl)].key
        kv   == IF full THEN Without(_kv, old) ELSE _kv
        ki   == IF full THEN Without(_ki, old) ELSE _ki
        kl   == IF full THEN Cut(Len(_kl)) ELSE _kl
        kept == IF full THEN Without(used, old) ELSE used
    IN  /\ Call
        /\ IF key \in DOMAIN kv THEN _kv' = kv /\ _ki' = ki /\ _kl' = kl /\ used' = kept
           ELSE /\ _kv' = With(kv, key, value)
                /\ _kl' = <<[name |-> NewNode, key |-> key]>> \o kl
                /\ _ki' = With(ki, key, NewNode)
                /\ used' = With(kept, key, now)

erase(key) ==
    /\ Call
    /\ IF key \notin DOMAIN _kv THEN UNCHANGED <<_kv, _ki, _kl, used>>
       ELSE /\ _kl' = Cut(Place(_ki[key]))
            /\ _ki' = Without(_ki, key) /\ _kv' = Without(_kv, key)
            /\ used' = Without(used, key)

clear == Call /\ _kv' = Nothing /\ _ki' = Nothing /\ _kl' = <<>> /\ used' = Nothing

Next == \/ \E key \in Keys : find(key) \/ erase(key) \/ \E value \in Vals : insert(key, value)
        \/ clear
Spec == Init /\ [][Next]_vars

-----------------------------------------------------------------------------
(* The map, the list and the iterators that connect them stay in step, the  *)
(* list is in the order of use, so that the key forgotten is the oldest,    *)
(* and the map does not outgrow its capacity.                               *)
OldestForgotten ==
    /\ DOMAIN _ki = DOMAIN _kv /\ DOMAIN used = DOMAIN _kv
    /\ Len(_kl) = Cardinality(DOMAIN _kv) /\ Len(_kl) <= _capacity
    /\ \A key \in DOMAIN _ki : \E i \in DOMAIN _kl : _kl[i] = [name |-> _ki[key], key |-> key]
    /\ \A i \in 2..Len(_kl) : used[_kl[i].key] < used[_kl[i - 1].key]
=============================================================================
