------------------------------ MODULE DataTypes ------------------------------
(***************************************************************************)
(* The data types of the co library that coweb is written with: strings,    *)
(* arrays, the LRU map and Json.  Each has its variables; what it promises   *)
(* is a property of its own behaviours.                                      *)
(***************************************************************************)
EXTENDS Integers, Sequences

CONSTANTS StringVars, Texts, Numbers, StringCaps, Rank, MaxSize,
          ArrayVars, Values, Lists, ArrayCaps, MaxLen,
          Keys, Vals, _capacity,
          JsonVars, Scalars, Names, Repeats,
          MaxCalls

VARIABLES str, str_mem, text,
          arr, arr_mem, objects, held,
          _kv, _ki, _kl, used, now,
          json, heap, tree

Strings == INSTANCE FastString WITH Strings <- StringVars, Caps <- StringCaps, mem <- str_mem
Arrays == INSTANCE Array WITH Arrays <- ArrayVars, Caps <- ArrayCaps, mem <- arr_mem
Lru == INSTANCE LruMap
Jsons == INSTANCE JsonValue WITH Jsons <- JsonVars

ASSUME TextsAssumption == Strings!TextsAssumption
ASSUME ValuesAssumption == Arrays!ValuesAssumption
ASSUME CapacityAssumption == Lru!CapacityAssumption
ASSUME HeadersAssumption == Jsons!HeadersAssumption

stringVars == <<str, str_mem, text>>
arrayVars == <<arr, arr_mem, objects, held>>
lruVars == <<_kv, _ki, _kl, used, now>>
jsonVars == <<json, heap, tree>>

(* Strings hold what the calls asked for, in memory that is in order, and   *)
(* comparisons and searches of them agree with each other.                  *)
StringsHoldTheirText == Strings!StringsHoldTheirText

(* Every object in an array is constructed and destroyed once, and the      *)
(* arrays hold what was put into them.                                      *)
ArraysOwnTheirElements == Arrays!ArraysOwnTheirElements

(* The LRU map forgets the key that was not used for longest.               *)
OldestForgotten == Lru!OldestForgotten

(* Json values are what the calls made of them, and own what is in them.    *)
TreesWhole == Jsons!TreesWhole
=============================================================================
