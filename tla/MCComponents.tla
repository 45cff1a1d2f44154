---------------------------- MODULE MCComponents ----------------------------
(***************************************************************************)
(* The components that stand beside the connections' handlers: the route    *)
(* table, the server, the application, and of the co library the pointers,  *)
(* the event, the table, the thread and the data types.  A behaviour is     *)
(* that of one of them, a few calls long for a data type.                   *)
(***************************************************************************)
EXTENDS Routes, SharedObjects, DataTypes, TLC

CONSTANT StringCalls        \* bound, as MaxCalls for the other data types

VARIABLES of, type, calls

RegisteredUrls == {<<"/", "a">>}
AskedPaths == {<<"/", "a">>, <<"/", "a", "?">>, <<"/", "a", "b", "?">>,
               <<"/", "a", "b", "?", "x">>}
SomeVectors == {<<>>, <<"f">>, <<"g">>}

TwoThreads == {1, 2}
SharedVars == {"s1", "s2", "s3"}
UniqueVars == {"u1", "u2"}
ThreadVars == {"l1"}
Owners == [s1 |-> 1, s2 |-> 1, s3 |-> 2, u1 |-> 1, u2 |-> 2, l1 |-> 1]

TwoVars == {1, 2}
SomeTexts == {<<>>, <<"a">>, <<"b", "a", "b">>, <<"a", "NUL">>}
SomeBytes == [NUL |-> 0, a |-> 97, b |-> 98, x |-> 120] @@ ("0" :> 48 @@ "9" :> 57)
Short == [size |-> 2, digits |-> <<"9">>]
Long  == [size |-> 2, digits |-> <<"9", "9", "9", "9", "9", "9">>]
ShortAndLong == {Short, Long}
SomeLists == {<<>>, <<"u">>, <<"v", "u">>}

SomeScalars == {[type |-> "bool", scalar |-> TRUE], [type |-> "int", scalar |-> 0],
                [type |-> "double", scalar |-> 1], [type |-> "string", scalar |-> "true"]}

typeVars == <<type, calls, stringVars, arrayVars, lruVars, jsonVars>>
libVars == <<ptrVars, eventVars, tableVars, threadVars>>
serverSide == <<vars, serverVars, appVars>>
besides == <<serverSide, typeVars>>

MCInit == /\ Init /\ Ptr!Init /\ Event!Init /\ Table!Init /\ Thr!Init /\ Servers!Init
          /\ App!Init /\ Strings!Init /\ Arrays!Init /\ Lru!Init /\ Jsons!Init
          /\ type \in {"string", "array", "lru", "json"} /\ calls = 0
          /\ of \in {"routes", "server", "app", "types", "pointers", "event", "table", "thread"}
          /\ of = "types" \/ type = "string"
          /\ of = "event" \/ ~(manual \/ _signaled)

Calls(n) == calls < n /\ calls' = calls + 1 /\ UNCHANGED type
TypesNext ==
    \/ /\ type = "string" /\ Calls(StringCalls) /\ Strings!Next
       /\ UNCHANGED <<arrayVars, lruVars, jsonVars>>
    \/ /\ type = "array" /\ Calls(MaxCalls) /\ Arrays!Next
       /\ UNCHANGED <<stringVars, lruVars, jsonVars>>
    \/ /\ type = "lru" /\ Calls(MaxCalls) /\ Lru!Next
       /\ UNCHANGED <<stringVars, arrayVars, jsonVars>>
    \/ /\ type = "json" /\ Calls(MaxCalls) /\ Jsons!Next
       /\ UNCHANGED <<stringVars, arrayVars, lruVars>>
MCNext ==
    \/ of = "routes" /\ Next /\ UNCHANGED <<of, serverVars, appVars, typeVars, libVars>>
    \/ of = "server" /\ Servers!Next /\ UNCHANGED <<of, vars, appVars, typeVars, libVars>>
    \/ of = "app" /\ App!Next /\ UNCHANGED <<of, vars, serverVars, typeVars, libVars>>
    \/ of = "types" /\ TypesNext /\ UNCHANGED <<of, serverSide, libVars>>
    \/ of = "pointers" /\ Ptr!Next /\ UNCHANGED <<of, besides, eventVars, tableVars, threadVars>>
    \/ of = "event" /\ Event!Next /\ UNCHANGED <<of, besides, ptrVars, tableVars, threadVars>>
    \/ of = "table" /\ Table!Next /\ UNCHANGED <<of, besides, ptrVars, eventVars, threadVars>>
    \/ of = "thread" /\ Thr!Next /\ UNCHANGED <<of, besides, ptrVars, eventVars, tableVars>>
MCSpec == MCInit /\ [][MCNext]_<<of, serverSide, typeVars, libVars>>
=============================================================================
