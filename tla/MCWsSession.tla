---------------------------- MODULE MCWsSession ----------------------------
(* WsSession with a few short frames. *)
EXTENDS WsSession

Part   == [opcode |-> 1, fin |-> FALSE, length |-> 1]
Rest   == [opcode |-> 0, fin |-> TRUE, length |-> 1]
Binary == [opcode |-> 2, fin |-> TRUE, length |-> 3]
Ping   == [opcode |-> 9, fin |-> TRUE, length |-> 0]
CloseFrame == [opcode |-> 8, fin |-> TRUE, length |-> 0]

MCShortFrames == {Part, Rest, Binary, Ping, CloseFrame}
MCMessages == {[length |-> n, code |-> 1] : n \in {126, 65535, 65536}}
MCAny == {TRUE, FALSE}
=============================================================================
