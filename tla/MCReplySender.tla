--------------------------- MODULE MCReplySender ---------------------------
(* ReplySender with two coroutines that reply on one connection. *)
EXTENDS ReplySender

CONSTANTS w1, w2

MCWriters == {w1, w2}
MCNoFaults == {}
MCSendErrors == {"send_error"}
MCAllFaults == {"send_error", "reset", "stall"}
=============================================================================
