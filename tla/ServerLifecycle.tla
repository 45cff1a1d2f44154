---------------------------- MODULE ServerLifecycle ----------------------------
(***************************************************************************)
(* web::Server and its ServerImpl (web.cc): an application makes, starts,   *)
(* exits and destroys a server while connections come and go.  ServerImpl   *)
(* is deleted by the tcp server's exit callback, or by ~Server.             *)
(*                                                                          *)
(* The tcp server is the co library's.  That its exit callback runs when    *)
(* the listener is closed and the last connection has ended is the case     *)
(* most favourable to the code.                                             *)
(***************************************************************************)
EXTENDS Naturals

CONSTANTS MaxConnections, MaxExits      \* bounds

VARIABLES server,           \* "none", "made", "destroyed"
          impl,             \* "none", "alive", "deleted"
          deletes,          \* of impl
          _started, _stopped,
          tcp,              \* "idle", "listening", "closing", "exited"
          connections,      \* that run ServerImpl::on_connection
          exits,            \* calls of exit so far
          used              \* what was used behind its end
vars == <<server, impl, deletes, _started, _stopped, tcp, connections, exits, used>>

Init == /\ server = "none" /\ impl = "none" /\ deletes = 0
        /\ _started = FALSE /\ _stopped = FALSE
        /\ tcp = "idle" /\ connections = 0 /\ exits = 0 /\ used = {}

ImplUsed   == IF impl = "deleted" THEN {"impl"} ELSE {}
ServerUsed == IF server = "destroyed" THEN {"server"} ELSE {}

Server == /\ server = "none"
          /\ server' = "made" /\ impl' = "alive"
          /\ UNCHANGED <<deletes, _started, _stopped, tcp, connections, exits, used>>

(* An application starts a server once, and not behind an exit. *)
start == /\ server = "made" /\ ~_started /\ exits = 0
         /\ _started' = TRUE /\ tcp' = "listening"
         /\ UNCHANGED <<server, impl, deletes, _stopped, connections, exits, used>>

exit == /\ server = "made" /\ exits < MaxExits
        /\ exits' = exits + 1
        /\ used' = used \cup ImplUsed
        /\ _stopped' = TRUE
        /\ tcp' = IF tcp = "listening" THEN "closing" ELSE tcp
        /\ UNCHANGED <<server, impl, deletes, _started, connections>>

(* A connection runs in ServerImpl, and its hooks in web::Server. *)
Accept == /\ tcp = "listening" /\ connections < MaxConnections
          /\ connections' = connections + 1
          /\ used' = used \cup ImplUsed \cup ServerUsed
          /\ UNCHANGED <<server, impl, deletes, _started, _stopped, tcp, exits>>
Disconnect == /\ connections > 0
              /\ connections' = connections - 1
              /\ used' = used \cup ImplUsed \cup ServerUsed
              /\ UNCHANGED <<server, impl, deletes, _started, _stopped, tcp, exits>>

(* co::del(this), from the tcp server's coroutine. *)
OnExit == /\ tcp = "closing" /\ connections = 0
          /\ tcp' = "exited"
          /\ impl' = "deleted" /\ deletes' = deletes + 1
          /\ UNCHANGED <<server, _started, _stopped, connections, exits, used>>

(* ~Server deletes what it has made, started or not. *)
Bug_Started == FALSE
Started == _started

(* started() of a deleted ServerImpl is whatever is in its memory then. *)
Destroy == /\ server = "made"
           /\ server' = "destroyed"
           /\ used' = used \cup ImplUsed
           /\ \E started \in IF impl = "deleted" THEN BOOLEAN ELSE {Started} :
                 IF started THEN UNCHANGED <<impl, deletes>>
                 ELSE impl' = "deleted" /\ deletes' = deletes + 1
           /\ UNCHANGED <<_started, _stopped, tcp, connections, exits>>

Next == Server \/ start \/ exit \/ Accept \/ Disconnect \/ OnExit \/ Destroy
Spec == Init /\ [][Next]_vars

-----------------------------------------------------------------------------
(* Properties *)

(* Until something is used behind its end, ServerImpl is deleted once at    *)
(* most, by one of the two, and never under a connection; a server that was *)
(* not started takes it along.                                              *)
ImplDeletedOnce ==
    used = {} => /\ deletes <= 1
                 /\ deletes = 1 => connections = 0
                 /\ server = "destroyed" /\ ~_started => deletes = 1

(* web.h: exit is to "exit the server gracefully".  An application that     *)
(* exits a server once, and destroys it whenever it likes, does not touch a *)
(* ServerImpl that is deleted.                                              *)
ExitIsGraceful == exits <= 1 => "impl" \notin used
=============================================================================
