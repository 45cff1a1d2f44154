------------------------------ MODULE Application ------------------------------
(***************************************************************************)
(* The server of coweb.cpp: main registers its routes and hooks and starts  *)
(* the server; then connections bring requests, each of which goes through  *)
(* the hooks of web.cc to the callbacks of its route.  A step is one hook   *)
(* or one callback, and the steps of the connections interleave.            *)
(***************************************************************************)
EXTENDS Integers, Sequences

CONSTANTS Connections, MaxRequests   \* MaxRequests: bound, of a connection

(* What hooks and callbacks return, and what callbacks send. *)
GoesOn == [fn1 |-> TRUE, fn2 |-> FALSE, fn3 |-> TRUE, ws_fn1 |-> TRUE, ws_fn2 |-> TRUE,
           ws_fn3 |-> TRUE, before_req |-> TRUE, connected |-> TRUE]
Sends == [fn1 |-> <<>>, fn2 |-> <<"404">>, fn3 |-> <<>>,
          ws_fn1 |-> <<"ws_fn1">>, ws_fn2 |-> <<"ws_fn2">>, ws_fn3 |-> <<"ws_fn3">>]

Kinds == {"close", "alive", "upgrade"}   \* what the Connection field says
Targets == {"GET", "PUT"} \X {"/a/b", "/ws"}

VARIABLES main,             \* where main is
          hooks,            \* the hooks that are set
          http, ws,         \* routes: target -> callbacks
          pc, asked,        \* of each connection; its requests so far
          kind, target,     \* its request
          keep_alive, fn,   \* the callbacks of the request or websocket,
          i,                \* the next to call,
          ran, sent         \* those that ran and what was sent since the request or frame
mainVars == <<main, hooks, http, ws>>
connVars == <<pc, asked, kind, target, keep_alive, fn, i, ran, sent>>
vars == <<mainVars, connVars>>

None == [t \in {} |-> <<>>]
Route(url, callbacks) == [t \in {"GET", "POST"} \X {url} |-> callbacks]
Found(routes, t) == IF t \in DOMAIN routes THEN routes[t] ELSE <<>>

Init == /\ main = "reg" /\ hooks = {} /\ http = None /\ ws = None
        /\ pc = [c \in Connections |-> "none"] /\ asked = [c \in Connections |-> 0]
        /\ kind = [c \in Connections |-> "close"]
        /\ target = [c \in Connections |-> <<"GET", "/a/b">>]
        /\ keep_alive = [c \in Connections |-> FALSE]
        /\ fn = [c \in Connections |-> <<>>] /\ i = [c \in Connections |-> 1]
        /\ ran = [c \in Connections |-> <<>>] /\ sent = [c \in Connections |-> <<>>]

-----------------------------------------------------------------------------
(* main *)
Main == \/ /\ main = "reg" /\ main' = "hook"
           /\ http' = Route("/a/b", <<"fn1", "fn2", "fn3">>)
           /\ UNCHANGED <<hooks, ws>>
        \/ /\ main = "hook" /\ main' = "reg_ws"
           /\ hooks' = {"before_req", "weberr", "connected", "closed"}
           /\ UNCHANGED <<http, ws>>
        \/ /\ main = "reg_ws" /\ main' = "start"
           /\ ws' = Route("/ws", <<"ws_fn1", "ws_fn2", "ws_fn3">>)
           /\ UNCHANGED <<hooks, http>>
        \/ /\ main = "start" /\ main' = "sleep"
           /\ UNCHANGED <<hooks, http, ws>>

-----------------------------------------------------------------------------
(* The connections, of which Go moves one to another place.                 *)
Go(c, place) == pc' = [pc EXCEPT ![c] = place]
Hook(h) == h \in hooks => GoesOn[h]

on_connect(c) ==
    /\ main = "sleep" /\ pc[c] = "none"
    /\ Go(c, IF Hook("connected") THEN "recv" ELSE "closed")
    /\ UNCHANGED <<asked, kind, target, keep_alive, fn, i, ran, sent>>

Request(c, k, t) ==
    /\ pc[c] = "recv" /\ asked[c] < MaxRequests
    /\ Go(c, "header") /\ asked' = [asked EXCEPT ![c] = @ + 1]
    /\ kind' = [kind EXCEPT ![c] = k] /\ target' = [target EXCEPT ![c] = t]
    /\ ran' = [ran EXCEPT ![c] = <<>>] /\ sent' = [sent EXCEPT ![c] = <<>>]
    /\ UNCHANGED <<keep_alive, fn, i>>

(* on_header, and what the handler makes of a request without a route.      *)
on_header(c) ==
    LET routed == Found(http, target[c]) # <<>>
    IN  /\ pc[c] = "header"
        /\ fn' = [fn EXCEPT ![c] = Found(http, target[c])]
        /\ keep_alive' = [keep_alive EXCEPT ![c] = @ \/ kind[c] = "alive"]
        /\ sent' = [sent EXCEPT ![c] = IF routed \/ ~keep_alive'[c] THEN @ ELSE Append(@, "404")]
        /\ Go(c, IF kind[c] = "upgrade" THEN "upgrade"
                 ELSE IF routed THEN "body"
                 ELSE IF keep_alive'[c] THEN "recv" ELSE "closed")
        /\ UNCHANGED <<asked, kind, target, i, ran>>

on_body(c) ==
    /\ pc[c] = "body"
    /\ Go(c, IF Hook("before_req") THEN "callbacks"
             ELSE IF keep_alive[c] THEN "recv" ELSE "closed")
    /\ i' = [i EXCEPT ![c] = 1]
    /\ UNCHANGED <<asked, kind, target, keep_alive, fn, ran, sent>>

on_wsupgrade(c) ==
    /\ pc[c] = "upgrade"
    /\ fn' = [fn EXCEPT ![c] = Found(ws, target[c])]
    /\ Go(c, IF fn'[c] = <<>> THEN "closed" ELSE "frames")
    /\ UNCHANGED <<asked, kind, target, keep_alive, i, ran, sent>>

(* A frame of a websocket starts the callbacks of its upgrade again.        *)
on_wsbody(c) ==
    /\ pc[c] = "frames" /\ asked[c] < MaxRequests
    /\ Go(c, "callbacks") /\ asked' = [asked EXCEPT ![c] = @ + 1]
    /\ i' = [i EXCEPT ![c] = 1]
    /\ ran' = [ran EXCEPT ![c] = <<>>] /\ sent' = [sent EXCEPT ![c] = <<>>]
    /\ UNCHANGED <<kind, target, keep_alive, fn>>

(* A callback, and whether the loop over the callbacks ends behind it.      *)
Bug_Stops(c) == i[c] = Len(fn[c])
Stops(c) == ~GoesOn[fn[c][i[c]]] \/ i[c] = Len(fn[c])
Callback(c) ==
    /\ pc[c] = "callbacks"
    /\ ran' = [ran EXCEPT ![c] = Append(@, fn[c][i[c]])]
    /\ sent' = [sent EXCEPT ![c] = @ \o Sends[fn[c][i[c]]]]
    /\ i' = [i EXCEPT ![c] = @ + 1]
    /\ IF ~Stops(c) THEN UNCHANGED pc
       ELSE Go(c, IF kind[c] = "upgrade" THEN "frames"
                  ELSE IF keep_alive[c] THEN "recv" ELSE "closed")
    /\ UNCHANGED <<asked, kind, target, keep_alive, fn>>

on_close(c) == /\ pc[c] \in {"recv", "frames", "closed"}
               /\ Go(c, "end")
               /\ UNCHANGED <<asked, kind, target, keep_alive, fn, i, ran, sent>>

Connection(c) == \/ on_connect(c) \/ on_header(c) \/ on_body(c) \/ on_wsupgrade(c)
                 \/ on_wsbody(c) \/ Callback(c) \/ on_close(c)
                 \/ \E k \in Kinds, t \in Targets : Request(c, k, t)
Next == \/ Main /\ UNCHANGED connVars
        \/ \E c \in Connections : Connection(c) /\ UNCHANGED mainVars
Spec == Init /\ [][Next]_vars

-----------------------------------------------------------------------------
(* coweb.cpp says that fn3 is not executed: fn2 ends the loop.  Whatever    *)
(* came before on a connection and goes on beside it, a request with a      *)
(* route runs fn1 and fn2, and is answered 404 by fn2 alone; one without is *)
(* answered 404, if the connection is kept alive, and runs nothing; and a   *)
(* frame runs the three callbacks of its websocket in their order.          *)
CallbacksStop ==
    \A c \in Connections :
        LET done == asked[c] > 0 /\ pc[c] \in {"recv", "closed", "frames"}
            routed == target[c] = <<"GET", "/a/b">>
        IN  /\ done /\ kind[c] # "upgrade" =>
                  /\ ran[c] = IF routed THEN <<"fn1", "fn2">> ELSE <<>>
                  /\ sent[c] = IF routed \/ keep_alive[c] THEN <<"404">> ELSE <<>>
            /\ done /\ ran[c] # <<>> /\ kind[c] = "upgrade" =>
                  /\ ran[c] = <<"ws_fn1", "ws_fn2", "ws_fn3">>
                  /\ sent[c] = ran[c] /\ target[c] = <<"GET", "/ws">>
=============================================================================
