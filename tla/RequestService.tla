--------------------------- MODULE RequestService ---------------------------
(***************************************************************************)
(* What a connection promises its client and the callbacks, whatever goes   *)
(* wrong on the way.  Requests are taken one at a time, in the order they   *)
(* were sent; the next one is taken when the current one is finished, and   *)
(* those whose bytes went with it are passed over for good.  A request is   *)
(* answered at most once and while it is current, with the result of its    *)
(* callbacks or with the 404 of a missing route; the replies go through a   *)
(* ReplyChannel.  The 101 of an upgrade goes past it and is the end of the  *)
(* service, as an error, a close or the end of the server is.               *)
(* HttpConnection, the model of on_connection, implements this.             *)
(***************************************************************************)
EXTENDS ReplyChannel

VARIABLES phase,            \* "new", "serving", "ending" or "over"
          sent,             \* number of requests sent by the client
          current,          \* the request being handled, 0 if none
          passed,           \* the last request that was taken or passed over
          answered,         \* the current request has its reply
          handled           \* the requests that callbacks were run for

requestVars == <<sent, current, passed, answered, handled>>
serviceVars == <<phase, requestVars, chanVars>>

Init == /\ phase = "new"
        /\ sent = 0 /\ current = 0 /\ passed = 0
        /\ answered = FALSE /\ handled = <<>>
        /\ ChanInit

(* The connected hook accepts the connection or does not. *)
Open == /\ phase = "new"
        /\ phase' \in {"serving", "ending"}
        /\ UNCHANGED <<requestVars, chanVars>>

Send == /\ sent' = sent + 1
        /\ UNCHANGED <<phase, current, passed, answered, handled, chanVars>>

Take == /\ phase = "serving" /\ current = 0 /\ passed < sent
        /\ current' = passed + 1 /\ passed' = passed + 1
        /\ answered' = FALSE
        /\ UNCHANGED <<phase, sent, handled, chanVars>>

(* The callbacks may not run although there are some: the before_req hook   *)
(* has answered in their place.                                             *)
Respond(code) == /\ phase = "serving" /\ current # 0 /\ ~answered
                 /\ answered' = TRUE
                 /\ Submit(<<current, code>>)
                 /\ \/ UNCHANGED handled
                    \/ code = "200" /\ handled' = Append(handled, current)
                 /\ UNCHANGED <<phase, sent, current, passed>>

Finish == /\ phase = "serving" /\ current # 0
          /\ current' = 0 /\ answered' = FALSE
          /\ passed' \in passed..sent
          /\ UNCHANGED <<phase, sent, handled, chanVars>>

Switch == /\ phase = "serving" /\ current # 0
          /\ phase' = "ending"
          /\ \/ status = "up" /\ wire' = Append(wire, <<current, "101">>) /\ UNCHANGED status
             \/ status' = "down" /\ UNCHANGED wire
          /\ UNCHANGED <<requestVars, queue>>

End == /\ phase = "serving" /\ phase' = "ending"
       /\ UNCHANGED <<requestVars, chanVars>>

(* Nothing is sent any more. *)
Over == /\ phase = "ending" /\ phase' = "over"
        /\ UNCHANGED <<requestVars, chanVars>>

Sender == /\ phase # "over"
          /\ \/ \E k \in 1..Len(queue) : Transmit(k)
             \/ \E j \in 1..Len(queue) : \E k \in 0..(j - 1) : Break(j, k)
          /\ UNCHANGED <<phase, requestVars>>

Next == \/ Open \/ Send \/ Take \/ Finish \/ Switch \/ End \/ Over \/ Sender
        \/ \E code \in {"200", "404"} : Respond(code)

Spec == Init /\ [][Next]_serviceVars
=============================================================================
