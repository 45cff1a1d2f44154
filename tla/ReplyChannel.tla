---------------------------- MODULE ReplyChannel ----------------------------
(***************************************************************************)
(* What web::REQ promises the request handlers: REQ::send puts a reply in   *)
(* a queue, a background sender moves the front of the queue to the         *)
(* connection in batches, and a failed send ends the transmission for good. *)
(* Nothing is reordered, nothing is sent twice and nothing is skipped.      *)
(* ReplySender, the detailed model of http1.cc, implements this.            *)
(***************************************************************************)
EXTENDS Naturals, Sequences

CONSTANT Reply              \* the replies that can be submitted

VARIABLES queue,            \* replies submitted and not yet transmitted
          wire,             \* replies the peer was sent, in order
          status            \* "up" until a send fails, then "down"

chanVars == <<queue, wire, status>>

Rest(s, k) == SubSeq(s, k + 1, Len(s))

ChanInit == /\ queue = <<>>
            /\ wire = <<>>
            /\ status = "up"

(* A reply joins the end of the queue; a dead connection does not refuse it. *)
Submit(r) == /\ queue' = Append(queue, r)
             /\ UNCHANGED <<wire, status>>

(* The k oldest replies go out. *)
Transmit(k) == /\ status = "up"
               /\ wire' = wire \o SubSeq(queue, 1, k)
               /\ queue' = Rest(queue, k)
               /\ UNCHANGED status

(* A batch of j replies fails after k of them went out; the rest of the     *)
(* batch is lost.                                                           *)
Break(j, k) == /\ status = "up"
               /\ status' = "down"
               /\ wire' = wire \o SubSeq(queue, 1, k)
               /\ queue' = Rest(queue, j)

ChanNext == \/ \E r \in Reply : Submit(r)
            \/ \E k \in 1..Len(queue) : Transmit(k)
            \/ \E j \in 1..Len(queue) : \E k \in 0..(j - 1) : Break(j, k)

ChanSpec == ChanInit /\ [][ChanNext]_chanVars
=============================================================================
