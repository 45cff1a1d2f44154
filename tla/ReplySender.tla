---------------------------- MODULE ReplySender ----------------------------
(***************************************************************************)
(* web::REQ (http1.cc, http1.h): the reply buffer of one connection.        *)
(*                                                                          *)
(* The constructor starts a "web_send_co" coroutine that polls sendbuf      *)
(* under a mutex and sends what it finds; REQ::send appends to sendbuf; the *)
(* destructor asks the coroutine to stop through the byte `exit` and waits  *)
(* for it.  The coroutine and the handler run on different scheduler        *)
(* threads, so every shared access is a step of its own.                    *)
(*                                                                          *)
(*   exit    1: running    0: the destructor asks to stop    -1: stopped    *)
(*                                                                          *)
(* A definition named Bug_X differs from X by a plausible slip in the code; *)
(* no behaviour specification uses it.  It shows that a property can fail.  *)
(***************************************************************************)
EXTENDS Integers, Sequences

CONSTANTS Writers,      \* the coroutines that call REQ::send on this REQ
          MaxSends,     \* bound on the replies each of them sends
          Faults        \* what can go wrong, see FaultsAssumption

(* send_error: conn.send may return a value <= 0 on an open connection;     *)
(* reset: on_connection resets the connection before REQ is destroyed;      *)
(* stall: the peer may stop reading, and conn.send then never returns.      *)
ASSUME FaultsAssumption == Faults \subseteq {"send_error", "reset", "stall"}
ASSUME MaxSendsAssumption == MaxSends \in Nat
ASSUME WritersAssumption == /\ "sender" \notin Writers
                            /\ "free" \notin Writers

VARIABLES exit,         \* the stop flag
          sendbuf,      \* replies appended and not yet taken
          mtx,          \* who holds the mutex: "free", "sender" or a writer
          local,        \* the coroutine's local buffer
          sender,       \* next step of the coroutine
          writer,       \* next step of each writer inside REQ::send
          count,        \* replies each writer has appended
          owner,        \* next step of the connection handler
          conn,         \* the connection: "null", "open" or "reset"
          peer,         \* "reading" or "stalled"
          wire,         \* replies handed to the peer, in order
          failed,       \* history: a send has failed
          log           \* history: every reply appended, in order

bufVars  == <<sendbuf, local, wire, failed, log>>
ownVars  == <<owner, conn, peer>>
wrtVars  == <<writer, count>>
vars == <<exit, mtx, sender, bufVars, ownVars, wrtVars>>

Reply == Writers \X (1..MaxSends)

SenderSteps == {"test", "lock", "copy", "clear", "unlock", "send", "fail",
                "sleep", "final", "done", "wild"}
WriterSteps == {"idle", "append", "unlock"}
OwnerSteps  == {"new", "run", "ended", "set", "wait", "freed"}

Init == /\ exit = 1
        /\ sendbuf = <<>>
        /\ mtx = "free"
        /\ local = <<>>
        /\ sender = "test"
        /\ writer = [w \in Writers |-> "idle"]
        /\ count = [w \in Writers |-> 0]
        /\ owner = "new"
        /\ conn = "null"
        /\ peer = "reading"
        /\ wire = <<>>
        /\ failed = FALSE
        /\ log = <<>>

-----------------------------------------------------------------------------
(* The coroutine started by REQ::REQ.  Each step reads or writes the REQ    *)
(* object, which is gone once the owner's destructor has returned.          *)

Alive == owner # "freed"

(* the test of the while loop: exit == 1 *)
TestExit == /\ sender = "test" /\ Alive
            /\ sender' = IF exit = 1 THEN "lock" ELSE "final"
            /\ UNCHANGED <<exit, mtx, bufVars, ownVars, wrtVars>>

(* The coroutine does not lock the mutex. *)
Bug_SenderLock == /\ sender = "lock" /\ Alive
                  /\ sender' = "copy"
                  /\ UNCHANGED <<exit, mtx, bufVars, ownVars, wrtVars>>

SenderLock == /\ sender = "lock" /\ Alive
              /\ mtx = "free"
              /\ mtx' = "sender"
              /\ sender' = "copy"
              /\ UNCHANGED <<exit, bufVars, ownVars, wrtVars>>

(* buf = sendbuf *)
CopyBuf == /\ sender = "copy" /\ Alive
           /\ local' = sendbuf
           /\ sender' = "clear"
           /\ UNCHANGED <<exit, mtx, sendbuf, wire, failed, log, ownVars, wrtVars>>

(* sendbuf is not cleared. *)
Bug_ClearBuf == /\ sender = "clear" /\ Alive
                /\ sender' = "unlock"
                /\ UNCHANGED <<exit, mtx, bufVars, ownVars, wrtVars>>

(* sendbuf.resize(0) *)
ClearBuf == /\ sender = "clear" /\ Alive
            /\ sendbuf' = <<>>
            /\ sender' = "unlock"
            /\ UNCHANGED <<exit, mtx, local, wire, failed, log, ownVars, wrtVars>>

(* A buffer with a single reply passes for an empty one. *)
Bug_SingleReply == /\ sender = "unlock" /\ Alive
                   /\ mtx' = "free"
                   /\ sender' = IF Len(local) > 1 THEN "send" ELSE "sleep"
                   /\ UNCHANGED <<exit, bufVars, ownVars, wrtVars>>

SenderUnlock == /\ sender = "unlock" /\ Alive
                /\ mtx' = "free"
                /\ sender' = IF local # <<>> THEN "send" ELSE "sleep"
                /\ UNCHANGED <<exit, bufVars, ownVars, wrtVars>>

(* conn_->send(...) > 0: it returns when the peer has taken everything. *)
SendOk == /\ sender = "send" /\ Alive
          /\ conn = "open" /\ peer = "reading"
          /\ wire' = wire \o local
          /\ sender' = "sleep"
          /\ UNCHANGED <<exit, mtx, sendbuf, local, failed, log, ownVars, wrtVars>>

(* conn_->send(...) <= 0, k whole replies of the batch being out already.   *)
SendFails(k) == /\ sender = "send" /\ Alive
                /\ \/ conn = "open" /\ "send_error" \in Faults
                   \/ conn = "reset"
                /\ k < Len(local)
                /\ conn = "reset" => k = 0
                /\ wire' = wire \o SubSeq(local, 1, k)
                /\ failed' = TRUE
                /\ sender' = "fail"
                /\ UNCHANGED <<exit, mtx, sendbuf, local, log, ownVars, wrtVars>>

(* A failed send is ignored. *)
Bug_FlagFailure == /\ sender = "fail" /\ Alive
                   /\ sender' = "sleep"
                   /\ UNCHANGED <<exit, mtx, bufVars, ownVars, wrtVars>>

(* exit = -1 after the failed send *)
FlagFailure == /\ sender = "fail" /\ Alive
               /\ exit' = -1
               /\ sender' = "sleep"
               /\ UNCHANGED <<mtx, bufVars, ownVars, wrtVars>>

(* co::sleep(1) touches nothing of the REQ. *)
Sleep == /\ sender = "sleep"
         /\ sender' = "test"
         /\ UNCHANGED <<exit, mtx, bufVars, ownVars, wrtVars>>

(* The coroutine ends without saying so. *)
Bug_FlagExit == /\ sender = "final" /\ Alive
                /\ sender' = "done"
                /\ UNCHANGED <<exit, mtx, bufVars, ownVars, wrtVars>>

(* exit = -1 behind the loop *)
FlagExit == /\ sender = "final" /\ Alive
            /\ exit' = -1
            /\ sender' = "done"
            /\ UNCHANGED <<mtx, bufVars, ownVars, wrtVars>>

(* Any of those accesses to an object that no longer exists. *)
TouchFreed == /\ ~Alive
              /\ sender \notin {"sleep", "done", "wild"}
              /\ sender' = "wild"
              /\ UNCHANGED <<exit, mtx, bufVars, ownVars, wrtVars>>

SendBreaks == \E k \in 0..Len(local) : SendFails(k)

SenderNext == \/ TestExit \/ SenderLock \/ CopyBuf \/ ClearBuf \/ SenderUnlock
              \/ SendOk \/ SendBreaks \/ FlagFailure \/ Sleep \/ FlagExit
              \/ TouchFreed

-----------------------------------------------------------------------------
(* REQ::send, called by the handlers of the connection's requests.  Writers *)
(* stop before the destructor runs: on_close is their last occasion.        *)

WriterLock(w) == /\ writer[w] = "idle" /\ count[w] < MaxSends
                 /\ owner \in {"run", "ended"}
                 /\ mtx = "free"
                 /\ mtx' = w
                 /\ writer' = [writer EXCEPT ![w] = "append"]
                 /\ UNCHANGED <<exit, sender, bufVars, ownVars, count>>

WriterAppend(w) == /\ writer[w] = "append"
              /\ count' = [count EXCEPT ![w] = @ + 1]
              /\ sendbuf' = Append(sendbuf, <<w, count[w] + 1>>)
              /\ log' = Append(log, <<w, count[w] + 1>>)
              /\ writer' = [writer EXCEPT ![w] = "unlock"]
              /\ UNCHANGED <<exit, mtx, sender, local, wire, failed, ownVars>>

WriterUnlock(w) == /\ writer[w] = "unlock"
                   /\ mtx' = "free"
                   /\ writer' = [writer EXCEPT ![w] = "idle"]
                   /\ UNCHANGED <<exit, sender, bufVars, ownVars, count>>

WriterNext(w) == WriterLock(w) \/ WriterAppend(w) \/ WriterUnlock(w)

-----------------------------------------------------------------------------
(* The connection handler, which owns the REQ, and the peer.                *)

(* req.set(conn) *)
SetConn == /\ owner = "new"
           /\ conn' = "open"
           /\ owner' = "run"
           /\ UNCHANGED <<exit, mtx, sender, bufVars, peer, wrtVars>>

(* on_connection leaves its loop, with a reset of the connection or (the    *)
(* peer closed it) without one.                                             *)
EndConnection == /\ owner = "run"
                 /\ \/ conn' = conn
                    \/ "reset" \in Faults /\ conn' = "reset"
                 /\ owner' = "ended"
                 /\ UNCHANGED <<exit, mtx, sender, bufVars, peer, wrtVars>>

(* if (exit == 1) *)
DtorTest == /\ owner = "ended"
            /\ \A w \in Writers : writer[w] = "idle"
            /\ owner' = IF exit = 1 THEN "set" ELSE "freed"
            /\ UNCHANGED <<exit, mtx, sender, bufVars, conn, peer, wrtVars>>

(* exit = 0 *)
DtorSet == /\ owner = "set"
           /\ exit' = 0
           /\ owner' = "wait"
           /\ UNCHANGED <<mtx, sender, bufVars, conn, peer, wrtVars>>

(* The destructor does not wait for the coroutine. *)
Bug_DtorReturn == /\ owner = "wait"
                  /\ owner' = "freed"
                  /\ UNCHANGED <<exit, mtx, sender, bufVars, conn, peer, wrtVars>>

(* while (exit == 0) co::sleep(10) is over *)
DtorReturn == /\ owner = "wait"
              /\ exit # 0
              /\ owner' = "freed"
              /\ UNCHANGED <<exit, mtx, sender, bufVars, conn, peer, wrtVars>>

OwnerNext == SetConn \/ EndConnection \/ DtorTest \/ DtorSet \/ DtorReturn

PeerStalls == /\ "stall" \in Faults
              /\ peer = "reading"
              /\ peer' = "stalled"
              /\ UNCHANGED <<exit, mtx, sender, bufVars, owner, conn, wrtVars>>

-----------------------------------------------------------------------------
Next == \/ SenderNext
        \/ \E w \in Writers : WriterNext(w)
        \/ OwnerNext
        \/ PeerStalls

Spec == Init /\ [][Next]_vars

(* Both schedulers keep running their coroutines, and a writer inside send  *)
(* gets out of it.  Nothing makes a handler send, end the connection, or    *)
(* makes the peer stall.  A coroutine whose lock() finds the mutex taken    *)
(* gets it eventually, since a writer holds it for three statements only.   *)
Fairness == /\ WF_vars(SenderNext)
            /\ SF_vars(SenderLock)
            /\ WF_vars(DtorTest) /\ WF_vars(DtorSet) /\ WF_vars(DtorReturn)
            /\ \A w \in Writers : WF_vars(WriterAppend(w)) /\ WF_vars(WriterUnlock(w))

FairSpec == Spec /\ Fairness

-----------------------------------------------------------------------------
(* Properties *)

TypeOK == /\ exit \in {-1, 0, 1}
          /\ sendbuf \in Seq(Reply)
          /\ local \in Seq(Reply)
          /\ wire \in Seq(Reply)
          /\ log \in Seq(Reply)
          /\ failed \in BOOLEAN
          /\ mtx \in {"free", "sender"} \cup Writers
          /\ sender \in SenderSteps
          /\ writer \in [Writers -> WriterSteps]
          /\ count \in [Writers -> 0..MaxSends]
          /\ owner \in OwnerSteps
          /\ conn \in {"null", "open", "reset"}
          /\ peer \in {"reading", "stalled"}

(* Exactly the holder of the mutex is between lock() and unlock(): the      *)
(* coroutine's copy-and-clear and the writers' append exclude one another.  *)
MutexOwned == /\ mtx = "sender" <=> sender \in {"copy", "clear", "unlock"}
              /\ \A w \in Writers : mtx = w <=> writer[w] # "idle"

(* Replies taken out of sendbuf and not yet handed to the connection. *)
InFlight == IF sender \in {"unlock", "send"} THEN local ELSE <<>>

(* Until a send fails, every reply a handler submitted is on the wire, in   *)
(* flight or in sendbuf, once and in the order of submission: an append     *)
(* between `buf = *pbuf` and `pbuf->resize(0)` would be lost, a batch not   *)
(* cleared would be sent twice.                                             *)
NothingLost == ~failed => log = wire \o InFlight \o sendbuf

(* What the peer has seen is at any time, failures included, a prefix of    *)
(* what was submitted.                                                      *)
WireIsPrefix == /\ Len(wire) <= Len(log)
                /\ \A i \in 1..Len(wire) : wire[i] = log[i]

(* The coroutine never touches a REQ that its owner has destroyed: the      *)
(* destructor returns only when the coroutine is through with the object.   *)
NoUseAfterFree == sender # "wild"

(* Nothing goes out behind a failed send: the peer never sees a reply       *)
(* after the gap the lost batch left.                                       *)
FailedSendIsLast == [][failed => wire' = wire]_vars

(* A destructor that asked the coroutine to stop returns. *)
DestructorReturns == (owner = "set") ~> (owner = "freed")

(* A submitted reply reaches the peer while the connection lasts. *)
RepliesReachPeer == \A r \in Reply :
    (\E i \in 1..Len(log) : log[i] = r)
        ~> \/ \E i \in 1..Len(wire) : wire[i] = r
           \/ failed
           \/ owner # "run"

(* The reply buffer is the abstract channel: the coroutine's batch still    *)
(* counts as queued until conn.send returns.                                *)
Channel == INSTANCE ReplyChannel WITH
               queue <- InFlight \o sendbuf,
               status <- IF failed THEN "down" ELSE "up"

ImplementsChannel == Channel!ChanSpec

=============================================================================
