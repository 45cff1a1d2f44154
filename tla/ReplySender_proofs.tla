------------------------- MODULE ReplySender_proofs -------------------------
(***************************************************************************)
(* Proofs about ReplySender, for any set of writers and any number of       *)
(* replies: type correctness, the ownership of the mutex, that no reply is  *)
(* lost or sent twice, that the peer sees a prefix of what was submitted,   *)
(* the destructor's handshake when no send fails, and that ReplySender      *)
(* implements ReplyChannel.                                                 *)
(***************************************************************************)
EXTENDS ReplySender, SequenceLemmas

(* A writer that is about to append has not used up its bound. *)
CountInv == \A w \in Writers : writer[w] = "append" => count[w] < MaxSends

TypeInv == TypeOK /\ CountInv

-----------------------------------------------------------------------------
(* The replies handled are replies: the steps keep the buffers sequences of *)
(* them, and the flags in their ranges.                                     *)

(* Every step keeps the types and the bound on the replies.                 *)
LEMMA TypeInvStep ==
    ASSUME TypeInv, [Next]_vars
    PROVE  TypeInv'
  <1> USE MaxSendsAssumption DEF TypeInv, TypeOK, CountInv, SenderSteps,
          WriterSteps, OwnerSteps, bufVars, ownVars, wrtVars
  <1>1. CASE TestExit
    BY <1>1 DEF TestExit
  <1>2. CASE SenderLock
    BY <1>2 DEF SenderLock
  <1>3. CASE CopyBuf
    BY <1>3 DEF CopyBuf
  <1>4. CASE ClearBuf
    BY <1>4 DEF ClearBuf
  <1>5. CASE SenderUnlock
    BY <1>5 DEF SenderUnlock
  <1>6. CASE SendOk
    <2>1. wire' \in Seq(Reply)
      BY <1>6, ConcatProperties DEF SendOk
    <2>2. QED  BY <1>6, <2>1 DEF SendOk
  <1>7. ASSUME NEW k \in 0..Len(local), SendFails(k)
        PROVE  TypeInv'
    <2>1. SubSeq(local, 1, k) \in Seq(Reply)
      BY <1>7, SubSeqType DEF SendFails
    <2>2. wire' \in Seq(Reply)
      BY <1>7, <2>1, ConcatProperties DEF SendFails
    <2>3. QED  BY <1>7, <2>2 DEF SendFails
  <1>8. CASE FlagFailure
    BY <1>8 DEF FlagFailure
  <1>9. CASE Sleep
    BY <1>9 DEF Sleep
  <1>10. CASE FlagExit
    BY <1>10 DEF FlagExit
  <1>11. CASE TouchFreed
    BY <1>11 DEF TouchFreed
  <1>12. ASSUME NEW w \in Writers, WriterLock(w)
         PROVE  TypeInv'
    BY <1>12 DEF WriterLock
  <1>13. ASSUME NEW w \in Writers, WriterAppend(w)
         PROVE  TypeInv'
    <2>1. <<w, count[w] + 1>> \in Reply
      BY <1>13 DEF WriterAppend, Reply
    <2>2. sendbuf' \in Seq(Reply) /\ log' \in Seq(Reply)
      BY <1>13, <2>1, AppendProperties DEF WriterAppend
    <2>3. count' \in [Writers -> 0..MaxSends]
      BY <1>13 DEF WriterAppend
    <2>4. CountInv'
      BY <1>13 DEF WriterAppend
    <2>5. QED  BY <1>13, <2>2, <2>3, <2>4 DEF WriterAppend
  <1>14. ASSUME NEW w \in Writers, WriterUnlock(w)
         PROVE  TypeInv'
    BY <1>14 DEF WriterUnlock
  <1>15. CASE OwnerNext
    BY <1>15 DEF OwnerNext, SetConn, EndConnection, DtorTest, DtorSet, DtorReturn
  <1>16. CASE PeerStalls
    BY <1>16 DEF PeerStalls
  <1>17. CASE UNCHANGED vars
    BY <1>17 DEF vars
  <1>18. QED
    BY <1>1, <1>2, <1>3, <1>4, <1>5, <1>6, <1>7, <1>8, <1>9, <1>10, <1>11,
       <1>12, <1>13, <1>14, <1>15, <1>16, <1>17
       DEF Next, SenderNext, SendBreaks, WriterNext

(* The types hold when the REQ has just been constructed. *)
LEMMA InitTypeInv == Init => TypeInv
  <1>1. <<>> \in Seq(Reply)
    BY EmptySeq
  <1>2. Init => TypeOK
    <2> SUFFICES ASSUME Init PROVE TypeOK
      OBVIOUS
    <2>1. writer \in [Writers -> WriterSteps] /\ count \in [Writers -> 0..MaxSends]
      BY MaxSendsAssumption DEF Init, WriterSteps
    <2>2. /\ sendbuf \in Seq(Reply) /\ local \in Seq(Reply)
          /\ wire \in Seq(Reply) /\ log \in Seq(Reply)
      BY <1>1 DEF Init
    <2>3. QED  BY <2>1, <2>2 DEF Init, TypeOK, SenderSteps, OwnerSteps
  <1>3. Init => CountInv
    BY DEF Init, CountInv
  <1>4. QED  BY <1>2, <1>3 DEF TypeInv

(* Every state has the types the declarations of http1.h promise. *)
THEOREM TypeCorrect == Spec => []TypeOK
  <1>1. Init => TypeInv
    BY InitTypeInv
  <1>2. TypeInv /\ [Next]_vars => TypeInv'
    BY TypeInvStep
  <1>3. TypeInv => TypeOK
    BY DEF TypeInv
  <1>4. QED  BY <1>1, <1>2, <1>3, PTL DEF Spec

-----------------------------------------------------------------------------
(* The mutex *)

(* The protocol around exit, whatever fails: only the destructor writes 0,   *)
(* a coroutine that wrote -1 does not enter its loop again, and the          *)
(* destructor returns at -1 only.                                            *)
ExitInv == /\ exit = -1 => sender \in {"sleep", "test", "final", "done", "wild"}
           /\ owner \in {"new", "run", "ended", "set"} => exit # 0
           /\ owner \in {"wait", "freed"} => exit # 1
           /\ owner = "freed" => exit = -1

(* No step of the coroutine or the destructor breaks the handshake on exit. *)
LEMMA ExitInvStep ==
    ASSUME TypeInv, ExitInv, [Next]_vars
    PROVE  ExitInv'
  <1> USE DEF TypeInv, TypeOK, ExitInv, OwnerSteps, Alive, bufVars, ownVars, wrtVars
  <1>1. CASE TestExit
    BY <1>1 DEF TestExit
  <1>2. CASE SenderLock
    BY <1>2 DEF SenderLock
  <1>3. CASE CopyBuf
    BY <1>3 DEF CopyBuf
  <1>4. CASE ClearBuf
    BY <1>4 DEF ClearBuf
  <1>5. CASE SenderUnlock
    BY <1>5 DEF SenderUnlock
  <1>6. CASE SendOk
    BY <1>6 DEF SendOk
  <1>7. CASE FlagFailure
    BY <1>7 DEF FlagFailure
  <1>8. CASE Sleep
    BY <1>8 DEF Sleep
  <1>9. CASE FlagExit
    BY <1>9 DEF FlagExit
  <1>10. CASE TouchFreed
    BY <1>10 DEF TouchFreed
  <1>11. CASE SendBreaks
    BY <1>11 DEF SendBreaks, SendFails
  <1>12. ASSUME NEW w \in Writers, WriterLock(w)
        PROVE  ExitInv'
    BY <1>12 DEF WriterLock
  <1>13. ASSUME NEW w \in Writers, WriterAppend(w)
        PROVE  ExitInv'
    BY <1>13 DEF WriterAppend
  <1>14. ASSUME NEW w \in Writers, WriterUnlock(w)
        PROVE  ExitInv'
    BY <1>14 DEF WriterUnlock
  <1>15. CASE SetConn
    BY <1>15 DEF SetConn
  <1>16. CASE EndConnection
    BY <1>16 DEF EndConnection
  <1>17. CASE DtorTest
    BY <1>17 DEF DtorTest
  <1>18. CASE DtorSet
    BY <1>18 DEF DtorSet
  <1>19. CASE DtorReturn
    BY <1>19 DEF DtorReturn
  <1>20. CASE PeerStalls
    BY <1>20 DEF PeerStalls
  <1>21. CASE UNCHANGED vars
    BY <1>21 DEF vars
  <1>22. QED
    BY <1>1, <1>2, <1>3, <1>4, <1>5, <1>6, <1>7, <1>8, <1>9, <1>10, <1>11,
       <1>12, <1>13, <1>14, <1>15, <1>16, <1>17, <1>18, <1>19, <1>20, <1>21
       DEF Next, SenderNext, WriterNext, OwnerNext

(* No step leaves lock() or passes unlock() without the mutex following.    *)
LEMMA MutexInvStep ==
    ASSUME TypeInv, ExitInv, MutexOwned, [Next]_vars
    PROVE  MutexOwned'
  <1> USE WritersAssumption
      DEF TypeInv, TypeOK, ExitInv, MutexOwned, WriterSteps, Alive,
          bufVars, ownVars, wrtVars
  <1>1. CASE TestExit
    BY <1>1 DEF TestExit
  <1>2. CASE SenderLock
    BY <1>2 DEF SenderLock
  <1>3. CASE CopyBuf
    BY <1>3 DEF CopyBuf
  <1>4. CASE ClearBuf
    BY <1>4 DEF ClearBuf
  <1>5. CASE SenderUnlock
    BY <1>5 DEF SenderUnlock
  <1>6. CASE SendOk
    BY <1>6 DEF SendOk
  <1>7. CASE FlagFailure
    BY <1>7 DEF FlagFailure
  <1>8. CASE Sleep
    BY <1>8 DEF Sleep
  <1>9. CASE FlagExit
    BY <1>9 DEF FlagExit
  <1>10. CASE TouchFreed
    BY <1>10 DEF TouchFreed
  <1>11. CASE SendBreaks
    BY <1>11 DEF SendBreaks, SendFails
  <1>12. ASSUME NEW w \in Writers, WriterLock(w)
        PROVE  MutexOwned'
    BY <1>12 DEF WriterLock
  <1>13. ASSUME NEW w \in Writers, WriterAppend(w)
        PROVE  MutexOwned'
    BY <1>13 DEF WriterAppend
  <1>14. ASSUME NEW w \in Writers, WriterUnlock(w)
        PROVE  MutexOwned'
    BY <1>14 DEF WriterUnlock
  <1>15. CASE SetConn
    BY <1>15 DEF SetConn
  <1>16. CASE EndConnection
    BY <1>16 DEF EndConnection
  <1>17. CASE DtorTest
    BY <1>17 DEF DtorTest
  <1>18. CASE DtorSet
    BY <1>18 DEF DtorSet
  <1>19. CASE DtorReturn
    BY <1>19 DEF DtorReturn
  <1>20. CASE PeerStalls
    BY <1>20 DEF PeerStalls
  <1>21. CASE UNCHANGED vars
    BY <1>21 DEF vars
  <1>22. QED
    BY <1>1, <1>2, <1>3, <1>4, <1>5, <1>6, <1>7, <1>8, <1>9, <1>10, <1>11,
       <1>12, <1>13, <1>14, <1>15, <1>16, <1>17, <1>18, <1>19, <1>20, <1>21
       DEF Next, SenderNext, WriterNext, OwnerNext

(* At any time at most one coroutine is between lock() and unlock(), and it *)
(* is the one the mutex names.                                              *)
THEOREM MutexCorrect == Spec => []MutexOwned
  <1> DEFINE Inv == TypeInv /\ ExitInv /\ MutexOwned
  <1>1. Init => Inv
    <2>1. Init => MutexOwned
      BY WritersAssumption DEF Init, MutexOwned
    <2>2. Init => ExitInv
      BY DEF Init, ExitInv
    <2>3. QED  BY <2>1, <2>2, InitTypeInv
  <1>2. Inv /\ [Next]_vars => Inv'
    BY TypeInvStep, ExitInvStep, MutexInvStep
  <1>3. Inv => MutexOwned
    OBVIOUS
  <1>4. QED  BY <1>1, <1>2, <1>3, PTL DEF Spec

-----------------------------------------------------------------------------
(* The way of the replies *)

(* After a failed send the coroutine is on its way out: it leaves its loop  *)
(* at the next test of exit.                                                *)
FailInv == failed => /\ sender \in {"fail", "sleep", "test", "final", "done", "wild"}
                     /\ sender \in {"sleep", "test"} => exit # 1

(* Between the copy and the clearing of sendbuf nobody else has touched it. *)
CopyInv == sender = "clear" => local = sendbuf

ReplyInv == /\ TypeInv /\ ExitInv /\ MutexOwned
            /\ FailInv /\ CopyInv /\ NothingLost /\ WireIsPrefix

(* Once a send has failed, no step leads the coroutine back to a send.      *)
LEMMA FailInvStep ==
    ASSUME TypeInv, FailInv, [Next]_vars
    PROVE  FailInv'
  <1> USE DEF TypeInv, TypeOK, FailInv, bufVars, ownVars, wrtVars
  <1>1. CASE TestExit
    BY <1>1 DEF TestExit
  <1>2. CASE SenderLock
    BY <1>2 DEF SenderLock
  <1>3. CASE CopyBuf
    BY <1>3 DEF CopyBuf
  <1>4. CASE ClearBuf
    BY <1>4 DEF ClearBuf
  <1>5. CASE SenderUnlock
    BY <1>5 DEF SenderUnlock
  <1>6. CASE SendOk
    BY <1>6 DEF SendOk
  <1>7. CASE FlagFailure
    BY <1>7 DEF FlagFailure
  <1>8. CASE Sleep
    BY <1>8 DEF Sleep
  <1>9. CASE FlagExit
    BY <1>9 DEF FlagExit
  <1>10. CASE TouchFreed
    BY <1>10 DEF TouchFreed
  <1>11. CASE SendBreaks
    BY <1>11 DEF SendBreaks, SendFails
  <1>12. ASSUME NEW w \in Writers, WriterLock(w)
        PROVE  FailInv'
    BY <1>12 DEF WriterLock
  <1>13. ASSUME NEW w \in Writers, WriterAppend(w)
        PROVE  FailInv'
    BY <1>13 DEF WriterAppend
  <1>14. ASSUME NEW w \in Writers, WriterUnlock(w)
        PROVE  FailInv'
    BY <1>14 DEF WriterUnlock
  <1>15. CASE SetConn
    BY <1>15 DEF SetConn
  <1>16. CASE EndConnection
    BY <1>16 DEF EndConnection
  <1>17. CASE DtorTest
    BY <1>17 DEF DtorTest
  <1>18. CASE DtorSet
    BY <1>18 DEF DtorSet
  <1>19. CASE DtorReturn
    BY <1>19 DEF DtorReturn
  <1>20. CASE PeerStalls
    BY <1>20 DEF PeerStalls
  <1>21. CASE UNCHANGED vars
    BY <1>21 DEF vars
  <1>22. QED
    BY <1>1, <1>2, <1>3, <1>4, <1>5, <1>6, <1>7, <1>8, <1>9, <1>10, <1>11,
       <1>12, <1>13, <1>14, <1>15, <1>16, <1>17, <1>18, <1>19, <1>20, <1>21
       DEF Next, SenderNext, WriterNext, OwnerNext

(* No writer gets between the copy and the clearing of sendbuf.             *)
LEMMA CopyInvStep ==
    ASSUME TypeInv, MutexOwned, CopyInv, [Next]_vars
    PROVE  CopyInv'
  <1> USE WritersAssumption
      DEF TypeInv, TypeOK, CopyInv, MutexOwned, WriterSteps, bufVars, ownVars, wrtVars
  <1>1. CASE TestExit
    BY <1>1 DEF TestExit
  <1>2. CASE SenderLock
    BY <1>2 DEF SenderLock
  <1>3. CASE CopyBuf
    BY <1>3 DEF CopyBuf
  <1>4. CASE ClearBuf
    BY <1>4 DEF ClearBuf
  <1>5. CASE SenderUnlock
    BY <1>5 DEF SenderUnlock
  <1>6. CASE SendOk
    BY <1>6 DEF SendOk
  <1>7. CASE FlagFailure
    BY <1>7 DEF FlagFailure
  <1>8. CASE Sleep
    BY <1>8 DEF Sleep
  <1>9. CASE FlagExit
    BY <1>9 DEF FlagExit
  <1>10. CASE TouchFreed
    BY <1>10 DEF TouchFreed
  <1>11. CASE SendBreaks
    BY <1>11 DEF SendBreaks, SendFails
  <1>12. ASSUME NEW w \in Writers, WriterLock(w)
        PROVE  CopyInv'
    BY <1>12 DEF WriterLock
  <1>13. ASSUME NEW w \in Writers, WriterAppend(w)
        PROVE  CopyInv'
    BY <1>13 DEF WriterAppend
  <1>14. ASSUME NEW w \in Writers, WriterUnlock(w)
        PROVE  CopyInv'
    BY <1>14 DEF WriterUnlock
  <1>15. CASE SetConn
    BY <1>15 DEF SetConn
  <1>16. CASE EndConnection
    BY <1>16 DEF EndConnection
  <1>17. CASE DtorTest
    BY <1>17 DEF DtorTest
  <1>18. CASE DtorSet
    BY <1>18 DEF DtorSet
  <1>19. CASE DtorReturn
    BY <1>19 DEF DtorReturn
  <1>20. CASE PeerStalls
    BY <1>20 DEF PeerStalls
  <1>21. CASE UNCHANGED vars
    BY <1>21 DEF vars
  <1>22. QED
    BY <1>1, <1>2, <1>3, <1>4, <1>5, <1>6, <1>7, <1>8, <1>9, <1>10, <1>11,
       <1>12, <1>13, <1>14, <1>15, <1>16, <1>17, <1>18, <1>19, <1>20, <1>21
       DEF Next, SenderNext, WriterNext, OwnerNext

(* What is in flight is a sequence of replies. *)
LEMMA InFlightType == TypeInv => InFlight \in Seq(Reply)
  BY EmptySeq DEF TypeInv, TypeOK, InFlight

(* Every step moves replies along the way from the log to the wire, none    *)
(* off it.                                                                  *)
LEMMA NothingLostStep ==
    ASSUME TypeInv, ExitInv, CopyInv, NothingLost, [Next]_vars
    PROVE  NothingLost'
  <1> USE DEF NothingLost, InFlight, bufVars, ownVars, wrtVars
  <1>1. CASE TestExit
    BY <1>1 DEF TestExit
  <1>2. CASE SenderLock
    BY <1>2 DEF SenderLock
  <1>3. CASE CopyBuf
    BY <1>3 DEF CopyBuf
  <1>4. CASE ClearBuf
    <2>1. sendbuf \in Seq(Reply) /\ wire \in Seq(Reply)
      BY DEF TypeInv, TypeOK
    <2>2. wire \o <<>> = wire /\ (wire \o sendbuf) \o <<>> = wire \o sendbuf
      BY <2>1, ConcatEmptySeq, ConcatProperties
    <2>3. QED  BY <1>4, <2>2 DEF ClearBuf, CopyInv
  <1>5. CASE SenderUnlock
    BY <1>5 DEF SenderUnlock
  <1>6. CASE SendOk
    <2>1. wire \in Seq(Reply) /\ local \in Seq(Reply)
      BY DEF TypeInv, TypeOK
    <2>2. (wire \o local) \o <<>> = wire \o local
      BY <2>1, ConcatEmptySeq, ConcatProperties
    <2>3. QED  BY <1>6, <2>2 DEF SendOk
  <1>7. CASE FlagFailure
    BY <1>7 DEF FlagFailure
  <1>8. CASE Sleep
    BY <1>8 DEF Sleep
  <1>9. CASE FlagExit
    BY <1>9 DEF FlagExit
  <1>10. CASE TouchFreed
    BY <1>10 DEF TouchFreed, ExitInv, Alive
  <1>11. CASE SendBreaks
    BY <1>11 DEF SendBreaks, SendFails
  <1>12. ASSUME NEW w \in Writers, WriterAppend(w)
        PROVE  NothingLost'
    <2> DEFINE e == <<w, count[w] + 1>>
               u == wire \o InFlight
    <2>1. e \in Reply
      <3>1. count[w] \in 0..MaxSends /\ count[w] < MaxSends
        BY <1>12 DEF WriterAppend, TypeInv, TypeOK, CountInv
      <3>2. QED  BY <3>1, MaxSendsAssumption DEF Reply
    <2>2. u \in Seq(Reply) /\ sendbuf \in Seq(Reply)
      BY InFlightType, ConcatProperties DEF TypeInv, TypeOK
    <2>3. u' = u /\ log' = Append(log, e) /\ sendbuf' = Append(sendbuf, e) /\ failed' = failed
      BY <1>12 DEF WriterAppend
    <2>4. Append(u \o sendbuf, e) = u \o Append(sendbuf, e)
      <3> HIDE DEF e, u
      <3>1. QED  BY <2>1, <2>2, ConcatAppend
    <2>5. ~failed => log = u \o sendbuf
      OBVIOUS
    <2> HIDE DEF e, u
    <2>6. ~failed' => log' = u' \o sendbuf'
      BY <2>3, <2>4, <2>5
    <2>7. QED  BY <2>6 DEF u
  <1>13. ASSUME NEW w \in Writers, WriterLock(w)
        PROVE  NothingLost'
    BY <1>13 DEF WriterLock
  <1>14. ASSUME NEW w \in Writers, WriterUnlock(w)
        PROVE  NothingLost'
    BY <1>14 DEF WriterUnlock
  <1>15. CASE SetConn
    BY <1>15 DEF SetConn
  <1>16. CASE EndConnection
    BY <1>16 DEF EndConnection
  <1>17. CASE DtorTest
    BY <1>17 DEF DtorTest
  <1>18. CASE DtorSet
    BY <1>18 DEF DtorSet
  <1>19. CASE DtorReturn
    BY <1>19 DEF DtorReturn
  <1>20. CASE PeerStalls
    BY <1>20 DEF PeerStalls
  <1>21. CASE UNCHANGED vars
    BY <1>21 DEF vars
  <1>22. QED
    BY <1>1, <1>2, <1>3, <1>4, <1>5, <1>6, <1>7, <1>8, <1>9, <1>10, <1>11,
       <1>12, <1>13, <1>14, <1>15, <1>16, <1>17, <1>18, <1>19, <1>20, <1>21
       DEF Next, SenderNext, WriterNext, OwnerNext

(* What a step adds to the wire continues the log. *)
LEMMA WireIsPrefixStep ==
    ASSUME TypeInv, FailInv, NothingLost, WireIsPrefix, [Next]_vars,
           TypeInv', NothingLost'
    PROVE  WireIsPrefix'
  <1> USE DEF WireIsPrefix
  <1>1. CASE ~failed'
    <2>1. log' = (wire' \o InFlight') \o sendbuf'
      BY <1>1 DEF NothingLost
    <2>2. wire' \in Seq(Reply) /\ InFlight' \in Seq(Reply) /\ sendbuf' \in Seq(Reply)
      BY EmptySeq DEF TypeInv, TypeOK, InFlight
    <2>3. QED  BY <2>1, <2>2, ConcatPrefix
  <1>2. ASSUME NEW k \in 0..Len(local), SendFails(k), ~failed
        PROVE  WireIsPrefix'
    <2>1. /\ wire \in Seq(Reply) /\ local \in Seq(Reply) /\ sendbuf \in Seq(Reply)
          /\ wire \o local \in Seq(Reply)
      BY ConcatProperties DEF TypeInv, TypeOK
    <2>2. log = (wire \o local) \o sendbuf
      BY <1>2 DEF SendFails, NothingLost, InFlight
    <2>3. /\ Len(log) = Len(wire) + Len(local) + Len(sendbuf)
          /\ \A i \in 1..(Len(wire) + Len(local)) : log[i] = (wire \o local)[i]
      BY <2>1, <2>2, ConcatProperties, LenProperties
    <2>4. wire' = wire \o SubSeq(local, 1, k) /\ log' = log /\ k <= Len(local)
      BY <1>2 DEF SendFails, bufVars
    <2>5. /\ Len(wire') = Len(wire) + k
          /\ \A i \in 1..(Len(wire) + k) : wire'[i] = (wire \o local)[i]
      BY <2>1, <2>4, ConcatPartial
    <2>6. Len(wire) \in Nat /\ Len(local) \in Nat /\ Len(sendbuf) \in Nat
      BY <2>1, LenProperties
    <2>7. Len(wire') <= Len(log')
      BY <2>3, <2>4, <2>5, <2>6
    <2>8. ASSUME NEW i \in 1..Len(wire')
          PROVE  wire'[i] = log'[i]
      <3>1. i \in 1..(Len(wire) + k) /\ i \in 1..(Len(wire) + Len(local))
        BY <2>4, <2>5, <2>6
      <3>2. wire'[i] = (wire \o local)[i]
        BY <3>1, <2>5
      <3>3. log[i] = (wire \o local)[i]
        BY <3>1, <2>3
      <3>4. QED  BY <2>4, <3>2, <3>3
    <2>9. QED  BY <2>7, <2>8
  <1>3. ASSUME NEW w \in Writers, WriterAppend(w)
        PROVE  WireIsPrefix'
    <2>1. log \in Seq(Reply) /\ wire \in Seq(Reply) /\ <<w, count[w] + 1>> \in Reply
      BY <1>3 DEF WriterAppend, TypeInv, TypeOK, CountInv, Reply
    <2>2. /\ Len(log') = Len(log) + 1
          /\ \A i \in 1..Len(log) : log'[i] = log[i]
      BY <1>3, <2>1, AppendProperties DEF WriterAppend
    <2>3. wire' = wire
      BY <1>3 DEF WriterAppend
    <2>4. QED  BY <2>1, <2>2, <2>3, LenProperties
  <1>4. ASSUME failed, ~\E w \in Writers : WriterAppend(w)
        PROVE  wire' = wire /\ log' = log
    <2>1. sender # "send"
      BY <1>4 DEF FailInv
    <2>2. QED
      BY <1>4, <2>1 DEF Next, SenderNext, WriterNext, OwnerNext, vars, bufVars,
         TestExit, SenderLock, CopyBuf, ClearBuf, SenderUnlock, SendOk, SendBreaks,
         SendFails, FlagFailure, Sleep, FlagExit, TouchFreed, WriterLock,
         WriterUnlock, SetConn, EndConnection, DtorTest, DtorSet, DtorReturn,
         PeerStalls
  <1>5. ~failed /\ failed' => \E k \in 0..Len(local) : SendFails(k)
    BY DEF Next, SenderNext, WriterNext, OwnerNext, vars, bufVars,
       TestExit, SenderLock, CopyBuf, ClearBuf, SenderUnlock, SendOk, SendBreaks,
       FlagFailure, Sleep, FlagExit, TouchFreed, WriterLock, WriterAppend,
       WriterUnlock, SetConn, EndConnection, DtorTest, DtorSet, DtorReturn, PeerStalls
  <1>6. QED  BY <1>1, <1>2, <1>3, <1>4, <1>5

(* The inductive invariant holds initially, *)
LEMMA InitReplyInv == Init => ReplyInv
  <1> SUFFICES ASSUME Init PROVE ReplyInv
    OBVIOUS
  <1>1. TypeInv
    BY InitTypeInv
  <1>2. ExitInv /\ MutexOwned /\ FailInv /\ CopyInv
    BY WritersAssumption DEF Init, ExitInv, MutexOwned, FailInv, CopyInv
  <1>3. NothingLost
    <2>1. <<>> \in Seq(Reply)
      BY EmptySeq
    <2>2. (<<>> \o <<>>) \o <<>> = <<>>
      BY <2>1, ConcatEmptySeq
    <2>3. QED  BY <2>2 DEF Init, NothingLost, InFlight
  <1>4. WireIsPrefix
    BY EmptySeq DEF Init, WireIsPrefix
  <1>5. QED  BY <1>1, <1>2, <1>3, <1>4 DEF ReplyInv

(* every step preserves it, *)
LEMMA ReplyInvStep ==
    ASSUME ReplyInv, [Next]_vars
    PROVE  ReplyInv'
  <1> USE DEF ReplyInv
  <1>1. TypeInv'
    BY TypeInvStep
  <1>2. ExitInv'
    BY ExitInvStep
  <1>3. MutexOwned'
    BY MutexInvStep
  <1>4. FailInv'
    BY FailInvStep
  <1>5. CopyInv'
    BY CopyInvStep
  <1>6. NothingLost'
    BY NothingLostStep
  <1>7. WireIsPrefix'
    BY <1>1, <1>6, WireIsPrefixStep
  <1>8. QED  BY <1>1, <1>2, <1>3, <1>4, <1>5, <1>6, <1>7

(* and so it holds in every state. *)
LEMMA ReplyInvAlways == Spec => []ReplyInv
  BY InitReplyInv, ReplyInvStep, PTL DEF Spec

(* No interleaving of the writers' appends with the coroutine's            *)
(* copy-and-clear loses, repeats or reorders a reply.                       *)
THEOREM NoReplyLost == Spec => []NothingLost
  <1>1. ReplyInv => NothingLost
    BY DEF ReplyInv
  <1>2. QED  BY <1>1, ReplyInvAlways, PTL

(* The peer sees a prefix of what the handlers submitted, whatever fails.   *)
THEOREM PeerSeesPrefix == Spec => []WireIsPrefix
  <1>1. ReplyInv => WireIsPrefix
    BY DEF ReplyInv
  <1>2. QED  BY <1>1, ReplyInvAlways, PTL

(* Nothing is sent behind a failed send. *)
THEOREM NothingBehindFailure == Spec => FailedSendIsLast
  <1>1. ASSUME ReplyInv, [Next]_vars, failed
        PROVE  wire' = wire
    <2>1. sender # "send"
      BY <1>1 DEF ReplyInv, FailInv
    <2>2. QED
      BY <1>1, <2>1 DEF Next, SenderNext, WriterNext, OwnerNext, vars, bufVars,
         TestExit, SenderLock, CopyBuf, ClearBuf, SenderUnlock, SendOk, SendBreaks,
         SendFails, FlagFailure, Sleep, FlagExit, TouchFreed, WriterLock,
         WriterAppend, WriterUnlock, SetConn, EndConnection, DtorTest, DtorSet,
         DtorReturn, PeerStalls
  <1>2. ReplyInv /\ [Next]_vars => [failed => wire' = wire]_vars
    BY <1>1
  <1>3. QED  BY <1>2, ReplyInvAlways, PTL DEF Spec, FailedSendIsLast

-----------------------------------------------------------------------------
(* The destructor, when sends do not fail and the connection is not reset   *)
(* under the coroutine.  A stalled peer is allowed: then the destructor     *)
(* waits, but it does not return too early.                                 *)

Reliable == Faults \subseteq {"stall"}

(* Without failures the coroutine writes -1 once, as its last access, and   *)
(* only after the destructor wrote 0.                                       *)
StopInv == /\ conn # "reset"
           /\ sender \notin {"fail", "wild"}
           /\ exit = -1 => sender = "done"
           /\ owner \in {"new", "run", "ended", "set"} =>
                exit = 1 /\ sender \notin {"final", "done"}
           /\ owner = "wait" => exit = 0 \/ sender = "done"
           /\ owner = "freed" => sender = "done"

(* Without failures no step ends the coroutine before the destructor asks.   *)
LEMMA StopInvStep ==
    ASSUME Reliable, TypeInv, ExitInv, StopInv, [Next]_vars
    PROVE  StopInv'
  <1> USE DEF Reliable, TypeInv, TypeOK, ExitInv, StopInv, OwnerSteps, SenderSteps,
          Alive, bufVars, ownVars, wrtVars
  <1>1. CASE TestExit
    BY <1>1 DEF TestExit
  <1>2. CASE SenderLock
    BY <1>2 DEF SenderLock
  <1>3. CASE CopyBuf
    BY <1>3 DEF CopyBuf
  <1>4. CASE ClearBuf
    BY <1>4 DEF ClearBuf
  <1>5. CASE SenderUnlock
    BY <1>5 DEF SenderUnlock
  <1>6. CASE SendOk
    BY <1>6 DEF SendOk
  <1>7. CASE FlagFailure
    BY <1>7 DEF FlagFailure
  <1>8. CASE Sleep
    BY <1>8 DEF Sleep
  <1>9. CASE FlagExit
    BY <1>9 DEF FlagExit
  <1>10. CASE TouchFreed
    BY <1>10 DEF TouchFreed
  <1>11. CASE SendBreaks
    BY <1>11 DEF SendBreaks, SendFails
  <1>12. ASSUME NEW w \in Writers, WriterLock(w)
        PROVE  StopInv'
    BY <1>12 DEF WriterLock
  <1>13. ASSUME NEW w \in Writers, WriterAppend(w)
        PROVE  StopInv'
    BY <1>13 DEF WriterAppend
  <1>14. ASSUME NEW w \in Writers, WriterUnlock(w)
        PROVE  StopInv'
    BY <1>14 DEF WriterUnlock
  <1>15. CASE SetConn
    BY <1>15 DEF SetConn
  <1>16. CASE EndConnection
    BY <1>16 DEF EndConnection
  <1>17. CASE DtorTest
    BY <1>17 DEF DtorTest
  <1>18. CASE DtorSet
    BY <1>18 DEF DtorSet
  <1>19. CASE DtorReturn
    BY <1>19 DEF DtorReturn
  <1>20. CASE PeerStalls
    BY <1>20 DEF PeerStalls
  <1>21. CASE UNCHANGED vars
    BY <1>21 DEF vars
  <1>22. QED
    BY <1>1, <1>2, <1>3, <1>4, <1>5, <1>6, <1>7, <1>8, <1>9, <1>10, <1>11,
       <1>12, <1>13, <1>14, <1>15, <1>16, <1>17, <1>18, <1>19, <1>20, <1>21
       DEF Next, SenderNext, WriterNext, OwnerNext

(* As long as no send fails, the coroutine is through with the REQ before   *)
(* the destructor returns.                                                  *)
THEOREM SafeDestruction == Reliable /\ Spec => []NoUseAfterFree
  <1> DEFINE Inv == TypeInv /\ ExitInv /\ StopInv
  <1>1. Init => Inv
    <2>1. Init => ExitInv /\ StopInv
      BY DEF Init, ExitInv, StopInv
    <2>2. QED  BY <2>1, InitTypeInv
  <1>2. Reliable /\ Inv /\ [Next]_vars => Inv'
    BY TypeInvStep, ExitInvStep, StopInvStep
  <1>3. Inv => NoUseAfterFree
    BY DEF StopInv, NoUseAfterFree
  <1>4. SUFFICES ASSUME Reliable PROVE Spec => []NoUseAfterFree
    OBVIOUS
  <1>5. Inv /\ [Next]_vars => Inv'
    BY <1>2, <1>4
  <1>6. QED  BY <1>1, <1>3, <1>5, PTL DEF Spec

-----------------------------------------------------------------------------
(* ReplySender implements ReplyChannel: every step of the coroutine, the    *)
(* writers and the destructor is a step of the abstract channel or leaves   *)
(* it alone.                                                                *)

(* The abstract queue: the coroutine's batch and what sendbuf holds. *)
ChannelQueue == InFlight \o sendbuf
ChannelStatus == IF failed THEN "down" ELSE "up"

(* The coroutine calls conn.send only with something to send. *)
BatchInv == sender = "send" => local # <<>>

RefInv == ReplyInv /\ BatchInv

-----------------------------------------------------------------------------
(* BatchInv is inductive: only the unlock with a non-empty batch leads to   *)
(* the send, and the batch is not touched until it is over.                 *)
LEMMA BatchInvStep ==
    ASSUME BatchInv, [Next]_vars
    PROVE  BatchInv'
  <1> USE DEF BatchInv, bufVars, ownVars, wrtVars
  <1>1. CASE SenderNext
    BY <1>1 DEF SenderNext, TestExit, SenderLock, CopyBuf, ClearBuf, SenderUnlock,
       SendOk, SendBreaks, SendFails, FlagFailure, Sleep, FlagExit, TouchFreed
  <1>2. CASE \E w \in Writers : WriterNext(w)
    BY <1>2 DEF WriterNext, WriterLock, WriterAppend, WriterUnlock
  <1>3. CASE OwnerNext
    BY <1>3 DEF OwnerNext, SetConn, EndConnection, DtorTest, DtorSet, DtorReturn
  <1>4. CASE PeerStalls
    BY <1>4 DEF PeerStalls
  <1>5. CASE UNCHANGED vars
    BY <1>5 DEF vars
  <1>6. QED  BY <1>1, <1>2, <1>3, <1>4, <1>5 DEF Next

(* The invariant of the refinement. *)
LEMMA RefInvAlways == Spec => []RefInv
  <1>1. Init => RefInv
    BY InitReplyInv DEF Init, RefInv, BatchInv
  <1>2. RefInv /\ [Next]_vars => RefInv'
    BY ReplyInvStep, BatchInvStep DEF RefInv
  <1>3. QED  BY <1>1, <1>2, PTL DEF Spec

(* Copying sendbuf and clearing it moves the batch from one half of the     *)
(* abstract queue to the other.                                             *)
LEMMA ClearBufStutters ==
    ASSUME RefInv, ClearBuf
    PROVE  ChannelQueue' = ChannelQueue
  <1>1. local \in Seq(Reply) /\ sendbuf \in Seq(Reply)
    BY DEF RefInv, ReplyInv, TypeInv, TypeOK
  <1>2. local = sendbuf
    BY DEF RefInv, ReplyInv, CopyInv, ClearBuf
  <1>3. InFlight = <<>> /\ InFlight' = local /\ sendbuf' = <<>>
    BY DEF ClearBuf, InFlight
  <1>4. QED  BY <1>1, <1>2, <1>3, ConcatEmptySeq DEF ChannelQueue

(* The last reply of an append joins the end of the queue. *)
LEMMA AppendSubmits ==
    ASSUME RefInv, NEW w \in Writers, WriterAppend(w)
    PROVE  \E r \in Reply : Channel!Submit(r)
  <1> DEFINE e == <<w, count[w] + 1>>
  <1>1. e \in Reply
    BY MaxSendsAssumption DEF WriterAppend, RefInv, ReplyInv, TypeInv, TypeOK,
       CountInv, Reply
  <1>2. InFlight \in Seq(Reply) /\ sendbuf \in Seq(Reply)
    BY InFlightType DEF RefInv, ReplyInv, TypeInv, TypeOK
  <1>3. /\ InFlight' = InFlight
        /\ sendbuf' = Append(sendbuf, e)
        /\ wire' = wire /\ failed' = failed
    BY DEF WriterAppend, InFlight
  <1> HIDE DEF e
  <1>4. (InFlight \o sendbuf)' = Append(InFlight \o sendbuf, e)
    BY <1>1, <1>2, <1>3, ConcatAppend
  <1>5. Channel!Submit(e)
    BY <1>3, <1>4 DEF Channel!Submit
  <1>6. QED  BY <1>1, <1>5

(* A successful send transmits the batch. *)
LEMMA SendTransmits ==
    ASSUME RefInv, SendOk
    PROVE  \E k \in 1..Len(InFlight \o sendbuf) : Channel!Transmit(k)
  <1>1. local \in Seq(Reply) /\ sendbuf \in Seq(Reply) /\ local # <<>> /\ ~failed
    BY DEF RefInv, ReplyInv, TypeInv, TypeOK, BatchInv, FailInv, SendOk
  <1>2. Len(local) \in Nat /\ Len(sendbuf) \in Nat /\ Len(local) # 0
    BY <1>1, EmptySeq, LenProperties
  <1>3. /\ InFlight = local /\ InFlight' = <<>>
        /\ wire' = wire \o local /\ sendbuf' = sendbuf /\ failed' = failed
    BY DEF SendOk, InFlight
  <1>4. SubSeq(local \o sendbuf, 1, Len(local)) = local
    <2>1. SubSeq(local \o sendbuf, 1, Len(local)) = SubSeq(local, 1, Len(local))
      BY <1>1, <1>2, ConcatCut
    <2>2. SubSeq(local, 1, Len(local)) = local
      BY <1>1, <1>2, SubSeqType, SeqEqual
    <2>3. QED  BY <2>1, <2>2
  <1>5. SubSeq(local \o sendbuf, Len(local) + 1, Len(local \o sendbuf)) = sendbuf
    BY <1>1, ConcatRest
  <1>6. (InFlight \o sendbuf)' = sendbuf
    BY <1>1, <1>3, ConcatEmptySeq
  <1>7. Len(local) \in 1..Len(local \o sendbuf)
    BY <1>1, <1>2, ConcatProperties
  <1>8. Channel!Transmit(Len(local))
    BY <1>1, <1>3, <1>4, <1>5, <1>6 DEF Channel!Transmit, Channel!Rest
  <1>9. QED  BY <1>3, <1>7, <1>8

(* A failed one breaks the channel, and the rest of the batch is lost. *)
LEMMA SendFailsBreaks ==
    ASSUME RefInv, NEW k \in 0..Len(local), SendFails(k)
    PROVE  \E j \in 1..Len(InFlight \o sendbuf) : \E i \in 0..(j - 1) :
               Channel!Break(j, i)
  <1>1. /\ local \in Seq(Reply) /\ sendbuf \in Seq(Reply) /\ ~failed
        /\ k \in Nat /\ k < Len(local)
    BY DEF RefInv, ReplyInv, TypeInv, TypeOK, FailInv, SendFails
  <1>2. Len(local) \in Nat /\ Len(sendbuf) \in Nat
    BY <1>1, LenProperties
  <1>3. /\ InFlight = local /\ InFlight' = <<>>
        /\ wire' = wire \o SubSeq(local, 1, k) /\ sendbuf' = sendbuf
        /\ failed' = TRUE
    BY DEF SendFails, InFlight
  <1>4. SubSeq(local \o sendbuf, 1, k) = SubSeq(local, 1, k)
    BY <1>1, <1>2, ConcatCut
  <1>5. SubSeq(local \o sendbuf, Len(local) + 1, Len(local \o sendbuf)) = sendbuf
    BY <1>1, ConcatRest
  <1>6. (InFlight \o sendbuf)' = sendbuf
    BY <1>1, <1>3, ConcatEmptySeq
  <1>7. Len(local) \in 1..Len(local \o sendbuf) /\ k \in 0..(Len(local) - 1)
    BY <1>1, <1>2, ConcatProperties
  <1>8. Channel!Break(Len(local), k)
    BY <1>1, <1>3, <1>4, <1>5, <1>6 DEF Channel!Break, Channel!Rest
  <1>9. QED  BY <1>3, <1>7, <1>8

-----------------------------------------------------------------------------
(* A step that touches none of these leaves the channel alone. *)
LEMMA Stutters ==
    ASSUME InFlight' = InFlight, sendbuf' = sendbuf, wire' = wire, failed' = failed
    PROVE  UNCHANGED <<ChannelQueue, wire, ChannelStatus>>
  BY DEF ChannelQueue, ChannelStatus

(* Every step of the implementation is a step of the channel or stutters.   *)
LEMMA StepImplements ==
    ASSUME RefInv, [Next]_vars
    PROVE  Channel!ChanNext \/ UNCHANGED <<ChannelQueue, wire, ChannelStatus>>
  <1> USE DEF bufVars, ownVars, wrtVars
  <1> DEFINE Same == /\ InFlight' = InFlight /\ sendbuf' = sendbuf
                     /\ wire' = wire /\ failed' = failed
  <1>1. CASE ClearBuf
    <2>1. wire' = wire /\ failed' = failed
      BY <1>1 DEF ClearBuf
    <2>2. ChannelQueue' = ChannelQueue
      BY <1>1, ClearBufStutters
    <2>3. QED  BY <2>1, <2>2 DEF ChannelStatus
  <1>2. CASE SenderUnlock
    <2>1. Same
      BY <1>2 DEF SenderUnlock, InFlight
    <2>2. QED  BY <2>1, Stutters
  <1>3. CASE SendOk
    BY <1>3, SendTransmits DEF Channel!ChanNext
  <1>4. CASE SendBreaks
    BY <1>4, SendFailsBreaks DEF SendBreaks, Channel!ChanNext
  <1>5. ASSUME NEW w \in Writers, WriterAppend(w)
        PROVE  Channel!ChanNext
    BY <1>5, AppendSubmits DEF Channel!ChanNext
  <1>6. CASE TouchFreed
    <2>1. sender \notin {"unlock", "send"}
      BY <1>6 DEF TouchFreed, Alive, RefInv, ReplyInv, ExitInv
    <2>2. Same
      BY <2>1, <1>6 DEF TouchFreed, InFlight
    <2>3. QED  BY <2>2, Stutters
  <1>7. CASE TestExit \/ SenderLock \/ CopyBuf \/ FlagFailure \/ Sleep \/ FlagExit
    <2>1. Same
      BY <1>7 DEF TestExit, SenderLock, CopyBuf, FlagFailure, Sleep, FlagExit, InFlight
    <2>2. QED  BY <2>1, Stutters
  <1>8. ASSUME NEW w \in Writers, WriterLock(w) \/ WriterUnlock(w)
        PROVE  UNCHANGED <<ChannelQueue, wire, ChannelStatus>>
    <2>1. Same
      BY <1>8 DEF WriterLock, WriterUnlock, InFlight
    <2>2. QED  BY <2>1, Stutters
  <1>9. CASE OwnerNext
    <2>1. Same
      BY <1>9 DEF OwnerNext, SetConn, EndConnection, DtorTest, DtorSet, DtorReturn,
         InFlight
    <2>2. QED  BY <2>1, Stutters
  <1>10. CASE PeerStalls \/ UNCHANGED vars
    <2>1. Same
      BY <1>10 DEF PeerStalls, vars, InFlight
    <2>2. QED  BY <2>1, Stutters
  <1>11. QED
    BY <1>1, <1>2, <1>3, <1>4, <1>5, <1>6, <1>7, <1>8, <1>9, <1>10
       DEF Next, SenderNext, WriterNext

(* The reply buffer of http1.cc is the channel the handlers are promised.   *)
THEOREM SenderImplementsChannel == Spec => ImplementsChannel
  <1>1. Init => Channel!ChanInit
    <2> SUFFICES ASSUME Init PROVE Channel!ChanInit
      OBVIOUS
    <2>1. InFlight \o sendbuf = <<>>
      BY EmptySeq, ConcatEmptySeq DEF Init, InFlight
    <2>2. QED  BY <2>1 DEF Init, Channel!ChanInit
  <1>2. RefInv /\ [Next]_vars => [Channel!ChanNext]_(Channel!chanVars)
    BY StepImplements DEF Channel!chanVars, ChannelQueue, ChannelStatus
  <1>3. QED
    BY <1>1, <1>2, RefInvAlways, PTL
       DEF Spec, ImplementsChannel, Channel!ChanSpec
=============================================================================
