----------------------------- MODULE PadpProofs -----------------------------
(***************************************************************************)
(* Proofs about Padp, for every value of its constants.                    *)
(***************************************************************************)
EXTENDS Padp, TLAPS

-----------------------------------------------------------------------------
(* Frames and queues. *)

(* Putting a frame into a queue of frames leaves a queue of frames. *)
LEMMA PutType ==
  ASSUME NEW S, NEW q \in Seq(S), NEW p \in S
  PROVE  Put(q, p) \in Seq(S)
BY DEF Put

(* Reading the front frame leaves a queue, and the frame is one of it. *)
LEMMA FirstType ==
  ASSUME NEW S, NEW q \in Seq(S), NEW p \in First(q)
  PROVE  p \in S /\ q # <<>> /\ p = Head(q) /\ Tail(q) \in Seq(S) /\ p = q[1] /\ Len(q) >= 1
<1>1. q # <<>> /\ p = Head(q)
  BY DEF First
<1>2. Len(q) >= 1
  BY <1>1
<1>. QED
  BY <1>1, <1>2

(* The header of the i-th of n fragments. *)
LEMMA HeaderType ==
  ASSUME NEW t \in Txids, NEW i \in Nat, NEW n \in Nat
  PROVE  Header(t, i, n) \in Headers
BY DEF Header, Headers

LEMMA DataType ==
  ASSUME NEW t \in Txids, NEW i \in Nat, NEW n \in Nat, NEW k \in 0..MaxCalls
  PROVE  Data(t, i, n, k) \in Frames
BY HeaderType DEF Data, Frame, Frames

LEMMA AckType ==
  ASSUME NEW p \in Frames
  PROVE  AckOf(p) \in Frames /\ [AckOf(p) EXCEPT !.mem = TRUE] \in Frames
BY DEF AckOf, Frame, Frames

LEMMA OffsetType == ASSUME NEW p \in Frames PROVE Offset(p) \in Nat
BY DEF Offset, Frames, Headers

LEMMA CallsAreNat == \A c \in 0..MaxCalls : c \in Nat
BY PadpAssumption

(* The ids stay in 1..TxidWrap, and an id differs from the next two. *)
LEMMA NextTxidType ==
  ASSUME NEW t \in Txids
  PROVE  NextTxid(t) \in 1..TxidWrap /\ NextTxid(t) \in Txids
BY PadpAssumption DEF NextTxid, Txids

LEMMA TxTxidType ==
  ASSUME txid \in Txids, nextTxid \in Txids
  PROVE  TxTxid \in Txids
BY NextTxidType DEF TxTxid

-----------------------------------------------------------------------------
(* Types. *)

LEMMA InitType == Init => TypeOK
<1>. SUFFICES ASSUME Init PROVE TypeOK
  OBVIOUS
<1>. USE PadpAssumption
<1>1. NoAck \in Headers /\ Header(1, 0, 1) \in Headers
  <2>1. 0 \in Txids /\ 1 \in Txids
    BY DEF Txids
  <2>. QED
    BY <2>1, HeaderType DEF NoAck
<1>2. execs \in Counts /\ used \in Budgets /\ ids \in Ids
  BY DEF Init, Counts, Budgets, Ids, Txids
<1>3. rxbuf \in Seq(Pieces) /\ toDev \in Seq(Frames) /\ toHost \in Seq(Frames)
  BY DEF Init
<1>4. /\ txid \in Txids /\ nextTxid \in Txids
      /\ devTxid \in Txids /\ retries \in 0..TxRetries
      /\ call \in 0..MaxCalls /\ devCall \in 0..MaxCalls
      /\ devTries \in 0..DevTries
  BY DEF Init, Txids
<1>5. lastAck \in Headers
  BY <1>1 DEF Init
<1>. HIDE PadpAssumption
<1>. QED
  BY <1>2, <1>3, <1>4, <1>5 DEF Init, TypeOK

LEMMA TxAgainType ==
  ASSUME TypeOK, pc = "txWait", NEW line \in Seq(Frames), TxAgain(line)
  PROVE  /\ pc' \in {"idle", "txWait"} /\ conn' \in {"ACCEPT", "BREAK"}
         /\ retries' \in 0..TxRetries /\ stuck' \in BOOLEAN
         /\ outcome' \in {"none", "ok", "failed", "timeout", "broken"}
         /\ toDev' \in Seq(Frames)
<1>1. Data(txid, sent, reqLen, call) \in Frames
  BY DataType DEF TypeOK
<1>2. Put(line, Data(txid, sent, reqLen, call)) \in Seq(Frames)
  BY <1>1, PutType
<1>3. retries' \in 0..TxRetries
  BY PadpAssumption DEF TypeOK, TxAgain, RetriesLeft
<1>t. conn \in {"ACCEPT", "BREAK"}
      /\ outcome \in {"none", "ok", "failed", "timeout", "broken"}
  BY DEF TypeOK
<1>4. CASE retries = 1
  BY <1>3, <1>4 DEF TypeOK, TxAgain, Return
<1>5. CASE retries > 1
  <2>1. /\ stuck' = FALSE /\ UNCHANGED <<pc, outcome, conn>>
        /\ toDev' = Put(line, Data(txid, sent, reqLen, call))
    BY <1>5 DEF TxAgain, Resent
  <2>. QED
    BY <1>2, <1>3, <1>t, <2>1
<1>. QED
  BY <1>4, <1>5 DEF TxAgain

(* Each read of padp_tx and padp_rx leaves the variables in their types. *)
LEMMA HostReadsType == TypeOK /\ HostReads => TypeOK'
<1>. SUFFICES ASSUME TypeOK, NEW p \in First(toHost), toHost' = Tail(toHost),
                     \/ TxSwallow \/ TxTickle(p) \/ TxMissingAck(p) \/ TxAck(p)
                     \/ TxFail(p) \/ TxRepeat(p)
                     \/ RxAccept(p) \/ RxMemErr(p) \/ RxWrong(p)
              PROVE  TypeOK'
  BY DEF HostReads
<1>. USE PadpAssumption
<1>0. p \in Frames /\ toHost' \in Seq(Frames)
  BY FirstType DEF TypeOK
<1>1. CASE TxSwallow
  BY <1>0, <1>1 DEF TxSwallow, TypeOK, hostVars, devVars
<1>2. CASE TxTickle(p)
  BY <1>0, <1>2 DEF TxTickle, TypeOK, devVars
<1>3. CASE TxMissingAck(p)
  BY <1>0, <1>3, NextTxidType DEF TxMissingAck, TxDone, TypeOK, devVars
<1>4. CASE TxAck(p)
  <2>1. CASE TxDone
    BY <1>0, <1>4, <2>1, NextTxidType DEF TxAck, TxDone, TypeOK, devVars
  <2>2. CASE ~TxDone
    <3>1. Put(toDev, Data(txid, sent + 1, reqLen, call)) \in Seq(Frames)
      BY DataType, PutType DEF TypeOK
    <3>. QED
      BY <1>0, <1>4, <2>2, <3>1 DEF TxAck, TypeOK, devVars
  <2>. QED
    BY <2>1, <2>2
<1>5. CASE TxFail(p)
  BY <1>0, <1>5 DEF TxFail, Return, TypeOK, devVars
<1>6. CASE TxRepeat(p)
  <2>1. Put(toDev, AckOf(p)) \in Seq(Frames)
    BY <1>0, AckType, PutType DEF TypeOK
  <2>. QED
    BY <1>0, <1>6, <2>1, TxAgainType
    DEF TxRepeat, TxReads, TxAgain, TypeOK, devVars
<1>7. CASE RxAccept(p)
  <2>1. Put(toDev, AckOf(p)) \in Seq(Frames)
    BY <1>0, AckType, PutType DEF TypeOK
  <2>2. [call |-> p.call, off |-> Offset(p)] \in Pieces
    BY <1>0, OffsetType DEF Frames, Pieces
  <2>3. rxbuf' \in Seq(Pieces)
    BY <1>7, <2>2 DEF RxAccept, Acked, TypeOK
  <2>4. p.hdr \in Headers
    BY <1>0 DEF Frames
  <2>. QED
    BY <1>0, <1>7, <2>1, <2>3, <2>4 DEF RxAccept, EndsResponse, Acked, Return, TypeOK, devVars
<1>8. CASE RxMemErr(p)
  BY <1>0, <1>8 DEF RxMemErr, Return, TypeOK, devVars
<1>9. CASE RxWrong(p)
  BY <1>0, <1>9 DEF RxWrong, Return, TypeOK, devVars
<1>. QED
  BY <1>1, <1>2, <1>3, <1>4, <1>5, <1>6, <1>7, <1>8, <1>9

(* Spending from a budget stays within it. *)
LEMMA SpendType ==
  ASSUME TypeOK,
         \/ Spend("losses", MaxLosses) \/ Spend("tickles", MaxTickles)
         \/ Spend("memerrs", MaxMemErrs)
  PROVE  used' \in Budgets
<1>1. /\ used \in Budgets
      /\ MaxLosses \in Nat /\ MaxTickles \in Nat /\ MaxMemErrs \in Nat
  BY PadpAssumption DEF TypeOK
<1>2. CASE Spend("losses", MaxLosses)
  BY <1>1, <1>2 DEF Spend, Budgets
<1>3. CASE Spend("tickles", MaxTickles)
  BY <1>1, <1>3 DEF Spend, Budgets
<1>4. CASE Spend("memerrs", MaxMemErrs)
  BY <1>1, <1>4 DEF Spend, Budgets
<1>. QED
  BY <1>2, <1>3, <1>4

LEMMA DevReadsType == TypeOK /\ DevReads => TypeOK'
<1>. SUFFICES ASSUME TypeOK, NEW p \in First(toDev), toDev' = Tail(toDev),
                     \/ DevAccept(p) \/ DevMemErr(p) \/ DevRepeatAck(p)
                     \/ DevIgnore(p) \/ DevGetsAck(p)
              PROVE  TypeOK'
  BY DEF DevReads
<1>. USE PadpAssumption
<1>0. p \in Frames /\ toDev' \in Seq(Frames)
  BY FirstType DEF TypeOK
<1>a. Put(toHost, AckOf(p)) \in Seq(Frames)
      /\ Put(toHost, [AckOf(p) EXCEPT !.mem = TRUE]) \in Seq(Frames)
  BY <1>0, AckType, PutType DEF TypeOK
<1>1. CASE DevAccept(p)
  <2>1. p.hdr.txid \in Txids /\ p.call \in 0..MaxCalls
    BY <1>0 DEF Frames, Headers
  <2>2. devGot' \in Nat
    BY <1>0, <1>1, OffsetType DEF DevAccept
  <2>t. execs \in [1..MaxCalls -> Nat]
    BY DEF TypeOK, Counts
  <2>3. execs' \in Counts
    <3>1. execs' = execs \/ execs' = [execs EXCEPT ![p.call] = @ + 1]
      BY <1>1 DEF DevAccept
    <3> QED BY <2>t, <3>1 DEF Counts
  <2>. QED
    BY <1>0, <1>a, <1>1, <2>1, <2>2, <2>3 DEF DevAccept, TypeOK, hostVars
<1>2. CASE DevMemErr(p)
  BY <1>0, <1>a, <1>2, SpendType DEF DevMemErr, TypeOK, hostVars, devVars
<1>3. CASE DevRepeatAck(p)
  BY <1>0, <1>a, <1>3 DEF DevRepeatAck, TypeOK, hostVars, devVars
<1>4. CASE DevIgnore(p)
  BY <1>0, <1>4 DEF DevIgnore, TypeOK, hostVars, devVars
<1>5. CASE DevGetsAck(p)
  <2>1. Put(toHost, DevFrag(devOff + 1, devLen)) \in Seq(Frames)
    BY DataType, PutType DEF DevFrag, TypeOK
  <2>. QED
    BY <1>0, <1>5, <2>1 DEF DevGetsAck, TypeOK, hostVars
<1>. QED
  BY <1>1, <1>2, <1>3, <1>4, <1>5

LEMMA BeginType == TypeOK /\ Begin => TypeOK'
<1>. SUFFICES ASSUME TypeOK, NEW n \in ReqFrags, PadpTx(n) PROVE TypeOK'
  BY DEF Begin
<1>. USE PadpAssumption
<1>1. n \in Nat /\ TxTxid \in Txids
  BY TxTxidType DEF TypeOK
<1>2. call + 1 \in 0..MaxCalls
  BY DEF PadpTx, TypeOK
<1>i. ids' \in Ids
  BY <1>1 DEF PadpTx, TypeOK, Ids
<1>3. Put(toDev, Data(TxTxid, 0, n, call + 1)) \in Seq(Frames)
  BY <1>1, <1>2, DataType, PutType DEF TypeOK
<1>4. toHost' \in Seq(Frames)
  <2>1. PICK k \in 0..(IF FlushDiscards THEN Len(toHost) ELSE 0) :
          toHost' = SubSeq(toHost, k + 1, Len(toHost))
    BY DEF PadpTx
  <2>2. k \in 0..Len(toHost)
    BY <2>1 DEF TypeOK
  <2>. QED
    BY <2>1, <2>2 DEF TypeOK
<1>5. rxbuf' \in Seq(Pieces) /\ retries' \in 0..TxRetries
  BY DEF PadpTx
<1>. HIDE PadpAssumption
<1>. QED
  BY <1>1, <1>2, <1>i, <1>3, <1>4, <1>5 DEF PadpTx, TypeOK, devVars

LEMMA DeviceType ==
  TypeOK /\ (DevReply \/ DevResend \/ DevGiveUp \/ DevTickle) => TypeOK'
<1>. SUFFICES ASSUME TypeOK, DevReply \/ DevResend \/ DevGiveUp \/ DevTickle
              PROVE  TypeOK'
  OBVIOUS
<1>. USE PadpAssumption
<1>0. \A i, n \in Nat : Put(toHost, DevFrag(i, n)) \in Seq(Frames)
  BY DataType, PutType DEF DevFrag, TypeOK
<1>1. CASE DevReply
  <2>1. \A n \in RespFrags : n \in Nat
    OBVIOUS
  <2>. QED
    BY <1>0, <1>1, <2>1 DEF DevReply, TypeOK, hostVars
<1>2. CASE DevResend
  BY <1>0, <1>2 DEF DevResend, TypeOK, hostVars
<1>3. CASE DevGiveUp
  BY <1>3 DEF DevGiveUp, TypeOK, hostVars
<1>4. CASE DevTickle
  <2>1. Frame("tickle", FALSE, NoAck, devCall) \in Frames
    BY HeaderType DEF NoAck, Frame, Frames, TypeOK, Txids
  <2>2. Put(toHost, Frame("tickle", FALSE, NoAck, devCall)) \in Seq(Frames)
    BY <2>1, PutType DEF TypeOK
  <2>. QED
    BY <1>4, <2>2, SpendType DEF DevTickle, TypeOK, hostVars, devVars
<1>. QED
  BY <1>1, <1>2, <1>3, <1>4

LEMMA TimersType == TypeOK /\ (TxTimeout \/ RxSilence) => TypeOK'
<1>. SUFFICES ASSUME TypeOK, TxTimeout \/ RxSilence PROVE TypeOK'
  OBVIOUS
<1>1. CASE TxTimeout
  <2>1. toDev \in Seq(Frames)
    BY DEF TypeOK
  <2>. QED
    BY <1>1, <2>1, TxAgainType DEF TxTimeout, TxAgain, TypeOK, devVars
<1>2. CASE RxSilence
  BY <1>2 DEF RxSilence, Return, TypeOK, devVars
<1>. QED
  BY <1>1, <1>2

LEMMA LineType == TypeOK /\ Line => TypeOK'
<1>. SUFFICES ASSUME TypeOK, Line PROVE TypeOK'
  OBVIOUS
<1>1. CASE LoseToDev
  BY <1>1, SpendType DEF LoseToDev, TypeOK, hostVars, devVars
<1>2. CASE LoseToHost
  BY <1>2, SpendType DEF LoseToHost, TypeOK, hostVars, devVars
<1>3. CASE TxDamaged
  <2>1. toDev \in Seq(Frames) /\ toHost' \in Seq(Frames)
    BY <1>3 DEF TxDamaged, TypeOK
  <2>. QED
    BY <1>3, <2>1, TxAgainType, SpendType DEF TxDamaged, TxAgain, TypeOK, devVars
<1>. QED
  BY <1>1, <1>2, <1>3 DEF Line

LEMMA NextType == TypeOK /\ [Next]_vars => TypeOK'
<1>. SUFFICES ASSUME TypeOK, [Next]_vars PROVE TypeOK'
  OBVIOUS
<1>1. CASE UNCHANGED vars
  BY <1>1 DEF TypeOK, vars, hostVars, devVars
<1>2. CASE Finished
  BY <1>2 DEF Finished, TypeOK, vars, hostVars, devVars
<1>. QED
  BY <1>1, <1>2, BeginType, HostReadsType, DevReadsType, DeviceType, TimersType,
     LineType DEF Next

(* The variables of the packet layer stay in their types. *)
THEOREM TypeCorrect == Spec => []TypeOK
BY InitType, NextType, PTL DEF Spec

-----------------------------------------------------------------------------
(* The line, call by call.                                                 *)

(* Each frame of a queue with one more is one of the queue or the new one. *)
LEMMA PutIndex ==
  ASSUME NEW S, NEW q \in Seq(S), NEW p \in S, NEW i \in 1..Len(Put(q, p))
  PROVE  \/ i \in 1..Len(q) /\ Put(q, p)[i] = q[i]
         \/ i = Len(q) + 1 /\ Put(q, p)[i] = p
BY DEF Put

LEMMA TailIndex ==
  ASSUME NEW S, NEW q \in Seq(S), q # <<>>, NEW i \in 1..Len(Tail(q))
  PROVE  i + 1 \in 1..Len(q) /\ Tail(q)[i] = q[i + 1]
OBVIOUS

(* The frames towards the device stay in order when a frame of the current *)
(* call is put behind them, or the first one is taken.                     *)
LEMMA ToDevPut ==
  ASSUME TypeOK, NEW q \in Seq(Frames), ToDevOk(q), NEW p \in Frames,
         DevFrameOk(p), p.kind = "data" => p.call = call
  PROVE  ToDevOk(Put(q, p))
<1>1. \A i \in 1..Len(Put(q, p)) : DevFrameOk(Put(q, p)[i])
  BY PutIndex DEF ToDevOk
<1>2. ASSUME NEW i \in 1..Len(Put(q, p)), NEW j \in 1..Len(Put(q, p)), i < j,
             Put(q, p)[i].kind = "data", Put(q, p)[j].kind = "data"
      PROVE  Put(q, p)[i].call <= Put(q, p)[j].call
  <2>1. i \in 1..Len(q) /\ Put(q, p)[i] = q[i]
    BY <1>2, PutIndex
  <2>2. CASE j \in 1..Len(q) /\ Put(q, p)[j] = q[j]
    BY <1>2, <2>1, <2>2 DEF ToDevOk
  <2>3. CASE j = Len(q) + 1 /\ Put(q, p)[j] = p
    BY <1>2, <2>1, <2>3 DEF ToDevOk, DevFrameOk
  <2>. QED
    BY <2>2, <2>3, PutIndex
<1>. QED
  BY <1>1, <1>2 DEF ToDevOk

LEMMA ToDevTail ==
  ASSUME TypeOK, NEW q \in Seq(Frames), q # <<>>, ToDevOk(q)
  PROVE  ToDevOk(Tail(q))
<1>1. \A i \in 1..Len(Tail(q)) : DevFrameOk(Tail(q)[i])
  BY TailIndex DEF ToDevOk
<1>2. ASSUME NEW i \in 1..Len(Tail(q)), NEW j \in 1..Len(Tail(q)), i < j,
             Tail(q)[i].kind = "data", Tail(q)[j].kind = "data"
      PROVE  Tail(q)[i].call <= Tail(q)[j].call
  <2>1. /\ i + 1 \in 1..Len(q) /\ Tail(q)[i] = q[i + 1]
        /\ j + 1 \in 1..Len(q) /\ Tail(q)[j] = q[j + 1]
    BY TailIndex
  <2>. QED
    BY <1>2, <2>1 DEF ToDevOk
<1>. QED
  BY <1>1, <1>2 DEF ToDevOk

(* Likewise for the frames towards the host, which the device sends for    *)
(* the request it works on or for the one it takes next.                   *)
LEMMA ToHostPut ==
  ASSUME TypeOK, NEW q \in Seq(Frames), ToHostOk(q), NEW p \in Frames,
         HostFrameOk(p), p.kind # "tickle" => devCall <= p.call
  PROVE  ToHostOk(Put(q, p))
<1>1. \A i \in 1..Len(Put(q, p)) : HostFrameOk(Put(q, p)[i])
  BY PutIndex DEF ToHostOk
<1>2. ASSUME NEW i \in 1..Len(Put(q, p)), NEW j \in 1..Len(Put(q, p)), i < j,
             Put(q, p)[i].kind # "tickle", Put(q, p)[j].kind # "tickle",
             ~Put(q, p)[i].mem
      PROVE  Put(q, p)[i].call <= Put(q, p)[j].call
  <2>1. i \in 1..Len(q) /\ Put(q, p)[i] = q[i]
    BY <1>2, PutIndex
  <2>2. CASE j \in 1..Len(q) /\ Put(q, p)[j] = q[j]
    BY <1>2, <2>1, <2>2 DEF ToHostOk
  <2>3. CASE j = Len(q) + 1 /\ Put(q, p)[j] = p
    <3>1. q[i].call <= devCall
      BY <1>2, <2>1 DEF ToHostOk, HostFrameOk
    <3>2. devCall <= p.call
      BY <1>2, <2>3
    <3>3. q[i].call \in Nat /\ p.call \in Nat /\ devCall \in Nat
      <4>1. q[i] \in Frames
        BY <2>1
      <4>. QED
        BY CallsAreNat, <4>1 DEF Frames, TypeOK
    <3>. QED
      BY <2>1, <2>3, <3>1, <3>2, <3>3
  <2>. QED
    BY <2>2, <2>3, PutIndex
<1>. QED
  BY <1>1, <1>2 DEF ToHostOk

LEMMA ToHostTail ==
  ASSUME TypeOK, NEW q \in Seq(Frames), q # <<>>, ToHostOk(q)
  PROVE  ToHostOk(Tail(q))
<1>1. \A i \in 1..Len(Tail(q)) : HostFrameOk(Tail(q)[i])
  BY TailIndex DEF ToHostOk
<1>2. ASSUME NEW i \in 1..Len(Tail(q)), NEW j \in 1..Len(Tail(q)), i < j,
             Tail(q)[i].kind # "tickle", Tail(q)[j].kind # "tickle", ~Tail(q)[i].mem
      PROVE  Tail(q)[i].call <= Tail(q)[j].call
  <2>1. /\ i + 1 \in 1..Len(q) /\ Tail(q)[i] = q[i + 1]
        /\ j + 1 \in 1..Len(q) /\ Tail(q)[j] = q[j + 1]
    BY TailIndex
  <2>. QED
    BY <1>2, <2>1 DEF ToHostOk
<1>. QED
  BY <1>1, <1>2 DEF ToHostOk

-----------------------------------------------------------------------------
(* The order invariant.  It needs an application that stops at the first   *)
(* call that fails; one that goes on may meet frames of older calls.       *)

(* How the ids of two calls in a row are apart. *)
LEMMA IdsApart ==
  ASSUME NEW t \in 1..TxidWrap
  PROVE  NextTxid(NextTxid(t)) # t
BY PadpAssumption DEF NextTxid

LEMMA InitOrder == Init => OrderInv
BY PadpAssumption DEF Init, OrderInv, IdsInv, DevInv, ToDevOk, ToHostOk, Receiving

LEMMA NextOrSame ==
  ASSUME NEW a \in Nat, NEW b \in Nat, NEW c \in Nat, a <= b, b <= c, c <= a + 1
  PROVE  b = a \/ (b = a + 1 /\ b = c)
OBVIOUS

(* A frame the device can tell apart from its request belongs to the next  *)
(* call, and one it cannot belongs to the same call.                       *)
LEMMA DevFrameCall ==
  ASSUME TypeOK, OrderInv, NEW p \in First(toDev), p.kind = "data"
  PROVE  /\ p.call \in 1..MaxCalls /\ p.call <= call /\ p.hdr.txid = ids[p.call]
         /\ p.hdr.txid # devTxid => p.call = devCall + 1 /\ p.call = call
         /\ p.hdr.txid = devTxid => p.call = devCall
<1>1. DevFrameOk(p)
  BY FirstType DEF OrderInv, ToDevOk, TypeOK
<1>2. call \in Nat /\ devCall \in Nat /\ p.call \in 0..MaxCalls /\ p.call \in Nat
  <2>1. p \in Frames
    BY FirstType DEF TypeOK
  <2>. QED
    BY <2>1, CallsAreNat DEF TypeOK, Frames
<1>3. /\ p.call >= 1 /\ devCall <= p.call /\ p.call <= call
      /\ p.hdr.txid = ids[p.call] /\ call <= devCall + 1
      /\ devTxid = IF devCall = 0 THEN 0 ELSE ids[devCall]
      /\ call >= 2 => ids[call] # ids[call - 1]
      /\ call >= 1 => ids[call] \in 1..TxidWrap
  BY <1>1 DEF DevFrameOk, OrderInv, DevInv, IdsInv
<1>4. p.call = devCall \/ (p.call = devCall + 1 /\ p.call = call)
  <2>1. devCall <= p.call /\ p.call <= call /\ call <= devCall + 1
    BY <1>3
  <2>. QED
    BY <1>2, <2>1, NextOrSame
<1>5. p.call = devCall => p.hdr.txid = devTxid
  BY <1>2, <1>3
<1>6. ASSUME p.call = devCall + 1, p.call = call
      PROVE  p.hdr.txid # devTxid
  <2>1. CASE devCall = 0
    BY <1>2, <1>3, <1>6, <2>1, PadpAssumption
  <2>2. CASE devCall # 0
    <3>1. call >= 2 /\ call - 1 = devCall
      BY <1>2, <1>6, <2>2, PadpAssumption
    <3>. QED
      BY <1>3, <1>6, <2>2, <3>1
  <2>. QED
    BY <2>1, <2>2
<1>7. p.call \in 1..MaxCalls
  BY <1>2, <1>3, PadpAssumption
<1>. QED
  BY <1>3, <1>4, <1>5, <1>6, <1>7

(* A frame with the id of the call under way belongs to that call. *)
LEMMA HostFrameCall ==
  ASSUME TypeOK, OrderInv, NEW p \in First(toHost), p.kind # "tickle",
         pc # "idle", p.hdr.txid = txid
  PROVE  p.call = call /\ call \in 1..MaxCalls
<1>1. HostFrameOk(p)
  BY FirstType DEF OrderInv, ToHostOk, TypeOK
<1>2. call \in 0..MaxCalls /\ call \in Nat /\ p.call \in Nat
  <2>1. p \in Frames
    BY FirstType DEF TypeOK
  <2>. QED
    BY <2>1, CallsAreNat DEF TypeOK, Frames
<1>3. /\ p.call >= 1 /\ call <= p.call + 1 /\ p.call <= call
      /\ p.hdr.txid = ids[p.call]
      /\ call >= 2 => ids[call] # ids[call - 1]
      /\ call >= 1 /\ txid = ids[call]
  BY <1>1 DEF HostFrameOk, OrderInv, IdsInv
<1>4. p.call = call \/ (p.call = call - 1 /\ call >= 2)
  BY <1>2, <1>3
<1>5. p.call = call
  BY <1>3, <1>4
<1>. QED
  BY <1>2, <1>3, <1>5

(* A step of the host or of the line that begins and completes no call.    *)
LEMMA QuietStep ==
  ASSUME TypeOK, OrderInv, UNCHANGED <<call, ids, devVars>>,
         outcome' = outcome \/ outcome' # "ok",
         ToDevOk(toDev'), ToHostOk(toHost'), IdsInv'
  PROVE  OrderInv'
<1>1. DevInv'
  BY DEF OrderInv, DevInv, devVars
<1>2. ToDevOk(toDev)'
  BY DEF ToDevOk, DevFrameOk, devVars
<1>3. ToHostOk(toHost)'
  BY DEF ToHostOk, HostFrameOk, devVars
<1>. QED
  BY <1>1, <1>2, <1>3 DEF OrderInv

(* A fragment of the request under way fits behind the line. *)
LEMMA PutRequest ==
  ASSUME TypeOK, OrderInv, pc = "txWait", NEW q \in Seq(Frames), ToDevOk(q),
         NEW i \in Nat
  PROVE  ToDevOk(Put(q, Data(txid, i, reqLen, call)))
<1>1. Data(txid, i, reqLen, call) \in Frames
  BY DataType DEF TypeOK
<1>2. DevFrameOk(Data(txid, i, reqLen, call))
  BY CallsAreNat DEF TypeOK, OrderInv, IdsInv, DevInv, DevFrameOk, Data, Frame, Header
<1>3. Data(txid, i, reqLen, call).call = call
  BY DEF Data, Frame
<1>. QED
  BY <1>1, <1>2, <1>3, ToDevPut

LEMMA PutAck ==
  ASSUME TypeOK, NEW q \in Seq(Frames), ToDevOk(q), NEW p \in Frames
  PROVE  ToDevOk(Put(q, AckOf(p)))
<1>1. DevFrameOk(AckOf(p)) /\ AckOf(p).kind # "data"
  BY DEF DevFrameOk, AckOf, Frame
<1>. QED
  BY <1>1, AckType, ToDevPut

(* Sending the request again, or giving the connection up. *)
LEMMA TxAgainOrder ==
  ASSUME TypeOK, OrderInv, pc = "txWait", NEW line \in Seq(Frames), ToDevOk(line),
         TxAgain(line)
  PROVE  IdsInv' /\ ToDevOk(toDev') /\ (outcome' = outcome \/ outcome' # "ok")
<1>1. CASE retries = 1
  <2>1. /\ pc' = "idle" /\ outcome' = "broken" /\ toDev' = line
        /\ UNCHANGED <<txid, nextTxid, call, ids>>
    BY <1>1 DEF TxAgain, Return
  <2>. QED
    BY <2>1 DEF OrderInv, IdsInv, Receiving
<1>2. CASE retries > 1
  <2>1. /\ UNCHANGED <<pc, outcome, txid, nextTxid, call, ids>>
        /\ toDev' = Put(line, Data(txid, sent, reqLen, call))
    BY <1>2 DEF TxAgain, Resent
  <2>2. ToDevOk(toDev')
    BY <2>1, PutRequest DEF TypeOK
  <2>. QED
    BY <2>1, <2>2 DEF OrderInv, IdsInv, Receiving, NextTxid
<1>. QED
  BY <1>1, <1>2 DEF TxAgain

(* A fragment of the current request that arrives ends a call only with    *)
(* the response to it, and then nothing older is left behind it.           *)
LEMMA AcceptOrder ==
  ASSUME TypeOK, OrderInv, NEW p \in First(toHost), toHost' = Tail(toHost),
         RxAccept(p)
  PROVE  OrderInv'
<1>1. /\ p \in Frames /\ toHost # <<>> /\ p = toHost[1] /\ toDev \in Seq(Frames)
      /\ p.kind = "data" /\ ~p.mem /\ p.hdr.txid = txid
      /\ pc \in {"rxFirst", "rxNext"} /\ pc # "idle" /\ toHost \in Seq(Frames)
  BY FirstType DEF TypeOK, RxAccept, Receiving, IsWanted
<1>2. p.call = call /\ call \in 1..MaxCalls
  BY <1>1, HostFrameCall
<1>3. /\ UNCHANGED <<nextTxid, call, ids, devVars>>
      /\ toDev' = Put(toDev, AckOf(p))
  BY DEF RxAccept, Acked
<1>4. ToDevOk(toDev') /\ ToHostOk(toHost')
  BY <1>1, <1>3, PutAck, ToHostTail DEF OrderInv
<1>5. CASE ~p.hdr.last
  <2>1. pc' = "rxNext" /\ UNCHANGED <<outcome, txid>>
    BY <1>5 DEF RxAccept, EndsResponse
  <2>2. IdsInv'
    BY <1>1, <1>3, <2>1 DEF OrderInv, IdsInv, Receiving, NextTxid
  <2>. QED
    BY <1>3, <1>4, <2>1, <2>2, QuietStep
<1>6. CASE p.hdr.last
  <2>1. pc' = "idle" /\ outcome' = "ok" /\ txid' = nextTxid
    BY <1>6 DEF RxAccept, EndsResponse, Return
  <2>2. IdsInv'
    BY <1>1, <1>3, <2>1 DEF OrderInv, IdsInv, Receiving, NextTxid
  <2>3. devCall = call
    <3>1. HostFrameOk(p)
      BY FirstType DEF OrderInv, ToHostOk, TypeOK
    <3>2. p.call <= devCall /\ devCall <= call
      BY <1>1, <3>1 DEF HostFrameOk, OrderInv, DevInv
    <3>. QED
      BY <1>2, <3>2, CallsAreNat DEF TypeOK
  <2>4. DevInv'
    BY <1>3, <2>1, <2>3 DEF OrderInv, DevInv, devVars
  <2>5. ToDevOk(toDev)'
    BY <1>3, <1>4 DEF ToDevOk, DevFrameOk, devVars
  <2>6. ASSUME NEW i \in 1..Len(Tail(toHost)), Tail(toHost)[i].kind # "tickle"
        PROVE  Tail(toHost)[i].call = call
    <3>1. /\ i + 1 \in 1..Len(toHost) /\ Tail(toHost)[i] = toHost[i + 1]
          /\ 1 \in 1..Len(toHost) /\ 1 < i + 1
      BY <1>1, TailIndex
    <3>2. p.call <= toHost[i + 1].call
      BY <1>1, <2>6, <3>1 DEF OrderInv, ToHostOk
    <3>3. toHost[i + 1].call <= call
      BY <2>6, <3>1 DEF OrderInv, ToHostOk, HostFrameOk
    <3>4. toHost[i + 1].call \in Nat /\ call \in Nat
      <4>1. toHost[i + 1] \in Frames
        BY <1>1, <3>1
      <4>. QED
        BY <4>1, CallsAreNat DEF TypeOK, Frames
    <3>. QED
      BY <1>2, <3>1, <3>2, <3>3, <3>4
  <2>7. ToHostOk(toHost)'
    BY <1>3, <1>4, <2>6 DEF ToHostOk, HostFrameOk, devVars
  <2>. QED
    BY <2>2, <2>4, <2>5, <2>7 DEF OrderInv
<1>. QED
  BY <1>5, <1>6

LEMMA HostReadsOrder == TypeOK /\ OrderInv /\ HostReads => OrderInv'
<1>. SUFFICES ASSUME TypeOK, OrderInv, NEW p \in First(toHost),
                     toHost' = Tail(toHost),
                     \/ TxSwallow \/ TxTickle(p) \/ TxMissingAck(p) \/ TxAck(p)
                     \/ TxFail(p) \/ TxRepeat(p)
                     \/ RxAccept(p) \/ RxMemErr(p) \/ RxWrong(p)
              PROVE  OrderInv'
  BY DEF HostReads
<1>1. /\ p \in Frames /\ ToHostOk(toHost') /\ ToDevOk(toDev)
      /\ toDev \in Seq(Frames)
  BY FirstType, ToHostTail DEF TypeOK, OrderInv
<1>2. CASE TxSwallow \/ TxTickle(p)
  <2>1. UNCHANGED <<pc, txid, nextTxid, outcome, call, ids, toDev, devVars>>
    BY <1>2 DEF TxSwallow, TxTickle, hostVars
  <2>2. IdsInv'
    BY <2>1 DEF OrderInv, IdsInv, Receiving, NextTxid
  <2>. QED
    BY <1>1, <2>1, <2>2, QuietStep
<1>3. CASE TxMissingAck(p)
  <2>1. /\ UNCHANGED <<txid, outcome, call, ids, toDev, devVars>>
        /\ pc = "txWait" /\ pc' = "rxFirst" /\ nextTxid' = NextTxid(txid)
    BY <1>3 DEF TxMissingAck, TxReads, TxDone
  <2>2. IdsInv'
    BY <2>1 DEF OrderInv, IdsInv, Receiving, NextTxid
  <2>. QED
    BY <1>1, <2>1, <2>2, QuietStep
<1>4. CASE TxAck(p)
  <2>0. pc = "txWait" /\ UNCHANGED devVars
    BY <1>4 DEF TxAck, TxReads
  <2>1. CASE TxDone
    <3>1. /\ UNCHANGED <<txid, outcome, call, ids, toDev, devVars>>
          /\ pc' = "rxFirst" /\ nextTxid' = NextTxid(txid)
      BY <2>0, <2>1 DEF TxDone
    <3>2. IdsInv'
      BY <2>0, <3>1 DEF OrderInv, IdsInv, Receiving, NextTxid
    <3>. QED
      BY <1>1, <3>1, <3>2, QuietStep
  <2>2. CASE ~TxDone
    <3>1. /\ UNCHANGED <<pc, txid, nextTxid, outcome, call, ids>>
          /\ toDev' = Put(toDev, Data(txid, sent + 1, reqLen, call))
      BY <1>4, <2>2 DEF TxAck
    <3>2. IdsInv'
      BY <3>1 DEF OrderInv, IdsInv, Receiving, NextTxid
    <3>3. sent + 1 \in Nat
      BY DEF TypeOK
    <3>4. ToDevOk(toDev')
      BY <1>1, <2>0, <3>1, <3>3, PutRequest
    <3>. QED
      BY <1>1, <2>0, <3>1, <3>2, <3>4, QuietStep
  <2>. QED
    BY <2>1, <2>2
<1>5. CASE TxFail(p) \/ RxMemErr(p)
  <2>1. /\ UNCHANGED <<call, ids, toDev, devVars>>
        /\ pc' = "idle" /\ outcome' = "failed"
    BY <1>5 DEF TxFail, RxMemErr, Return
  <2>2. IdsInv'
    BY <2>1 DEF OrderInv, IdsInv, Receiving
  <2>. QED
    BY <1>1, <2>1, <2>2, QuietStep
<1>6. CASE TxRepeat(p)
  <2>1. /\ pc = "txWait" /\ TxAgain(Put(toDev, AckOf(p)))
        /\ UNCHANGED devVars
    BY <1>6 DEF TxRepeat, TxReads
  <2>2. Put(toDev, AckOf(p)) \in Seq(Frames) /\ ToDevOk(Put(toDev, AckOf(p)))
    BY <1>1, AckType, PutType, PutAck
  <2>3. IdsInv' /\ ToDevOk(toDev') /\ (outcome' = outcome \/ outcome' # "ok")
    BY <2>1, <2>2, TxAgainOrder
  <2>4. UNCHANGED <<call, ids>>
    BY <2>1 DEF TxAgain
  <2>. QED
    BY <1>1, <2>1, <2>3, <2>4, QuietStep
<1>7. CASE RxWrong(p)
  <2>1. /\ UNCHANGED <<txid, nextTxid, call, ids, toDev, devVars>>
        /\ \/ UNCHANGED <<pc, outcome>>
           \/ pc' = "idle" /\ outcome' = "broken"
    BY <1>7 DEF RxWrong, Return
  <2>2. IdsInv'
    BY <2>1 DEF OrderInv, IdsInv, Receiving, NextTxid
  <2>. QED
    BY <1>1, <2>1, <2>2, QuietStep
<1>8. CASE RxAccept(p)
  BY <1>8, AcceptOrder
<1>. QED
  BY <1>2, <1>3, <1>4, <1>5, <1>6, <1>7, <1>8

LEMMA TimersOrder == TypeOK /\ OrderInv /\ (TxTimeout \/ RxSilence) => OrderInv'
<1>. SUFFICES ASSUME TypeOK, OrderInv, TxTimeout \/ RxSilence PROVE OrderInv'
  OBVIOUS
<1>0. ToDevOk(toDev) /\ ToHostOk(toHost) /\ toDev \in Seq(Frames)
  BY DEF OrderInv, TypeOK
<1>1. CASE TxTimeout
  <2>1. pc = "txWait" /\ TxAgain(toDev) /\ UNCHANGED <<toHost, devVars>>
    BY <1>1 DEF TxTimeout
  <2>2. IdsInv' /\ ToDevOk(toDev') /\ (outcome' = outcome \/ outcome' # "ok")
    BY <1>0, <2>1, TxAgainOrder
  <2>3. UNCHANGED <<call, ids>>
    BY <2>1 DEF TxAgain
  <2>. QED
    BY <1>0, <2>1, <2>2, <2>3, QuietStep
<1>2. CASE RxSilence
  <2>1. /\ UNCHANGED <<call, ids, toDev, toHost, devVars>>
        /\ pc' = "idle" /\ outcome' = "timeout"
    BY <1>2 DEF RxSilence, Return
  <2>2. IdsInv'
    BY <2>1 DEF OrderInv, IdsInv, Receiving
  <2>. QED
    BY <1>0, <2>1, <2>2, QuietStep
<1>. QED
  BY <1>1, <1>2

LEMMA LineOrder == TypeOK /\ OrderInv /\ Line => OrderInv'
<1>. SUFFICES ASSUME TypeOK, OrderInv, Line PROVE OrderInv'
  OBVIOUS
<1>0. /\ ToDevOk(toDev) /\ ToHostOk(toHost)
      /\ toDev \in Seq(Frames) /\ toHost \in Seq(Frames)
  BY DEF OrderInv, TypeOK
<1>1. CASE LoseToDev \/ LoseToHost
  <2>1. /\ UNCHANGED <<pc, txid, nextTxid, outcome, call, ids, devVars>>
        /\ ToDevOk(toDev') /\ ToHostOk(toHost')
    BY <1>0, <1>1, ToDevTail, ToHostTail DEF LoseToDev, LoseToHost, hostVars
  <2>2. IdsInv'
    BY <2>1 DEF OrderInv, IdsInv, Receiving, NextTxid
  <2>. QED
    BY <2>1, <2>2, QuietStep
<1>2. CASE TxDamaged
  <2>1. pc = "txWait" /\ TxAgain(toDev) /\ UNCHANGED devVars /\ ToHostOk(toHost')
    BY <1>0, <1>2, ToHostTail DEF TxDamaged
  <2>2. IdsInv' /\ ToDevOk(toDev') /\ (outcome' = outcome \/ outcome' # "ok")
    BY <1>0, <2>1, TxAgainOrder
  <2>3. UNCHANGED <<call, ids>>
    BY <2>1 DEF TxAgain
  <2>. QED
    BY <2>1, <2>2, <2>3, QuietStep
<1>. QED
  BY <1>1, <1>2 DEF Line

-----------------------------------------------------------------------------
(* The steps of the device. *)

(* The device takes the front frame and moves on to its call, or stays.    *)
LEMMA ToDevShrinks ==
  ASSUME TypeOK, OrderInv, NEW p \in First(toDev), toDev' = Tail(toDev),
         UNCHANGED <<call, ids>>,
         devCall' = devCall \/ (p.kind = "data" /\ devCall' = p.call)
  PROVE  ToDevOk(toDev)'
<1>1. toDev # <<>> /\ p = toDev[1] /\ toDev \in Seq(Frames) /\ ToDevOk(toDev)
  BY FirstType DEF TypeOK, OrderInv
<1>2. ToDevOk(Tail(toDev))
  BY <1>1, ToDevTail
<1>3. ASSUME NEW i \in 1..Len(Tail(toDev)), Tail(toDev)[i].kind = "data"
      PROVE  devCall' <= Tail(toDev)[i].call
  <2>1. devCall <= Tail(toDev)[i].call
    BY <1>2, <1>3 DEF ToDevOk, DevFrameOk
  <2>2. /\ i + 1 \in 1..Len(toDev) /\ Tail(toDev)[i] = toDev[i + 1]
        /\ 1 \in 1..Len(toDev) /\ 1 < i + 1
    BY <1>1, TailIndex
  <2>3. p.kind = "data" => p.call <= Tail(toDev)[i].call
    BY <1>1, <1>3, <2>2 DEF ToDevOk
  <2>. QED
    BY <2>1, <2>3
<1>. QED
  BY <1>2, <1>3 DEF ToDevOk, DevFrameOk

(* The device puts a frame of its request on the line, having perhaps      *)
(* carried that request out.                                               *)
LEMMA ToHostGrows ==
  ASSUME TypeOK, OrderInv, NEW p \in Frames, toHost' = Put(toHost, p),
         UNCHANGED <<call, ids, outcome>>, devCall' \in 0..MaxCalls,
         devCall <= devCall',
         \A k \in 1..MaxCalls : execs[k] = 1 => execs'[k] = 1,
         HostFrameOk(p)', p.kind # "tickle" => devCall <= p.call
  PROVE  ToHostOk(toHost)'
<1>0. toHost \in Seq(Frames) /\ ToHostOk(toHost)
  BY DEF TypeOK, OrderInv
<1>1. ASSUME NEW x \in Frames, HostFrameOk(x) PROVE HostFrameOk(x)'
  <2>1. /\ x.call \in Nat /\ x.call \in 0..MaxCalls
        /\ devCall \in Nat /\ devCall' \in Nat
    BY CallsAreNat DEF TypeOK, Frames
  <2>2. x.call >= 1 => x.call \in 1..MaxCalls
    BY <2>1, PadpAssumption
  <2>3. x.call <= devCall => x.call <= devCall'
    BY <2>1
  <2>. QED
    BY <1>1, <2>1, <2>2, <2>3 DEF HostFrameOk
<1>2. ASSUME NEW i \in 1..Len(toHost') PROVE HostFrameOk(toHost[i])'
  <2>1. PICK x : x = toHost'[i]
    OBVIOUS
  <2>2. (i \in 1..Len(toHost) /\ x = toHost[i]) \/ x = p
    BY <1>0, <2>1, PutIndex
  <2>3. CASE i \in 1..Len(toHost) /\ x = toHost[i]
    <3>1. x \in Frames /\ HostFrameOk(x)
      BY <1>0, <2>3 DEF ToHostOk
    <3>2. HostFrameOk(x)'
      BY <1>1, <3>1
    <3>. QED
      BY <2>1, <3>2 DEF HostFrameOk
  <2>4. CASE x = p
    BY <2>1, <2>4 DEF HostFrameOk
  <2>. QED
    BY <2>2, <2>3, <2>4
<1>3. ASSUME NEW i \in 1..Len(Put(toHost, p)), NEW j \in 1..Len(Put(toHost, p)), i < j,
             Put(toHost, p)[i].kind # "tickle", Put(toHost, p)[j].kind # "tickle",
             ~Put(toHost, p)[i].mem
      PROVE  Put(toHost, p)[i].call <= Put(toHost, p)[j].call
  <2>1. i \in 1..Len(toHost) /\ Put(toHost, p)[i] = toHost[i]
    BY <1>0, <1>3, PutIndex
  <2>2. CASE j \in 1..Len(toHost) /\ Put(toHost, p)[j] = toHost[j]
    BY <1>0, <1>3, <2>1, <2>2 DEF ToHostOk
  <2>3. CASE j = Len(toHost) + 1 /\ Put(toHost, p)[j] = p
    <3>1. toHost[i].call <= devCall
      BY <1>0, <1>3, <2>1 DEF ToHostOk, HostFrameOk
    <3>2. devCall <= p.call
      BY <1>3, <2>3
    <3>3. toHost[i].call \in Nat /\ p.call \in Nat /\ devCall \in Nat
      <4>1. toHost[i] \in Frames
        BY <1>0, <2>1
      <4>. QED
        BY CallsAreNat, <4>1 DEF Frames, TypeOK
    <3>. QED
      BY <2>1, <2>3, <3>1, <3>2, <3>3
  <2>. QED
    BY <1>0, <2>2, <2>3, PutIndex
<1>. QED
  BY <1>2, <1>3 DEF ToHostOk

(* What the device knows of its request. *)
LEMMA DeviceKnows ==
  ASSUME TypeOK, OrderInv
  PROVE  /\ call \in Nat /\ devCall \in Nat /\ devCall \in 0..MaxCalls
         /\ devCall <= call /\ call <= devCall + 1
         /\ outcome = "ok" => devCall = call
         /\ devCall >= 1 => devCall \in 1..MaxCalls /\ devTxid = ids[devCall]
         /\ devMode \in {"exec", "reply"} => devCall >= 1 /\ execs[devCall] = 1
<1>1. call \in Nat /\ devCall \in Nat /\ devCall \in 0..MaxCalls
  BY CallsAreNat DEF TypeOK
<1>. QED
  BY <1>1, PadpAssumption DEF OrderInv, DevInv

(* A fragment of the response belongs to the request carried out. *)
LEMMA ReplyOk ==
  ASSUME TypeOK, OrderInv, devMode \in {"exec", "reply"}, NEW i \in Nat, NEW n \in Nat,
         UNCHANGED <<call, ids, outcome, devCall, execs>>,
         NEW p, p = DevFrag(i, n)
  PROVE  p \in Frames /\ HostFrameOk(p)' /\ p.call = devCall
<1>1. DevFrag(i, n) \in Frames
  BY DataType DEF DevFrag, TypeOK
<1>2. /\ DevFrag(i, n).kind = "data" /\ ~DevFrag(i, n).mem
      /\ DevFrag(i, n).call = devCall /\ DevFrag(i, n).hdr.txid = devTxid
  BY DEF DevFrag, Data, Frame, Header
<1>. QED
  BY <1>1, <1>2, DeviceKnows DEF HostFrameOk

LEMMA DeviceOrder ==
  TypeOK /\ OrderInv /\ (DevReply \/ DevResend \/ DevGiveUp \/ DevTickle) => OrderInv'
<1>. SUFFICES ASSUME TypeOK, OrderInv, DevReply \/ DevResend \/ DevGiveUp \/ DevTickle
              PROVE  OrderInv'
  OBVIOUS
<1>1. UNCHANGED <<hostVars, toDev, devTxid, devCall, execs>>
  BY DEF DevReply, DevResend, DevGiveUp, DevTickle, devVars
<1>2. UNCHANGED <<pc, txid, nextTxid, outcome, call, ids>>
  BY <1>1 DEF hostVars
<1>3. IdsInv' /\ ToDevOk(toDev)'
  BY <1>1, <1>2 DEF OrderInv, IdsInv, Receiving, NextTxid, ToDevOk, DevFrameOk
<1>4. DevInv'
  BY <1>1, <1>2 DEF OrderInv, DevInv, DevReply, DevResend, DevGiveUp, DevTickle, devVars
<1>5. /\ devCall' \in 0..MaxCalls /\ devCall <= devCall' /\ devCall <= devCall
      /\ \A k \in 1..MaxCalls : execs[k] = 1 => execs'[k] = 1
  BY <1>1, DeviceKnows
<1>6. CASE DevReply
  <2>1. PICK n \in RespFrags : toHost' = Put(toHost, DevFrag(0, n))
    BY <1>6 DEF DevReply
  <2>2. n \in Nat /\ 0 \in Nat /\ devMode = "exec"
    BY <1>6, PadpAssumption DEF DevReply
  <2>3. PICK p : p = DevFrag(0, n)
    OBVIOUS
  <2>4. p \in Frames /\ HostFrameOk(p)' /\ p.call = devCall
    BY <1>1, <1>2, <2>2, <2>3, ReplyOk
  <2>5. ToHostOk(toHost)'
    BY <1>2, <1>5, <2>1, <2>3, <2>4, ToHostGrows
  <2>. QED
    BY <1>3, <1>4, <2>5 DEF OrderInv
<1>7. CASE DevResend
  <2>1. toHost' = Put(toHost, DevFrag(devOff, devLen)) /\ devMode = "reply"
    BY <1>7 DEF DevResend
  <2>2. PICK i \in Nat, n \in Nat : i = devOff /\ n = devLen
    BY DEF TypeOK
  <2>p. PICK p : p = DevFrag(i, n)
    OBVIOUS
  <2>3. p \in Frames /\ HostFrameOk(p)' /\ p.call = devCall
    BY <1>1, <1>2, <2>1, <2>p, ReplyOk
  <2>4. ToHostOk(toHost)'
    BY <1>2, <1>5, <2>1, <2>2, <2>p, <2>3, ToHostGrows
  <2>. QED
    BY <1>3, <1>4, <2>4 DEF OrderInv
<1>8. CASE DevGiveUp
  <2>1. UNCHANGED toHost
    BY <1>8 DEF DevGiveUp
  <2>2. ToHostOk(toHost)'
    BY <1>1, <1>2, <2>1 DEF OrderInv, ToHostOk, HostFrameOk
  <2>. QED
    BY <1>3, <1>4, <2>2 DEF OrderInv
<1>9. CASE DevTickle
  <2>1. PICK p : p = Frame("tickle", FALSE, NoAck, devCall)
    OBVIOUS
  <2>2. p \in Frames
    <3>1. 0 \in Txids
      BY PadpAssumption DEF Txids
    <3>. QED
      BY <2>1, <3>1, HeaderType DEF NoAck, Frame, Frames, TypeOK
  <2>3. p.kind = "tickle" /\ HostFrameOk(p)'
    BY <2>1 DEF Frame, HostFrameOk
  <2>4. toHost' = Put(toHost, p)
    BY <1>9, <2>1 DEF DevTickle
  <2>5. ToHostOk(toHost)'
    BY <1>2, <1>5, <2>2, <2>3, <2>4, ToHostGrows
  <2>. QED
    BY <1>3, <1>4, <2>5 DEF OrderInv
<1>. QED
  BY <1>6, <1>7, <1>8, <1>9

(* The ack of a fragment read, as the device sends it. *)
LEMMA DeviceAck ==
  ASSUME TypeOK, OrderInv, NEW p \in First(toDev), p.kind = "data",
         UNCHANGED <<call, ids, outcome>>, devCall' \in 0..MaxCalls,
         NEW a \in Frames, a.kind = "ack", a.call = p.call, a.hdr = p.hdr,
         ~a.mem => devCall' = p.call
  PROVE  HostFrameOk(a)' /\ devCall <= a.call
<1>1. /\ p.call \in 1..MaxCalls /\ p.call <= call /\ p.hdr.txid = ids[p.call]
      /\ p.call = devCall + 1 \/ p.call = devCall
      /\ p.call = call \/ p.call = devCall
  BY DevFrameCall
<1>2. /\ call \in Nat /\ devCall \in Nat /\ devCall <= call /\ call <= devCall + 1
      /\ outcome = "ok" => devCall = call /\ p.call \in Nat /\ p.call >= 1
  BY <1>1, DeviceKnows, PadpAssumption
<1>3. p.call \in Nat /\ p.call >= 1 /\ devCall' \in Nat
  BY <1>1, CallsAreNat, PadpAssumption
<1>4. devCall <= p.call /\ call <= p.call + 1
  BY <1>1, <1>2, <1>3
<1>5. outcome = "ok" => p.call = call
  BY <1>1, <1>2
<1>6. ~a.mem => p.call <= devCall'
  BY <1>3
<1>. QED
  BY <1>1, <1>3, <1>4, <1>5, <1>6 DEF HostFrameOk

(* A request that is complete has not been carried out before. *)
LEMMA FreshRequest ==
  ASSUME TypeOK, OrderInv, NEW p \in First(toDev), DevAccept(p)
  PROVE  p.call \in 1..MaxCalls /\ p.call <= call /\ execs[p.call] = 0
<1>1. p.kind = "data"
  BY DEF DevAccept, IsNewRequest, IsNextFrag
<1>2. /\ p.call \in 1..MaxCalls /\ p.call <= call /\ p.hdr.txid = ids[p.call]
      /\ p.hdr.txid # devTxid => p.call = devCall + 1
      /\ p.hdr.txid = devTxid => p.call = devCall
  BY <1>1, DevFrameCall
<1>3. CASE p.hdr.txid # devTxid
  <2>1. p.call > devCall
    BY <1>2, <1>3, DeviceKnows
  <2>. QED
    BY <1>2, <2>1 DEF OrderInv, DevInv
<1>4. CASE p.hdr.txid = devTxid
  <2>1. devMode = "recv" /\ p.call = devCall
    BY <1>2, <1>4 DEF DevAccept, IsNewRequest, IsNextFrag
  <2>. QED
    BY <1>2, <2>1 DEF OrderInv, DevInv
<1>. QED
  BY <1>3, <1>4

LEMMA AcceptRequest ==
  ASSUME TypeOK, OrderInv, NEW p \in First(toDev), toDev' = Tail(toDev),
         DevAccept(p)
  PROVE  OrderInv'
<1>1. p \in Frames /\ p.kind = "data"
  BY FirstType DEF TypeOK, DevAccept, IsNewRequest, IsNextFrag
<1>2. /\ UNCHANGED <<pc, txid, nextTxid, outcome, call, ids>>
      /\ devTxid' = p.hdr.txid /\ devCall' = p.call
      /\ toHost' = Put(toHost, AckOf(p))
  BY DEF DevAccept, hostVars
<1>3. /\ p.call \in 1..MaxCalls /\ p.call <= call /\ p.hdr.txid = ids[p.call]
      /\ p.hdr.txid # devTxid => p.call = devCall + 1 /\ p.call = call
      /\ p.hdr.txid = devTxid => p.call = devCall
  BY <1>1, DevFrameCall
<1>4. /\ p.call \in Nat /\ p.call >= 1 /\ p.call \in 0..MaxCalls
      /\ call \in Nat /\ devCall \in Nat /\ devCall <= call /\ call <= devCall + 1
  BY <1>3, DeviceKnows, CallsAreNat, PadpAssumption
<1>5. execs[p.call] = 0
  BY FreshRequest
<1>6. \/ devMode' = "exec" /\ execs' = [execs EXCEPT ![p.call] = 1]
      \/ devMode' = "recv" /\ execs' = execs
  <2>1. \/ devMode' = "exec" /\ execs' = [execs EXCEPT ![p.call] = execs[p.call] + 1]
        \/ devMode' = "recv" /\ execs' = execs
    BY DEF DevAccept
  <2>2. execs[p.call] + 1 = 1
    BY <1>5
  <2>. QED
    BY <2>1, <2>2
<1>7. devCall <= p.call
  BY <1>3, <1>4
<1>8. /\ \A k \in 1..MaxCalls : execs[k] = 1 => execs'[k] = 1
      /\ \A k \in 1..MaxCalls : execs'[k] <= 1 /\ (k > p.call => execs'[k] = 0)
      /\ devMode' = "exec" => execs'[p.call] = 1
      /\ devMode' = "recv" => execs'[p.call] = 0
  <2>1. execs \in [1..MaxCalls -> Nat]
    BY DEF TypeOK, Counts
  <2>2. \A k \in 1..MaxCalls : execs[k] <= 1 /\ (k > devCall => execs[k] = 0)
    BY DEF OrderInv, DevInv
  <2>3. \A k \in 1..MaxCalls : k > p.call => k > devCall
    BY <1>4, <1>7
  <2>4. CASE devMode' = "exec" /\ execs' = [execs EXCEPT ![p.call] = 1]
    BY <1>3, <1>4, <2>1, <2>2, <2>3, <2>4
  <2>5. CASE devMode' = "recv" /\ execs' = execs
    BY <1>5, <2>2, <2>3, <2>5
  <2>. QED
    BY <1>6, <2>4, <2>5
<1>9. DevInv'
  <2>1. devCall' <= call' /\ call' <= devCall' + 1
    BY <1>2, <1>3, <1>4, <1>7
  <2>2. outcome' = "ok" => devCall' = call'
    BY <1>2, <1>3, <1>4, DeviceKnows
  <2>3. devTxid' = IF devCall' = 0 THEN 0 ELSE ids'[devCall']
    BY <1>2, <1>3, <1>4
  <2>. QED
    BY <1>2, <1>4, <1>6, <1>8, <2>1, <2>2, <2>3 DEF DevInv
<1>10. ToDevOk(toDev)'
  BY <1>1, <1>2, ToDevShrinks
<1>11. ToHostOk(toHost)'
  <2>1. PICK a : a = AckOf(p)
    OBVIOUS
  <2>2. a \in Frames /\ a.kind = "ack" /\ a.call = p.call /\ a.hdr = p.hdr
    BY <1>1, <2>1, AckType DEF AckOf, Frame
  <2>3. HostFrameOk(a)' /\ devCall <= a.call
    BY <1>1, <1>2, <1>4, <2>2, DeviceAck
  <2>. QED
    BY <1>2, <1>4, <1>7, <1>8, <2>1, <2>2, <2>3, ToHostGrows
<1>12. IdsInv'
  BY <1>2 DEF OrderInv, IdsInv, Receiving, NextTxid
<1>. QED
  BY <1>9, <1>10, <1>11, <1>12 DEF OrderInv

LEMMA DevReadsOrder == TypeOK /\ OrderInv /\ DevReads => OrderInv'
<1>. SUFFICES ASSUME TypeOK, OrderInv, NEW p \in First(toDev), toDev' = Tail(toDev),
                     \/ DevAccept(p) \/ DevMemErr(p) \/ DevRepeatAck(p)
                     \/ DevIgnore(p) \/ DevGetsAck(p)
              PROVE  OrderInv'
  BY DEF DevReads
<1>1. CASE DevAccept(p)
  BY <1>1, AcceptRequest
<1>2. CASE ~DevAccept(p)
  <2>0. p \in Frames
    BY FirstType DEF TypeOK
  <2>1. UNCHANGED <<hostVars, devTxid, devCall, execs>>
    BY <1>2 DEF DevMemErr, DevRepeatAck, DevIgnore, DevGetsAck, devVars
  <2>2. UNCHANGED <<pc, txid, nextTxid, outcome, call, ids>>
    BY <2>1 DEF hostVars
  <2>3. IdsInv' /\ ToDevOk(toDev)'
    BY <2>1, <2>2, ToDevShrinks DEF OrderInv, IdsInv, Receiving, NextTxid
  <2>4. DevInv'
    BY <1>2, <2>1, <2>2
    DEF OrderInv, DevInv, DevMemErr, DevRepeatAck, DevIgnore, DevGetsAck, devVars
  <2>5. /\ devCall' \in 0..MaxCalls /\ devCall <= devCall' /\ devCall <= devCall
        /\ \A k \in 1..MaxCalls : execs[k] = 1 => execs'[k] = 1
    BY <2>1, DeviceKnows
  <2>6. CASE DevMemErr(p) \/ DevRepeatAck(p)
    <3>1. /\ p.kind = "data"
          /\ \/ DevMemErr(p) /\ toHost' = Put(toHost, [AckOf(p) EXCEPT !.mem = TRUE])
             \/ p.hdr.txid = devTxid /\ toHost' = Put(toHost, AckOf(p))
      BY <2>6 DEF DevMemErr, DevRepeatAck, IsOldFrag, IsNewRequest, IsNextFrag
    <3>2. p.hdr.txid = devTxid => p.call = devCall
      BY <3>1, DevFrameCall
    <3>3. PICK a : /\ toHost' = Put(toHost, a)
                   /\ \/ a = [AckOf(p) EXCEPT !.mem = TRUE]
                      \/ a = AckOf(p) /\ p.hdr.txid = devTxid
      BY <3>1
    <3>4. /\ a \in Frames /\ a.kind = "ack" /\ a.call = p.call /\ a.hdr = p.hdr
          /\ ~a.mem => devCall' = p.call
      <4>1. CASE a = [AckOf(p) EXCEPT !.mem = TRUE]
        BY <2>0, <4>1, AckType DEF AckOf, Frame
      <4>2. CASE a = AckOf(p) /\ p.hdr.txid = devTxid
        BY <2>0, <2>1, <3>2, <4>2, AckType DEF AckOf, Frame
      <4>. QED
        BY <3>3, <4>1, <4>2
    <3>5. HostFrameOk(a)' /\ devCall <= a.call
      BY <2>2, <2>5, <3>1, <3>4, DeviceAck
    <3>6. ToHostOk(toHost)'
      BY <2>2, <2>5, <3>3, <3>4, <3>5, ToHostGrows
    <3>. QED
      BY <2>3, <2>4, <3>6 DEF OrderInv
  <2>7. CASE (DevIgnore(p) \/ DevGetsAck(p)) /\ UNCHANGED toHost
    <3>1. ToHostOk(toHost)'
      BY <2>1, <2>2, <2>7 DEF OrderInv, ToHostOk, HostFrameOk
    <3>. QED
      BY <2>3, <2>4, <3>1 DEF OrderInv
  <2>8. CASE DevGetsAck(p) /\ ~UNCHANGED toHost
    <3>1. devMode = "reply" /\ toHost' = Put(toHost, DevFrag(devOff + 1, devLen))
      BY <2>8 DEF DevGetsAck, AcksReply
    <3>2. PICK i \in Nat, n \in Nat : i = devOff + 1 /\ n = devLen
      BY DEF TypeOK
    <3>3. PICK a : a = DevFrag(i, n)
      OBVIOUS
    <3>4. a \in Frames /\ HostFrameOk(a)' /\ a.call = devCall
      BY <2>1, <2>2, <3>1, <3>3, ReplyOk
    <3>5. ToHostOk(toHost)'
      BY <2>2, <2>5, <3>1, <3>2, <3>3, <3>4, ToHostGrows
    <3>. QED
      BY <2>3, <2>4, <3>5 DEF OrderInv
  <2>9. CASE DevIgnore(p) /\ ~UNCHANGED toHost
    BY <2>9 DEF DevIgnore
  <2>. QED
    BY <1>2, <2>6, <2>7, <2>8, <2>9
<1>. QED
  BY <1>1, <1>2

-----------------------------------------------------------------------------
(* The next call begins once the last one has succeeded: the device and    *)
(* the line are then done with every call before that.                     *)

(* A flush drops frames from the front. *)
LEMMA SuffixIndex ==
  ASSUME NEW S, NEW q \in Seq(S), NEW k \in 0..Len(q)
  PROVE  /\ Len(SubSeq(q, k + 1, Len(q))) = Len(q) - k
         /\ \A i \in 1..(Len(q) - k) : /\ SubSeq(q, k + 1, Len(q))[i] = q[k + i]
                                       /\ k + i \in 1..Len(q)
OBVIOUS

(* What the host knows when it begins a call. *)
LEMMA Settled ==
  ASSUME TypeOK, OrderInv, pc = "idle", outcome \in {"none", "ok"}
  PROVE  /\ devCall = call
         /\ call >= 1 => txid = NextTxid(ids[call]) /\ ids[call] \in 1..TxidWrap
         /\ TxTxid \in 1..TxidWrap /\ (call >= 1 => TxTxid # ids[call])
         /\ \A p \in Frames : HostFrameOk(p) /\ p.kind # "tickle" => p.call = call
<1>1. call \in Nat /\ devCall \in Nat /\ devCall <= call
  BY DeviceKnows
<1>2. CASE outcome = "none"
  <2>1. call = 0 /\ txid = TxidWrap + 1
    BY <1>2 DEF OrderInv, IdsInv
  <2>2. devCall = 0
    BY <1>1, <2>1
  <2>3. TxTxid \in 1..TxidWrap
    BY <2>1, PadpAssumption DEF TxTxid, NextTxid
  <2>4. ASSUME NEW p \in Frames, HostFrameOk(p), p.kind # "tickle" PROVE FALSE
    <3>1. p.call >= 1 /\ p.call <= call /\ p.call \in Nat
      BY <2>4, CallsAreNat DEF HostFrameOk, Frames
    <3>. QED
      BY <2>1, <3>1
  <2>. QED
    BY <2>1, <2>2, <2>3, <2>4
<1>3. CASE outcome = "ok"
  <2>1. call >= 1 /\ txid = NextTxid(ids[call]) /\ ids[call] \in 1..TxidWrap
    BY <1>3 DEF OrderInv, IdsInv
  <2>2. devCall = call
    BY <1>3, DeviceKnows
  <2>3. txid \in Txids /\ txid # 0
    <3>1. ids[call] \in Txids
      BY <2>1, PadpAssumption DEF Txids
    <3>2. txid \in 1..TxidWrap
      BY <2>1, <3>1, NextTxidType
    <3>. QED
      BY <3>2, PadpAssumption DEF TypeOK
  <2>4. TxTxid \in 1..TxidWrap /\ TxTxid = NextTxid(txid)
    BY <2>3, NextTxidType DEF TxTxid
  <2>5. TxTxid # ids[call]
    BY <2>1, <2>4, IdsApart
  <2>6. \A p \in Frames : HostFrameOk(p) /\ p.kind # "tickle" => p.call = call
    BY <1>3 DEF HostFrameOk
  <2>. QED
    BY <2>1, <2>2, <2>4, <2>5, <2>6
<1>. QED
  BY <1>2, <1>3

LEMMA BeginOrder ==
  ASSUME ~GoesOn, TypeOK, OrderInv, Begin
  PROVE  OrderInv'
<1>1. PICK n \in ReqFrags : PadpTx(n)
  BY DEF Begin
<1>2. /\ pc = "idle" /\ outcome \in {"none", "ok"} /\ call < MaxCalls
      /\ pc' = "txWait" /\ outcome' = "none" /\ call' = call + 1
      /\ txid' = TxTxid /\ ids' = [ids EXCEPT ![call + 1] = TxTxid]
      /\ UNCHANGED devVars
  BY <1>1 DEF PadpTx
<1>3. /\ devCall = call
      /\ call >= 1 => txid = NextTxid(ids[call]) /\ ids[call] \in 1..TxidWrap
      /\ TxTxid \in 1..TxidWrap /\ (call >= 1 => TxTxid # ids[call])
      /\ \A p \in Frames : HostFrameOk(p) /\ p.kind # "tickle" => p.call = call
  BY <1>2, Settled
<1>4. /\ call \in Nat /\ call + 1 \in 1..MaxCalls
      /\ call >= 1 => call \in 1..MaxCalls
  BY <1>2, DeviceKnows, PadpAssumption
<1>5. ids'[call + 1] = TxTxid /\ \A k \in 1..MaxCalls : k <= call => ids'[k] = ids[k]
  <2>1. ids \in [1..MaxCalls -> Txids]
    BY DEF TypeOK, Ids
  <2>. QED
    BY <1>2, <1>4, <2>1
<1>6. IdsInv'
  <2>1. call' >= 2 => ids'[call'] # ids'[call' - 1]
    <3>1. CASE call >= 1
      <4>1. call' - 1 = call /\ ids'[call] = ids[call]
        BY <1>2, <1>4, <1>5, <3>1
      <4>. QED
        BY <1>2, <1>3, <1>5, <3>1, <4>1
    <3>2. CASE ~(call >= 1)
      BY <1>2, <1>4, <3>2
    <3>. QED
      BY <3>1, <3>2
  <2>2. call' >= 1 /\ ids'[call'] \in 1..TxidWrap /\ txid' = ids'[call']
    BY <1>2, <1>3, <1>4, <1>5
  <2>. QED
    BY <1>2, <2>1, <2>2 DEF IdsInv, Receiving
<1>7. DevInv'
  <2>1. devCall' <= call' /\ call' <= devCall' + 1
    BY <1>2, <1>3, <1>4 DEF devVars
  <2>2. devTxid' = IF devCall' = 0 THEN 0 ELSE ids'[devCall']
    BY <1>2, <1>3, <1>4, <1>5 DEF devVars, OrderInv, DevInv
  <2>. QED
    BY <1>2, <2>1, <2>2 DEF devVars, OrderInv, DevInv
<1>8. ASSUME NEW p \in Frames, DevFrameOk(p) PROVE DevFrameOk(p)'
  <2>1. p.kind = "data" => p.call \in 1..MaxCalls /\ p.call <= call /\ p.call <= call'
    <3>1. p.call \in Nat /\ p.call \in 0..MaxCalls
      BY CallsAreNat DEF Frames
    <3>. QED
      BY <1>2, <1>4, <1>8, <3>1, PadpAssumption DEF DevFrameOk
  <2>. QED
    BY <1>2, <1>5, <1>8, <2>1 DEF DevFrameOk, devVars
<1>9. ToDevOk(toDev)'
  <2>0. toDev \in Seq(Frames) /\ ToDevOk(toDev)
    BY DEF TypeOK, OrderInv
  <2>1. PICK p : p = Data(TxTxid, 0, n, call + 1)
    OBVIOUS
  <2>2. p \in Frames /\ p.kind = "data" /\ p.call = call + 1 /\ p.hdr.txid = TxTxid
    <3>1. TxTxid \in Txids /\ n \in Nat /\ call + 1 \in 0..MaxCalls /\ 0 \in Nat
      BY <1>4, TxTxidType, PadpAssumption DEF TypeOK
    <3>2. p \in Frames
      BY <2>1, <3>1, DataType
    <3>. QED
      BY <2>1, <3>2 DEF Data, Frame, Header
  <2>3. toDev' = Put(toDev, p)
    BY <1>1, <2>1 DEF PadpTx
  <2>4. DevFrameOk(p)'
    <3>1. devCall' <= call + 1 /\ call + 1 >= 1 /\ call + 1 <= call'
      BY <1>2, <1>3, <1>4 DEF devVars
    <3>. QED
      BY <1>5, <2>2, <3>1 DEF DevFrameOk
  <2>5. ASSUME NEW i \in 1..Len(toDev') PROVE DevFrameOk(toDev[i])'
    <3>1. PICK x : x = toDev'[i]
      OBVIOUS
    <3>2. (i \in 1..Len(toDev) /\ x = toDev[i]) \/ x = p
      BY <2>0, <2>2, <2>3, <3>1, PutIndex
    <3>3. CASE i \in 1..Len(toDev) /\ x = toDev[i]
      <4>1. x \in Frames /\ DevFrameOk(x)
        BY <2>0, <3>3 DEF ToDevOk
      <4>2. DevFrameOk(x)'
        BY <1>8, <4>1
      <4>. QED
        BY <3>1, <4>2 DEF DevFrameOk
    <3>4. CASE x = p
      BY <2>4, <3>1, <3>4 DEF DevFrameOk
    <3>. QED
      BY <3>2, <3>3, <3>4
  <2>6. ASSUME NEW i \in 1..Len(Put(toDev, p)), NEW j \in 1..Len(Put(toDev, p)), i < j,
               Put(toDev, p)[i].kind = "data", Put(toDev, p)[j].kind = "data"
        PROVE  Put(toDev, p)[i].call <= Put(toDev, p)[j].call
    <3>1. i \in 1..Len(toDev) /\ Put(toDev, p)[i] = toDev[i]
      BY <2>0, <2>2, <2>6, PutIndex
    <3>2. CASE j \in 1..Len(toDev) /\ Put(toDev, p)[j] = toDev[j]
      BY <2>0, <2>6, <3>1, <3>2 DEF ToDevOk
    <3>3. CASE j = Len(toDev) + 1 /\ Put(toDev, p)[j] = p
      <4>1. toDev[i].call <= call
        BY <2>0, <2>6, <3>1 DEF ToDevOk, DevFrameOk
      <4>2. toDev[i].call \in Nat
        <5>1. toDev[i] \in Frames
          BY <2>0, <3>1
        <5>. QED
          BY <5>1, CallsAreNat DEF Frames
      <4>. QED
        BY <1>4, <2>2, <3>1, <3>3, <4>1, <4>2
    <3>. QED
      BY <2>0, <2>2, <3>2, <3>3, PutIndex
  <2>. QED
    BY <2>3, <2>5, <2>6 DEF ToDevOk
<1>10. ToHostOk(toHost)'
  <2>0. toHost \in Seq(Frames) /\ ToHostOk(toHost)
    BY DEF TypeOK, OrderInv
  <2>1. PICK k \in 0..Len(toHost) : toHost' = SubSeq(toHost, k + 1, Len(toHost))
    BY <1>1, <2>0 DEF PadpTx
  <2>2. ASSUME NEW x \in Frames, HostFrameOk(x) PROVE HostFrameOk(x)'
    <3>1. x.kind # "tickle" => x.call = call /\ call >= 1
      BY <1>3, <2>2 DEF HostFrameOk
    <3>2. x.kind # "tickle" => ids'[x.call] = ids[x.call] /\ call' <= x.call + 1
                               /\ x.call <= call'
      BY <1>2, <1>4, <1>5, <3>1
    <3>. QED
      BY <1>2, <2>2, <3>2 DEF HostFrameOk, devVars
  <2>3. ASSUME NEW i \in 1..Len(toHost') PROVE HostFrameOk(toHost[i])'
    <3>1. PICK x : x = toHost'[i]
      OBVIOUS
    <3>2. i \in 1..(Len(toHost) - k)
      BY <2>0, <2>1, SuffixIndex
    <3>3. k + i \in 1..Len(toHost) /\ x = toHost[k + i]
      BY <2>0, <2>1, <3>1, <3>2, SuffixIndex
    <3>4. x \in Frames /\ HostFrameOk(x)
      BY <2>0, <3>3 DEF ToHostOk
    <3>5. HostFrameOk(x)'
      BY <2>2, <3>4
    <3>. QED
      BY <3>1, <3>5 DEF HostFrameOk
  <2>4. ASSUME NEW i \in 1..Len(toHost'), toHost'[i].kind # "tickle"
        PROVE  toHost'[i].call = call
    <3>1. i \in 1..(Len(toHost) - k)
      BY <2>0, <2>1, SuffixIndex
    <3>2. k + i \in 1..Len(toHost) /\ toHost'[i] = toHost[k + i]
      BY <2>0, <2>1, <3>1, SuffixIndex
    <3>3. toHost'[i] \in Frames /\ HostFrameOk(toHost[k + i])
      BY <2>0, <3>2 DEF ToHostOk
    <3>. QED
      BY <1>3, <2>4, <3>2, <3>3
  <2>. QED
    BY <1>4, <2>3, <2>4 DEF ToHostOk
<1>. QED
  BY <1>6, <1>7, <1>9, <1>10 DEF OrderInv

LEMMA NextOrder ==
  ASSUME ~GoesOn
  PROVE  TypeOK /\ OrderInv /\ [Next]_vars => OrderInv'
<1>. SUFFICES ASSUME TypeOK, OrderInv, [Next]_vars PROVE OrderInv'
  OBVIOUS
<1>1. CASE UNCHANGED vars \/ Finished
  <2>1. UNCHANGED <<pc, txid, nextTxid, outcome, call, ids, toDev, toHost, devVars>>
    BY <1>1 DEF Finished, vars, hostVars
  <2>2. IdsInv' /\ ToDevOk(toDev') /\ ToHostOk(toHost')
    BY <2>1 DEF OrderInv, IdsInv, Receiving, NextTxid
  <2>. QED
    BY <2>1, <2>2, QuietStep
<1>. QED
  BY <1>1, BeginOrder, HostReadsOrder, DevReadsOrder, DeviceOrder, TimersOrder,
     LineOrder DEF Next

(* Frames arrive call by call and carry the id of their call, as long as   *)
(* the application stops at a call that fails.                             *)
THEOREM OrderCorrect ==
  ASSUME ~GoesOn
  PROVE  Spec => []OrderInv
<1>1. TypeOK /\ OrderInv /\ [Next]_vars => OrderInv'
  BY NextOrder
<1>. QED
  BY <1>1, InitOrder, TypeCorrect, PTL DEF Spec

(* However often padp_tx repeats a request, the device carries it out at   *)
(* most once.                                                              *)
THEOREM CarriedOutOnce ==
  ASSUME ~GoesOn
  PROVE  Spec => []AtMostOnce
<1>1. OrderInv => AtMostOnce
  BY DEF OrderInv, DevInv, AtMostOnce
<1>. QED
  BY <1>1, OrderCorrect, PTL

(* Only a fragment with the id of the call is appended, and the buffer is  *)
(* the call's own.                                                         *)
LEMMA NextOwn ==
  TypeOK /\ OrderInv /\ OwnResponse /\ [Next]_vars => OwnResponse'
<1>. SUFFICES ASSUME TypeOK, OrderInv, OwnResponse, [Next]_vars
              PROVE  OwnResponse'
  OBVIOUS
<1>1. CASE Begin
  BY <1>1 DEF Begin, PadpTx, OwnResponse
<1>2. CASE UNCHANGED <<rxbuf, call>>
  BY <1>2 DEF OwnResponse
<1>3. ASSUME NEW p \in First(toHost), RxAccept(p) PROVE OwnResponse'
  <2>1. p.call = call
    BY <1>3, HostFrameCall DEF RxAccept, Receiving, IsWanted
  <2>2. UNCHANGED call /\ rxbuf \in Seq(Pieces)
    BY <1>3 DEF RxAccept, TypeOK
  <2>3. CASE UNCHANGED rxbuf
    BY <2>2, <2>3 DEF OwnResponse
  <2>4. CASE rxbuf' = Append(rxbuf, [call |-> p.call, off |-> Offset(p)])
    <3>1. PICK x : x = [call |-> p.call, off |-> Offset(p)]
      OBVIOUS
    <3>2. x.call = call /\ rxbuf' = Append(rxbuf, x)
      BY <2>1, <2>4, <3>1
    <3>3. ASSUME NEW i \in 1..Len(rxbuf') PROVE rxbuf'[i].call = call'
      <4>1. CASE i \in 1..Len(rxbuf)
        BY <2>2, <3>2, <4>1 DEF OwnResponse
      <4>2. CASE i = Len(rxbuf) + 1
        BY <2>2, <3>2, <4>2
      <4>. QED
        BY <2>2, <3>2, <3>3, <4>1, <4>2
    <3>. QED
      BY <3>3 DEF OwnResponse
  <2>. QED
    BY <1>3, <2>3, <2>4 DEF RxAccept
<1>4. CASE HostReads
  <2>1. PICK p \in First(toHost) :
           \/ TxSwallow \/ TxTickle(p) \/ TxMissingAck(p) \/ TxAck(p)
           \/ TxFail(p) \/ TxRepeat(p)
           \/ RxAccept(p) \/ RxMemErr(p) \/ RxWrong(p)
    BY <1>4 DEF HostReads
  <2>2. CASE ~RxAccept(p)
    <3>1. UNCHANGED <<rxbuf, call>>
      BY <2>1, <2>2 DEF TxSwallow, TxTickle, TxMissingAck, TxAck, TxDone, TxFail,
                        TxRepeat, TxAgain, RxMemErr, RxWrong, hostVars
    <3>. QED
      BY <1>2, <3>1
  <2>. QED
    BY <1>3, <2>2
<1>5. CASE TxTimeout \/ RxSilence \/ Line \/ Finished \/ UNCHANGED vars
  <2>1. UNCHANGED <<rxbuf, call>>
    BY <1>5 DEF TxTimeout, RxSilence, Line, LoseToDev, LoseToHost, TxDamaged, TxAgain,
                Finished, vars, hostVars
  <2>. QED
    BY <1>2, <2>1
<1>6. CASE DevReads \/ DevReply \/ DevResend \/ DevGiveUp \/ DevTickle
  <2>1. UNCHANGED hostVars
    BY <1>6 DEF DevReads, DevAccept, DevMemErr, DevRepeatAck, DevIgnore, DevGetsAck,
                DevReply, DevResend, DevGiveUp, DevTickle
  <2>. QED
    BY <1>2, <2>1 DEF hostVars
<1>. QED
  BY <1>1, <1>4, <1>5, <1>6 DEF Next

(* No fragment of an earlier response gets into the buffer of a call.      *)
THEOREM ResponsesNotMixed ==
  ASSUME ~GoesOn
  PROVE  Spec => []OwnResponse
<1>1. Init => OwnResponse
  BY DEF Init, OwnResponse
<1>2. TypeOK /\ OrderInv /\ OwnResponse /\ [Next]_vars => OwnResponse'
  BY NextOwn
<1>. QED
  BY <1>1, <1>2, TypeCorrect, OrderCorrect, PTL DEF Spec

-----------------------------------------------------------------------------
(* The packet layer implements the abstract call. *)

LEMMA InitAbstract == Init => Abstract!Init
BY DEF Init, Abstract!Init

(* A step that leaves these alone is invisible to the application. *)
LEMMA Invisible ==
  ASSUME TypeOK, pc' = pc \/ (pc # "idle" /\ pc' # "idle"),
         UNCHANGED <<outcome, call, execs>>
  PROVE  UNCHANGED Abstract!vars
BY DEF Abstract!vars

(* A call that fails. *)
LEMMA FailedCall ==
  ASSUME pc # "idle", pc' = "idle", outcome' \in {"failed", "timeout", "broken"},
         UNCHANGED <<call, execs>>
  PROVE  Abstract!Next
<1>1. Abstract!Fail
  BY DEF Abstract!Fail
<1>. QED
  BY <1>1 DEF Abstract!Next

LEMMA TxAgainAbstract ==
  ASSUME TypeOK, pc = "txWait", NEW line, TxAgain(line), UNCHANGED devVars
  PROVE  [Abstract!Next]_(Abstract!vars)
<1>1. CASE retries = 1
  <2>1. pc' = "idle" /\ outcome' = "broken" /\ UNCHANGED <<call, execs>>
    BY <1>1 DEF TxAgain, Return, devVars
  <2>. QED
    BY <2>1, FailedCall
<1>2. CASE retries > 1
  <2>1. UNCHANGED <<pc, outcome, call, execs>>
    BY <1>2 DEF TxAgain, devVars
  <2>. QED
    BY <2>1, Invisible
<1>. QED
  BY <1>1, <1>2 DEF TxAgain

LEMMA HostReadsAbstract ==
  TypeOK /\ OrderInv /\ HostReads => [Abstract!Next]_(Abstract!vars)
<1>. SUFFICES ASSUME TypeOK, OrderInv, NEW p \in First(toHost),
                     toHost' = Tail(toHost),
                     \/ TxSwallow \/ TxTickle(p) \/ TxMissingAck(p) \/ TxAck(p)
                     \/ TxFail(p) \/ TxRepeat(p)
                     \/ RxAccept(p) \/ RxMemErr(p) \/ RxWrong(p)
              PROVE  [Abstract!Next]_(Abstract!vars)
  BY DEF HostReads
<1>1. CASE TxSwallow \/ TxTickle(p) \/ TxMissingAck(p) \/ TxAck(p)
  <2>1. /\ pc' = pc \/ (pc # "idle" /\ pc' # "idle")
        /\ UNCHANGED <<outcome, call, execs>>
    BY <1>1 DEF TxSwallow, TxTickle, TxMissingAck, TxAck, TxDone, TxReads, hostVars, devVars
  <2>. QED
    BY <2>1, Invisible
<1>2. CASE TxFail(p) \/ RxMemErr(p)
  <2>1. /\ pc # "idle" /\ pc' = "idle" /\ outcome' = "failed"
        /\ UNCHANGED <<call, execs>>
    BY <1>2 DEF TxFail, TxReads, RxMemErr, Receiving, Return, devVars
  <2>. QED
    BY <2>1, FailedCall
<1>3. CASE TxRepeat(p)
  <2>1. pc = "txWait" /\ TxAgain(Put(toDev, AckOf(p))) /\ UNCHANGED devVars
    BY <1>3 DEF TxRepeat, TxReads
  <2>. QED
    BY <2>1, TxAgainAbstract
<1>4. CASE RxWrong(p)
  <2>1. /\ UNCHANGED <<call, execs>> /\ pc # "idle"
        /\ \/ UNCHANGED <<pc, outcome>>
           \/ pc' = "idle" /\ outcome' = "broken"
    BY <1>4 DEF RxWrong, Receiving, Return, devVars
  <2>. QED
    BY <2>1, Invisible, FailedCall
<1>5. CASE RxAccept(p)
  <2>0. pc # "idle" /\ UNCHANGED <<call, execs>>
    BY <1>5 DEF RxAccept, Receiving, devVars
  <2>1. CASE ~p.hdr.last
    <3>1. pc' # "idle" /\ UNCHANGED outcome
      BY <1>5, <2>1 DEF RxAccept, EndsResponse
    <3>. QED
      BY <2>0, <3>1, Invisible
  <2>2. CASE p.hdr.last
    <3>1. pc' = "idle" /\ outcome' = "ok"
      BY <1>5, <2>2 DEF RxAccept, EndsResponse, Return
    <3>2. p.kind = "data" /\ p.call = call
      BY <1>5, <2>0, HostFrameCall DEF RxAccept, IsWanted
    <3>3. execs[call] = 1
      BY <3>2, FirstType DEF OrderInv, ToHostOk, HostFrameOk, TypeOK
    <3>4. Abstract!Succeed
      BY <2>0, <3>1, <3>3 DEF Abstract!Succeed
    <3>. QED
      BY <3>4 DEF Abstract!Next
  <2>. QED
    BY <2>1, <2>2
<1>. QED
  BY <1>1, <1>2, <1>3, <1>4, <1>5

LEMMA DevReadsAbstract ==
  TypeOK /\ OrderInv /\ DevReads => [Abstract!Next]_(Abstract!vars)
<1>. SUFFICES ASSUME TypeOK, OrderInv, NEW p \in First(toDev),
                     \/ DevAccept(p) \/ DevMemErr(p) \/ DevRepeatAck(p)
                     \/ DevIgnore(p) \/ DevGetsAck(p)
              PROVE  [Abstract!Next]_(Abstract!vars)
  BY DEF DevReads
<1>1. CASE UNCHANGED <<pc, outcome, call, execs>>
  BY <1>1, Invisible
<1>2. CASE DevAccept(p)
  <2>1. UNCHANGED <<pc, outcome, call>>
    BY <1>2 DEF DevAccept, hostVars
  <2>2. CASE execs' = [execs EXCEPT ![p.call] = @ + 1]
    <3>1. p.call \in 1..MaxCalls /\ p.call <= call /\ execs[p.call] = 0
      BY <1>2, FreshRequest
    <3>2. execs[p.call] + 1 = 1
      BY <3>1
    <3>3. execs' = [execs EXCEPT ![p.call] = 1]
      BY <2>2, <3>2
    <3>4. Abstract!Execute(p.call)
      BY <2>1, <3>1, <3>3 DEF Abstract!Execute
    <3>. QED
      BY <3>1, <3>4 DEF Abstract!Next
  <2>. QED
    BY <1>1, <1>2, <2>1, <2>2 DEF DevAccept
<1>3. CASE ~DevAccept(p)
  BY <1>1, <1>3 DEF DevMemErr, DevRepeatAck, DevIgnore, DevGetsAck, hostVars, devVars
<1>. QED
  BY <1>2, <1>3

LEMMA NextAbstract ==
  TypeOK /\ OrderInv /\ [Next]_vars => [Abstract!Next]_(Abstract!vars)
<1>. SUFFICES ASSUME TypeOK, OrderInv, [Next]_vars
              PROVE  [Abstract!Next]_(Abstract!vars)
  OBVIOUS
<1>1. CASE Begin
  <2>1. PICK n \in ReqFrags : PadpTx(n)
    BY <1>1 DEF Begin
  <2>2. /\ pc = "idle" /\ pc' = "txWait" /\ outcome' = "none"
        /\ outcome \in {"none", "ok"} \/ GoesOn
        /\ call < MaxCalls /\ call' = call + 1 /\ UNCHANGED execs
    BY <2>1 DEF PadpTx, devVars
  <2>3. Abstract!Begin
    BY <2>2 DEF Abstract!Begin
  <2>. QED
    BY <2>3 DEF Abstract!Next
<1>2. CASE TxTimeout
  BY <1>2, TxAgainAbstract DEF TxTimeout
<1>3. CASE RxSilence
  <2>1. pc # "idle" /\ pc' = "idle" /\ outcome' = "timeout" /\ UNCHANGED <<call, execs>>
    BY <1>3 DEF RxSilence, Receiving, Return, devVars
  <2>. QED
    BY <2>1, FailedCall
<1>4. CASE DevReply \/ DevResend \/ DevGiveUp \/ DevTickle \/ LoseToDev \/ LoseToHost
           \/ Finished \/ UNCHANGED vars
  <2>1. UNCHANGED <<pc, outcome, call, execs>>
    BY <1>4 DEF DevReply, DevResend, DevGiveUp, DevTickle, LoseToDev, LoseToHost,
                Finished, vars, hostVars, devVars
  <2>. QED
    BY <2>1, Invisible
<1>5. CASE TxDamaged
  BY <1>5, TxAgainAbstract DEF TxDamaged
<1>. QED
  BY <1>1, <1>2, <1>3, <1>4, <1>5, HostReadsAbstract, DevReadsAbstract DEF Next, Line

(* Seen by its caller, padp_tx and padp_rx are a call that is carried out  *)
(* at most once and, when it succeeds, was carried out.                    *)
THEOREM PacketsImplementCalls ==
  ASSUME ~GoesOn
  PROVE  Spec => ImplementsRpc
<1>1. Init => Abstract!Init
  BY InitAbstract
<1>2. TypeOK /\ OrderInv /\ [Next]_vars => [Abstract!Next]_(Abstract!vars)
  BY NextAbstract
<1>. QED
  BY <1>1, <1>2, TypeCorrect, OrderCorrect, PTL DEF Spec, ImplementsRpc, Abstract!Spec

-----------------------------------------------------------------------------
(* A whole response.  The device goes on to a fragment once it has the ack *)
(* of the one before, and the host acks no fragment of the call under way  *)
(* that it has not appended; so no fragment runs ahead of the buffer.      *)

In(q) == {q[i] : i \in 1..Len(q)}

Own(p) == p.kind = "data" /\ p.call = call

(* The device has begun to send its response to the call. *)
Replied == call >= 1 /\ devCall = call /\ execs[call] = 1 /\ devMode # "exec"

(* Acks under way to the device are about its request or the one before.   *)
AckOk(p) == p.kind = "ack" =>
  /\ p.call >= 1 /\ p.hdr.txid = ids[p.call]
  /\ p.call <= devCall /\ devCall <= p.call + 1
AcksOk(q) ==
  /\ \A p \in In(q) : AckOk(p)
  /\ \A i, j \in 1..Len(q) :
       i < j /\ q[i].kind = "data" /\ q[j].kind = "ack" => q[i].call <= q[j].call + 1

(* Once the last fragment of a request is on its way padp_tx waits for no  *)
(* other ack than its own.                                                 *)
RequestSent(q) ==
  pc = "txWait" =>
    /\ sent < reqLen
    /\ execs[call] = 1 \/ (\E p \in In(q) : Own(p) /\ p.hdr.last) => sent + 1 = reqLen

Fragment(p) ==
  \E i \in Nat : i <= devOff /\ i < devLen /\ p.hdr = Header(ids[call], i, devLen)

BufferOk ==
  /\ pc \in {"txWait", "rxFirst"} \/ ~Replied => rxbuf = <<>>
  /\ outcome = "ok" => Replied /\ Len(rxbuf) = devLen
  /\ Replied => /\ devOff <= Len(rxbuf) /\ Len(rxbuf) <= devLen /\ devLen > 0
                /\ Receiving => Len(rxbuf) < devLen
                /\ devMode = "reply" => devOff < devLen

InStep ==
  /\ \A p \in In(toHost) : Own(p) => Replied /\ Fragment(p)
  /\ \A p \in In(toDev) : p.kind = "ack" /\ p.call = call => Offset(p) < Len(rxbuf)

WholeInv == AcksOk(toDev) /\ RequestSent(toDev) /\ BufferOk /\ InStep

LEMMA InPut ==
  ASSUME NEW S, NEW q \in Seq(S), NEW p \in S, NEW x \in In(Put(q, p))
  PROVE  x \in In(q) \/ x = p
BY PutIndex DEF In

LEMMA InTail ==
  ASSUME NEW S, NEW q \in Seq(S), q # <<>>, NEW x \in In(Tail(q))
  PROVE  x \in In(q)
BY TailIndex DEF In

LEMMA InFirst ==
  ASSUME NEW S, NEW q \in Seq(S), NEW p \in First(q)
  PROVE  p \in In(q) /\ p \in S
BY FirstType DEF In

LEMMA InSeq ==
  ASSUME NEW S, NEW q \in Seq(S), NEW p \in In(q)
  PROVE  p \in S
BY DEF In

LEMMA HeaderOffset ==
  ASSUME NEW t, NEW i \in Nat, NEW n \in Nat, NEW p, p.hdr = Header(t, i, n)
  PROVE  Offset(p) = i /\ (p.hdr.last <=> i + 1 = n) /\ (p.hdr.first <=> i = 0) /\ p.hdr.txid = t
<1>1. /\ p.hdr.txid = t /\ p.hdr.first = (i = 0) /\ p.hdr.last = (i + 1 = n)
      /\ p.hdr.size = IF i = 0 THEN n ELSE i
  BY DEF Header
<1>2. Offset(p) = i
  BY <1>1 DEF Offset
<1>. QED
  BY <1>1, <1>2

LEMMA DataFields ==
  ASSUME NEW t, NEW i \in Nat, NEW n \in Nat, NEW k, NEW d, d = Data(t, i, n, k)
  PROVE  /\ d.kind = "data" /\ ~d.mem /\ d.call = k /\ d.hdr = Header(t, i, n)
         /\ Offset(d) = i /\ (d.hdr.last <=> i + 1 = n) /\ d.hdr.txid = t
<1>1. d.kind = "data" /\ ~d.mem /\ d.call = k /\ d.hdr = Header(t, i, n)
  BY DEF Data, Frame
<1>. QED
  BY <1>1, HeaderOffset

LEMMA AcksTail ==
  ASSUME NEW q \in Seq(Frames), q # <<>>, AcksOk(q)
  PROVE  AcksOk(Tail(q))
<1>1. \A p \in In(Tail(q)) : AckOk(p)
  BY InTail DEF AcksOk
<1>2. ASSUME NEW i \in 1..Len(Tail(q)), NEW j \in 1..Len(Tail(q)), i < j,
             Tail(q)[i].kind = "data", Tail(q)[j].kind = "ack"
      PROVE  Tail(q)[i].call <= Tail(q)[j].call + 1
  <2>1. /\ i + 1 \in 1..Len(q) /\ Tail(q)[i] = q[i + 1]
        /\ j + 1 \in 1..Len(q) /\ Tail(q)[j] = q[j + 1]
    BY TailIndex
  <2>. QED
    BY <1>2, <2>1 DEF AcksOk
<1>. QED
  BY <1>1, <1>2 DEF AcksOk

LEMMA AcksPut ==
  ASSUME NEW q \in Seq(Frames), AcksOk(q), NEW p \in Frames, AckOk(p),
         p.kind = "ack" => \A x \in In(q) : x.kind = "data" => x.call <= p.call + 1
  PROVE  AcksOk(Put(q, p))
<1>1. \A x \in In(Put(q, p)) : AckOk(x)
  BY InPut DEF AcksOk
<1>2. ASSUME NEW i \in 1..Len(Put(q, p)), NEW j \in 1..Len(Put(q, p)), i < j,
             Put(q, p)[i].kind = "data", Put(q, p)[j].kind = "ack"
      PROVE  Put(q, p)[i].call <= Put(q, p)[j].call + 1
  <2>1. i \in 1..Len(q) /\ Put(q, p)[i] = q[i]
    BY <1>2, PutIndex
  <2>2. CASE j \in 1..Len(q) /\ Put(q, p)[j] = q[j]
    BY <1>2, <2>1, <2>2 DEF AcksOk
  <2>3. CASE j = Len(q) + 1 /\ Put(q, p)[j] = p
    <3>1. q[i] \in In(q)
      BY <2>1 DEF In
    <3>. QED
      BY <1>2, <2>1, <2>3, <3>1
  <2>. QED
    BY <2>2, <2>3, PutIndex
<1>. QED
  BY <1>1, <1>2 DEF AcksOk

(* A frame the host reads may be acked: it is of this call or the last.    *)
LEMMA AckFits ==
  ASSUME TypeOK, OrderInv, AcksOk(toDev), NEW p \in First(toHost), p.kind = "data"
  PROVE  AcksOk(Put(toDev, AckOf(p))) /\ AckOf(p).kind = "ack" /\ AckOf(p).call = p.call
         /\ AckOf(p).hdr = p.hdr /\ Offset(AckOf(p)) = Offset(p) /\ AckOf(p) \in Frames
<1>1. /\ p \in Frames /\ HostFrameOk(p)
  BY FirstType DEF OrderInv, ToHostOk, TypeOK
<1>2. /\ call \in Nat /\ devCall \in Nat /\ p.call \in Nat
  BY <1>1, CallsAreNat DEF TypeOK, Frames
<1>3. PICK a : a = AckOf(p)
  OBVIOUS
<1>4. /\ a \in Frames /\ a.kind = "ack" /\ a.call = p.call /\ a.hdr = p.hdr
  BY <1>1, <1>3, AckType DEF AckOf, Frame
<1>5. /\ p.call >= 1 /\ call <= p.call + 1 /\ p.call <= call /\ p.hdr.txid = ids[p.call]
      /\ devCall <= call
  BY <1>1 DEF HostFrameOk, OrderInv, DevInv
<1>a. p.call <= devCall
  <2>1. execs[p.call] = 1 /\ p.call \in 1..MaxCalls
    BY <1>1, <1>2, <1>5, PadpAssumption DEF HostFrameOk, TypeOK
  <2>2. p.call > devCall => execs[p.call] = 0
    BY <2>1 DEF OrderInv, DevInv
  <2>. QED
    BY <1>2, <2>1, <2>2
<1>6. AckOk(a)
  BY <1>2, <1>4, <1>5, <1>a DEF AckOk
<1>7. ASSUME NEW x \in In(toDev), x.kind = "data" PROVE x.call <= a.call + 1
  <2>1. x \in Frames /\ DevFrameOk(x)
    BY DEF In, OrderInv, ToDevOk, TypeOK
  <2>2. x.call <= call /\ x.call \in Nat
    BY <1>7, <2>1, CallsAreNat DEF DevFrameOk, Frames
  <2>. QED
    BY <1>2, <1>4, <1>5, <2>2
<1>8. AcksOk(Put(toDev, a))
  BY <1>4, <1>6, <1>7, AcksPut DEF TypeOK
<1>. QED
  BY <1>3, <1>4, <1>8 DEF Offset

LEMMA InitWhole == Init => WholeInv
BY DEF Init, WholeInv, AcksOk, RequestSent, BufferOk, InStep, Replied, In


(* A step of the host or of the line that appends nothing: what it takes   *)
(* from the lines is gone, what it adds to them is a fragment of the       *)
(* request, or an ack of an earlier call.                                  *)
LEMMA QuietWhole ==
  ASSUME WholeInv, UNCHANGED <<devVars, call, ids, rxbuf, sent, reqLen>>, call \in Nat,
         pc = "txWait" => call >= 1, sent \in Nat, reqLen \in Nat,
         AcksOk(toDev'), In(toHost') \subseteq In(toHost),
         \A x \in In(toDev') : \/ x \in In(toDev)
                               \/ x.kind = "ack" /\ x.call # call
                               \/ pc = "txWait" /\ x = Data(txid, sent, reqLen, call),
         \/ UNCHANGED <<pc, outcome>>
         \/ pc' = "idle" /\ outcome' # "ok"
  PROVE  WholeInv'
<1>1. AcksOk(toDev)'
  BY DEF AcksOk, AckOk, devVars
<1>2. RequestSent(toDev)'
  <2>1. CASE pc' = "idle"
    BY <2>1 DEF RequestSent
  <2>2. CASE pc' = "txWait" /\ pc = "txWait"
    <3>1. sent' < reqLen'
      BY <2>2 DEF WholeInv, RequestSent
    <3>2. CASE execs[call] = 1
      BY <2>2, <3>1, <3>2 DEF WholeInv, RequestSent, devVars
    <3>3. ASSUME NEW x \in In(toDev'), x.kind = "data", x.call = call, x.hdr.last
          PROVE  sent + 1 = reqLen
      <4>1. CASE x \in In(toDev)
        BY <2>2, <3>3, <4>1 DEF WholeInv, RequestSent, Own
      <4>2. CASE x = Data(txid, sent, reqLen, call)
        BY <3>3, <4>2, DataFields
      <4>. QED
        BY <3>3, <4>1, <4>2
    <3>4. execs' = execs
      BY DEF devVars
    <3>. QED
      BY <2>2, <3>1, <3>2, <3>3, <3>4 DEF RequestSent, Own
  <2>3. CASE pc' # "txWait"
    BY <2>3 DEF RequestSent
  <2>. QED
    BY <2>1, <2>2, <2>3
<1>3. BufferOk'
  BY DEF WholeInv, BufferOk, Replied, Receiving, devVars
<1>4. InStep'
  <2>1. \A p \in In(toHost') : (Own(p) => Replied /\ Fragment(p))'
    BY DEF WholeInv, InStep, Own, Replied, Fragment, devVars
  <2>2. ASSUME NEW x \in In(toDev'), x.kind = "ack", x.call = call
        PROVE  Offset(x) < Len(rxbuf)
    <3>1. x \in In(toDev)
      BY <2>2 DEF Data, Frame
    <3>. QED
      BY <2>2, <3>1 DEF WholeInv, InStep
  <2>. QED
    BY <2>1, <2>2 DEF InStep, Own, In
<1>. QED
  BY <1>1, <1>2, <1>3, <1>4 DEF WholeInv

(* Sending a fragment again, after what else line holds. *)
LEMMA TxAgainWhole ==
  ASSUME TypeOK, OrderInv, WholeInv, pc = "txWait",
         NEW line \in Seq(Frames), AcksOk(line), TxAgain(line),
         \A x \in In(line) : x \in In(toDev) \/ (x.kind = "ack" /\ x.call # call),
         UNCHANGED devVars, In(toHost') \subseteq In(toHost)
  PROVE  WholeInv'
<1>1. /\ UNCHANGED <<call, ids, rxbuf, sent, reqLen>>
      /\ \/ pc' = "idle" /\ outcome' # "ok" /\ toDev' = line
         \/ UNCHANGED <<pc, outcome>> /\ toDev' = Put(line, Data(txid, sent, reqLen, call))
  BY DEF TxAgain, Return, Resent
<1>2. PICK d : d = Data(txid, sent, reqLen, call)
  OBVIOUS
<1>3. d \in Frames /\ AckOk(d) /\ d.kind # "ack"
  BY <1>2, DataType DEF TypeOK, AckOk, Data, Frame
<1>4. AcksOk(Put(line, d))
  BY <1>3, AcksPut
<1>5. AcksOk(toDev')
  BY <1>1, <1>2, <1>4
<1>6. ASSUME NEW x \in In(toDev')
      PROVE  \/ x \in In(toDev) \/ (x.kind = "ack" /\ x.call # call)
             \/ x = Data(txid, sent, reqLen, call)
  <2>1. x \in In(line) \/ x = d
    BY <1>1, <1>2, <1>3, InPut
  <2>. QED
    BY <1>2, <2>1
<1>7. call \in Nat /\ call >= 1 /\ sent \in Nat /\ reqLen \in Nat
  BY CallsAreNat DEF TypeOK, OrderInv, IdsInv
<1>. QED
  BY <1>1, <1>5, <1>6, <1>7, QuietWhole

(* The other steps of this kind. *)
LEMMA IdleWhole ==
  ASSUME TypeOK, OrderInv, WholeInv,
         UNCHANGED <<devVars, call, ids, rxbuf, sent, reqLen>>,
         \/ toDev' = toDev
         \/ toDev # <<>> /\ toDev' = Tail(toDev),
         \/ toHost' = toHost
         \/ toHost # <<>> /\ toHost' = Tail(toHost),
         \/ UNCHANGED <<pc, outcome>>
         \/ pc' = "idle" /\ outcome' # "ok"
  PROVE  WholeInv'
<1>1. toDev \in Seq(Frames) /\ toHost \in Seq(Frames)
  BY DEF TypeOK
<1>2. AcksOk(toDev') /\ In(toDev') \subseteq In(toDev) /\ In(toHost') \subseteq In(toHost)
  BY <1>1, AcksTail, InTail DEF WholeInv
<1>3. call \in Nat /\ (pc = "txWait" => call >= 1) /\ sent \in Nat /\ reqLen \in Nat
  BY CallsAreNat DEF TypeOK, OrderInv, IdsInv
<1>. QED
  BY <1>2, <1>3, QuietWhole

LEMMA TimersWhole ==
  TypeOK /\ OrderInv /\ WholeInv
    /\ (TxTimeout \/ RxSilence \/ Line \/ Finished \/ UNCHANGED vars) => WholeInv'
<1>. SUFFICES ASSUME TypeOK, OrderInv, WholeInv,
                     TxTimeout \/ RxSilence \/ Line \/ Finished \/ UNCHANGED vars
              PROVE  WholeInv'
  OBVIOUS
<1>1. CASE TxTimeout
  BY <1>1, TxAgainWhole DEF TxTimeout, TypeOK, WholeInv
<1>2. CASE TxDamaged
  <2>1. In(toHost') \subseteq In(toHost)
    BY <1>2, InTail DEF TxDamaged, TypeOK
  <2>. QED
    BY <1>2, <2>1, TxAgainWhole DEF TxDamaged, TypeOK, WholeInv
<1>3. CASE LoseToDev \/ LoseToHost
  BY <1>3, IdleWhole DEF LoseToDev, LoseToHost, hostVars
<1>4. CASE RxSilence
  BY <1>4, IdleWhole DEF RxSilence, Return
<1>5. CASE Finished \/ UNCHANGED vars
  BY <1>5, IdleWhole DEF Finished, vars, hostVars
<1>. QED
  BY <1>1, <1>2, <1>3, <1>4, <1>5 DEF Line

(* An ack of the fragment padp_tx waits for, or the response in its place. *)
LEMMA TxAckWhole ==
  ASSUME TypeOK, OrderInv, WholeInv, NEW p \in First(toHost), toHost' = Tail(toHost),
         TxMissingAck(p) \/ TxAck(p)
  PROVE  WholeInv'
<1>1. /\ toDev \in Seq(Frames) /\ toHost \in Seq(Frames) /\ toHost # <<>>
      /\ In(toHost') \subseteq In(toHost) /\ AcksOk(toDev) /\ pc = "txWait"
      /\ UNCHANGED <<devVars, call, ids, rxbuf, reqLen, outcome>> /\ sent' = sent + 1
  BY FirstType, InTail DEF TypeOK, WholeInv, TxMissingAck, TxAck, TxDone, TxReads
<1>2. sent \in Nat /\ reqLen \in Nat /\ rxbuf = <<>> /\ sent < reqLen /\ execs' = execs
  BY <1>1 DEF TypeOK, WholeInv, BufferOk, RequestSent, devVars
<1>3. CASE pc' = "rxFirst" /\ toDev' = toDev
  <2>1. AcksOk(toDev)' /\ RequestSent(toDev)'
    BY <1>1, <1>3 DEF AcksOk, AckOk, RequestSent, devVars
  <2>2. BufferOk'
    BY <1>1, <1>2, <1>3 DEF WholeInv, BufferOk, Replied, Receiving, devVars
  <2>3. InStep'
    BY <1>1, <1>3 DEF WholeInv, InStep, Own, Replied, Fragment, devVars, In
  <2>. QED
    BY <2>1, <2>2, <2>3 DEF WholeInv
<1>4. CASE /\ pc' = "txWait" /\ sent + 1 # reqLen
           /\ toDev' = Put(toDev, Data(txid, sent + 1, reqLen, call))
  <2>1. PICK d : d = Data(txid, sent + 1, reqLen, call)
    OBVIOUS
  <2>2. /\ d \in Frames /\ AckOk(d) /\ d.kind # "ack"
        /\ d.hdr.last <=> (sent + 1) + 1 = reqLen
    <3>1. d.kind = "data" /\ (d.hdr.last <=> (sent + 1) + 1 = reqLen)
      BY <1>2, <2>1, DataFields
    <3>2. d \in Frames
      BY <1>2, <2>1, DataType DEF TypeOK
    <3>. QED
      BY <3>1, <3>2 DEF AckOk
  <2>3. AcksOk(toDev') /\ \A x \in In(toDev') : x \in In(toDev) \/ x = d
    BY <1>1, <1>4, <2>1, <2>2, AcksPut, InPut
  <2>4. AcksOk(toDev)'
    BY <1>1, <2>3 DEF AcksOk, AckOk, devVars
  <2>5. RequestSent(toDev)'
    <3>1. execs[call] # 1 /\ ~ \E x \in In(toDev) : Own(x) /\ x.hdr.last
      BY <1>1, <1>4 DEF WholeInv, RequestSent
    <3>2. ASSUME NEW x \in In(toDev'), x.kind = "data", x.call = call, x.hdr.last
          PROVE  sent' + 1 = reqLen
      BY <1>1, <2>2, <2>3, <3>1, <3>2 DEF Own
    <3>3. sent' < reqLen'
      BY <1>1, <1>2, <1>4
    <3>. QED
      BY <1>1, <1>2, <3>1, <3>2, <3>3 DEF RequestSent, Own
  <2>6. BufferOk'
    BY <1>1, <1>4 DEF WholeInv, BufferOk, Replied, Receiving, devVars
  <2>7. InStep'
    <3>1. \A x \in In(toHost') : (Own(x) => Replied /\ Fragment(x))'
      BY <1>1 DEF WholeInv, InStep, Own, Replied, Fragment, devVars
    <3>2. \A x \in In(toDev') : x.kind = "ack" /\ x.call = call => Offset(x) < Len(rxbuf)
      BY <2>2, <2>3 DEF WholeInv, InStep
    <3>. QED
      BY <1>1, <3>1, <3>2 DEF InStep, Own, In
  <2>. QED
    BY <2>4, <2>5, <2>6, <2>7 DEF WholeInv
<1>. QED
  BY <1>1, <1>3, <1>4 DEF TxMissingAck, TxAck, TxDone, TxLastFrag


(* A wanted fragment is the next one or one the buffer already has.        *)
LEMMA RxAcceptWhole ==
  ASSUME TypeOK, OrderInv, WholeInv, NEW p \in First(toHost), toHost' = Tail(toHost),
         RxAccept(p)
  PROVE  WholeInv'
<1> DEFINE n == Len(rxbuf)
           o == Offset(p)
<1>1. /\ toDev \in Seq(Frames) /\ toHost \in Seq(Frames) /\ toHost # <<>>
      /\ p \in Frames /\ p \in In(toHost) /\ In(toHost') \subseteq In(toHost)
      /\ rxbuf \in Seq(Pieces) /\ n \in Nat /\ devOff \in Nat /\ devLen \in Nat
  BY FirstType, InFirst, InTail DEF TypeOK
<1>2. /\ Receiving /\ p.kind = "data" /\ ~p.mem /\ p.hdr.txid = txid /\ pc # "idle"
      /\ pc # "txWait" /\ UNCHANGED <<devVars, call, ids, sent, reqLen>>
      /\ toDev' = Put(toDev, AckOf(p))
  BY DEF RxAccept, Receiving, IsWanted, Acked
<1>3. p.call = call /\ call \in 1..MaxCalls /\ call \in Nat /\ call >= 1
  BY <1>2, HostFrameCall, CallsAreNat, PadpAssumption DEF TypeOK
<1>4. Replied /\ n < devLen /\ devOff <= n
  BY <1>1, <1>2, <1>3 DEF WholeInv, InStep, BufferOk, Own
<1>5. PICK i \in Nat : i <= devOff /\ i < devLen /\ p.hdr = Header(ids[call], i, devLen)
  BY <1>1, <1>2, <1>3 DEF WholeInv, InStep, Own, Fragment
<1>6. o = i /\ (p.hdr.last <=> i + 1 = devLen)
  BY <1>1, <1>5, HeaderOffset
<1>7. PICK a : a = AckOf(p)
  OBVIOUS
<1>8. /\ AcksOk(toDev') /\ a.kind = "ack" /\ a.call = call /\ Offset(a) = i
      /\ \A x \in In(toDev') : x \in In(toDev) \/ x = a
  <2>1. /\ AcksOk(Put(toDev, a)) /\ a.kind = "ack" /\ a.call = p.call /\ a \in Frames
        /\ Offset(a) = Offset(p)
    BY <1>2, <1>7, AckFits DEF WholeInv
  <2>2. \A x \in In(Put(toDev, a)) : x \in In(toDev) \/ x = a
    BY <1>1, <2>1, InPut
  <2>. QED
    BY <1>2, <1>3, <1>6, <1>7, <2>1, <2>2
<1>9. /\ n \in Nat /\ Len(rxbuf') \in Nat /\ i < Len(rxbuf') /\ n <= Len(rxbuf')
      /\ Len(rxbuf') <= devLen
      /\ IF i + 1 = devLen THEN Len(rxbuf') = devLen ELSE Len(rxbuf') < devLen
  <2>1. CASE i = n
    <3>1. rxbuf' = Append(rxbuf, [call |-> p.call, off |-> o])
      BY <1>6, <2>1 DEF RxAccept
    <3>2. Len(rxbuf') = n + 1
      BY <1>1, <3>1
    <3>. QED
      BY <1>1, <1>4, <1>5, <2>1, <3>2
  <2>2. CASE i # n
    <3>1. rxbuf' = rxbuf
      BY <1>6, <2>2 DEF RxAccept
    <3>2. i < n
      BY <1>1, <1>4, <1>5, <2>2
    <3>. QED
      BY <1>1, <1>4, <1>5, <3>1, <3>2
  <2>. QED
    BY <2>1, <2>2
<1> HIDE DEF n, o
<1>10. \/ i + 1 = devLen /\ pc' = "idle" /\ outcome' = "ok"
       \/ i + 1 # devLen /\ pc' = "rxNext" /\ outcome' = outcome
  BY <1>6 DEF RxAccept, EndsResponse, Return
<1>11. outcome # "ok"
  BY <1>2 DEF OrderInv, IdsInv
<1>12. AcksOk(toDev)' /\ RequestSent(toDev)'
  BY <1>2, <1>8, <1>10 DEF AcksOk, AckOk, RequestSent, devVars
<1>13. Replied'
  BY <1>2, <1>4 DEF Replied, devVars
<1>14. BufferOk'
  <2>1. UNCHANGED <<devOff, devLen, devMode>>
    BY <1>2 DEF devVars
  <2>2. devMode = "reply" => devOff < devLen
    BY <1>4 DEF WholeInv, BufferOk
  <2>3. devOff <= Len(rxbuf') /\ devLen > 0
    BY <1>1, <1>4, <1>9 DEF n
  <2>4. outcome' = "ok" => Len(rxbuf') = devLen
    BY <1>9, <1>10, <1>11
  <2>5. Receiving' => Len(rxbuf') < devLen
    BY <1>9, <1>10 DEF Receiving
  <2>. QED
    BY <1>9, <1>10, <1>13, <2>1, <2>2, <2>3, <2>4, <2>5 DEF BufferOk
<1>15. InStep'
  <2>1. \A x \in In(toHost') : (Own(x) => Replied /\ Fragment(x))'
    BY <1>1, <1>2 DEF WholeInv, InStep, Own, Replied, Fragment, devVars
  <2>2. ASSUME NEW x \in In(toDev'), x.kind = "ack", x.call = call
        PROVE  Offset(x) < Len(rxbuf')
    <3>1. CASE x = a
      BY <1>8, <1>9, <3>1
    <3>2. CASE x \in In(toDev)
      <4>1. Offset(x) < n /\ x \in Frames
        BY <1>1, <2>2, <3>2, InSeq DEF WholeInv, InStep, n
      <4>2. Offset(x) \in Nat
        BY <4>1, OffsetType
      <4>. QED
        BY <1>9, <4>1, <4>2
    <3>. QED
      BY <1>8, <2>2, <3>1, <3>2
  <2>. QED
    BY <1>2, <2>1, <2>2 DEF InStep, Own, In
<1>. QED
  BY <1>12, <1>14, <1>15 DEF WholeInv

(* A fragment acked before belongs to the last call: one of this call is   *)
(* taken for its response, since the request has been sent to its end.     *)
LEMMA TxRepeatWhole ==
  ASSUME TypeOK, OrderInv, WholeInv, NEW p \in First(toHost), toHost' = Tail(toHost),
         TxRepeat(p)
  PROVE  WholeInv'
<1>1. /\ toDev \in Seq(Frames) /\ toHost \in Seq(Frames) /\ toHost # <<>>
      /\ p \in Frames /\ In(toHost') \subseteq In(toHost) /\ pc = "txWait"
      /\ p.kind = "data" /\ ~IsResponse(p) /\ TxAgain(Put(toDev, AckOf(p))) /\ UNCHANGED devVars
  BY FirstType, InTail DEF TypeOK, TxRepeat, TxReads, IsRepeat
<1>2. HostFrameOk(p)
  BY FirstType DEF OrderInv, ToHostOk, TypeOK
<1>4. p.call # call
  <2>1. SUFFICES ASSUME p.call = call PROVE FALSE
    OBVIOUS
  <2>2. execs[call] = 1 /\ p.hdr.txid = ids[call] /\ txid = ids[call]
    BY <1>1, <1>2, <2>1 DEF HostFrameOk, OrderInv, IdsInv
  <2>3. sent + 1 = reqLen
    BY <1>1, <2>2 DEF WholeInv, RequestSent
  <2>. QED
    BY <1>1, <2>2, <2>3 DEF IsResponse, TxLastFrag
<1>5. PICK a : a = AckOf(p)
  OBVIOUS
<1>6. AcksOk(Put(toDev, a)) /\ a.kind = "ack" /\ a.call = p.call /\ a \in Frames
  BY <1>1, <1>5, AckFits DEF WholeInv
<1>7. \A x \in In(Put(toDev, a)) : x \in In(toDev) \/ (x.kind = "ack" /\ x.call # call)
  BY <1>1, <1>4, <1>6, InPut
<1>8. Put(toDev, a) \in Seq(Frames)
  BY <1>1, <1>6, PutType
<1>. QED
  BY <1>1, <1>5, <1>6, <1>7, <1>8, TxAgainWhole

LEMMA HostReadsWhole == TypeOK /\ OrderInv /\ WholeInv /\ HostReads => WholeInv'
<1>. SUFFICES ASSUME TypeOK, OrderInv, WholeInv, NEW p \in First(toHost),
                     toHost' = Tail(toHost),
                     \/ TxSwallow \/ TxTickle(p) \/ TxMissingAck(p) \/ TxAck(p)
                     \/ TxFail(p) \/ TxRepeat(p)
                     \/ RxAccept(p) \/ RxMemErr(p) \/ RxWrong(p)
              PROVE  WholeInv'
  BY DEF HostReads
<1>1. toHost # <<>>
  BY DEF First
<1>2. CASE TxSwallow \/ TxTickle(p) \/ TxFail(p) \/ RxMemErr(p) \/ RxWrong(p)
  <2>1. /\ UNCHANGED <<devVars, call, ids, rxbuf, sent, reqLen, toDev>>
        /\ \/ UNCHANGED <<pc, outcome>>
           \/ pc' = "idle" /\ outcome' # "ok"
    BY <1>2 DEF TxSwallow, TxTickle, TxFail, RxMemErr, RxWrong, Return, hostVars
  <2>. QED
    BY <1>1, <2>1, IdleWhole
<1>. QED
  BY <1>2, TxAckWhole, TxRepeatWhole, RxAcceptWhole


LEMMA BeginWhole ==
  ASSUME ~GoesOn, TypeOK, OrderInv, WholeInv, Begin
  PROVE  WholeInv'
<1>1. PICK n \in ReqFrags : PadpTx(n)
  BY DEF Begin
<1>2. /\ pc = "idle" /\ outcome \in {"none", "ok"} /\ call < MaxCalls
      /\ pc' = "txWait" /\ outcome' = "none" /\ call' = call + 1 /\ sent' = 0
      /\ reqLen' = n /\ rxbuf' = <<>> /\ ids' = [ids EXCEPT ![call + 1] = TxTxid]
      /\ toDev' = Put(toDev, Data(TxTxid, 0, n, call + 1)) /\ UNCHANGED devVars
  BY <1>1 DEF PadpTx
<1>3. n \in Nat \ {0} /\ call \in Nat /\ devCall = call /\ call + 1 \in 1..MaxCalls
      /\ MaxCalls \in Nat /\ devCall \in Nat /\ call + 1 \in 0..MaxCalls
  BY <1>2, CallsAreNat, PadpAssumption, Settled DEF TypeOK
<1>4. /\ toDev \in Seq(Frames) /\ toHost \in Seq(Frames) /\ ids \in Ids
      /\ \A k \in 1..MaxCalls : k # call + 1 => ids'[k] = ids[k]
  BY <1>2 DEF TypeOK, Ids
<1>5. In(toHost') \subseteq In(toHost)
  <2>1. PICK k \in 0..Len(toHost) : toHost' = SubSeq(toHost, k + 1, Len(toHost))
    BY <1>1, <1>4 DEF PadpTx
  <2>2. /\ Len(toHost') = Len(toHost) - k
        /\ \A i \in 1..(Len(toHost) - k) : toHost'[i] = toHost[k + i] /\ k + i \in 1..Len(toHost)
    BY <1>4, <2>1, SuffixIndex
  <2>3. ASSUME NEW i \in 1..Len(toHost') PROVE toHost'[i] \in In(toHost)
    BY <2>2 DEF In
  <2>. QED
    BY <2>3 DEF In
<1>6. PICK d : d = Data(TxTxid, 0, n, call + 1)
  OBVIOUS
<1>7. d.kind = "data" /\ d.call = call + 1 /\ (d.hdr.last <=> 0 + 1 = n) /\ d \in Frames
  <2>1. TxTxid \in Txids
    BY TxTxidType DEF TypeOK
  <2>2. d \in Frames
    BY <1>3, <1>6, <2>1, DataType
  <2>3. d.kind = "data" /\ d.call = call + 1 /\ (d.hdr.last <=> 0 + 1 = n)
    BY <1>3, <1>6, DataFields
  <2>. QED
    BY <2>2, <2>3
<1>8. AcksOk(toDev') /\ \A x \in In(toDev') : x \in In(toDev) \/ x = d
  <2>1. AckOk(d)
    BY <1>7 DEF AckOk
  <2>2. AcksOk(Put(toDev, d)) /\ \A x \in In(Put(toDev, d)) : x \in In(toDev) \/ x = d
    BY <1>4, <1>7, <2>1, AcksPut, InPut DEF WholeInv
  <2>. QED
    BY <1>2, <1>6, <2>2
<1>9. ASSUME NEW x \in In(toDev), x.kind = "ack"
      PROVE  AckOk(x)' /\ x.call # call + 1
  <2>1. x \in Frames /\ AckOk(x)
    BY <1>4, InSeq DEF WholeInv, AcksOk
  <2>2. /\ x.call \in Nat /\ x.call >= 1 /\ x.call <= devCall /\ x.hdr.txid = ids[x.call]
        /\ devCall <= x.call + 1
    BY <1>9, <2>1, CallsAreNat DEF AckOk, Frames
  <2>3. x.call \in 1..MaxCalls /\ x.call # call + 1
    BY <1>3, <2>2
  <2>4. devCall' = devCall
    BY <1>2 DEF devVars
  <2>. QED
    BY <1>4, <2>2, <2>3, <2>4 DEF AckOk
<1>10. AcksOk(toDev)'
  <2>1. \A x \in In(toDev') : AckOk(x)'
    BY <1>7, <1>8, <1>9 DEF AckOk
  <2>. QED
    BY <1>8, <2>1 DEF AcksOk, In
<1>11. RequestSent(toDev)'
  <2>1. execs'[call + 1] = 0
    BY <1>2, <1>3 DEF OrderInv, DevInv, devVars
  <2>2. ASSUME NEW x \in In(toDev'), x.kind = "data", x.call = call + 1, x.hdr.last
        PROVE  0 + 1 = n
    <3>1. CASE x \in In(toDev)
      <4>1. x \in Frames /\ DevFrameOk(x)
        BY <1>4, <3>1, InSeq DEF OrderInv, ToDevOk, In
      <4>2. x.call <= call
        BY <2>2, <4>1 DEF DevFrameOk
      <4>. QED
        BY <1>3, <2>2, <4>2
    <3>. QED
      BY <1>7, <1>8, <2>2, <3>1
  <2>3. 0 < n /\ sent' = 0 /\ reqLen' = n /\ call' = call + 1
    BY <1>2, <1>3
  <2>. QED
    BY <2>1, <2>2, <2>3 DEF RequestSent, Own
<1>12. ~Replied'
  BY <1>2, <1>3 DEF Replied, devVars
<1>13. BufferOk'
  BY <1>2, <1>12 DEF BufferOk
<1>14. InStep'
  <2>1. ASSUME NEW x \in In(toHost'), x.kind = "data" PROVE x.call # call + 1
    <3>1. x \in Frames /\ HostFrameOk(x)
      BY <1>4, <1>5, InSeq DEF OrderInv, ToHostOk, In
    <3>2. x.call <= call
      BY <2>1, <3>1 DEF HostFrameOk
    <3>. QED
      BY <1>3, <3>2
  <2>2. ASSUME NEW x \in In(toDev'), x.kind = "ack" PROVE x.call # call + 1
    BY <1>7, <1>8, <1>9, <2>2
  <2>. QED
    BY <1>2, <2>1, <2>2 DEF InStep, Own, In
<1>. QED
  BY <1>10, <1>11, <1>13, <1>14 DEF WholeInv

(* The device sends on, for the request it has carried out. *)
LEMMA DeviceWhole ==
  ASSUME TypeOK, OrderInv, WholeInv, UNCHANGED <<hostVars, devTxid, devCall, execs, devLen>>,
         \/ devMode' = devMode
         \/ devMode = "reply" /\ devMode' = "wait",
         \/ devOff' = devOff
         \/ /\ devOff' = devOff + 1
            /\ Replied => /\ devOff' <= Len(rxbuf)
                          /\ devMode' = "reply" => devOff' < devLen,
         AcksOk(toDev'), In(toDev') \subseteq In(toDev),
         \A x \in In(toHost') : \/ x \in In(toHost)
                                \/ x.kind # "data"
                                \/ Own(x) => Replied /\ Fragment(x)'
  PROVE  WholeInv'
<1>1. UNCHANGED <<pc, call, ids, rxbuf, sent, reqLen, outcome>>
  BY DEF hostVars
<1>2. devOff \in Nat /\ devLen \in Nat /\ devOff <= devOff'
  BY DEF TypeOK
<1>3. AcksOk(toDev)' /\ RequestSent(toDev)'
  BY <1>1 DEF WholeInv, AcksOk, AckOk, RequestSent, Own, In
<1>4. Replied' = Replied
  BY <1>1 DEF Replied
<1>5. BufferOk'
  BY <1>1, <1>4 DEF WholeInv, BufferOk, Receiving
<1>6. ASSUME NEW x \in In(toHost'), x.kind = "data", x.call = call
      PROVE  Replied' /\ Fragment(x)'
  <2>1. CASE x \in In(toHost)
    <3>1. Replied /\ Fragment(x)
      BY <1>6, <2>1 DEF WholeInv, InStep, Own
    <3>2. PICK i \in Nat : i <= devOff /\ i < devLen /\ x.hdr = Header(ids[call], i, devLen)
      BY <3>1 DEF Fragment
    <3>3. i <= devOff'
      BY <1>2, <3>2
    <3>. QED
      BY <1>1, <1>4, <3>1, <3>2, <3>3 DEF Fragment
  <2>. QED
    BY <1>4, <1>6, <2>1 DEF Own
<1>7. InStep'
  BY <1>1, <1>6 DEF WholeInv, InStep, Own, In
<1>. QED
  BY <1>3, <1>5, <1>7 DEF WholeInv

(* A fragment of the response on its way. *)
LEMMA OwnFragment ==
  ASSUME TypeOK, OrderInv, devMode = "reply", NEW i \in Nat, NEW n \in Nat,
         UNCHANGED <<hostVars>>, devLen' = n, i < n, devOff' \in Nat, i <= devOff',
         NEW x, x = DevFrag(i, n)
  PROVE  x \in Frames /\ x.kind = "data" /\ (Own(x) => Replied /\ Fragment(x)')
<1>1. x.kind = "data" /\ x.call = devCall /\ x.hdr = Header(devTxid, i, n) /\ x \in Frames
  <2>1. x = Data(devTxid, i, n, devCall)
    BY DEF DevFrag
  <2>2. x \in Frames
    BY <2>1, DataType DEF TypeOK
  <2>3. x.kind = "data" /\ x.call = devCall /\ x.hdr = Header(devTxid, i, n)
    BY <2>1, DataFields
  <2>. QED
    BY <2>2, <2>3
<1>2. devCall >= 1 /\ execs[devCall] = 1 /\ devTxid = ids[devCall]
  BY DeviceKnows
<1>3. UNCHANGED <<call, ids>>
  BY DEF hostVars
<1>4. ASSUME Own(x) PROVE Replied /\ Fragment(x)'
  <2>1. devCall = call
    BY <1>1, <1>4 DEF Own
  <2>. QED
    BY <1>1, <1>2, <1>3, <2>1 DEF Replied, Fragment
<1>. QED
  BY <1>1, <1>4


LEMMA DevReplyWhole ==
  ASSUME TypeOK, OrderInv, WholeInv, DevReply
  PROVE  WholeInv'
<1>1. PICK n \in RespFrags : devLen' = n /\ toHost' = Put(toHost, DevFrag(0, n))
  BY DEF DevReply
<1>2. /\ devMode = "exec" /\ devMode' = "reply" /\ devOff' = 0
      /\ UNCHANGED <<hostVars, toDev, devTxid, devCall, execs>>
      /\ UNCHANGED <<pc, call, ids, rxbuf, sent, reqLen, outcome>>
  BY DEF DevReply, hostVars
<1>3. n \in Nat \ {0} /\ toHost \in Seq(Frames) /\ devTxid \in Txids /\ devCall \in 0..MaxCalls
  BY PadpAssumption DEF TypeOK
<1>4. devCall >= 1 /\ execs[devCall] = 1 /\ devTxid = ids[devCall]
  BY <1>2, DeviceKnows
<1>5. ~Replied /\ rxbuf = <<>> /\ outcome # "ok"
  BY <1>2 DEF WholeInv, BufferOk, Replied
<1>6. PICK x : x = DevFrag(0, n)
  OBVIOUS
<1>7. /\ x \in Frames /\ x.call = devCall /\ x.hdr = Header(ids[devCall], 0, n)
  <2>1. x = Data(devTxid, 0, n, devCall)
    BY <1>6 DEF DevFrag
  <2>2. x \in Frames
    BY <1>3, <2>1, DataType
  <2>3. x.call = devCall /\ x.hdr = Header(devTxid, 0, n)
    BY <1>3, <2>1, DataFields
  <2>. QED
    BY <1>4, <2>2, <2>3
<1>8. AcksOk(toDev)' /\ RequestSent(toDev)'
  BY <1>2 DEF WholeInv, AcksOk, AckOk, RequestSent, Own, In
<1>9. BufferOk'
  <2>1. Len(rxbuf') = 0
    BY <1>2, <1>5
  <2>. QED
    BY <1>1, <1>2, <1>3, <1>5, <2>1 DEF BufferOk
<1>10. ASSUME NEW y \in In(toHost'), y.kind = "data", y.call = call
       PROVE  Replied' /\ Fragment(y)'
  <2>1. y \in In(toHost) \/ y = x
    BY <1>1, <1>3, <1>6, <1>7, InPut
  <2>2. y \notin In(toHost)
    BY <1>5, <1>10 DEF WholeInv, InStep, Own
  <2>3. y = x /\ devCall = call
    BY <1>7, <1>10, <2>1, <2>2
  <2>4. Replied'
    BY <1>2, <1>4, <2>3 DEF Replied
  <2>5. Fragment(y)'
    <3>1. 0 \in Nat /\ 0 <= devOff' /\ 0 < devLen' /\ y.hdr = Header(ids'[call'], 0, devLen')
      BY <1>1, <1>2, <1>3, <1>7, <2>3
    <3>. QED
      BY <3>1 DEF Fragment
  <2>. QED
    BY <2>4, <2>5
<1>11. InStep'
  BY <1>2, <1>10 DEF WholeInv, InStep, Own, In
<1>. QED
  BY <1>8, <1>9, <1>11 DEF WholeInv

LEMMA DevTimersWhole ==
  TypeOK /\ OrderInv /\ WholeInv /\ (DevResend \/ DevGiveUp \/ DevTickle) => WholeInv'
<1>. SUFFICES ASSUME TypeOK, OrderInv, WholeInv, DevResend \/ DevGiveUp \/ DevTickle
              PROVE  WholeInv'
  OBVIOUS
<1>1. /\ UNCHANGED <<hostVars, toDev, devTxid, devCall, execs, devLen, devOff>>
      /\ AcksOk(toDev') /\ In(toDev') \subseteq In(toDev) /\ toHost \in Seq(Frames)
      /\ devOff \in Nat /\ devLen \in Nat
  BY DEF DevResend, DevGiveUp, DevTickle, devVars, WholeInv, TypeOK
<1>2. CASE DevGiveUp
  BY <1>1, <1>2, DeviceWhole DEF DevGiveUp
<1>3. CASE DevTickle
  <2>1. PICK x : x = Frame("tickle", FALSE, NoAck, devCall)
    OBVIOUS
  <2>2. x \in Frames /\ x.kind # "data"
    <3>1. 0 \in Txids
      BY PadpAssumption DEF Txids
    <3>2. x \in Frames
      BY <2>1, <3>1, HeaderType DEF NoAck, Frame, Frames, TypeOK
    <3>. QED
      BY <2>1, <3>2 DEF Frame
  <2>3. toHost' = Put(toHost, x) /\ devMode' = devMode
    BY <1>3, <2>1 DEF DevTickle, devVars
  <2>4. \A y \in In(toHost') : y \in In(toHost) \/ y.kind # "data"
    BY <1>1, <2>2, <2>3, InPut
  <2>. QED
    BY <1>1, <2>3, <2>4, DeviceWhole
<1>4. CASE DevResend
  <2>1. /\ devMode = "reply" /\ devMode' = devMode
        /\ toHost' = Put(toHost, DevFrag(devOff, devLen))
    BY <1>4 DEF DevResend
  <2>2. PICK x : x = DevFrag(devOff, devLen)
    OBVIOUS
  <2>3. x \in Frames /\ (Own(x) => Replied /\ Fragment(x)')
    <3>1. x = Data(devTxid, devOff, devLen, devCall)
      BY <2>2 DEF DevFrag
    <3>2. x \in Frames /\ x.call = devCall
      <4>1. x \in Frames
        BY <1>1, <3>1, DataType DEF TypeOK
      <4>2. x.call = devCall
        BY <1>1, <3>1, DataFields DEF TypeOK
      <4>. QED
        BY <4>1, <4>2
    <3>3. CASE devCall = call
      <4>1. Replied
        BY <2>1, <3>3, DeviceKnows DEF Replied
      <4>2. devOff < devLen
        BY <2>1, <4>1 DEF WholeInv, BufferOk
      <4>. QED
        BY <1>1, <2>1, <2>2, <4>2, OwnFragment
    <3>. QED
      BY <3>2, <3>3 DEF Own
  <2>4. \A y \in In(toHost') : y \in In(toHost) \/ (Own(y) => Replied /\ Fragment(y)')
    BY <1>1, <2>1, <2>2, <2>3, InPut
  <2>. QED
    BY <1>1, <2>1, <2>4, DeviceWhole
<1>. QED
  BY <1>2, <1>3, <1>4

(* The device takes the ack of the fragment it sent last, and that one is  *)
(* in the buffer.                                                          *)
LEMMA DevGetsAckWhole ==
  ASSUME DevStrictAcks, TypeOK, OrderInv, WholeInv,
         NEW p \in First(toDev), toDev' = Tail(toDev), DevGetsAck(p)
  PROVE  WholeInv'
<1>1. /\ toDev \in Seq(Frames) /\ toHost \in Seq(Frames) /\ toDev # <<>> /\ p \in In(toDev)
      /\ p \in Frames /\ AcksOk(toDev') /\ In(toDev') \subseteq In(toDev) /\ p.kind = "ack"
      /\ UNCHANGED <<hostVars, devTxid, devCall, execs, devLen>>
  BY FirstType, InFirst, InTail, AcksTail DEF TypeOK, WholeInv, DevGetsAck
<1>2. devOff \in Nat /\ devLen \in Nat /\ devOff + 1 \in Nat
  BY DEF TypeOK
<1>3. CASE ~AcksReply(p)
  <2>1. UNCHANGED <<devMode, devOff, toHost>>
    BY <1>3 DEF DevGetsAck
  <2>. QED
    BY <1>1, <2>1, DeviceWhole
<1>4. CASE AcksReply(p)
  <2>1. devMode = "reply" /\ p.hdr = Header(devTxid, devOff, devLen) /\ p.hdr.txid = devTxid
        /\ devOff' = devOff + 1
    BY <1>4 DEF DevGetsAck, AcksReply
  <2>2. /\ devCall >= 1 /\ execs[devCall] = 1 /\ devTxid = ids[devCall] /\ devCall \in Nat
        /\ call \in Nat
    BY <2>1, DeviceKnows
  <2>3. ASSUME devCall = call
        PROVE  devOff + 1 <= Len(rxbuf) /\ Len(rxbuf) <= devLen
    <3>1. Replied
      BY <2>1, <2>2, <2>3 DEF Replied
    <3>2. p.call \in Nat /\ p.call >= 1 /\ p.call <= devCall /\ devCall <= p.call + 1
          /\ ids[p.call] = ids[devCall]
      BY <1>1, <2>1, <2>2, CallsAreNat DEF WholeInv, AcksOk, AckOk, Frames
    <3>3. call >= 2 => ids[call] # ids[call - 1]
      BY DEF OrderInv, IdsInv
    <3>4. p.call = call
      BY <2>2, <2>3, <3>2, <3>3
    <3>5. Offset(p) < Len(rxbuf) /\ Offset(p) = devOff
      BY <1>1, <1>2, <2>1, <3>4, HeaderOffset DEF WholeInv, InStep
    <3>6. Len(rxbuf) \in Nat
      BY DEF TypeOK
    <3>. QED
      BY <1>2, <3>1, <3>5, <3>6 DEF WholeInv, BufferOk
  <2>4. Len(rxbuf) \in Nat
    BY DEF TypeOK
  <2>5. CASE devOff + 1 = devLen
    <3>1. devMode' = "wait" /\ toHost' = toHost
      BY <1>4, <2>5 DEF DevGetsAck
    <3>. QED
      BY <1>1, <2>1, <2>3, <3>1, DeviceWhole DEF Replied
  <2>6. CASE devOff + 1 # devLen
    <3>1. devMode' = devMode /\ toHost' = Put(toHost, DevFrag(devOff + 1, devLen))
      BY <1>4, <2>6 DEF DevGetsAck
    <3>2. devCall = call => devOff + 1 < devLen
      BY <1>2, <2>3, <2>4, <2>6
    <3>3. PICK x : x = DevFrag(devOff + 1, devLen)
      OBVIOUS
    <3>4. x \in Frames /\ (Own(x) => Replied /\ Fragment(x)')
      <4>1. x = Data(devTxid, devOff + 1, devLen, devCall)
        BY <3>3 DEF DevFrag
      <4>2. x \in Frames /\ x.call = devCall
        <5>1. x \in Frames
          BY <1>2, <4>1, DataType DEF TypeOK
        <5>2. x.call = devCall
          BY <1>2, <4>1, DataFields DEF TypeOK
        <5>. QED
          BY <5>1, <5>2
      <4>3. CASE devCall = call
        BY <1>1, <1>2, <2>1, <3>2, <3>3, <4>3, OwnFragment
      <4>. QED
        BY <4>2, <4>3 DEF Own
    <3>5. \A y \in In(toHost') : y \in In(toHost) \/ (Own(y) => Replied /\ Fragment(y)')
      BY <1>1, <3>1, <3>3, <3>4, InPut
    <3>. QED
      BY <1>1, <2>1, <2>3, <3>1, <3>2, <3>5, DeviceWhole DEF Replied
  <2>. QED
    BY <2>5, <2>6
<1>. QED
  BY <1>3, <1>4

(* The device takes a request: nothing of its response is under way yet.   *)
LEMMA DevAcceptWhole ==
  ASSUME TypeOK, OrderInv, WholeInv,
         NEW p \in First(toDev), toDev' = Tail(toDev), DevAccept(p)
  PROVE  WholeInv'
<1>1. /\ toDev \in Seq(Frames) /\ toHost \in Seq(Frames) /\ toDev # <<>> /\ p \in In(toDev)
      /\ p \in Frames /\ AcksOk(toDev') /\ In(toDev') \subseteq In(toDev) /\ p = toDev[1]
  BY FirstType, InFirst, InTail, AcksTail DEF TypeOK, WholeInv
<1>2. /\ p.kind = "data" /\ devCall' = p.call /\ UNCHANGED <<hostVars, devLen, devOff>>
      /\ UNCHANGED <<pc, call, ids, rxbuf, sent, reqLen, outcome>>
      /\ toHost' = Put(toHost, AckOf(p))
      /\ \/ /\ p.hdr.last /\ devMode' = "exec"
            /\ execs' = [execs EXCEPT ![p.call] = @ + 1]
         \/ ~p.hdr.last /\ devMode' = "recv" /\ execs' = execs
  BY DEF DevAccept, IsNewRequest, IsNextFrag, hostVars
<1>3. /\ p.call \in 1..MaxCalls /\ p.call <= call /\ execs[p.call] = 0
  BY FreshRequest
<1>4. /\ call \in Nat /\ devCall \in Nat /\ p.call \in Nat /\ call \in 0..MaxCalls
      /\ p.call = devCall \/ p.call = devCall + 1
      /\ execs \in [1..MaxCalls -> Nat] /\ MaxCalls \in Nat
  BY <1>2, <1>3, DevFrameCall, DeviceKnows, PadpAssumption DEF TypeOK, Counts
<1>5. ~Replied /\ rxbuf = <<>> /\ outcome # "ok"
  BY <1>3, <1>4 DEF Replied, WholeInv, BufferOk
<1>6. ~Replied'
  BY <1>2, <1>3 DEF Replied
<1>7. AcksOk(toDev)'
  <2>1. ASSUME NEW j \in 1..Len(Tail(toDev)), NEW x, x = Tail(toDev)[j], x.kind = "ack"
        PROVE  AckOk(x)'
    <3>1. /\ j + 1 \in 1..Len(toDev) /\ Tail(toDev)[j] = toDev[j + 1]
          /\ 1 \in 1..Len(toDev) /\ 1 < j + 1
      BY <1>1, TailIndex
    <3>2. x = toDev[j + 1] /\ x \in In(toDev) /\ x \in Frames /\ x.kind = "ack"
      BY <1>1, <2>1, <3>1 DEF In
    <3>3. p.call <= x.call + 1
      BY <1>1, <1>2, <3>1, <3>2 DEF WholeInv, AcksOk
    <3>4. AckOk(x)
      BY <3>2 DEF WholeInv, AcksOk
    <3>5. x.call \in Nat
      BY <3>2, CallsAreNat DEF Frames
    <3>6. x.call <= p.call
      BY <1>4, <3>2, <3>4, <3>5 DEF AckOk
    <3>. QED
      BY <1>2, <3>2, <3>3, <3>4, <3>6 DEF AckOk
  <2>2. ASSUME NEW x \in In(toDev')
        PROVE  AckOk(x)'
    <3>1. PICK j \in 1..Len(Tail(toDev)) : x = Tail(toDev)[j]
      BY DEF In
    <3>2. x.kind = "ack" => AckOk(x)'
      BY <2>1, <3>1
    <3>. QED
      BY <3>2 DEF AckOk
  <2>. QED
    BY <1>1, <2>2 DEF AcksOk, In
<1>8. RequestSent(toDev)'
  <2>1. SUFFICES ASSUME pc = "txWait"
                 PROVE  RequestSent(toDev)'
    BY <1>2 DEF RequestSent
  <2>2. sent < reqLen
    BY <2>1 DEF WholeInv, RequestSent
  <2>3. ASSUME execs'[call] = 1 PROVE sent + 1 = reqLen
    <3>1. CASE execs[call] = 1
      BY <2>1, <3>1 DEF WholeInv, RequestSent
    <3>2. CASE execs[call] # 1
      <4>1. p.hdr.last /\ p.call = call
        BY <1>2, <1>3, <1>4, <2>3, <3>2
      <4>. QED
        BY <1>1, <1>2, <2>1, <4>1 DEF WholeInv, RequestSent, Own
    <3>. QED
      BY <3>1, <3>2
  <2>4. ASSUME NEW x \in In(toDev'), x.kind = "data", x.call = call, x.hdr.last
        PROVE  sent + 1 = reqLen
    BY <1>1, <2>1, <2>4 DEF WholeInv, RequestSent, Own
  <2>. QED
    BY <1>2, <2>2, <2>3, <2>4 DEF RequestSent, Own
<1>9. BufferOk'
  BY <1>2, <1>5, <1>6 DEF BufferOk
<1>10. InStep'
  <2>1. PICK a : a = AckOf(p)
    OBVIOUS
  <2>2. a \in Frames /\ a.kind # "data"
    BY <1>1, <2>1, AckType DEF AckOf, Frame
  <2>3. ASSUME NEW x \in In(toHost'), x.kind = "data" PROVE x.call # call
    <3>1. x \in In(toHost)
      BY <1>1, <1>2, <2>1, <2>2, <2>3, InPut
    <3>. QED
      BY <1>5, <2>3, <3>1 DEF WholeInv, InStep, Own
  <2>. QED
    BY <1>1, <1>2, <2>3 DEF WholeInv, InStep, Own, In
<1>. QED
  BY <1>7, <1>8, <1>9, <1>10 DEF WholeInv

LEMMA DevReadsWhole ==
  ASSUME DevStrictAcks, TypeOK, OrderInv, WholeInv, DevReads
  PROVE  WholeInv'
<1>1. PICK p \in First(toDev) :
        /\ toDev' = Tail(toDev)
        /\ \/ DevAccept(p) \/ DevMemErr(p) \/ DevRepeatAck(p) \/ DevIgnore(p) \/ DevGetsAck(p)
  BY DEF DevReads
<1>2. /\ toDev \in Seq(Frames) /\ toHost \in Seq(Frames) /\ toDev # <<>> /\ p \in Frames
      /\ AcksOk(toDev') /\ In(toDev') \subseteq In(toDev)
  BY <1>1, FirstType, InTail, AcksTail DEF TypeOK, WholeInv
<1>3. CASE DevMemErr(p) \/ DevRepeatAck(p) \/ DevIgnore(p)
  <2>1. UNCHANGED <<hostVars, devVars>>
    BY <1>3 DEF DevMemErr, DevRepeatAck, DevIgnore
  <2>2. PICK a \in Frames : a.kind # "data" /\ (toHost' = toHost \/ toHost' = Put(toHost, a))
    <3>1. AckOf(p) \in Frames /\ [AckOf(p) EXCEPT !.mem = TRUE] \in Frames
          /\ AckOf(p).kind = "ack" /\ [AckOf(p) EXCEPT !.mem = TRUE].kind = "ack"
      BY <1>2, AckType DEF AckOf, Frame
    <3>. QED
      BY <1>3, <3>1 DEF DevMemErr, DevRepeatAck, DevIgnore
  <2>3. \A x \in In(toHost') : x \in In(toHost) \/ x.kind # "data"
    BY <1>2, <2>2, InPut
  <2>. QED
    BY <1>2, <2>1, <2>3, DeviceWhole DEF devVars
<1>. QED
  BY <1>1, <1>3, DevAcceptWhole, DevGetsAckWhole

LEMMA NextWhole ==
  ASSUME ~GoesOn, DevStrictAcks
  PROVE  TypeOK /\ OrderInv /\ WholeInv /\ [Next]_vars => WholeInv'
BY BeginWhole, HostReadsWhole, TimersWhole, DevReadsWhole, DevReplyWhole, DevTimersWhole
DEF Next

(* A call that succeeds has been given the whole response: padp_rx ends at *)
(* any fragment marked last and acks fragments it does not append, but     *)
(* with a device that waits for the ack of each fragment the one marked    *)
(* last finds all others in the buffer (padp_rx, padp.c).                  *)
THEOREM WholeResponseCorrect ==
  ASSUME ~GoesOn, DevStrictAcks
  PROVE  Spec => []WholeResponse
<1>1. TypeOK /\ OrderInv /\ WholeInv /\ [Next]_vars => WholeInv'
  BY NextWhole
<1>2. WholeInv => WholeResponse
  BY DEF WholeInv, BufferOk, WholeResponse
<1>. QED
  BY <1>1, <1>2, InitWhole, TypeCorrect, OrderCorrect, PTL DEF Spec
=============================================================================
