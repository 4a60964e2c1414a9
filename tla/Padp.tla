-------------------------------- MODULE Padp --------------------------------
(***************************************************************************)
(* The packet assembly/disassembly protocol of libpisock/padp.c, as the    *)
(* accepting end of a connection (ps->state = PI_SOCK_CONN_ACCEPT) runs it *)
(* for a sequence of DLP calls: padp_tx sends a request fragment by        *)
(* fragment and waits for an ack of each, padp_rx then assembles the       *)
(* response and acks each of its fragments.  The device at the other end   *)
(* of the line is external; it is modelled from what padp.c expects of it. *)
(* Each direction of the line is a FIFO that may lose frames, which is     *)
(* what slp_rx makes of a damaged one.                                     *)
(***************************************************************************)
EXTENDS Naturals, Sequences

CONSTANTS
  MaxCalls,        \* bound: number of DLP calls the application makes
  ReqFrags,        \* lengths of a request, in fragments of PI_PADP_MTU bytes
  RespFrags,       \* lengths of a response, in fragments
  TxRetries,       \* PI_PADP_TX_RETRIES
  TxidWrap,        \* transaction id from which the next one is 1 again (0xfe)
  ChanCap,         \* bound: frames the line holds; one more is an overrun
  MaxLosses,       \* bound: frames lost or damaged on the line
  MaxTickles,      \* bound: tickles the device sends
  MaxMemErrs,      \* bound: memory errors the device reports
  DevTries,        \* transmissions of a response fragment before giving up
  DevStrictAcks,   \* does the device compare the header an ack echoes?
  Patient,         \* do timers expire only when nothing is on its way?
  HonorRxTimeout,  \* ps->honor_rx_to
  FlushDiscards,   \* does the flush of the device below discard frames?
  GoesOn           \* does the application call again after a failed call?

ASSUME PadpAssumption ==
  /\ MaxCalls \in Nat /\ ChanCap \in Nat \ {0}
  /\ ReqFrags \subseteq Nat \ {0} /\ RespFrags \subseteq Nat \ {0}
  /\ TxRetries \in Nat \ {0}
  /\ TxidWrap \in Nat /\ TxidWrap >= 4
  /\ MaxLosses \in Nat /\ MaxTickles \in Nat /\ MaxMemErrs \in Nat
  /\ DevTries \in Nat
  /\ DevStrictAcks \in BOOLEAN /\ Patient \in BOOLEAN
  /\ HonorRxTimeout \in BOOLEAN /\ FlushDiscards \in BOOLEAN
  /\ GoesOn \in BOOLEAN

VARIABLES
  pc,        \* where the caller is: "idle", "txWait", "rxFirst", "rxNext"
  conn,      \* ps->state: "ACCEPT" or "BREAK"
  txid,      \* data->txid
  nextTxid,  \* data->next_txid
  lastAck,   \* data->last_ack_txid and last_ack_padp
  retries,   \* retries left for the fragment being sent
  sent,      \* fragments of the request acknowledged so far ("count")
  reqLen,    \* fragments of the request
  stuck,     \* a tickle still occupies the front of padp_buf
  rxbuf,     \* fragments of the response appended so far ("ouroffset")
  outcome,   \* of the last call: "none", "ok", "failed", "timeout", "broken"
  call,      \* number of calls begun
  ids,       \* ids[k]: the transaction id call k was begun with
  toDev,     \* frames on their way to the device
  toHost,    \* frames on their way from the device
  devMode,   \* "wait", "recv", "exec" or "reply"
  devTxid,   \* transaction id of the request last begun
  devCall,   \* the call that request belongs to
  devGot,    \* fragments of it received
  devLen,    \* fragments of the response
  devOff,    \* fragments of it acknowledged
  devTries,  \* transmissions left for the current response fragment
  execs,     \* execs[k]: how many times call k was carried out
  used       \* the budgets spent: losses, tickles, memory errors

hostVars == <<pc, conn, txid, nextTxid, lastAck, retries, sent, reqLen, stuck,
              rxbuf, outcome, call, ids>>
devVars  == <<devMode, devTxid, devCall, devGot, devLen, devOff, devTries, execs>>
vars     == <<hostVars, toDev, toHost, devVars, used>>

-----------------------------------------------------------------------------
(* Frames.  size is the total length in the first fragment and the offset  *)
(* in the others.  call is no part of the frame: it says which call the    *)
(* frame was sent for.                                                     *)

Header(t, i, n) == [txid |-> t, first |-> i = 0, last |-> i + 1 = n,
                    size |-> IF i = 0 THEN n ELSE i]

Frame(kind, mem, h, k) ==
  [kind |-> kind, mem |-> mem, hdr |-> h, call |-> k]

Data(t, i, n, k) == Frame("data", FALSE, Header(t, i, n), k)

(* padp_sendack echoes the header of the packet it acknowledges. *)
AckOf(p) == Frame("ack", FALSE, p.hdr, p.call)

Offset(p) == IF p.hdr.first THEN 0 ELSE p.hdr.size

Put(q, p) == IF Len(q) < ChanCap THEN Append(q, p) ELSE q

(* padp_protocol leaves last_ack_txid and last_ack_padp uninitialized: what *)
(* they hold may or may not look like a packet.                            *)
NoAck == Header(0, 0, 0)

Quiet == toDev = <<>> /\ toHost = <<>> /\ devMode # "exec"

Init ==
  /\ pc = "idle" /\ conn = "ACCEPT"
  /\ txid = TxidWrap + 1 /\ nextTxid = TxidWrap + 1
  /\ lastAck \in {NoAck, Header(1, 0, 1)}
  /\ retries = 0 /\ sent = 0 /\ reqLen = 0 /\ stuck = FALSE
  /\ rxbuf = <<>> /\ outcome = "none"
  /\ call = 0 /\ ids = [k \in 1..MaxCalls |-> 0]
  /\ toDev = <<>> /\ toHost = <<>>
  /\ devMode = "wait" /\ devTxid = 0 /\ devCall = 0 /\ devGot = 0
  /\ devLen = 0 /\ devOff = 0 /\ devTries = 0
  /\ execs = [k \in 1..MaxCalls |-> 0]
  /\ used = [losses |-> 0, tickles |-> 0, memerrs |-> 0]

-----------------------------------------------------------------------------
(* The host: padp_tx.                                                      *)

(* Faulty variants of definitions, named after the fault, stand before     *)
(* their originals: each breaks a property below.                          *)
NextTxidOverflows(t) == t + 1
NextTxidStuck(t) == IF t > TxidWrap THEN 1 ELSE t

(* The id after t; padp_tx leaves a stale next_txid behind an id of 0. *)
NextTxid(t) == IF t >= TxidWrap THEN 1 ELSE t + 1
TxTxid == IF txid = 0 THEN nextTxid ELSE NextTxid(txid)

(* dlp_exec hands a request of n fragments to padp_tx, after a flush. *)
PadpTx(n) ==
  /\ pc = "idle" /\ conn = "ACCEPT" /\ call < MaxCalls
  /\ outcome \in {"none", "ok"} \/ GoesOn
  /\ pc' = "txWait" /\ outcome' = "none" /\ call' = call + 1
  /\ txid' = TxTxid /\ nextTxid' = TxTxid
  /\ ids' = [ids EXCEPT ![call + 1] = TxTxid]
  /\ retries' = TxRetries /\ sent' = 0 /\ reqLen' = n /\ stuck' = FALSE
  /\ rxbuf' = <<>>
  /\ \E k \in 0..(IF FlushDiscards THEN Len(toHost) ELSE 0) :
       toHost' = SubSeq(toHost, k + 1, Len(toHost))
  /\ toDev' = Put(toDev, Data(TxTxid, 0, n, call + 1))
  /\ UNCHANGED <<conn, lastAck, devVars, used>>

(* A call ends: the application sees how. *)
Return(how) ==
  /\ pc' = "idle" /\ outcome' = how
  /\ conn' = IF how = "broken" THEN "BREAK" ELSE conn

(* The line with the current fragment sent once more. *)
ResentWithNewId(line) == Put(line, Data(NextTxid(txid), sent, reqLen, call))
Resent(line) == Put(line, Data(txid, sent, reqLen, call))

RetriesNotCounted == retries
RetriesLeft == retries - 1

(* One transmission of the current fragment has failed; line is what the   *)
(* line to the device holds.  Out of retries, the connection is presumed   *)
(* dead.                                                                   *)
TxAgain(line) ==
  /\ retries' = RetriesLeft
  /\ \/ /\ retries = 1
        /\ Return("broken")
        /\ toDev' = line
        /\ UNCHANGED stuck
     \/ /\ retries > 1
        /\ stuck' = FALSE
        /\ toDev' = Resent(line)
        /\ UNCHANGED <<pc, outcome, conn>>
  /\ UNCHANGED <<txid, nextTxid, sent, reqLen, rxbuf, call, ids>>

TxTimeout ==
  /\ pc = "txWait"
  /\ Patient => Quiet
  /\ TxAgain(toDev)
  /\ UNCHANGED <<lastAck, toHost, devVars, used>>

(* padp_tx is done with success and dlp_exec enters padp_rx. *)
TxDone ==
  /\ pc' = "rxFirst"
  /\ nextTxid' = NextTxid(txid)
  /\ UNCHANGED <<conn, txid, lastAck, retries, reqLen, stuck, rxbuf, outcome,
                 call, ids, toDev>>

(* The code can interpret a packet it reads unless a tickle it waited past *)
(* is still at the front of padp_buf.                                      *)
TxReads == pc = "txWait" /\ ~stuck

TxLastFrag == sent + 1 = reqLen
IsResponse(p) == p.kind = "data" /\ p.hdr.txid = txid /\ TxLastFrag
IsAck(p) == p.kind = "ack" /\ p.hdr.txid = txid
IsRepeat(p) == p.kind = "data" /\ p.hdr = lastAck /\ ~IsResponse(p)

(* Behind a tickle every packet is taken for that tickle again. *)
TxSwallow ==
  /\ pc = "txWait" /\ stuck
  /\ UNCHANGED <<hostVars, toDev, devVars, used>>

TxTickle(p) ==
  /\ TxReads /\ p.kind = "tickle"
  /\ stuck' = TRUE
  /\ UNCHANGED <<pc, conn, txid, nextTxid, lastAck, retries, sent, reqLen,
                 rxbuf, outcome, call, ids, toDev, devVars, used>>

(* The response stands for the ack of the last fragment and is dropped. *)
TxMissingAck(p) ==
  /\ TxReads /\ IsResponse(p)
  /\ TxDone
  /\ sent' = sent + 1
  /\ UNCHANGED <<devVars, used>>

TxAck(p) ==
  /\ TxReads /\ IsAck(p) /\ ~p.mem
  /\ sent' = sent + 1
  /\ \/ TxLastFrag /\ TxDone
     \/ /\ ~TxLastFrag
        /\ retries' = TxRetries
        /\ toDev' = Put(toDev, Data(txid, sent + 1, reqLen, call))
        /\ UNCHANGED <<pc, conn, txid, nextTxid, lastAck, reqLen, stuck,
                       rxbuf, outcome, call, ids>>
  /\ UNCHANGED <<devVars, used>>

(* A memory error or any other packet fails the transmission only. *)
TxFail(p) ==
  /\ TxReads
  /\ p.kind # "tickle" /\ ~IsResponse(p) /\ ~IsRepeat(p)
  /\ IsAck(p) => p.mem
  /\ Return("failed")
  /\ UNCHANGED <<txid, nextTxid, lastAck, retries, sent, reqLen, stuck, rxbuf,
                 call, ids, toDev, devVars, used>>

(* A packet that was acknowledged before: its ack was lost. *)
TxRepeat(p) ==
  /\ TxReads /\ IsRepeat(p)
  /\ TxAgain(Put(toDev, AckOf(p)))
  /\ UNCHANGED <<lastAck, devVars, used>>

-----------------------------------------------------------------------------
(* The host: padp_rx.                                                      *)

Receiving == pc \in {"rxFirst", "rxNext"}

IsWanted(p) ==
  /\ p.kind = "data" /\ ~p.mem /\ p.hdr.txid = txid
  /\ p.hdr.first <=> pc = "rxFirst"
IsMemErr(p) == p.mem /\ p.hdr.txid = txid

AckedNot(p) == toDev
AckedIfInOrder(p) ==
  IF Offset(p) = Len(rxbuf) THEN Put(toDev, AckOf(p)) ELSE toDev
Acked(p) == Put(toDev, AckOf(p))

EndsWithAny(p) == TRUE
EndsResponse(p) == p.hdr.last

(* An expected fragment is acked, appended if it is in order, and ends the *)
(* response if it is marked last.                                          *)
RxAccept(p) ==
  /\ Receiving /\ IsWanted(p)
  /\ toDev' = Acked(p)
  /\ lastAck' = p.hdr
  /\ rxbuf' = IF Offset(p) = Len(rxbuf)
              THEN Append(rxbuf, [call |-> p.call, off |-> Offset(p)])
              ELSE rxbuf
  /\ \/ EndsResponse(p) /\ Return("ok") /\ txid' = nextTxid
     \/ ~EndsResponse(p) /\ pc' = "rxNext" /\ UNCHANGED <<conn, outcome, txid>>
  /\ UNCHANGED <<nextTxid, retries, sent, reqLen, stuck, call, ids,
                 devVars, used>>

RxMemErr(p) ==
  /\ Receiving /\ IsMemErr(p)
  /\ Return("failed")
  /\ txid' = nextTxid
  /\ UNCHANGED <<nextTxid, lastAck, retries, sent, reqLen, stuck, rxbuf, call,
                 ids, toDev, devVars, used>>

(* A packet of the wrong kind is passed over.  The time allowed is looked  *)
(* at only here, after a packet; a tickle extends it.                      *)
RxWrong(p) ==
  /\ Receiving /\ ~IsWanted(p) /\ ~IsMemErr(p)
  /\ \/ UNCHANGED <<pc, conn, outcome>>
     \/ /\ HonorRxTimeout /\ ~Patient /\ p.kind # "tickle"
        /\ Return("broken")
  /\ UNCHANGED <<txid, nextTxid, lastAck, retries, sent, reqLen, stuck, rxbuf,
                 call, ids, toDev, devVars, used>>

(* Nothing is read in the time the device below allows: its error is       *)
(* passed on.                                                              *)
RxSilence ==
  /\ Receiving /\ HonorRxTimeout
  /\ Patient => Quiet /\ devMode # "reply"
  /\ Return("timeout")
  /\ UNCHANGED <<txid, nextTxid, lastAck, retries, sent, reqLen, stuck, rxbuf,
                 call, ids, toDev, toHost, devVars, used>>

-----------------------------------------------------------------------------
(* The device.                                                             *)

Spend(what, limit) ==
  used[what] < limit /\ used' = [used EXCEPT ![what] = @ + 1]

IsNewRequest(p) == p.kind = "data" /\ p.hdr.first /\ p.hdr.txid # devTxid
IsNextFrag(p) ==
  /\ p.kind = "data" /\ ~p.hdr.first /\ p.hdr.txid = devTxid
  /\ p.hdr.size = devGot /\ devMode = "recv"
IsOldFrag(p) ==
  p.kind = "data" /\ p.hdr.txid = devTxid /\ Offset(p) < devGot

(* A request with its last fragment is complete and is carried out. *)
DevAccept(p) ==
  /\ IsNewRequest(p) \/ IsNextFrag(p)
  /\ toHost' = Put(toHost, AckOf(p))
  /\ devTxid' = p.hdr.txid /\ devCall' = p.call
  /\ devGot' = Offset(p) + 1
  /\ \/ /\ p.hdr.last /\ devMode' = "exec"
        /\ execs' = [execs EXCEPT ![p.call] = @ + 1]
     \/ ~p.hdr.last /\ devMode' = "recv" /\ UNCHANGED execs
  /\ UNCHANGED <<hostVars, devLen, devOff, devTries, used>>

DevMemErr(p) ==
  /\ IsNewRequest(p) \/ IsNextFrag(p)
  /\ toHost' = Put(toHost, [AckOf(p) EXCEPT !.mem = TRUE])
  /\ Spend("memerrs", MaxMemErrs)
  /\ UNCHANGED <<hostVars, devVars>>

DevRepeatAck(p) ==
  /\ IsOldFrag(p)
  /\ toHost' = Put(toHost, AckOf(p))
  /\ UNCHANGED <<hostVars, devVars, used>>

DevIgnore(p) ==
  /\ p.kind # "ack"
  /\ ~IsNewRequest(p) /\ ~IsNextFrag(p) /\ ~IsOldFrag(p)
  /\ UNCHANGED <<hostVars, toHost, devVars, used>>

DevFrag(i, n) == Data(devTxid, i, n, devCall)

DevReply ==
  /\ devMode = "exec"
  /\ \E n \in RespFrags :
       /\ devLen' = n
       /\ toHost' = Put(toHost, DevFrag(0, n))
  /\ devMode' = "reply" /\ devOff' = 0 /\ devTries' = DevTries
  /\ UNCHANGED <<hostVars, toDev, devTxid, devCall, devGot, execs, used>>

DevResend ==
  /\ devMode = "reply" /\ devTries > 0
  /\ Patient => Quiet
  /\ devTries' = devTries - 1
  /\ toHost' = Put(toHost, DevFrag(devOff, devLen))
  /\ UNCHANGED <<hostVars, toDev, devMode, devTxid, devCall, devGot, devLen,
                 devOff, execs, used>>

DevGiveUp ==
  /\ devMode = "reply" /\ devTries = 0
  /\ Patient => Quiet
  /\ devMode' = "wait"
  /\ UNCHANGED <<hostVars, toDev, toHost, devTxid, devCall, devGot, devLen,
                 devOff, devTries, execs, used>>

AcksReply(p) ==
  /\ devMode = "reply" /\ p.hdr.txid = devTxid
  /\ DevStrictAcks => p.hdr = Header(devTxid, devOff, devLen)

DevGetsAck(p) ==
  /\ p.kind = "ack"
  /\ \/ /\ AcksReply(p) /\ devOff' = devOff + 1
        /\ \/ /\ devOff + 1 = devLen /\ devMode' = "wait"
              /\ UNCHANGED <<devTries, toHost>>
           \/ /\ devOff + 1 # devLen /\ devTries' = DevTries
              /\ toHost' = Put(toHost, DevFrag(devOff + 1, devLen))
              /\ UNCHANGED devMode
     \/ ~AcksReply(p) /\ UNCHANGED <<devMode, devOff, devTries, toHost>>
  /\ UNCHANGED <<hostVars, devTxid, devCall, devGot, devLen, execs, used>>

DevTickle ==
  /\ Spend("tickles", MaxTickles)
  /\ toHost' = Put(toHost, Frame("tickle", FALSE, NoAck, devCall))
  /\ UNCHANGED <<hostVars, toDev, devVars>>

-----------------------------------------------------------------------------
(* The line.  A frame the host reads damaged counts as a failed            *)
(* transmission in padp_tx; in padp_rx it is as good as lost.              *)

LoseToDev ==
  /\ toDev # <<>> /\ toDev' = Tail(toDev)
  /\ Spend("losses", MaxLosses)
  /\ UNCHANGED <<hostVars, toHost, devVars>>

LoseToHost ==
  /\ toHost # <<>> /\ toHost' = Tail(toHost)
  /\ Spend("losses", MaxLosses)
  /\ UNCHANGED <<hostVars, toDev, devVars>>

TxDamaged ==
  /\ pc = "txWait" /\ toHost # <<>> /\ toHost' = Tail(toHost)
  /\ Spend("losses", MaxLosses)
  /\ TxAgain(toDev)
  /\ UNCHANGED <<lastAck, devVars>>

(* The application has made its calls, or gave up after a failed one. *)
Finished ==
  /\ pc = "idle"
  /\ \/ call = MaxCalls \/ conn = "BREAK"
     \/ ~GoesOn /\ outcome \notin {"none", "ok"}
  /\ UNCHANGED vars

(* A read returns the frame at the front of the line. *)
First(q) == IF q = <<>> THEN {} ELSE {Head(q)}

HostReads == \E p \in First(toHost) :
               /\ toHost' = Tail(toHost)
               /\ \/ TxSwallow \/ TxTickle(p) \/ TxMissingAck(p) \/ TxAck(p)
                  \/ TxFail(p) \/ TxRepeat(p)
                  \/ RxAccept(p) \/ RxMemErr(p) \/ RxWrong(p)
Begin   == \E n \in ReqFrags : PadpTx(n)
DevReads == \E p \in First(toDev) :
               /\ toDev' = Tail(toDev)
               /\ \/ DevAccept(p) \/ DevMemErr(p) \/ DevRepeatAck(p)
                  \/ DevIgnore(p) \/ DevGetsAck(p)
Line    == LoseToDev \/ LoseToHost \/ TxDamaged

Next == Begin \/ HostReads \/ TxTimeout \/ RxSilence
        \/ DevReads \/ DevReply \/ DevResend \/ DevGiveUp \/ DevTickle
        \/ Line \/ Finished

Spec == Init /\ [][Next]_vars

(* The kernel wakes the caller for a frame and at the end of its wait.     *)
Fairness == WF_vars(HostReads) /\ WF_vars(TxTimeout) /\ WF_vars(RxSilence)

-----------------------------------------------------------------------------
(* Types. *)

Txids   == 0..TxidWrap + 1
Headers == [txid : Txids, first : BOOLEAN, last : BOOLEAN, size : Nat]
Frames  == [kind : {"data", "ack", "tickle"}, mem : BOOLEAN, hdr : Headers,
            call : 0..MaxCalls]
Pieces  == [call : 0..MaxCalls, off : Nat]
Budgets == [losses : 0..MaxLosses, tickles : 0..MaxTickles,
            memerrs : 0..MaxMemErrs]
Counts  == [1..MaxCalls -> Nat]
Ids     == [1..MaxCalls -> Txids]

(* The variables of padp_tx, padp_rx and of the line stay in their types:  *)
(* in particular the id of a transaction stays in its byte.                *)
TypeOK ==
  /\ pc \in {"idle", "txWait", "rxFirst", "rxNext"}
  /\ conn \in {"ACCEPT", "BREAK"}
  /\ txid \in Txids /\ nextTxid \in Txids
  /\ lastAck \in Headers
  /\ retries \in 0..TxRetries /\ sent \in Nat /\ reqLen \in Nat
  /\ stuck \in BOOLEAN
  /\ rxbuf \in Seq(Pieces)
  /\ outcome \in {"none", "ok", "failed", "timeout", "broken"}
  /\ call \in 0..MaxCalls /\ ids \in Ids
  /\ toDev \in Seq(Frames) /\ toHost \in Seq(Frames)
  /\ devMode \in {"wait", "recv", "exec", "reply"}
  /\ devTxid \in Txids /\ devCall \in 0..MaxCalls
  /\ devGot \in Nat /\ devLen \in Nat /\ devOff \in Nat
  /\ devTries \in 0..DevTries
  /\ execs \in Counts /\ used \in Budgets

-----------------------------------------------------------------------------
(* Safety.                                                                 *)

(* What padp_rx puts into the buffer of a call was sent by the device for  *)
(* that very call: no late fragment or repeat of an earlier response gets  *)
(* past the comparison of transaction ids.                                 *)
OwnResponse == \A i \in 1..Len(rxbuf) : rxbuf[i].call = call

(* A call that succeeds has the whole response, although padp_rx ends at   *)
(* any fragment marked last and appends only those in order.               *)
WholeResponse == outcome = "ok" => Len(rxbuf) = devLen

(* Whatever padp_tx sends again, the device never carries a request out    *)
(* twice.                                                                  *)
AtMostOnce == \A k \in 1..MaxCalls : execs[k] <= 1

(* Why ids are enough: an id is used up by its call, the line holds frames *)
(* of the current and of the previous call only, and holds them in order   *)
(* (a memory error aside, which a repeat of an earlier response may        *)
(* overtake).                                                              *)
IdsInv ==
  /\ call >= 2 => ids[call] # ids[call - 1]
  /\ pc # "idle" => call >= 1 /\ txid = ids[call]
  /\ Receiving => nextTxid = NextTxid(txid)
  /\ outcome = "ok" => call >= 1 /\ pc = "idle" /\ txid = NextTxid(ids[call])
  /\ pc = "idle" /\ outcome = "none" => call = 0 /\ txid = TxidWrap + 1
  /\ call >= 1 => ids[call] \in 1..TxidWrap

DevFrameOk(p) == p.kind = "data" =>
  /\ p.call >= 1 /\ devCall <= p.call /\ p.call <= call
  /\ p.hdr.txid = ids[p.call]
ToDevOk(q) ==
  /\ \A i \in 1..Len(q) : DevFrameOk(q[i])
  /\ \A i, j \in 1..Len(q) :
       i < j /\ q[i].kind = "data" /\ q[j].kind = "data" => q[i].call <= q[j].call

HostFrameOk(p) == p.kind # "tickle" =>
  /\ p.call >= 1 /\ call <= p.call + 1 /\ p.call <= call
  /\ p.hdr.txid = ids[p.call]
  /\ ~p.mem => p.call <= devCall
  /\ p.kind = "data" => execs[p.call] = 1
  /\ outcome = "ok" => p.call = call
ToHostOk(q) ==
  /\ \A i \in 1..Len(q) : HostFrameOk(q[i])
  /\ \A i, j \in 1..Len(q) :
       i < j /\ q[i].kind # "tickle" /\ q[j].kind # "tickle" /\ ~q[i].mem
       => q[i].call <= q[j].call

DevInv ==
  /\ devCall <= call /\ call <= devCall + 1
  /\ outcome = "ok" => devCall = call
  /\ devTxid = IF devCall = 0 THEN 0 ELSE ids[devCall]
  /\ devMode \in {"exec", "reply"} => devCall >= 1 /\ execs[devCall] = 1
  /\ devMode = "recv" => devCall >= 1 /\ execs[devCall] = 0
  /\ \A k \in 1..MaxCalls : execs[k] <= 1 /\ (k > devCall => execs[k] = 0)

OrderInv == IdsInv /\ DevInv /\ ToDevOk(toDev) /\ ToHostOk(toHost)

(* The calls, seen from DLP. *)
Abstract == INSTANCE Rpc WITH
  phase  <- IF pc = "idle" THEN "idle" ELSE "busy",
  result <- IF outcome \in {"none", "ok"} THEN outcome ELSE "error"

(* Above the packet layers a call is what Rpc promises: carried out at     *)
(* most once, and carried out if it succeeds.                              *)
ImplementsRpc == Abstract!Spec

-----------------------------------------------------------------------------
(* Liveness and recovery.                                                  *)

(* padp_tx and padp_rx always come back, however the device and the line   *)
(* behave.                                                                 *)
CallReturns == pc # "idle" ~> pc = "idle"

CallsSucceed == outcome \in {"none", "ok"}

(* While timers run out only on a silent line and fewer frames are lost    *)
(* than padp_tx tries, the device is never presumed dead, and what a lost  *)
(* frame causes is made up for.  The one loss padp_rx does not make up for *)
(* is that of its ack of the first fragment of several: a repeat of that   *)
(* fragment gets no ack.                                                   *)
LossesMadeUpFor ==
  /\ outcome # "broken"
  /\ outcome = "timeout" => Len(rxbuf) = 1 /\ devOff = 0 /\ devLen > 1

(* Without a loss no fragment is sent a second time: what arrives is       *)
(* recognised for what it is.                                              *)
NoNeedlessRetry == pc = "txWait" /\ used.losses = 0 => retries = TxRetries
=============================================================================
