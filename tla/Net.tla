--------------------------------- MODULE Net ---------------------------------
(***************************************************************************)
(* DLP calls over the NET layer of libpisock/net.c, on a connection the    *)
(* host has accepted: protocol_queue_build finds the layer by peeking,     *)
(* net_rx_handshake shakes hands, dlp_exec writes a request with net_tx    *)
(* and reads the response with net_rx, pi_tickle sends a tickle, also from *)
(* a handler of SIGALRM, and pi_close ends the synchronization.            *)
(*                                                                         *)
(* The connection is a stream: nothing is lost, but nothing keeps packets  *)
(* apart either.  It is cut into units: the first byte of a header, what   *)
(* is left of it, and pieces of the payload.  The device is external.      *)
(***************************************************************************)
EXTENDS Naturals, Sequences, FiniteSets

CONSTANTS
  MaxCalls,    \* bound: number of DLP calls the application makes
  ReqLens,     \* lengths of a request, in chunks of write_chunksize
  RespLens,    \* lengths of a response, in pieces a read may return
  TxidWrap,    \* the transaction id that is never used, 0xff
  PacketMax,   \* the longest payload net_rx accepts, 0x100000 bytes
  Lenient,     \* calls whose command dlp_exec takes any response for
  MaxAlarms,   \* bound: tickles of the host
  MaxTickles,  \* bound: tickles of the device
  MaxFaults,   \* bound: reads and writes that fail
  MaxCloses    \* bound: calls of pi_close

ASSUME NetAssumption ==
  /\ MaxCalls \in Nat /\ TxidWrap \in Nat /\ TxidWrap >= 2
  /\ ReqLens \subseteq Nat \ {0} /\ RespLens \subseteq Nat \ {0}
  /\ PacketMax \in Nat \ {0, 1} /\ \A n \in ReqLens \cup RespLens : n <= PacketMax
  /\ Lenient \subseteq 1..MaxCalls
  /\ MaxAlarms \in Nat /\ MaxTickles \in Nat
  /\ MaxFaults \in Nat /\ MaxCloses \in Nat

VARIABLES
  split,     \* data->split_writes: is the header written apart?
  patient,   \* do reads time out only when nothing is on its way?
  goesOn,    \* does the application call again after a call or pi_close that failed?
  pc,        \* "detect", "app", "tx", "body", "rx", "read" or "closed"
  op,        \* "handshake", "call" or "close"
  todo,      \* net_tx and net_rx the operation still has before it
  conn,      \* ps->state: "LISTEN", "ACCEPT", "BREAK" or "END"
  command,   \* ps->command
  inst,      \* data->type and data->txid of the command and the DLP queue
  cur,       \* the instance net_tx or net_rx is working with
  out,       \* units net_tx has yet to write
  rx,        \* what net_rx has read of a packet
  call, outcome, answer,  \* of the last call, answer being what it was given
  clean,     \* had all that was under way arrived when the call began?
  toDev, toHost,  \* the two directions of the connection
  eof,       \* has the device closed it?
  dev,       \* what the device has read of a packet
  devTask,   \* what it has to answer, or Waiting, Lost or Ended
  execs,     \* execs[k]: how many times it carried out call k
  used       \* the budgets spent

regime   == <<split, patient, goesOn>>
progress == <<pc, op, todo>>
netVars  == <<conn, command, inst, cur, out, rx>>
results  == <<call, outcome, answer, clean>>
devVars  == <<dev, devTask, execs, eof>>
vars     == <<regime, progress, netVars, results, toDev, toHost, devVars, used>>

-----------------------------------------------------------------------------
(* Packets.  of says what a packet is about.                               *)

DATA == "data"
TCKL == "tickle"

Unit(part, type, txid, of, len) ==
  [part |-> part, type |-> type, txid |-> txid, of |-> of, len |-> len]

Packet(type, txid, of, n) ==
  <<Unit("first", type, txid, of, n), Unit("more", type, txid, of, n)>>
  \o [i \in 1..n |-> Unit("piece", type, txid, of, n)]

(* The packets of the handshake; the first of them, of the device, begins  *)
(* with the byte 0x90.                                                     *)
Shake(i) == <<"handshake", i>>
Garbage  == <<"garbage", 0>>
Short    == <<"short", 0>>
IsSignature(u) == u.part = "piece" /\ u.of = Shake(1)

NothingRead == [have |-> 0, hdr |-> Unit("first", DATA, 0, Garbage, 0), got |-> <<>>]

(* What the units of a payload are about. *)
Content(got) ==
  IF got = <<>> THEN Short
  ELSE IF \A i \in 1..Len(got) : got[i].part = "piece" /\ got[i].of = got[1].of
  THEN got[1].of ELSE Garbage

Waiting == <<"waits", 0>>
Lost    == <<"lost", 0>>
Ended   == <<"ended", 0>>

Init ==
  /\ split \in BOOLEAN /\ patient \in BOOLEAN /\ goesOn \in BOOLEAN
  /\ pc = "detect" /\ op = "handshake" /\ todo = <<"rx", "tx", "rx", "tx", "rx">>
  /\ conn = "LISTEN" /\ command = TRUE
  /\ inst = [q \in {"cmd", "dlp"} |-> [type |-> DATA, txid |-> 0]]
  /\ cur = "cmd" /\ out = <<>> /\ rx = NothingRead
  /\ call = 0 /\ outcome = "none" /\ answer = Garbage /\ clean = TRUE
  /\ toDev = <<>>
  /\ \E k \in 0..(IF split THEN 2 ELSE 0) :
       toHost = SubSeq(Packet(DATA, 1, Shake(1), 2), k + 1, 4)
  /\ eof = FALSE
  /\ dev = NothingRead /\ devTask = Waiting
  /\ execs = [k \in 1..MaxCalls |-> 0]
  /\ used = [alarms |-> 0, tickles |-> 0, faults |-> 0, closes |-> 0]

Spend(what, limit) ==
  used[what] < limit /\ used' = [used EXCEPT ![what] = @ + 1]

-----------------------------------------------------------------------------
(* protocol_queue_build: a header of the first packet, or that packet      *)
(* without its header, shows that the device speaks NET.                   *)
Detected ==
  \/ Len(toHost) >= 3 /\ toHost[1].part = "first"
  \/ Len(toHost) >= 2 /\ IsSignature(toHost[1])

Detect ==
  /\ pc = "detect" /\ Detected
  /\ pc' = "rx"
  /\ UNCHANGED <<regime, op, todo, netVars, results, toDev, toHost, devVars, used>>

Skip ==
  /\ pc = "detect" /\ ~Detected /\ toHost # <<>>
  /\ toHost' = Tail(toHost)
  /\ UNCHANGED <<regime, progress, netVars, results, toDev, devVars, used>>

-----------------------------------------------------------------------------
(* How an operation goes on and ends.                                      *)

Enter(steps) ==
  todo' = steps /\ pc' = IF steps = <<>> THEN "app" ELSE Head(steps)

(* A failed pi_accept closes the socket, a failed EndOfSync leaves it.     *)
FailsUnnoticed(becomes) ==
  /\ todo' = <<>> /\ conn' = becomes
  /\ pc' = IF op = "handshake" THEN "closed" ELSE "app"
  /\ outcome' = IF op = "call" THEN "ok" ELSE outcome
  /\ command' = IF op = "close" THEN FALSE ELSE command
  /\ UNCHANGED <<op, call, answer, clean>>

Fails(becomes) ==
  /\ todo' = <<>> /\ conn' = becomes
  /\ pc' = IF op = "handshake" THEN "closed" ELSE "app"
  /\ outcome' = IF op = "call" THEN "error" ELSE outcome
  /\ command' = IF op = "close" THEN FALSE ELSE command
  /\ UNCHANGED <<op, call, answer, clean>>

(* dlp_response_read refuses a response that is too short, and dlp_exec     *)
(* that of another command, for most commands.  Garbage passes for that.   *)
AnyAnswer(of) == TRUE
RightCommand(of) == of[1] = op \/ (op = "call" /\ call \in Lenient /\ of # Short)

Succeeds(of) ==
  /\ todo' = <<>>
  /\ pc' = IF op = "close" THEN "closed" ELSE "app"
  /\ conn' = IF op = "close" THEN "END" ELSE "ACCEPT"
  /\ command' = FALSE
  /\ outcome' = IF op = "call" THEN "ok" ELSE outcome
  /\ answer' = IF op = "call" THEN of ELSE answer
  /\ UNCHANGED <<op, call, clean>>

(* net_tx or net_rx returns with success. *)
StepDone(of) ==
  \/ Len(todo) > 1 /\ Enter(Tail(todo)) /\ UNCHANGED <<op, conn, command, results>>
  \/ Len(todo) = 1 /\ IF op = "handshake" \/ RightCommand(of)
                      THEN Succeeds(of) ELSE Fails(conn)

(* What may have arrived of the line, in units; a header arrives whole.    *)
Arrivals == {k \in 0..Len(toHost) :
               k < Len(toHost) => toHost[k + 1].part # "more"}

FlushForgotten(line, k) == line
Flushed(line, k) == SubSeq(line, k + 1, Len(line))

(* dlp_request_write flushes what has arrived, k units. *)
Begin(k) ==
  /\ pc = "app" /\ conn = "ACCEPT" /\ call < MaxCalls
  /\ goesOn \/ (outcome \in {"none", "ok"} /\ op # "close")
  /\ op' = "call" /\ Enter(<<"tx", "rx">>)
  /\ call' = call + 1 /\ outcome' = "none" /\ answer' = Garbage
  /\ toHost' = Flushed(toHost, k)
  /\ clean' = (k = Len(toHost) /\ toDev = <<>> /\ devTask = Waiting /\ dev = NothingRead)
  /\ UNCHANGED <<regime, netVars, toDev, devVars, used>>

(* pi_close, on a connected socket. *)
Close(k) ==
  /\ pc = "app" /\ conn = "ACCEPT" /\ Spend("closes", MaxCloses)
  /\ op' = "close" /\ Enter(<<"tx", "rx">>)
  /\ command' = TRUE
  /\ toHost' = Flushed(toHost, k)
  /\ UNCHANGED <<regime, conn, inst, cur, out, rx, results, toDev, devVars>>

CloseBroken ==
  /\ pc = "app" /\ conn = "BREAK"
  /\ pc' = "closed"
  /\ UNCHANGED <<regime, op, todo, netVars, results, toDev, toHost, devVars, used>>

-----------------------------------------------------------------------------
(* net_tx.                                                                 *)

(* pi_protocol: the instance of the queue ps->command selects. *)
Current == IF command THEN "cmd" ELSE "dlp"

Subject == CASE op = "call"      -> <<"call", call>>
             [] op = "close"     -> <<"close", 0>>
             [] op = "handshake" -> Shake(6 - Len(todo))

Lengths == IF op = "call" THEN ReqLens ELSE {1}

Txid(d) == IF d.type = TCKL THEN TxidWrap ELSE d.txid

(* The header goes first, and with it the payload if writes are not split. *)
NetTx ==
  /\ pc = "tx"
  /\ cur' = Current
  /\ \E n \in Lengths :
       LET d == inst[Current]
           p == Packet(d.type, Txid(d), Subject, n)
           h == IF split THEN 2 ELSE Len(p)
       IN /\ toDev' = toDev \o SubSeq(p, 1, h)
          /\ out' = SubSeq(p, h + 1, Len(p))
  /\ IF split THEN pc' = "body" /\ UNCHANGED <<op, todo, conn, command, results>>
              ELSE StepDone(Subject)
  /\ UNCHANGED <<regime, inst, rx, toHost, devVars, used>>

WriteChunk ==
  /\ pc = "body"
  /\ toDev' = Append(toDev, Head(out)) /\ out' = Tail(out)
  /\ \/ Len(out) > 1 /\ UNCHANGED <<progress, conn, command, results>>
     \/ Len(out) = 1 /\ StepDone(Subject)
  /\ UNCHANGED <<regime, inst, cur, rx, toHost, devVars, used>>

(* A write fails, or takes fewer bytes than it was given. *)
WriteFails ==
  /\ pc \in {"tx", "body"}
  /\ \/ eof /\ UNCHANGED used
     \/ Spend("faults", MaxFaults)
  /\ \E becomes \in {conn, "BREAK"} : Fails(becomes)
  /\ out' = <<>>
  /\ UNCHANGED <<regime, inst, cur, rx, toDev, toHost, devVars>>

-----------------------------------------------------------------------------
(* net_rx.                                                                 *)

NetRx ==
  /\ pc = "rx" /\ pc' = "read"
  /\ cur' = Current /\ rx' = NothingRead
  /\ UNCHANGED <<regime, op, todo, conn, command, inst, out, results, toDev,
                 toHost, devVars, used>>

(* The unit at hand, if one has arrived. *)
Arrived == {u \in {toHost[i] : i \in DOMAIN toHost} : pc = "read" /\ u = toHost[1]}

(* With an id of 0 the first byte is read alone: 0x90 is no header. *)
ReadFirst ==
  /\ \E u \in Arrived :
       /\ rx.have = 0 /\ toHost' = Tail(toHost)
       /\ rx' = IF inst[cur].txid = 0 /\ IsSignature(u)
                THEN [rx EXCEPT !.have = 2, !.hdr = Unit("first", DATA, 1, Shake(1), 1)]
                ELSE [rx EXCEPT !.have = 1, !.hdr = u]
  /\ UNCHANGED <<regime, progress, conn, command, inst, cur, out, results,
                 toDev, devVars, used>>

(* Headers read where there are none can be anything. *)
Header(u) == IF rx.hdr.part = "first" /\ u.part = "more" THEN {u}
             ELSE {Unit("more", t, TxidWrap, Garbage, n) :
                     t \in {DATA, TCKL, "unknown"},
                      n \in {0, PacketMax + 1} \cup RespLens}

TickleEndsRead(h) == [rx EXCEPT !.have = 2, !.hdr = h]
AfterTickle(h) == NothingRead

(* The header is complete: a payload follows, the next header, or nothing. *)
Payload(h) ==
  /\ h.type = DATA /\ h.len <= PacketMax
  /\ rx' = [rx EXCEPT !.have = 2, !.hdr = h]
  /\ toHost' = Tail(toHost)
  /\ UNCHANGED <<progress, conn, command, results>>

PassOver(h) ==
  /\ h.type = TCKL /\ h.len = 0
  /\ rx' = AfterTickle(h)
  /\ toHost' = Tail(toHost)
  /\ UNCHANGED <<progress, conn, command, results>>

(* A payload too long for a packet is flushed, what has arrived of it. *)
BadHeader(h) ==
  /\ \/ h.type = DATA /\ h.len > PacketMax
        /\ \E k \in Arrivals \ {0} : toHost' = SubSeq(toHost, k + 1, Len(toHost))
     \/ h.type = TCKL /\ h.len # 0 /\ toHost' = Tail(toHost)
     \/ h.type = "unknown" /\ toHost' = Tail(toHost)
  /\ Fails(conn) /\ rx' = NothingRead

ReadHeader ==
  /\ rx.have = 1
  /\ \E u \in Arrived : \E h \in Header(u) :
       /\ inst' = [inst EXCEPT ![cur].type = h.type]
       /\ Payload(h) \/ PassOver(h) \/ BadHeader(h)
  /\ UNCHANGED <<regime, cur, out, toDev, devVars, used>>

PayloadDone  == rx.have = 2 /\ Len(rx.got) = rx.hdr.len
ReadsPayload == rx.have = 2 /\ ~PayloadDone

ReadPayload ==
  /\ \E u \in Arrived :
       /\ ReadsPayload /\ toHost' = Tail(toHost)
       /\ rx' = [rx EXCEPT !.got = Append(@, u)]
  /\ UNCHANGED <<regime, progress, conn, command, inst, cur, out, results,
                 toDev, devVars, used>>

(* The id is a byte, and 0xff, where the device sent it, is followed by 0. *)
TxidNotWrapped(t) == (t + 1) % (TxidWrap + 1)
TxidAfter(t) == IF t + 1 = TxidWrap THEN 1 ELSE (t + 1) % (TxidWrap + 1)

ReadDone ==
  /\ pc = "read" /\ PayloadDone
  /\ inst' = [inst EXCEPT ![cur].txid = IF command THEN rx.hdr.txid
                                        ELSE TxidAfter(@)]
  /\ StepDone(Content(rx.got)) /\ rx' = NothingRead
  /\ UNCHANGED <<regime, cur, out, toDev, toHost, devVars, used>>

(* Nothing comes in the time the device below allows. *)
ReadTimesOut ==
  /\ pc = "read" /\ toHost = <<>> /\ ~eof
  /\ ~PayloadDone
  /\ patient => devTask \in {Lost, Ended} \/ (devTask = Waiting /\ toDev = <<>>)
  /\ Fails(conn) /\ rx' = NothingRead
  /\ UNCHANGED <<regime, inst, cur, out, toDev, toHost, devVars, used>>

ReadFails ==
  /\ pc = "read" /\ Spend("faults", MaxFaults)
  /\ \E becomes \in {conn, "BREAK"} : Fails(becomes)
  /\ rx' = NothingRead
  /\ UNCHANGED <<regime, inst, cur, out, toDev, toHost, devVars>>

(* At the end of the connection a read returns 0 bytes: that ends a        *)
(* header, and is repeated in a payload, without end.                      *)
NeverEnds(r) == FALSE
InHeader(r) == r.have < 2
EofIn(part) == pc = "read" /\ toHost = <<>> /\ eof /\ part
Spin == EofIn(~InHeader(rx) /\ ~PayloadDone) /\ UNCHANGED vars

ReadEof ==
  /\ EofIn(InHeader(rx))
  /\ Fails(conn) /\ rx' = NothingRead
  /\ UNCHANGED <<regime, inst, cur, out, toDev, toHost, devVars, used>>

-----------------------------------------------------------------------------
(* pi_tickle, called by the application or by the handler, which may       *)
(* interrupt it between any two steps.                                     *)
TickleOfDlp(i) == [i EXCEPT !["dlp"].type = TCKL]
TickleOf(i)    == [i EXCEPT !["cmd"].type = TCKL]

Tickle ==
  /\ conn = "ACCEPT" /\ pc # "closed"
  /\ Spend("alarms", MaxAlarms)
  /\ command' = FALSE
  /\ inst' = TickleOf(inst)
  /\ toDev' = toDev \o Packet(TCKL, TxidWrap, <<"tickle", 0>>, 0)
  /\ UNCHANGED <<regime, progress, conn, cur, out, rx, results, toHost, devVars>>

-----------------------------------------------------------------------------
(* The device reads packets, passes over tickles, and is lost when it      *)
(* reads anything that is out of place.                                    *)

Complete(d) == d.have = 2 /\ Len(d.got) = d.hdr.len

DevTake(d, u) ==
  CASE d.have = 0 -> [d EXCEPT !.have = 1, !.hdr = u]
    [] d.have = 1 -> [d EXCEPT !.have = 2, !.hdr = u]
    [] OTHER      -> [d EXCEPT !.got = Append(@, u)]

InPlace(d, u) ==
  CASE d.have = 0 -> u.part = "first"
    [] d.have = 1 -> u.part = "more" /\ u.of = d.hdr.of
    [] OTHER      -> u.part = "piece" /\ u.of = d.hdr.of

Receive(type, of) ==
  CASE type = TCKL -> UNCHANGED <<devTask, execs>>
    [] type = DATA -> /\ devTask' = of
                      /\ execs' = IF of[1] = "call"
                                  THEN [execs EXCEPT ![of[2]] = @ + 1] ELSE execs
    [] OTHER       -> devTask' = Lost /\ UNCHANGED execs

DevReads ==
  /\ toDev # <<>> /\ devTask \in {Waiting, Lost} /\ ~eof
  /\ toDev' = Tail(toDev)
  /\ LET u == Head(toDev)
         d == DevTake(dev, u)
     IN \/ /\ devTask = Lost \/ ~InPlace(dev, u)
           /\ devTask' = Lost /\ dev' = NothingRead /\ UNCHANGED execs
        \/ /\ devTask = Waiting /\ InPlace(dev, u) /\ ~Complete(d)
           /\ dev' = d /\ UNCHANGED <<devTask, execs>>
        \/ /\ devTask = Waiting /\ InPlace(dev, u) /\ Complete(d)
           /\ dev' = NothingRead /\ Receive(d.hdr.type, d.hdr.of)
  /\ UNCHANGED <<regime, progress, netVars, results, toHost, eof, used>>

(* It answers each packet of the handshake with the next one, and a        *)
(* request with its response.                                              *)
Reply == IF devTask[1] = "handshake" THEN Shake(devTask[2] + 1) ELSE devTask

DevReplies ==
  /\ devTask \notin {Waiting, Lost, Ended} /\ ~eof
  /\ \E n \in IF devTask[1] = "call" THEN RespLens ELSE {1} :
       toHost' = toHost \o Packet(DATA, 1, Reply, n)
  /\ devTask' = IF devTask[1] = "close" THEN Ended ELSE Waiting
  /\ UNCHANGED <<regime, progress, netVars, results, toDev, dev, execs, eof, used>>

DevTickles ==
  /\ conn = "ACCEPT" /\ devTask # Ended /\ ~eof
  /\ Spend("tickles", MaxTickles)
  /\ toHost' = toHost \o Packet(TCKL, TxidWrap, <<"tickle", 0>>, 0)
  /\ UNCHANGED <<regime, progress, netVars, results, toDev, devVars>>

(* A TCP connection may be closed, also in the middle of a packet. *)
DevCloses ==
  /\ ~split /\ ~eof /\ pc # "detect" /\ Spend("faults", MaxFaults)
  /\ eof' = TRUE
  /\ \E k \in 0..Len(toHost) : toHost' = SubSeq(toHost, 1, k)
  /\ UNCHANGED <<regime, progress, netVars, results, toDev, dev, devTask, execs>>

Finished ==
  /\ pc = "closed" \/ (pc = "app" /\ used.closes = MaxCloses)
  /\ UNCHANGED vars

-----------------------------------------------------------------------------
Reading == ReadFirst \/ ReadHeader \/ ReadPayload \/ ReadDone \/ ReadEof

Host ==
  \/ Detect \/ Skip \/ NetTx \/ WriteChunk \/ WriteFails \/ NetRx
  \/ Reading \/ ReadTimesOut \/ ReadFails

Device == DevReads \/ DevReplies \/ DevTickles \/ DevCloses

Next ==
  \/ \E k \in Arrivals : Begin(k) \/ Close(k)
  \/ CloseBroken \/ Host \/ Tickle \/ Device \/ Spin \/ Finished

(* A read or a write of the host goes on, or ends; nothing is asked of the *)
(* device, of the application or of the watchdog.                          *)
Fairness == WF_vars(Host)

Spec == Init /\ [][Next]_vars /\ Fairness

-----------------------------------------------------------------------------
Items  == {<<"call", k>> : k \in 1..MaxCalls} \cup {Shake(i) : i \in 1..6}
          \cup {<<"close", 0>>, <<"tickle", 0>>, Garbage, Short}
Types  == {DATA, TCKL, "unknown"}
Units  == [part : {"first", "more", "piece"}, type : Types, txid : 0..TxidWrap,
           of : Items, len : Nat]
Partly == [have : 0..2, hdr : Units, got : Seq(Units)]

(* The state has its types; the instance of NET for the calls never holds  *)
(* the id 0xff, which marks a tickle (net_rx wraps before it).             *)
TypeOK ==
  /\ regime \in BOOLEAN \X BOOLEAN \X BOOLEAN
  /\ pc \in {"detect", "app", "tx", "body", "rx", "read", "closed"}
  /\ op \in {"handshake", "call", "close"} /\ todo \in Seq({"tx", "rx"})
  /\ conn \in {"LISTEN", "ACCEPT", "BREAK", "END"} /\ command \in BOOLEAN
  /\ inst \in [{"cmd", "dlp"} -> [type : Types, txid : 0..TxidWrap]]
  /\ inst["dlp"].txid # TxidWrap
  /\ cur \in {"cmd", "dlp"} /\ out \in Seq(Units) /\ rx \in Partly
  /\ call \in 0..MaxCalls /\ outcome \in {"none", "ok", "error"}
  /\ answer \in Items /\ clean \in BOOLEAN
  /\ toDev \in Seq(Units) /\ toHost \in Seq(Units) /\ eof \in BOOLEAN
  /\ dev \in Partly /\ devTask \in Items \cup {Waiting, Lost, Ended}
  /\ execs \in [1..MaxCalls -> Nat]
  /\ used \in [{"alarms", "tickles", "faults", "closes"} -> Nat]

(* A call that begins when nothing is under way and that succeeds is given *)
(* its own response, whatever became of the calls, tickles and packets     *)
(* before it: net_rx never compares a transaction id, only dlp_exec the    *)
(* command, so this rests on pi_flush of dlp_request_write.                *)
OwnResponse == (outcome = "ok" /\ clean) => answer = <<"call", call>>

(* pi_close succeeds and frees the socket only when the device has ended   *)
(* the synchronization.                                                    *)
CloseHonest == (pc = "closed" /\ conn = "END") => devTask = Ended

(* On a connection that works, and whose reads outlast the device, the     *)
(* handshake and every call succeed: the tickles of both sides, which      *)
(* share the stream with them, do no harm; nor does the lost start of the  *)
(* first packet.  Three cases are excepted: a handler that writes its      *)
(* tickle between the header and the payload of a request written in two;  *)
(* pi_close after a tickle of the host, whose EndOfSync goes out with the  *)
(* type of that tickle, which pi_tickle never sets back (socket.c:1401);   *)
(* and a call after such a pi_close, if there was another tickle: what     *)
(* net_rx read then last, and left in the instance of the calls, may be a  *)
(* tickle of the device (net.c:489).                                       *)
Undisturbed == patient /\ used.faults = 0 /\ (split => used.alarms = 0)

CloseFailed == op = "close" /\ pc = "app"

CallsSucceed ==
  Undisturbed =>
    /\ outcome = "error" => goesOn /\ used.closes > 0 /\ used.alarms > 1
    /\ pc = "closed" => conn = "END"
    /\ CloseFailed => used.alarms > 0

(* When the application stops at the first call that fails, DLP over NET   *)
(* keeps the promises of Rpc: a request is carried out at most once, and a *)
(* call that succeeds was carried out.                                     *)
Abstract == INSTANCE Rpc WITH
  GoesOn <- FALSE,
  phase  <- IF op = "call" /\ todo # <<>> THEN "busy" ELSE "idle",
  result <- outcome

ImplementsRpc ==
  Abstract!Init /\ [][goesOn \/ Abstract!Next]_(Abstract!vars)

(* Every operation returns when reads time out, but for one: net_rx does   *)
(* not leave the payload of a packet once the device has closed the        *)
(* connection in the middle of it.                                         *)
CallReturns ==
  (~patient /\ todo # <<>>) ~> (todo = <<>> \/ EofIn(ReadsPayload))
=============================================================================
