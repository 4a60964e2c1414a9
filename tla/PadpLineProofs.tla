------------------------- MODULE PadpLineProofs -------------------------
(***************************************************************************)
(* Proofs about the line and its losses, for every value of the constants. *)
(* First, the line that has lost nothing: exactly one frame of the         *)
(* exchange is under way whenever a side waits, besides tickles.  So no    *)
(* timer that is patient runs out, and whatever a side reads is what it    *)
(* waits for.  Then a line that loses frames: every frame that is sent     *)
(* again is paid for by one that was lost, so that a bound on the losses   *)
(* is one on the retries.                                                  *)
(***************************************************************************)
EXTENDS PadpWatchdog, PadpProofs, SequenceTheorems, FiniteSetTheorems

-----------------------------------------------------------------------------
(* Lines with at most m tickles, and besides them no frame, one or two.    *)

TicklesOnly(q, m) == Len(q) <= m /\ \A j \in 1..Len(q) : q[j].kind = "tickle"
One(q, x, m) ==
  /\ Len(q) <= m + 1
  /\ \E i \in 1..Len(q) :
       q[i] = x /\ \A j \in 1..Len(q) : j # i => q[j].kind = "tickle"
Two(q, x, y, m) ==
  /\ Len(q) <= m + 2
  /\ \E i, k \in 1..Len(q) :
       /\ i < k /\ q[i] = x /\ q[k] = y
       /\ \A j \in 1..Len(q) : j \notin {i, k} => q[j].kind = "tickle"

LEMMA EmptyTickles == \A m \in Nat : TicklesOnly(<<>>, m)
BY DEF TicklesOnly

LEMMA TicklesPut ==
  ASSUME NEW q \in Seq(Frames), NEW m \in Nat, TicklesOnly(q, m), NEW x \in Frames,
         m + 1 <= ChanCap
  PROVE  /\ One(Put(q, x), x, m)
         /\ x.kind = "tickle" => TicklesOnly(Put(q, x), m + 1)
<1>1. /\ Put(q, x) = Append(q, x) /\ Len(Append(q, x)) = Len(q) + 1
      /\ Append(q, x)[Len(q) + 1] = x
      /\ \A j \in 1..Len(q) : Append(q, x)[j] = q[j]
  BY PadpAssumption DEF Put, TicklesOnly
<1>2. Len(q) \in Nat
  OBVIOUS
<1>. QED
  BY <1>1, <1>2 DEF TicklesOnly, One

LEMMA OnePut ==
  ASSUME NEW q \in Seq(Frames), NEW m \in Nat, NEW x, One(q, x, m), NEW y \in Frames,
         m + 2 <= ChanCap
  PROVE  /\ Two(Put(q, y), x, y, m)
         /\ y.kind = "tickle" => One(Put(q, y), x, m + 1)
<1>1. /\ Put(q, y) = Append(q, y) /\ Len(Append(q, y)) = Len(q) + 1
      /\ Append(q, y)[Len(q) + 1] = y
      /\ \A j \in 1..Len(q) : Append(q, y)[j] = q[j]
  BY PadpAssumption DEF Put, One
<1>2. Len(q) \in Nat
  OBVIOUS
<1>3. PICK i \in 1..Len(q) :
        q[i] = x /\ \A j \in 1..Len(q) : j # i => q[j].kind = "tickle"
  BY DEF One
<1>4. /\ i \in 1..Len(q) + 1 /\ i < Len(q) + 1 /\ Append(q, y)[i] = x
      /\ \A j \in 1..Len(q) + 1 : j # i /\ j # Len(q) + 1 => Append(q, y)[j].kind = "tickle"
  BY <1>1, <1>2, <1>3
<1>5. Two(Put(q, y), x, y, m)
  BY <1>1, <1>2, <1>4 DEF Two, One
<1>6. ASSUME y.kind = "tickle" PROVE One(Put(q, y), x, m + 1)
  <2>1. \A j \in 1..Len(q) + 1 : j # i => Append(q, y)[j].kind = "tickle"
    BY <1>1, <1>4, <1>6
  <2>2. Len(q) + 1 <= m + 2
    BY <1>2 DEF One
  <2>3. Len(Put(q, y)) <= m + 1 + 1
    BY <1>1, <2>2
  <2>4. /\ i \in 1..Len(Put(q, y)) /\ Put(q, y)[i] = x
        /\ \A j \in 1..Len(Put(q, y)) : j # i => Put(q, y)[j].kind = "tickle"
    BY <1>1, <1>4, <2>1
  <2>. QED
    BY <2>3, <2>4 DEF One
<1>. QED
  BY <1>5, <1>6

LEMMA TicklesFirst ==
  ASSUME NEW q \in Seq(Frames), NEW m \in Nat, TicklesOnly(q, m), NEW p \in First(q)
  PROVE  p.kind = "tickle" /\ TicklesOnly(Tail(q), m)
<1>1. /\ q # <<>> /\ p = q[1] /\ Len(q) >= 1 /\ 1 \in 1..Len(q)
  BY FirstType
<1>2. /\ Len(Tail(q)) = Len(q) - 1
      /\ \A j \in 1..Len(Tail(q)) : j + 1 \in 1..Len(q) /\ Tail(q)[j] = q[j + 1]
  BY <1>1, TailIndex
<1>3. Len(q) - 1 <= m
  BY DEF TicklesOnly
<1>. QED
  BY <1>1, <1>2, <1>3 DEF TicklesOnly

LEMMA OneFirst ==
  ASSUME NEW q \in Seq(Frames), NEW m \in Nat, NEW x, One(q, x, m), NEW p \in First(q)
  PROVE  \/ p = x /\ TicklesOnly(Tail(q), m)
         \/ p.kind = "tickle" /\ One(Tail(q), x, m)
<1>1. /\ q # <<>> /\ p = q[1] /\ Len(q) >= 1 /\ 1 \in 1..Len(q) /\ Len(q) \in Nat
  BY FirstType
<1>2. /\ Len(Tail(q)) = Len(q) - 1
      /\ \A j \in 1..Len(Tail(q)) : j + 1 \in 1..Len(q) /\ Tail(q)[j] = q[j + 1]
  BY <1>1, TailIndex
<1>3. PICK i \in 1..Len(q) :
        q[i] = x /\ \A j \in 1..Len(q) : j # i => q[j].kind = "tickle"
  BY DEF One
<1>4. Len(q) <= m + 1
  BY DEF One
<1>5. CASE i = 1
  BY <1>1, <1>2, <1>3, <1>4, <1>5 DEF TicklesOnly
<1>6. CASE i # 1
  <2>1. /\ i - 1 \in 1..Len(Tail(q)) /\ Tail(q)[i - 1] = x
        /\ \A j \in 1..Len(Tail(q)) : j # i - 1 => Tail(q)[j].kind = "tickle"
    BY <1>1, <1>2, <1>3, <1>6
  <2>2. Len(Tail(q)) <= m + 1 /\ p.kind = "tickle"
    BY <1>1, <1>2, <1>3, <1>4, <1>6
  <2>. QED
    BY <2>1, <2>2 DEF One
<1>. QED
  BY <1>5, <1>6

LEMMA TwoFirst ==
  ASSUME NEW q \in Seq(Frames), NEW m \in Nat, NEW x, NEW y, Two(q, x, y, m), NEW p \in First(q)
  PROVE  \/ p = x /\ One(Tail(q), y, m)
         \/ p.kind = "tickle" /\ Two(Tail(q), x, y, m)
<1>1. /\ q # <<>> /\ p = q[1] /\ Len(q) >= 1 /\ 1 \in 1..Len(q) /\ Len(q) \in Nat
  BY FirstType
<1>2. /\ Len(Tail(q)) = Len(q) - 1
      /\ \A j \in 1..Len(Tail(q)) : j + 1 \in 1..Len(q) /\ Tail(q)[j] = q[j + 1]
  BY <1>1, TailIndex
<1>3. PICK i, k \in 1..Len(q) :
        /\ i < k /\ q[i] = x /\ q[k] = y
        /\ \A j \in 1..Len(q) : j \notin {i, k} => q[j].kind = "tickle"
  BY DEF Two
<1>4. Len(q) <= m + 2
  BY DEF Two
<1>5. /\ k - 1 \in 1..Len(Tail(q)) /\ Tail(q)[k - 1] = y
  BY <1>1, <1>2, <1>3
<1>6. CASE i = 1
  <2>1. \A j \in 1..Len(Tail(q)) : j # k - 1 => Tail(q)[j].kind = "tickle"
    BY <1>1, <1>2, <1>3, <1>6
  <2>2. Len(Tail(q)) <= m + 1
    BY <1>1, <1>2, <1>4
  <2>. QED
    BY <1>1, <1>3, <1>5, <1>6, <2>1, <2>2 DEF One
<1>7. CASE i # 1
  <2>1. /\ i - 1 \in 1..Len(Tail(q)) /\ Tail(q)[i - 1] = x /\ i - 1 < k - 1
        /\ \A j \in 1..Len(Tail(q)) : j \notin {i - 1, k - 1} => Tail(q)[j].kind = "tickle"
    BY <1>1, <1>2, <1>3, <1>7
  <2>2. Len(Tail(q)) <= m + 2 /\ p.kind = "tickle"
    BY <1>1, <1>2, <1>3, <1>4, <1>7
  <2>. QED
    BY <1>5, <2>1, <2>2 DEF Two
<1>. QED
  BY <1>6, <1>7

-----------------------------------------------------------------------------
(* Transaction ids: u is k ids after t.                                    *)

Ahead(t, u, k) == u = t + k \/ u + TxidWrap = t + k

LEMMA AheadFirst ==
  ASSUME NEW t \in 1..TxidWrap
  PROVE  Ahead(t, NextTxid(t), 1) /\ NextTxid(t) \in 1..TxidWrap
BY PadpAssumption DEF Ahead, NextTxid

LEMMA AheadNext ==
  ASSUME NEW t \in 1..TxidWrap, NEW u \in 1..TxidWrap, NEW k \in Nat, k < TxidWrap,
         Ahead(t, u, k)
  PROVE  Ahead(t, NextTxid(u), k + 1) /\ NextTxid(u) \in 1..TxidWrap
BY PadpAssumption DEF Ahead, NextTxid

LEMMA AheadApart ==
  ASSUME NEW t \in 1..TxidWrap, NEW u \in 1..TxidWrap, NEW k \in Nat, 1 <= k, k < TxidWrap,
         Ahead(t, u, k)
  PROVE  t # u
BY PadpAssumption DEF Ahead

-----------------------------------------------------------------------------
(* The exchange, step by step.  m bounds the tickles sent so far.          *)

Request == Data(txid, sent, reqLen, call)
Reply == DevFrag(devOff, devLen)

(* Only the ack of the last fragment of the response is still to come. *)
LastAckDue == devMode = "reply" /\ devOff + 1 = devLen

(* Between calls.  Each tickle uses up an id. *)
Idle(m) ==
  /\ pc = "idle" /\ toHost = <<>> /\ txid >= 1
  /\ \/ devTxid = 0
     \/ /\ devTxid \in 1..TxidWrap /\ txid \in 1..TxidWrap
        /\ \E k \in 1..m + 1 : Ahead(devTxid, txid, k)
  /\ \/ devMode = "wait" /\ TicklesOnly(toDev, m)
     \/ LastAckDue /\ One(toDev, AckOf(Reply), m)

Asking ==
  /\ pc = "txWait" /\ retries = TxRetries /\ sent < reqLen /\ rxbuf = <<>>
  /\ txid \in 1..TxidWrap

(* A fragment of the request is on its way. *)
Sending(m) ==
  /\ Asking /\ toHost = <<>>
  /\ \/ sent = 0 /\ devTxid # txid /\ devMode = "wait" /\ One(toDev, Request, m)
     \/ sent = 0 /\ devTxid # txid /\ LastAckDue /\ Two(toDev, AckOf(Reply), Request, m)
     \/ sent > 0 /\ devTxid = txid /\ devMode = "recv" /\ devGot = sent /\ One(toDev, Request, m)

(* Its ack is on its way, and perhaps the response behind it. *)
Taken(m) ==
  /\ Asking /\ devTxid = txid /\ devGot = sent + 1 /\ TicklesOnly(toDev, m)
  /\ \/ sent + 1 # reqLen /\ devMode = "recv" /\ toHost = <<AckOf(Request)>>
     \/ sent + 1 = reqLen /\ devMode = "exec" /\ toHost = <<AckOf(Request)>>
     \/ /\ sent + 1 = reqLen /\ devMode = "reply" /\ devOff = 0 /\ devLen > 0
        /\ toHost = <<AckOf(Request), Reply>>

(* The device is at work, or a fragment of the response or its ack is on   *)
(* its way.                                                                *)
Replying(m) ==
  /\ Receiving /\ txid \in 1..TxidWrap /\ devTxid = txid /\ nextTxid = NextTxid(txid)
  /\ pc = "rxFirst" <=> rxbuf = <<>>
  /\ \/ devMode = "exec" /\ rxbuf = <<>> /\ toHost = <<>> /\ TicklesOnly(toDev, m)
     \/ /\ devMode = "reply" /\ devOff < devLen /\ Len(rxbuf) = devOff
        /\ toHost = <<Reply>> /\ TicklesOnly(toDev, m)
     \/ /\ devMode = "reply" /\ devOff + 1 < devLen /\ Len(rxbuf) = devOff + 1
        /\ toHost = <<>> /\ One(toDev, AckOf(Reply), m)

InExchange(m) ==
  /\ conn = "ACCEPT" /\ stuck = FALSE /\ CallsSucceed
  /\ Idle(m) \/ Sending(m) \/ Taken(m) \/ Replying(m)

(* What is on its way is a frame. *)
LEMMA FramesOfExchange ==
  ASSUME TypeOK
  PROVE  /\ Request \in Frames /\ Reply \in Frames
         /\ AckOf(Request) \in Frames /\ AckOf(Reply) \in Frames
<1>1. Request \in Frames
  BY DataType DEF TypeOK, Request
<1>2. Reply \in Frames
  BY DataType DEF TypeOK, Reply, DevFrag
<1>. QED
  BY <1>1, <1>2, AckType

LEMMA RequestFields ==
  ASSUME TypeOK
  PROVE  /\ Request.kind = "data" /\ ~Request.mem /\ Request.hdr.txid = txid
         /\ Offset(Request) = sent /\ (Request.hdr.last <=> sent + 1 = reqLen)
         /\ (Request.hdr.first <=> sent = 0) /\ (sent # 0 => Request.hdr.size = sent)
         /\ AckOf(Request).kind = "ack" /\ ~AckOf(Request).mem /\ AckOf(Request).hdr.txid = txid
<1>1. /\ Request.kind = "data" /\ ~Request.mem /\ Request.hdr = Header(txid, sent, reqLen)
  BY DEF Request, Data, Frame
<1>2. AckOf(Request).kind = "ack" /\ ~AckOf(Request).mem /\ AckOf(Request).hdr = Request.hdr
  BY DEF AckOf, Frame
<1>3. sent \in Nat /\ reqLen \in Nat
  BY DEF TypeOK
<1>4. PICK r : r = Request /\ r.hdr = Header(txid, sent, reqLen)
  BY <1>1
<1>5. /\ Offset(r) = sent /\ (r.hdr.last <=> sent + 1 = reqLen)
      /\ (r.hdr.first <=> sent = 0) /\ r.hdr.txid = txid
  BY <1>3, <1>4, HeaderOffset
<1>6. sent # 0 => Request.hdr.size = sent
  BY <1>1 DEF Header
<1>. QED
  BY <1>1, <1>2, <1>4, <1>5, <1>6

LEMMA ReplyFields ==
  ASSUME TypeOK
  PROVE  /\ Reply.kind = "data" /\ ~Reply.mem /\ Reply.hdr.txid = devTxid
         /\ Offset(Reply) = devOff /\ (Reply.hdr.last <=> devOff + 1 = devLen)
         /\ (Reply.hdr.first <=> devOff = 0)
         /\ AckOf(Reply).kind = "ack" /\ AckOf(Reply).hdr = Header(devTxid, devOff, devLen)
         /\ AckOf(Reply).hdr.txid = devTxid
<1>1. /\ Reply.kind = "data" /\ ~Reply.mem /\ Reply.hdr = Header(devTxid, devOff, devLen)
  BY DEF Reply, DevFrag, Data, Frame
<1>2. AckOf(Reply).kind = "ack" /\ AckOf(Reply).hdr = Reply.hdr
  BY DEF AckOf, Frame
<1>3. devOff \in Nat /\ devLen \in Nat
  BY DEF TypeOK
<1>4. PICK r : r = Reply /\ r.hdr = Header(devTxid, devOff, devLen)
  BY <1>1
<1>5. /\ Offset(r) = devOff /\ (r.hdr.last <=> devOff + 1 = devLen)
      /\ (r.hdr.first <=> devOff = 0) /\ r.hdr.txid = devTxid
  BY <1>3, <1>4, HeaderOffset
<1>. QED
  BY <1>1, <1>2, <1>4, <1>5

(* Whenever a side waits, a frame is on its way: nothing is quiet.         *)
LEMMA NotQuiet ==
  ASSUME TypeOK, NEW m \in Nat, InExchange(m)
  PROVE  Quiet => pc = "idle" /\ devMode = "wait"
<1>1. ASSUME NEW x, NEW y PROVE ~One(<<>>, x, m) /\ ~Two(<<>>, x, y, m)
  <2>1. 1..Len(<<>>) = {}
    OBVIOUS
  <2>. QED
    BY <2>1 DEF One, Two
<1>2. \A x, y : <<x>> # <<>> /\ <<x, y>> # <<>>
  OBVIOUS
<1>. QED
  BY <1>1, <1>2 DEF InExchange, Idle, Sending, Taken, Replying, Quiet

LEMMA ShortTails ==
  ASSUME NEW x, NEW y
  PROVE  Tail(<<x>>) = <<>> /\ Tail(<<x, y>>) = <<y>>
OBVIOUS

LEMMA ShortAppend ==
  ASSUME NEW x, NEW y
  PROVE  Append(<<x>>, y) = <<x, y>>
<1>1. <<x>> \in Seq({x, y}) /\ <<x, y>> \in Seq({x, y})
  OBVIOUS
<1>2. PICK q : q = Append(<<x>>, y)
  OBVIOUS
<1>3. q \in Seq({x, y}) /\ Len(q) = 2 /\ q[1] = x /\ q[2] = y
  BY <1>1, <1>2
<1>4. Len(<<x, y>>) = 2 /\ <<x, y>>[1] = x /\ <<x, y>>[2] = y
  OBVIOUS
<1>5. \A i \in 1..2 : q[i] = <<x, y>>[i]
  BY <1>3, <1>4
<1>6. q = <<x, y>>
  BY <1>1, <1>3, <1>4, <1>5, SeqEqual
<1>. QED
  BY <1>2, <1>6

-----------------------------------------------------------------------------
(* Steps of the host. *)

(* A new call: the id taken is none the device has seen lately. *)
LEMMA BeginExchange ==
  ASSUME TypeOK, NEW m \in Nat, m + 2 <= ChanCap, m + 2 < TxidWrap, InExchange(m), Begin
  PROVE  InExchange(m)'
<1>1. PICK n \in ReqFrags : PadpTx(n)
  BY DEF Begin
<1>2. pc = "idle" /\ Idle(m)
  BY <1>1 DEF PadpTx, InExchange, Sending, Asking, Taken, Replying, Receiving
<1>3. n \in Nat /\ n > 0
  BY PadpAssumption
<1>4. /\ TxTxid = NextTxid(txid) /\ TxTxid \in 1..TxidWrap /\ devTxid # TxTxid
  <2>1. TxTxid = NextTxid(txid) /\ TxTxid \in 1..TxidWrap
    BY <1>2, NextTxidType DEF Idle, TxTxid, TypeOK
  <2>2. CASE devTxid = 0
    BY <2>1, <2>2
  <2>3. CASE devTxid # 0
    <3>1. PICK k \in 1..m + 1 : Ahead(devTxid, txid, k)
      BY <1>2, <2>3 DEF Idle
    <3>2. devTxid \in 1..TxidWrap /\ txid \in 1..TxidWrap
      BY <1>2, <2>3 DEF Idle
    <3>3. k \in Nat /\ k < TxidWrap /\ k + 1 \in Nat /\ 1 <= k + 1 /\ k + 1 < TxidWrap
      BY PadpAssumption
    <3>4. Ahead(devTxid, NextTxid(txid), k + 1)
      BY <3>1, <3>2, <3>3, AheadNext
    <3>. QED
      BY <2>1, <3>2, <3>3, <3>4, AheadApart
  <2>. QED
    BY <2>2, <2>3
<1>5. /\ pc' = "txWait" /\ outcome' = "none" /\ retries' = TxRetries /\ sent' = 0
      /\ reqLen' = n /\ rxbuf' = <<>> /\ stuck' = FALSE /\ txid' = TxTxid
      /\ call' = call + 1 /\ UNCHANGED <<conn, devVars>>
      /\ toDev' = Put(toDev, Data(TxTxid, 0, n, call + 1))
  BY <1>1 DEF PadpTx
<1>6. toHost' = <<>>
  <2>1. toHost = <<>>
    BY <1>2 DEF Idle
  <2>2. PICK k \in 0..(IF FlushDiscards THEN Len(toHost) ELSE 0) :
          toHost' = SubSeq(toHost, k + 1, Len(toHost))
    BY <1>1 DEF PadpTx
  <2>3. k = 0 /\ Len(toHost) = 0
    BY <2>1, <2>2
  <2>4. toHost' = SubSeq(<<>>, 1, 0)
    BY <2>1, <2>2, <2>3
  <2>. QED
    BY <2>4
<1>7. Request' = Data(TxTxid, 0, n, call + 1) /\ Request' \in Frames
  <2>1. Request' = Data(TxTxid, 0, n, call + 1)
    BY <1>5 DEF Request
  <2>2. call + 1 \in 0..MaxCalls
    BY <1>1, PadpAssumption DEF PadpTx, TypeOK
  <2>3. TxTxid \in Txids
    BY <1>4, PadpAssumption DEF Txids
  <2>. QED
    BY <1>3, <2>1, <2>2, <2>3, DataType
<1>8. Reply' = Reply /\ (LastAckDue => LastAckDue')
  BY <1>5 DEF Reply, DevFrag, LastAckDue, devVars
<1>9. toDev \in Seq(Frames) /\ toDev' = Put(toDev, Request')
  BY <1>5, <1>7 DEF TypeOK
<1>10. Asking'
  BY <1>3, <1>4, <1>5 DEF Asking
<1>11. CASE devMode = "wait" /\ TicklesOnly(toDev, m)
  <2>1. One(toDev', Request', m)
    BY <1>7, <1>9, <1>11, TicklesPut, PadpAssumption
  <2>. QED
    BY <1>4, <1>5, <1>6, <1>10, <1>11, <2>1 DEF InExchange, Sending, CallsSucceed, devVars
<1>12. CASE LastAckDue /\ One(toDev, AckOf(Reply), m)
  <2>1. Two(toDev', AckOf(Reply), Request', m)
    BY <1>7, <1>9, <1>12, OnePut
  <2>2. Two(toDev', AckOf(Reply'), Request', m)
    BY <1>8, <2>1
  <2>. QED
    BY <1>4, <1>5, <1>6, <1>8, <1>10, <1>12, <2>2 DEF InExchange, Sending, CallsSucceed, devVars
<1>. QED
  BY <1>2, <1>11, <1>12 DEF Idle

(* The ack of a fragment: the next one, or the wait for the response.      *)
LEMMA TxAckExchange ==
  ASSUME TypeOK, NEW m \in Nat, m + 2 <= ChanCap, InExchange(m),
         NEW p \in First(toHost), toHost' = Tail(toHost), TxAck(p)
  PROVE  InExchange(m)'
<1>1. Taken(m) /\ p = AckOf(Request)
  <2>1. toHost # <<>>
    BY FirstType DEF TypeOK
  <2>2. Taken(m)
    BY <2>1 DEF InExchange, Idle, Sending, Replying, Receiving, TxAck, TxReads
  <2>3. p = Head(toHost)
    BY FirstType DEF TypeOK
  <2>. QED
    BY <2>2, <2>3 DEF Taken
<1>2. /\ conn' = conn /\ stuck' = stuck /\ outcome' = outcome /\ sent' = sent + 1
      /\ rxbuf' = rxbuf /\ call' = call /\ txid' = txid /\ reqLen' = reqLen
      /\ UNCHANGED devVars /\ sent \in Nat /\ reqLen \in Nat
  BY DEF TxAck, TxDone, TypeOK
<1>3. CASE sent + 1 = reqLen
  <2>1. pc' = "rxFirst" /\ nextTxid' = NextTxid(txid) /\ toDev' = toDev
    BY <1>3 DEF TxAck, TxDone, TxLastFrag
  <2>2. Reply' = Reply
    BY <1>2 DEF Reply, DevFrag, devVars
  <2>3. \/ devMode = "exec" /\ toHost' = <<>>
        \/ devMode = "reply" /\ devOff = 0 /\ devLen > 0 /\ toHost' = <<Reply'>>
    BY <1>1, <1>3, <2>2, ShortTails DEF Taken
  <2>4. rxbuf' = <<>> /\ Len(rxbuf') = 0
    BY <1>1, <1>2 DEF Taken, Asking
  <2>5. Replying(m)'
    BY <1>1, <1>2, <2>1, <2>3, <2>4 DEF Taken, Asking, Replying, Receiving, devVars
  <2>. QED
    BY <1>2, <2>5 DEF InExchange, CallsSucceed
<1>4. CASE sent + 1 # reqLen
  <2>1. /\ retries' = TxRetries /\ pc' = pc
        /\ toDev' = Put(toDev, Data(txid, sent + 1, reqLen, call))
    BY <1>4 DEF TxAck, TxLastFrag
  <2>2. toHost' = <<>> /\ devMode = "recv"
    BY <1>1, <1>4, ShortTails DEF Taken
  <2>3. Request' = Data(txid, sent + 1, reqLen, call)
    BY <1>2 DEF Request
  <2>4. Request' \in Frames
    BY <1>2, <2>3, DataType DEF TypeOK
  <2>5. One(toDev', Request', m)
    BY <1>1, <2>1, <2>3, <2>4, TicklesPut, PadpAssumption DEF TypeOK, Taken
  <2>6. sent' < reqLen' /\ sent' > 0
    BY <1>1, <1>2, <1>4 DEF Taken, Asking
  <2>7. Sending(m)'
    BY <1>1, <1>2, <2>1, <2>2, <2>5, <2>6 DEF Taken, Asking, Sending, devVars
  <2>. QED
    BY <1>2, <2>7 DEF InExchange, CallsSucceed
<1>. QED
  BY <1>3, <1>4

(* A fragment of the response: its ack, and perhaps the end of the call.   *)
LEMMA RxAcceptExchange ==
  ASSUME TypeOK, NEW m \in Nat, m + 2 <= ChanCap, InExchange(m),
         NEW p \in First(toHost), toHost' = Tail(toHost), RxAccept(p)
  PROVE  InExchange(m)'
<1>1. toHost # <<>> /\ p = Head(toHost)
  BY FirstType DEF TypeOK
<1>2. /\ Replying(m) /\ devMode = "reply" /\ devOff < devLen /\ Len(rxbuf) = devOff
      /\ toHost = <<Reply>> /\ TicklesOnly(toDev, m) /\ p = Reply
  <2>1. Replying(m)
    BY <1>1 DEF InExchange, Idle, Sending, Taken, Asking, Receiving, RxAccept
  <2>. QED
    BY <1>1, <2>1 DEF Replying
<1>3. /\ toDev' = Put(toDev, AckOf(Reply)) /\ UNCHANGED <<nextTxid, stuck, devVars>>
      /\ Offset(Reply) = devOff /\ (Reply.hdr.last <=> devOff + 1 = devLen)
      /\ devOff \in Nat /\ devLen \in Nat /\ rxbuf \in Seq(Pieces)
  BY <1>2, ReplyFields DEF RxAccept, Acked, TypeOK
<1>4. rxbuf' = Append(rxbuf, [call |-> p.call, off |-> Offset(p)])
  BY <1>2, <1>3 DEF RxAccept
<1>5. rxbuf' # <<>> /\ Len(rxbuf') = devOff + 1
  BY <1>2, <1>3, <1>4
<1>6. toHost' = <<>>
  BY <1>2
<1>7. Reply' = Reply /\ AckOf(Reply) \in Frames
  BY <1>3, FramesOfExchange DEF Reply, DevFrag, devVars
<1>8. One(toDev', AckOf(Reply'), m)
  BY <1>2, <1>3, <1>7, TicklesPut, PadpAssumption DEF TypeOK
<1>9. CASE devOff + 1 = devLen
  <2>1. pc' = "idle" /\ outcome' = "ok" /\ conn' = conn /\ txid' = nextTxid
    BY <1>2, <1>3, <1>9 DEF RxAccept, EndsResponse, Return
  <2>2. /\ devTxid' \in 1..TxidWrap /\ txid' \in 1..TxidWrap /\ txid' >= 1
        /\ Ahead(devTxid', txid', 1)
    BY <1>2, <1>3, <2>1, AheadFirst DEF Replying, devVars
  <2>3. 1 \in 1..m + 1
    OBVIOUS
  <2>4. LastAckDue'
    BY <1>2, <1>3, <1>9 DEF LastAckDue, devVars
  <2>5. Idle(m)'
    BY <1>6, <1>8, <2>1, <2>2, <2>3, <2>4 DEF Idle
  <2>. QED
    BY <1>3, <2>1, <2>5 DEF InExchange, CallsSucceed
<1>10. CASE devOff + 1 # devLen
  <2>1. pc' = "rxNext" /\ UNCHANGED <<conn, outcome, txid>>
    BY <1>2, <1>3, <1>10 DEF RxAccept, EndsResponse
  <2>2. devOff' + 1 < devLen' /\ Len(rxbuf') = devOff' + 1 /\ devMode' = "reply"
    BY <1>2, <1>3, <1>5, <1>10 DEF devVars
  <2>3. Replying(m)'
    BY <1>2, <1>3, <1>5, <1>6, <1>8, <2>1, <2>2 DEF Replying, Receiving, devVars
  <2>. QED
    BY <1>3, <2>1, <2>3 DEF InExchange, CallsSucceed
<1>. QED
  BY <1>9, <1>10

(* The host reads nothing else than these. *)
LEMMA HostReadsExchange ==
  ASSUME TypeOK, NEW m \in Nat, m + 2 <= ChanCap, InExchange(m), HostReads
  PROVE  InExchange(m)'
<1>1. PICK p \in First(toHost) :
        /\ toHost' = Tail(toHost)
        /\ \/ TxSwallow \/ TxTickle(p) \/ TxMissingAck(p) \/ TxAck(p)
           \/ TxFail(p) \/ TxRepeat(p)
           \/ RxAccept(p) \/ RxMemErr(p) \/ RxWrong(p)
  BY DEF HostReads
<1>2. toHost # <<>> /\ p = Head(toHost)
  BY FirstType DEF TypeOK
<1>3. ~stuck
  BY DEF InExchange
<1>4. CASE pc = "txWait"
  <2>1. Taken(m)
    BY <1>2, <1>4 DEF InExchange, Idle, Sending, Replying, Receiving
  <2>2. p.kind = "ack" /\ ~p.mem /\ p.hdr.txid = txid
    <3>1. p = AckOf(Request)
      BY <1>2, <2>1 DEF Taken
    <3>. QED
      BY <3>1, RequestFields
  <2>3. TxAck(p)
    BY <1>1, <1>3, <1>4, <2>2
    DEF TxSwallow, TxTickle, TxMissingAck, IsResponse, TxFail, IsAck, TxRepeat, IsRepeat,
        RxAccept, RxMemErr, RxWrong, Receiving
  <2>. QED
    BY <1>1, <2>3, TxAckExchange
<1>5. CASE pc # "txWait"
  <2>1. Replying(m)
    BY <1>2, <1>5 DEF InExchange, Idle, Sending, Taken, Asking
  <2>2. p = Reply /\ Len(rxbuf) = devOff
    BY <1>2, <2>1 DEF Replying
  <2>3. rxbuf = <<>> <=> devOff = 0
    BY <2>2 DEF TypeOK
  <2>4. IsWanted(p)
    BY <2>1, <2>2, <2>3, ReplyFields DEF IsWanted, Replying
  <2>5. ~IsMemErr(p)
    BY <2>2, ReplyFields DEF IsMemErr
  <2>6. RxAccept(p)
    BY <1>1, <1>5, <2>4, <2>5
    DEF TxSwallow, TxTickle, TxMissingAck, TxReads, TxAck, TxFail, TxRepeat, RxMemErr, RxWrong
  <2>. QED
    BY <1>1, <2>6, RxAcceptExchange
<1>. QED
  BY <1>4, <1>5

-----------------------------------------------------------------------------
(* Steps of the device. *)

(* A fragment of the request is taken and acked. *)
LEMMA DevAcceptExchange ==
  ASSUME TypeOK, NEW m \in Nat, m + 2 <= ChanCap, InExchange(m), Sending(m),
         toDev' = Tail(toDev), TicklesOnly(toDev', m), devMode \in {"wait", "recv"},
         DevAccept(Request)
  PROVE  InExchange(m)'
<1>1. /\ toHost' = Put(toHost, AckOf(Request)) /\ devTxid' = txid /\ devGot' = sent + 1
      /\ UNCHANGED hostVars
      /\ \/ sent + 1 = reqLen /\ devMode' = "exec"
         \/ sent + 1 # reqLen /\ devMode' = "recv"
  BY RequestFields DEF DevAccept
<1>2. /\ Asking' /\ Request' = Request /\ conn' = conn /\ stuck' = stuck /\ outcome' = outcome
      /\ devTxid' = txid' /\ devGot' = sent' + 1 /\ sent' = sent /\ reqLen' = reqLen
  BY <1>1 DEF Sending, Asking, Request, hostVars
<1>3. toHost' = <<AckOf(Request')>>
  BY <1>1, <1>2, PadpAssumption DEF Sending, Put
<1>4. Taken(m)'
  BY <1>1, <1>2, <1>3 DEF Taken
<1>. QED
  BY <1>2, <1>4 DEF InExchange, CallsSucceed

(* The ack of a fragment of the response: the next one, or none. *)
LEMMA DevGetsAckExchange ==
  ASSUME TypeOK, NEW m \in Nat, m + 2 <= ChanCap, InExchange(m),
         NEW p, p = AckOf(Reply), devMode = "reply",
         toDev' = Tail(toDev), DevGetsAck(p),
         \/ Replying(m) /\ devOff + 1 < devLen /\ Len(rxbuf) = devOff + 1 /\ toHost = <<>>
            /\ TicklesOnly(toDev', m)
         \/ Idle(m) /\ devOff + 1 = devLen /\ TicklesOnly(toDev', m)
         \/ Sending(m) /\ sent = 0 /\ devTxid # txid /\ devOff + 1 = devLen
            /\ One(toDev', Request, m)
  PROVE  InExchange(m)'
<1>1. AcksReply(p)
  BY ReplyFields DEF AcksReply
<1>2. /\ devOff' = devOff + 1 /\ UNCHANGED <<hostVars, devTxid, devCall, devGot, devLen>>
      /\ \/ devOff + 1 = devLen /\ devMode' = "wait" /\ toHost' = toHost
         \/ /\ devOff + 1 # devLen /\ devMode' = devMode
            /\ toHost' = Put(toHost, DevFrag(devOff + 1, devLen))
  BY <1>1 DEF DevGetsAck
<1>3. devOff \in Nat /\ devLen \in Nat
  BY DEF TypeOK
<1>4. conn' = conn /\ stuck' = stuck /\ outcome' = outcome /\ Request' = Request
  BY <1>2 DEF hostVars, Request
<1>5. CASE /\ Replying(m) /\ devOff + 1 < devLen /\ Len(rxbuf) = devOff + 1 /\ toHost = <<>>
           /\ TicklesOnly(toDev', m)
  <2>1. Reply' = DevFrag(devOff + 1, devLen)
    BY <1>2 DEF Reply, DevFrag
  <2>2. /\ devMode' = "reply" /\ devOff' < devLen' /\ Len(rxbuf') = devOff' /\ toHost' = <<Reply'>>
    BY <1>2, <1>3, <1>5, <2>1, PadpAssumption DEF hostVars, Put
  <2>3. Replying(m)'
    BY <1>2, <1>5, <2>2 DEF Replying, Receiving, hostVars
  <2>. QED
    BY <1>4, <2>3 DEF InExchange, CallsSucceed
<1>6. CASE Idle(m) /\ devOff + 1 = devLen /\ TicklesOnly(toDev', m)
  <2>1. Idle(m)'
    BY <1>2, <1>6 DEF Idle, hostVars
  <2>. QED
    BY <1>4, <2>1 DEF InExchange, CallsSucceed
<1>7. CASE /\ Sending(m) /\ sent = 0 /\ devTxid # txid /\ devOff + 1 = devLen
           /\ One(toDev', Request, m)
  <2>1. Sending(m)'
    BY <1>2, <1>4, <1>7 DEF Sending, Asking, hostVars
  <2>. QED
    BY <1>4, <2>1 DEF InExchange, CallsSucceed
<1>. QED
  BY <1>5, <1>6, <1>7

(* A tickle is passed over: what is behind it comes to the front. *)
LEMMA TickleIgnored ==
  ASSUME TypeOK, NEW m \in Nat, InExchange(m),
         NEW p \in First(toDev), p.kind = "tickle", toDev' = Tail(toDev),
         UNCHANGED <<hostVars, toHost, devVars>>
  PROVE  InExchange(m)'
<1>2. /\ toDev \in Seq(Frames) /\ Request.kind # "tickle" /\ AckOf(Reply).kind # "tickle"
      /\ Request' = Request /\ Reply' = Reply
  BY RequestFields, ReplyFields DEF TypeOK, Request, Reply, DevFrag, hostVars, devVars
<1>3. /\ TicklesOnly(toDev, m) => TicklesOnly(toDev', m)
      /\ One(toDev, Request, m) => One(toDev', Request', m)
      /\ One(toDev, AckOf(Reply), m) => One(toDev', AckOf(Reply'), m)
      /\ Two(toDev, AckOf(Reply), Request, m) => Two(toDev', AckOf(Reply'), Request', m)
  BY <1>2, TicklesFirst, OneFirst, TwoFirst
<1>4. LastAckDue => LastAckDue'
  BY DEF LastAckDue, devVars
<1>5. Asking => Asking'
  BY DEF Asking, hostVars
<1>6. Idle(m) => Idle(m)'
  BY <1>2, <1>3, <1>4 DEF Idle, hostVars, devVars
<1>7. Sending(m) => Sending(m)'
  BY <1>2, <1>3, <1>4, <1>5 DEF Sending, hostVars, devVars
<1>8. Taken(m) => Taken(m)'
  BY <1>2, <1>3, <1>5 DEF Taken, hostVars, devVars
<1>9. Replying(m) => Replying(m)'
  BY <1>2, <1>3 DEF Replying, Receiving, hostVars, devVars
<1>. QED
  BY <1>6, <1>7, <1>8, <1>9 DEF InExchange, CallsSucceed, hostVars

LEMMA DevReadsExchange ==
  ASSUME MaxMemErrs = 0, TypeOK, NEW m \in Nat, m + 2 <= ChanCap, InExchange(m), DevReads
  PROVE  InExchange(m)'
<1>1. PICK p \in First(toDev) :
        /\ toDev' = Tail(toDev)
        /\ \/ DevAccept(p) \/ DevMemErr(p) \/ DevRepeatAck(p) \/ DevIgnore(p) \/ DevGetsAck(p)
  BY DEF DevReads
<1>2. toDev \in Seq(Frames) /\ p \in Frames
  BY FirstType DEF TypeOK
<1>3. ~DevMemErr(p)
  BY DEF DevMemErr, Spend, TypeOK, Budgets
<1>4. CASE p.kind = "tickle"
  <2>1. DevIgnore(p)
    BY <1>1, <1>4
    DEF DevAccept, DevMemErr, DevRepeatAck, DevGetsAck, IsNewRequest, IsNextFrag, IsOldFrag
  <2>. QED
    BY <1>1, <1>4, <2>1, TickleIgnored DEF DevIgnore
<1>5. CASE p = Request /\ Sending(m) /\ TicklesOnly(toDev', m) /\ devMode \in {"wait", "recv"}
  <2>1. /\ p.kind = "data" /\ p.hdr.txid = txid /\ Offset(p) = sent
        /\ (p.hdr.first <=> sent = 0) /\ (sent # 0 => p.hdr.size = sent)
    BY <1>5, RequestFields
  <2>2. IsNewRequest(p) \/ IsNextFrag(p)
    BY <1>5, <2>1 DEF IsNewRequest, IsNextFrag, Sending, LastAckDue, TypeOK
  <2>3. ~IsOldFrag(p)
    BY <1>5, <2>1 DEF IsOldFrag, Sending, LastAckDue, TypeOK
  <2>4. DevAccept(p)
    BY <1>1, <1>3, <2>1, <2>2, <2>3 DEF DevRepeatAck, DevIgnore, DevGetsAck
  <2>. QED
    BY <1>1, <1>5, <2>4, DevAcceptExchange
<1>6. CASE /\ p = AckOf(Reply) /\ devMode = "reply"
           /\ \/ /\ Replying(m) /\ devOff + 1 < devLen /\ Len(rxbuf) = devOff + 1
                 /\ toHost = <<>> /\ TicklesOnly(toDev', m)
              \/ Idle(m) /\ devOff + 1 = devLen /\ TicklesOnly(toDev', m)
              \/ /\ Sending(m) /\ sent = 0 /\ devTxid # txid /\ devOff + 1 = devLen
                 /\ One(toDev', Request, m)
  <2>1. p.kind = "ack"
    BY <1>6, ReplyFields
  <2>2. DevGetsAck(p)
    BY <1>1, <1>3, <2>1 DEF DevAccept, DevRepeatAck, DevIgnore, IsNewRequest, IsNextFrag, IsOldFrag
  <2>. QED
    BY <1>1, <1>6, <2>2, DevGetsAckExchange
<1>7. p.kind # "tickle" => ~TicklesOnly(toDev, m)
  BY <1>2, TicklesFirst
<1>8. p.kind # "tickle" /\ One(toDev, Request, m) => p = Request /\ TicklesOnly(toDev', m)
  BY <1>1, <1>2, OneFirst
<1>9. p.kind # "tickle" /\ One(toDev, AckOf(Reply), m) => p = AckOf(Reply) /\ TicklesOnly(toDev', m)
  BY <1>1, <1>2, OneFirst
<1>10. p.kind # "tickle" /\ Two(toDev, AckOf(Reply), Request, m)
         => p = AckOf(Reply) /\ One(toDev', Request, m)
  BY <1>1, <1>2, TwoFirst
<1>11. CASE p.kind # "tickle" /\ Idle(m)
  BY <1>6, <1>7, <1>9, <1>11 DEF Idle, LastAckDue
<1>12. CASE p.kind # "tickle" /\ Sending(m)
  BY <1>5, <1>6, <1>8, <1>10, <1>12 DEF Sending, LastAckDue
<1>13. CASE p.kind # "tickle" /\ Taken(m)
  BY <1>7, <1>13 DEF Taken
<1>14. CASE p.kind # "tickle" /\ Replying(m)
  BY <1>6, <1>7, <1>9, <1>14 DEF Replying
<1>. QED
  BY <1>4, <1>11, <1>12, <1>13, <1>14 DEF InExchange

(* The first fragment of the response. *)
LEMMA DevReplyExchange ==
  ASSUME TypeOK, NEW m \in Nat, m + 2 <= ChanCap, InExchange(m), DevReply
  PROVE  InExchange(m)'
<1>1. PICK n \in RespFrags : devLen' = n /\ toHost' = Put(toHost, DevFrag(0, n))
  BY DEF DevReply
<1>2. /\ devMode = "exec" /\ devMode' = "reply" /\ devOff' = 0
      /\ UNCHANGED <<hostVars, toDev, devTxid, devCall, devGot>>
  BY DEF DevReply
<1>3. n \in Nat /\ n > 0 /\ devLen' > 0
  BY <1>1, PadpAssumption
<1>4. Reply' = DevFrag(0, n)
  BY <1>1, <1>2 DEF Reply, DevFrag
<1>5. /\ Request' = Request /\ conn' = conn /\ stuck' = stuck /\ outcome' = outcome
      /\ (Asking => Asking')
  BY <1>2 DEF Request, Asking, hostVars
<1>6. CASE Taken(m)
  <2>1. toHost = <<AckOf(Request)>> /\ sent + 1 = reqLen
    BY <1>2, <1>6 DEF Taken
  <2>2. Len(toHost) < ChanCap
    BY <2>1, PadpAssumption
  <2>3. toHost' = Append(<<AckOf(Request)>>, Reply')
    BY <1>1, <1>4, <2>1, <2>2 DEF Put
  <2>4. toHost' = <<AckOf(Request'), Reply'>>
    BY <1>5, <2>3, ShortAppend
  <2>5. Taken(m)'
    BY <1>2, <1>3, <1>5, <1>6, <2>1, <2>4 DEF Taken, hostVars
  <2>. QED
    BY <1>5, <2>5 DEF InExchange, CallsSucceed
<1>7. CASE Replying(m)
  <2>1. toHost = <<>> /\ rxbuf = <<>> /\ TicklesOnly(toDev, m)
    BY <1>2, <1>7 DEF Replying
  <2>2. toHost' = <<Reply'>>
    BY <1>1, <1>4, <2>1, PadpAssumption DEF Put
  <2>3. Len(rxbuf') = devOff'
    BY <1>2, <2>1 DEF hostVars
  <2>4. Replying(m)'
    BY <1>2, <1>3, <1>7, <2>1, <2>2, <2>3 DEF Replying, Receiving, hostVars
  <2>. QED
    BY <1>5, <2>4 DEF InExchange, CallsSucceed
<1>. QED
  BY <1>2, <1>6, <1>7 DEF InExchange, Idle, Sending, LastAckDue

-----------------------------------------------------------------------------
(* An undisturbed line. *)

(* The hypotheses of what follows: timers expire only on a silent line,    *)
(* the device neither tickles nor reports errors, the line holds the       *)
(* tickles sent and two frames more, and there are fewer tickles than      *)
(* bring the ids back to the one of the last call.                         *)
Undisturbed(m) ==
  /\ Patient /\ MaxTickles = 0 /\ MaxMemErrs = 0
  /\ m + 2 <= ChanCap /\ m + 2 < TxidWrap

LosslessInv(m) == used.losses = 0 => InExchange(m)

LEMMA InitLossless == Init => \A m \in Nat : LosslessInv(m)
<1>1. ASSUME NEW m \in Nat, Init PROVE Idle(m)
  BY <1>1, EmptyTickles, PadpAssumption DEF Init, Idle
<1>. QED
  BY <1>1 DEF Init, LosslessInv, InExchange, CallsSucceed

(* No timer runs out. *)
LEMMA NoTimeout ==
  ASSUME Patient, TypeOK, NEW m \in Nat, InExchange(m)
  PROVE  ~TxTimeout /\ ~RxSilence /\ ~DevResend /\ ~DevGiveUp
BY NotQuiet DEF TxTimeout, RxSilence, DevResend, DevGiveUp, Receiving

LEMMA NextLossless ==
  ASSUME NEW m \in Nat, Undisturbed(m)
  PROVE  TypeOK /\ LosslessInv(m) /\ [Next]_vars => LosslessInv(m)'
<1>. SUFFICES ASSUME TypeOK, LosslessInv(m), [Next]_vars, used'.losses = 0
              PROVE  InExchange(m)'
  BY DEF LosslessInv
<1>. USE DEF Undisturbed
<1>1. used \in Budgets /\ ~DevTickle
  <2>1. used \in Budgets
    BY DEF TypeOK
  <2>2. used.tickles = 0
    BY <2>1 DEF Budgets
  <2>3. ~Spend("tickles", MaxTickles)
    BY <2>2 DEF Spend
  <2>. QED
    BY <2>1, <2>3 DEF DevTickle
<1>2. ~Line
  <2>1. used.losses \in Nat
    BY <1>1, PadpAssumption DEF Budgets
  <2>2. ~Spend("losses", MaxLosses)
    BY <1>1, <2>1 DEF Spend, Budgets
  <2>. QED
    BY <2>2 DEF Line, LoseToDev, LoseToHost, TxDamaged
<1>3. used.losses = 0
  <2>1. CASE used' = used
    BY <2>1
  <2>2. CASE DevReads
    BY <2>2 DEF DevReads, DevAccept, DevMemErr, DevRepeatAck, DevIgnore, DevGetsAck, Spend, Budgets, TypeOK
  <2>3. HostReads => used' = used
    BY DEF HostReads, TxSwallow, TxTickle, TxMissingAck, TxAck, TxFail, TxRepeat, RxAccept,
           RxMemErr, RxWrong
  <2>4. Begin \/ TxTimeout \/ RxSilence => used' = used
    BY DEF Begin, PadpTx, TxTimeout, RxSilence
  <2>5. DevReply \/ DevResend \/ DevGiveUp => used' = used
    BY DEF DevReply, DevResend, DevGiveUp
  <2>6. Finished \/ UNCHANGED vars => used' = used
    BY DEF Finished, vars
  <2>. QED
    BY <1>1, <1>2, <2>1, <2>2, <2>3, <2>4, <2>5, <2>6 DEF Next
<1>4. InExchange(m)
  BY <1>3 DEF LosslessInv
<1>5. CASE UNCHANGED vars
  BY <1>4, <1>5
  DEF InExchange, CallsSucceed, Idle, Sending, Taken, Replying, Asking, LastAckDue, Receiving,
      Request, Reply, DevFrag, vars, hostVars, devVars
<1>6. Finished => UNCHANGED vars
  BY DEF Finished
<1>. QED
  BY <1>1, <1>2, <1>4, <1>5, <1>6, NoTimeout, BeginExchange, HostReadsExchange,
     DevReadsExchange, DevReplyExchange
  DEF Next

(* A tickle between two calls uses up an id and stays on the line until    *)
(* the device reads it.                                                    *)
LEMMA TickleExchange ==
  ASSUME TypeOK, NEW m \in Nat, m + 2 <= ChanCap, m + 1 < TxidWrap, InExchange(m),
         pc = "idle", Tickle
  PROVE  InExchange(m + 1)'
<1>1. Idle(m)
  BY DEF InExchange, Sending, Asking, Taken, Replying, Receiving
<1>2. /\ txid' = TxTxid /\ toDev' = Put(toDev, TickleFrame)
      /\ UNCHANGED <<pc, conn, stuck, outcome, devVars>>
  BY DEF Tickle
<1>3. txid >= 1 /\ TxTxid = NextTxid(txid) /\ TxTxid \in 1..TxidWrap
  BY <1>1, NextTxidType DEF Idle, TxTxid, TypeOK
<1>4. TickleFrame \in Frames /\ TickleFrame.kind = "tickle"
  <2>1. PICK h : h = Header(TxTxid, 0, 1)
    OBVIOUS
  <2>2. h \in Headers
    BY <1>3, <2>1, HeaderType, PadpAssumption DEF Txids
  <2>3. [h EXCEPT !.size = 0] \in Headers
    BY <2>2 DEF Headers
  <2>. QED
    BY <2>1, <2>3 DEF TickleFrame, Frame, Frames, TypeOK
<1>5. toHost' = <<>>
  <2>1. toHost = <<>>
    BY <1>1 DEF Idle
  <2>2. PICK k \in 0..(IF FlushDiscards THEN Len(toHost) ELSE 0) :
          toHost' = SubSeq(toHost, k + 1, Len(toHost))
    BY DEF Tickle
  <2>3. k = 0 /\ Len(toHost) = 0
    BY <2>1, <2>2
  <2>4. toHost' = SubSeq(<<>>, 1, 0)
    BY <2>1, <2>2, <2>3
  <2>. QED
    BY <2>4
<1>6. Reply' = Reply /\ toDev \in Seq(Frames)
  BY <1>2 DEF Reply, DevFrag, devVars, TypeOK
<1>7. /\ TicklesOnly(toDev, m) => TicklesOnly(toDev', m + 1)
      /\ One(toDev, AckOf(Reply), m) => One(toDev', AckOf(Reply'), m + 1)
  BY <1>2, <1>4, <1>6, TicklesPut, OnePut, PadpAssumption
<1>8. \/ devTxid = 0
      \/ /\ devTxid \in 1..TxidWrap /\ txid' \in 1..TxidWrap
         /\ \E k \in 1..(m + 1) + 1 : Ahead(devTxid, txid', k)
  <2>1. SUFFICES ASSUME devTxid # 0
                 PROVE  /\ devTxid \in 1..TxidWrap /\ txid' \in 1..TxidWrap
                        /\ \E k \in 1..(m + 1) + 1 : Ahead(devTxid, txid', k)
    OBVIOUS
  <2>2. PICK k \in 1..m + 1 : Ahead(devTxid, txid, k)
    BY <1>1, <2>1 DEF Idle
  <2>3. devTxid \in 1..TxidWrap /\ txid \in 1..TxidWrap
    BY <1>1, <2>1 DEF Idle
  <2>4. k \in Nat /\ k < TxidWrap /\ k + 1 \in 1..(m + 1) + 1
    BY PadpAssumption
  <2>5. Ahead(devTxid, NextTxid(txid), k + 1)
    BY <2>2, <2>3, <2>4, AheadNext
  <2>. QED
    BY <1>2, <1>3, <2>3, <2>4, <2>5
<1>9. Idle(m + 1)'
  BY <1>1, <1>2, <1>3, <1>5, <1>7, <1>8 DEF Idle, LastAckDue, devVars
<1>. QED
  BY <1>2, <1>9 DEF InExchange, CallsSucceed

LEMMA WNextType == TypeOK /\ alarms \in Nat /\ [WNext]_<<vars, alarms>> => TypeOK' /\ alarms' \in Nat
<1>. SUFFICES ASSUME TypeOK, alarms \in Nat, [WNext]_<<vars, alarms>>
              PROVE  TypeOK' /\ alarms' \in Nat
  OBVIOUS
<1>1. CASE [Next]_vars /\ alarms' = alarms
  BY <1>1, NextType
<1>2. CASE Tickle
  <2>1. TxTxid \in Txids
    BY TxTxidType DEF TypeOK
  <2>2. TickleFrame \in Frames
    <3>1. PICK h : h = Header(TxTxid, 0, 1)
      OBVIOUS
    <3>2. h \in Headers
      BY <2>1, <3>1, HeaderType
    <3>3. [h EXCEPT !.size = 0] \in Headers
      BY <3>2 DEF Headers
    <3>. QED
      BY <3>1, <3>3 DEF TickleFrame, Frame, Frames, TypeOK
  <2>3. toDev' \in Seq(Frames)
    BY <1>2, <2>2, PutType DEF Tickle, TypeOK
  <2>4. toHost' \in Seq(Frames)
    <3>1. PICK k \in 0..(IF FlushDiscards THEN Len(toHost) ELSE 0) :
            toHost' = SubSeq(toHost, k + 1, Len(toHost))
      BY <1>2 DEF Tickle
    <3>2. toHost \in Seq(Frames) /\ k \in Nat /\ k <= Len(toHost)
      BY DEF TypeOK
    <3>. QED
      BY <3>1, <3>2
  <2>5. /\ txid' = TxTxid /\ nextTxid' = TxTxid /\ alarms' = alarms + 1
        /\ UNCHANGED <<pc, conn, lastAck, retries, sent, reqLen, stuck, rxbuf,
                       outcome, call, ids, devVars, used>>
    BY <1>2 DEF Tickle
  <2>. QED
    BY <2>1, <2>3, <2>4, <2>5 DEF TypeOK, devVars
<1>. QED
  BY <1>1, <1>2 DEF WNext

LosslessCalls == alarms \in 0..MaxAlarms /\ LosslessInv(alarms)

LEMMA WNextLossless ==
  ASSUME ~InHandler, Undisturbed(MaxAlarms)
  PROVE  TypeOK /\ LosslessCalls /\ [WNext]_<<vars, alarms>> => LosslessCalls'
<1>. SUFFICES ASSUME TypeOK, alarms \in 0..MaxAlarms, LosslessInv(alarms), [WNext]_<<vars, alarms>>
              PROVE  LosslessInv(alarms)' /\ alarms' \in 0..MaxAlarms
  BY DEF LosslessCalls
<1>1. PICK m \in Nat : m = alarms /\ m <= MaxAlarms /\ Undisturbed(m)
  BY WatchdogAssumption, PadpAssumption DEF Undisturbed
<1>2. CASE [Next]_vars /\ alarms' = alarms
  <2>1. LosslessInv(m) /\ LosslessInv(m)'
    BY <1>1, <1>2, NextLossless
  <2>. QED
    BY <1>1, <1>2, <2>1 DEF LosslessInv, InExchange, Idle, Sending, Taken, Replying
<1>3. CASE Tickle
  <2>1. /\ pc = "idle" /\ alarms' = m + 1 /\ m + 1 <= MaxAlarms /\ used' = used
    BY <1>1, <1>3, WatchdogAssumption DEF Tickle
  <2>2. ASSUME used'.losses = 0 PROVE InExchange(m + 1)'
    <3>1. InExchange(m)
      BY <1>1, <2>1, <2>2 DEF LosslessInv
    <3>. QED
      <4>1. m + 2 <= ChanCap /\ m + 1 < TxidWrap
        BY <1>1, PadpAssumption DEF Undisturbed
      <4>. QED
        BY <1>3, <2>1, <3>1, <4>1, TickleExchange
  <2>3. m + 1 \in 0..MaxAlarms
    BY <2>1, WatchdogAssumption
  <2>. QED
    BY <2>1, <2>2, <2>3 DEF LosslessInv, InExchange, Idle, Sending, Taken, Replying
<1>. QED
  BY <1>2, <1>3 DEF WNext

(* Where no frame is lost padp_tx sends no fragment of a request a second  *)
(* time: each read finds the ack it waits for (padp_tx, padp.c).           *)
THEOREM NoRetryWithoutLoss ==
  ASSUME Undisturbed(0)
  PROVE  Spec => []NoNeedlessRetry
<1>1. Init => LosslessInv(0)
  BY InitLossless
<1>2. TypeOK /\ LosslessInv(0) /\ [Next]_vars => LosslessInv(0)'
  BY NextLossless
<1>3. LosslessInv(0) => NoNeedlessRetry
  BY DEF LosslessInv, InExchange, NoNeedlessRetry, Idle, Sending, Taken, Asking, Replying, Receiving
<1>. QED
  BY <1>1, <1>2, <1>3, TypeCorrect, PTL DEF Spec

(* Where no frame is lost a tickle between two calls disturbs no call:     *)
(* every call succeeds at the first try, however many tickles still are on *)
(* the line.  Each tickle takes an id (padp_tx with padTickle), so there   *)
(* must be fewer of them than bring the ids round (pi_tickle, socket.c).   *)
THEOREM TicklesDisturbNoCall ==
  ASSUME ~InHandler, Undisturbed(MaxAlarms)
  PROVE  WSpec => [](TicklesHarmless /\ NoNeedlessRetry)
<1>1. WInit => TypeOK /\ LosslessCalls
  BY InitType, InitLossless, WatchdogAssumption
  DEF WInit, LosslessCalls, LosslessInv, InExchange, Idle, Sending, Taken, Replying
<1>2. TypeOK /\ LosslessCalls /\ [WNext]_<<vars, alarms>> => TypeOK' /\ LosslessCalls'
  BY WNextType, WNextLossless, WatchdogAssumption DEF LosslessCalls
<1>3. LosslessCalls => TicklesHarmless /\ NoNeedlessRetry
  BY DEF LosslessCalls, LosslessInv, InExchange, TicklesHarmless, NoNeedlessRetry, Idle, Sending,
         Taken, Asking, Replying, Receiving
<1>. QED
  BY <1>1, <1>2, <1>3, PTL DEF WSpec

-----------------------------------------------------------------------------
(* Lost frames are made up for.  The proof counts the frames under way, by *)
(* their kind and by the call they are of: the current one or an older.    *)

Bit(b) == IF b THEN 1 ELSE 0
Is(p, kind, k) == p.kind = kind /\ p.call = k
N(q, kind, k) == Cardinality({i \in 1..Len(q) : Is(q[i], kind, k)})

HostData == N(toHost, "data", call)   HostDataOld == N(toHost, "data", call - 1)
HostAcks == N(toHost, "ack", call)    HostAcksOld == N(toHost, "ack", call - 1)
DevData  == N(toDev, "data", call)    DevDataOld  == N(toDev, "data", call - 1)
DevAcks  == N(toDev, "ack", call)     DevAcksOld  == N(toDev, "ack", call - 1)

(* The response of a call, or the ack of it, is under way at most once. *)
Tokens(k) == N(toHost, "data", k) + N(toDev, "ack", k)
OneToken == \A k \in Int : Tokens(k) <= 1
DevFragment == Header(devTxid, devOff, devLen)
Unanswered ==
  devMode = "reply" /\ IF devCall = call THEN HostData + DevAcks = 0 ELSE HostDataOld + DevAcksOld = 0

FrameShape ==
  /\ \A p \in In(toDev) : /\ p.kind \in {"data", "ack"}
                          /\ p.kind = "data" => p.hdr.first /\ p.hdr.last
                          /\ Is(p, "ack", devCall) => devMode = "reply" /\ p.hdr = DevFragment
  /\ \A p \in In(toHost) : /\ p.kind \in {"data", "ack"} /\ ~p.mem
                           /\ Is(p, "data", devCall) => devMode = "reply" /\ p.hdr = DevFragment
HostShape ==
  /\ stuck = FALSE
  /\ pc = "txWait" => sent = 0 /\ reqLen = 1
  /\ Receiving => devCall = call
  /\ pc = "rxNext" => rxbuf # <<>>
  /\ Receiving /\ devMode = "reply" => Len(rxbuf) <= devOff + 1
  /\ \A k \in 2..call : ids[k] # ids[k - 1]
DevShape ==
  /\ devMode # "recv"
  /\ devCall >= 1 => devGot = 1
  /\ devCall # call => devMode \in {"wait", "reply"}
  /\ devMode = "reply" => devOff < devLen
  /\ devMode = "reply" /\ (devCall # call \/ outcome = "ok") => devOff + 1 = devLen

(* What is under way stays within bounds: a frame is answered by at most   *)
(* one, and what is left of a call but its last ack is gone before the     *)
(* call after the next.                                                    *)
ToBeDone == devCall # call \/ devMode = "exec"
Load == HostData + HostAcks + DevData + DevAcks + HostDataOld + HostAcksOld + DevDataOld
        + Bit(ToBeDone)
Room ==
  /\ pc = "txWait" => Load <= 3
  /\ Receiving => Load <= 2
  /\ pc = "idle" => /\ HostData + HostAcks + DevData + DevAcks <= 2
                    /\ HostData + HostAcks + DevData <= 1

(* While padp_tx waits: every retry is paid for by a loss, and so is what  *)
(* may still cause one.                                                    *)
Asked ==
  \/ DevData > 0
  \/ devCall = call /\ (devMode = "exec" \/ HostAcks + HostData > 0)
Requesting ==
  pc = "txWait" =>
    (TxRetries - retries) + HostDataOld + Bit(~Asked) + Bit(devCall # call /\ Unanswered)
      <= used.losses
Resting == pc = "idle" /\ devMode = "reply" /\ DevAcks = 0 => used.losses >= 1

(* And every transmission of a response fragment, with one exception.      *)
FirstUnacked == pc = "rxNext" /\ Len(rxbuf) = 1 /\ devOff = 0 /\ devLen > 1
AckComes ==
  \E i \in 1..Len(toHost) : /\ Is(toHost[i], "ack", call)
                            /\ \A j \in 1..i - 1 : ~Is(toHost[j], "data", call)
Answering ==
  pc # "idle" /\ devCall = call =>
    /\ devMode = "wait" => FirstUnacked
    /\ devMode = "exec" /\ pc = "txWait" /\ ~AckComes => used.losses >= 1
    /\ devMode = "reply" /\ pc = "txWait" =>
         (DevTries - devTries) + Bit(Unanswered) + Bit(~AckComes) <= used.losses
    /\ devMode = "reply" /\ Receiving /\ ~FirstUnacked =>
         (DevTries - devTries) + Bit(Unanswered) <= used.losses

Calm == HostShape /\ DevShape /\ FrameShape /\ OneToken /\ Room /\ Requesting /\ Resting /\ Answering
GaveUp == outcome = "timeout" => /\ toDev = <<>> /\ devMode = "wait"
                                 /\ Len(rxbuf) = 1 /\ devOff = 0 /\ devLen > 1
Recover ==
  /\ pc # "idle" => outcome = "none"
  /\ outcome # "broken" /\ GaveUp
  /\ CallsSucceed => Calm

Recoverable ==
  /\ ~GoesOn /\ DevStrictAcks /\ Patient /\ MaxTickles = 0 /\ MaxMemErrs = 0
  /\ ReqFrags = {1} /\ MaxLosses < TxRetries /\ MaxLosses <= DevTries /\ ChanCap >= 4

Sound == TypeOK /\ OrderInv /\ WholeInv /\ Calm /\ CallsSucceed

(* The positions of the frames of one kind and call. *)
Places(q, kind, k) == {i \in 1..Len(q) : Is(q[i], kind, k)}

LEMMA PlacesFinite ==
  ASSUME NEW q \in Seq(Frames), NEW kind, NEW k
  PROVE  IsFiniteSet(Places(q, kind, k)) /\ N(q, kind, k) = Cardinality(Places(q, kind, k))
         /\ N(q, kind, k) \in Nat
<1>1. IsFiniteSet(1..Len(q))
  BY FS_Interval
<1>2. IsFiniteSet(Places(q, kind, k))
  BY <1>1, FS_Subset DEF Places
<1>. QED
  BY <1>2, FS_CardinalityType DEF N, Places

LEMMA CountEmpty == \A kind, k : N(<<>>, kind, k) = 0
<1>. SUFFICES ASSUME NEW kind, NEW k PROVE N(<<>>, kind, k) = 0
  OBVIOUS
<1>1. {i \in 1..Len(<<>>) : Is(<<>>[i], kind, k)} = {}
  OBVIOUS
<1>. QED
  BY <1>1, FS_EmptySet DEF N

LEMMA CountSome ==
  ASSUME NEW q \in Seq(Frames), NEW p \in In(q), NEW kind, NEW k, Is(p, kind, k)
  PROVE  N(q, kind, k) >= 1
<1>1. PICK i \in 1..Len(q) : p = q[i]
  BY DEF In
<1>2. i \in Places(q, kind, k)
  BY <1>1 DEF Places
<1>3. Cardinality(Places(q, kind, k)) # 0
  BY <1>2, PlacesFinite, FS_EmptySet
<1>. QED
  BY <1>3, PlacesFinite

LEMMA CountNone ==
  ASSUME NEW q \in Seq(Frames), NEW kind, NEW k, \A p \in In(q) : ~Is(p, kind, k)
  PROVE  N(q, kind, k) = 0
<1>1. Places(q, kind, k) = {}
  BY DEF Places, In
<1>. QED
  BY <1>1, PlacesFinite, FS_EmptySet

LEMMA CountPut ==
  ASSUME NEW q \in Seq(Frames), NEW p \in Frames, Len(q) < ChanCap, NEW kind, NEW k
  PROVE  N(Put(q, p), kind, k) = N(q, kind, k) + Bit(Is(p, kind, k))
<1>. DEFINE n == Len(q) + 1
<1>1. /\ Put(q, p) \in Seq(Frames) /\ Len(Put(q, p)) = n /\ Put(q, p)[n] = p
      /\ \A i \in 1..Len(q) : Put(q, p)[i] = q[i]
  BY DEF Put
<1>2. Places(Put(q, p), kind, k) =
        IF Is(p, kind, k) THEN Places(q, kind, k) \cup {n} ELSE Places(q, kind, k)
  BY <1>1 DEF Places
<1>3. n \notin Places(q, kind, k)
  BY DEF Places
<1>4. Cardinality(Places(q, kind, k) \cup {n}) = Cardinality(Places(q, kind, k)) + 1
  BY <1>3, PlacesFinite, FS_AddElement
<1>5. N(Put(q, p), kind, k) = Cardinality(Places(Put(q, p), kind, k))
  BY <1>1, PlacesFinite
<1>6. N(q, kind, k) = Cardinality(Places(q, kind, k)) /\ N(q, kind, k) \in Nat
  BY PlacesFinite
<1>7. CASE Is(p, kind, k)
  BY <1>2, <1>4, <1>5, <1>6, <1>7 DEF Bit
<1>8. CASE ~Is(p, kind, k)
  BY <1>2, <1>5, <1>6, <1>8 DEF Bit
<1>. QED
  BY <1>7, <1>8

(* A suffix of a line holds at most what the line held; without its first  *)
(* frame the line holds one frame less of the kind and call of that frame. *)
LEMMA CountSuffix ==
  ASSUME NEW q \in Seq(Frames), NEW d \in 0..Len(q), NEW kind, NEW k
  PROVE  N(SubSeq(q, d + 1, Len(q)), kind, k) <= N(q, kind, k)
<1>. DEFINE r == SubSeq(q, d + 1, Len(q))
            A == Places(r, kind, k)
            B == Places(q, kind, k)
            f == [i \in A |-> d + i]
<1>1. r \in Seq(Frames) /\ \A i \in A : i \in Nat /\ d + i \in B
  BY SuffixIndex DEF Places
<1>2. f \in [A -> B] /\ \A x, y \in A : f[x] = f[y] => x = y
  BY <1>1
<1>3. f \in Injection(A, B)
  BY <1>2 DEF Injection, IsInjective
<1>4. Cardinality(A) <= Cardinality(B)
  BY <1>3, PlacesFinite, FS_Injection
<1>. QED
  BY <1>1, <1>4, PlacesFinite

LEMMA CountTail ==
  ASSUME NEW q \in Seq(Frames), q # <<>>, NEW kind, NEW k
  PROVE  N(q, kind, k) = N(Tail(q), kind, k) + Bit(Is(Head(q), kind, k))
<1>. DEFINE A == Places(Tail(q), kind, k)
            B == {i + 1 : i \in A}
            f == [i \in A |-> i + 1]
<1>1. Tail(q) \in Seq(Frames) /\ Len(q) \in Nat /\ Len(q) >= 1 /\ Len(Tail(q)) = Len(q) - 1
      /\ Head(q) = q[1] /\ \A i \in 1..Len(Tail(q)) : Tail(q)[i] = q[i + 1]
  BY TailIndex
<1>2. IsFiniteSet(A) /\ \A i \in A : i \in Nat /\ i >= 1
  <2>1. IsFiniteSet(A)
    BY <1>1, PlacesFinite
  <2>2. \A i \in A : i \in 1..Len(Tail(q))
    BY DEF Places
  <2>. QED
    BY <2>1, <2>2
<1>3. f \in [A -> B] /\ (\A x, y \in A : f[x] = f[y] => x = y) /\ \A y \in B : \E x \in A : f[x] = y
  BY <1>2
<1>4. f \in Bijection(A, B)
  BY <1>3 DEF Bijection, Injection, Surjection, IsInjective
<1>5. IsFiniteSet(B) /\ Cardinality(B) = Cardinality(A)
  BY <1>2, <1>4, FS_Bijection DEF ExistsBijection
<1>6. 1 \notin B
  BY <1>2
<1>7. Places(q, kind, k) = IF Is(Head(q), kind, k) THEN B \cup {1} ELSE B
  <2>1. ASSUME NEW i \in Places(q, kind, k), i # 1 PROVE i \in B
    <3>1. i - 1 \in 1..Len(Tail(q)) /\ Tail(q)[i - 1] = q[i] /\ i = (i - 1) + 1
      BY <1>1, <2>1 DEF Places
    <3>2. i - 1 \in A
      BY <2>1, <3>1 DEF Places
    <3>. QED
      BY <3>1, <3>2
  <2>2. ASSUME NEW i \in B PROVE i \in Places(q, kind, k)
    BY <1>1, <2>2 DEF Places
  <2>3. 1 \in Places(q, kind, k) <=> Is(Head(q), kind, k)
    BY <1>1 DEF Places
  <2>. QED
    BY <2>1, <2>2, <2>3
<1>8. Cardinality(B \cup {1}) = Cardinality(B) + 1
  BY <1>5, <1>6, FS_AddElement
<1>9. N(q, kind, k) = Cardinality(Places(q, kind, k))
  BY PlacesFinite
<1>a. N(Tail(q), kind, k) = Cardinality(A) /\ Cardinality(A) \in Nat
  BY <1>1, PlacesFinite
<1>b. CASE Is(Head(q), kind, k)
  BY <1>5, <1>7, <1>8, <1>9, <1>a, <1>b DEF Bit
<1>c. CASE ~Is(Head(q), kind, k)
  BY <1>5, <1>7, <1>9, <1>a, <1>c DEF Bit
<1>. QED
  BY <1>b, <1>c

LEMMA LineLength ==
  ASSUME NEW q \in Seq(Frames), NEW a, NEW b, NEW d, NEW e,
         \A p \in In(q) : \/ p.kind = "data" /\ p.call \in {a, b}
                          \/ p.kind = "ack" /\ p.call \in {d, e}
  PROVE  Len(q) <= N(q, "data", a) + N(q, "data", b) + N(q, "ack", d) + N(q, "ack", e)
<1>. DEFINE A == Places(q, "data", a)
            B == Places(q, "data", b)
            D == Places(q, "ack", d)
            E == Places(q, "ack", e)
<1>1. /\ IsFiniteSet(A) /\ IsFiniteSet(B) /\ IsFiniteSet(D) /\ IsFiniteSet(E)
      /\ Cardinality(A) = N(q, "data", a) /\ Cardinality(B) = N(q, "data", b)
      /\ Cardinality(D) = N(q, "ack", d) /\ Cardinality(E) = N(q, "ack", e)
  BY PlacesFinite
<1>2. 1..Len(q) \subseteq (A \cup B) \cup (D \cup E)
  BY DEF Places, Is, In
<1>. HIDE DEF A, B, D, E
<1>3. ASSUME NEW S, NEW T, IsFiniteSet(S), IsFiniteSet(T)
      PROVE  IsFiniteSet(S \cup T) /\ Cardinality(S \cup T) <= Cardinality(S) + Cardinality(T)
  <2>1. /\ Cardinality(S) \in Nat /\ Cardinality(T) \in Nat
        /\ IsFiniteSet(S \cap T) /\ IsFiniteSet(S \cup T)
    BY <1>3, FS_CardinalityType, FS_Intersection, FS_Union
  <2>2. Cardinality(S \cap T) \in Nat
    BY <2>1, FS_CardinalityType
  <2>3. Cardinality(S \cup T) = Cardinality(S) + Cardinality(T) - Cardinality(S \cap T)
    BY <1>3, FS_Union
  <2>. QED
    BY <2>1, <2>2, <2>3
<1>4. /\ IsFiniteSet(A \cup B) /\ Cardinality(A \cup B) <= Cardinality(A) + Cardinality(B)
      /\ IsFiniteSet(D \cup E) /\ Cardinality(D \cup E) <= Cardinality(D) + Cardinality(E)
  BY <1>1, <1>3
<1>5. /\ IsFiniteSet((A \cup B) \cup (D \cup E))
      /\ Cardinality((A \cup B) \cup (D \cup E)) <= Cardinality(A \cup B) + Cardinality(D \cup E)
  BY <1>3, <1>4
<1>6. Cardinality(1..Len(q)) <= Cardinality((A \cup B) \cup (D \cup E))
  BY <1>2, <1>5, FS_Subset
<1>7. Cardinality(1..Len(q)) = Len(q) /\ Len(q) \in Nat
  <2>1. Len(q) \in Nat /\ Len(q) \in Int /\ 1 \in Int
    OBVIOUS
  <2>2. Cardinality(1..Len(q)) = IF 1 > Len(q) THEN 0 ELSE Len(q) - 1 + 1
    BY <2>1, FS_Interval
  <2>. QED
    BY <2>1, <2>2
<1>8. /\ Cardinality(A) \in Nat /\ Cardinality(B) \in Nat /\ Cardinality(D) \in Nat
      /\ Cardinality(E) \in Nat /\ Cardinality(A \cup B) \in Nat /\ Cardinality(D \cup E) \in Nat
      /\ Cardinality((A \cup B) \cup (D \cup E)) \in Nat
  BY <1>1, <1>4, <1>5, FS_CardinalityType
<1>. QED
  BY <1>1, <1>4, <1>5, <1>6, <1>7, <1>8

(* Which calls the frames under way can be of. *)
LEMMA CallsUnderWay ==
  ASSUME TypeOK, OrderInv, WholeInv, FrameShape
  PROVE  /\ call \in Nat /\ devCall \in Nat /\ devCall \in {call - 1, call}
         /\ \A p \in In(toHost) : /\ p.kind \in {"data", "ack"} /\ p.call \in {call - 1, call}
                                  /\ p.call >= 1 /\ p.call <= devCall /\ p.call \in Nat
                                  /\ p.hdr.txid = ids[p.call] /\ p \in Frames
         /\ \A p \in In(toDev) : /\ p.kind = "data" => p.call \in {devCall, call}
                                 /\ p.kind = "ack" => p.call \in {devCall - 1, devCall}
                                 /\ p.kind \in {"data", "ack"} /\ p.call >= 1 /\ p.call \in Nat
                                 /\ p.hdr.txid = ids[p.call] /\ p \in Frames
<1>1. call \in Nat /\ devCall \in Nat /\ devCall \in {call - 1, call}
  BY DeviceKnows
<1>2. ASSUME NEW p \in In(toHost)
      PROVE  /\ p.kind \in {"data", "ack"} /\ p.call \in {call - 1, call}
             /\ p.call >= 1 /\ p.call <= devCall /\ p.call \in Nat
             /\ p.hdr.txid = ids[p.call] /\ p \in Frames
  <2>1. p \in Frames /\ HostFrameOk(p) /\ p.kind \in {"data", "ack"} /\ ~p.mem
    BY DEF In, OrderInv, ToHostOk, TypeOK, FrameShape
  <2>2. p.call \in Nat /\ p.kind # "tickle"
    BY <2>1, CallsAreNat DEF Frames
  <2>. QED
    BY <1>1, <2>1, <2>2 DEF HostFrameOk
<1>3. ASSUME NEW p \in In(toDev)
      PROVE  /\ p.kind = "data" => p.call \in {devCall, call}
             /\ p.kind = "ack" => p.call \in {devCall - 1, devCall}
             /\ p.kind \in {"data", "ack"} /\ p.call >= 1 /\ p.call \in Nat
             /\ p.hdr.txid = ids[p.call] /\ p \in Frames
  <2>1. p \in Frames /\ DevFrameOk(p) /\ AckOk(p) /\ p.kind \in {"data", "ack"}
    BY DEF In, OrderInv, ToDevOk, TypeOK, FrameShape, WholeInv, AcksOk
  <2>2. p.call \in Nat
    BY <2>1, CallsAreNat DEF Frames
  <2>. QED
    BY <1>1, <2>1, <2>2 DEF DevFrameOk, AckOk
<1>. QED
  BY <1>1, <1>2, <1>3

LEMMA CountTypes ==
  ASSUME TypeOK
  PROVE  /\ HostData \in Nat /\ HostDataOld \in Nat /\ HostAcks \in Nat /\ HostAcksOld \in Nat
         /\ DevData \in Nat /\ DevDataOld \in Nat /\ DevAcks \in Nat /\ DevAcksOld \in Nat
<1>1. toHost \in Seq(Frames) /\ toDev \in Seq(Frames)
  BY DEF TypeOK
<1>. QED
  BY <1>1, PlacesFinite DEF HostData, HostDataOld, HostAcks, HostAcksOld,
                            DevData, DevDataOld, DevAcks, DevAcksOld

LEMMA BitType == \A b : Bit(b) \in {0, 1} /\ (Bit(b) = 1 <=> b)
BY DEF Bit

LEMMA TokenCounts ==
  ASSUME TypeOK, OneToken, call \in Nat
  PROVE  HostData + DevAcks <= 1 /\ HostDataOld + DevAcksOld <= 1
BY DEF OneToken, Tokens, HostData, DevAcks, HostDataOld, DevAcksOld

(* In the middle of calls, a frame more has room. *)
LEMMA RoomOnLine ==
  ASSUME Sound
  PROVE  /\ Len(toDev) \in Nat /\ Len(toHost) \in Nat
         /\ Len(toDev) + Len(toHost) <= 4
         /\ pc # "txWait" \/ devMode = "exec" \/ HostDataOld >= 1
            => Len(toDev) + Len(toHost) <= 3
<1>. DEFINE da2 == N(toDev, "ack", call - 2)
<1>1. /\ call \in Nat /\ devCall \in Nat /\ devCall \in {call - 1, call}
      /\ toDev \in Seq(Frames) /\ toHost \in Seq(Frames)
      /\ pc \in {"idle", "txWait", "rxFirst", "rxNext"}
      /\ Len(toDev) \in Nat /\ Len(toHost) \in Nat
  BY CallsUnderWay DEF TypeOK, Calm, Sound
<1>2. /\ HostData \in Nat /\ HostDataOld \in Nat /\ HostAcks \in Nat /\ HostAcksOld \in Nat
      /\ DevData \in Nat /\ DevDataOld \in Nat /\ DevAcks \in Nat /\ DevAcksOld \in Nat
      /\ da2 \in Nat
  BY <1>1, CountTypes, PlacesFinite DEF Sound
<1>3. Len(toHost) <= HostDataOld + HostData + HostAcksOld + HostAcks
  BY <1>1, CallsUnderWay, LineLength
     DEF Calm, Sound, HostDataOld, HostData, HostAcksOld, HostAcks
<1>4. /\ devCall = call => Len(toDev) <= DevDataOld + DevData + DevAcksOld + DevAcks
      /\ devCall = call - 1 => Len(toDev) <= DevDataOld + DevData + da2 + DevAcksOld
  <2>1. CASE devCall = call
    <3>1. \A p \in In(toDev) : \/ p.kind = "data" /\ p.call \in {call - 1, call}
                               \/ p.kind = "ack" /\ p.call \in {call - 1, call}
      BY <1>1, <2>1, CallsUnderWay DEF Calm, Sound
    <3>. QED
      BY <1>1, <2>1, <3>1, LineLength DEF DevDataOld, DevData, DevAcksOld, DevAcks
  <2>2. CASE devCall = call - 1
    <3>1. \A p \in In(toDev) : \/ p.kind = "data" /\ p.call \in {call - 1, call}
                               \/ p.kind = "ack" /\ p.call \in {call - 2, call - 1}
      BY <1>1, <2>2, CallsUnderWay DEF Calm, Sound
    <3>. QED
      BY <1>1, <2>2, <3>1, LineLength DEF DevDataOld, DevData, DevAcksOld, DevAcks
  <2>. QED
    BY <1>1, <2>1, <2>2
<1>5. HostDataOld + DevAcksOld <= 1 /\ HostData + DevAcks <= 1 /\ da2 <= 1
  <2>1. call - 2 \in Int
    BY <1>1
  <2>2. N(toHost, "data", call - 2) + da2 <= 1
    BY <2>1 DEF Sound, Calm, OneToken, Tokens
  <2>3. N(toHost, "data", call - 2) \in Nat
    BY <1>1, PlacesFinite
  <2>. HIDE DEF da2
  <2>4. da2 <= 1
    BY <1>2, <2>2, <2>3
  <2>. QED
    BY <1>1, <2>4, TokenCounts DEF Sound, Calm
<1>. HIDE DEF da2
<1>6. CASE pc = "txWait"
  <2>1. PICK b \in {0, 1} : b = Bit(ToBeDone)
    BY DEF Bit
  <2>2. HostData + HostAcks + DevData + DevAcks + HostDataOld + HostAcksOld + DevDataOld + b <= 3
    BY <1>6, <2>1 DEF Sound, Calm, Room, Load
  <2>3. CASE devCall = call
    <3>1. devMode = "exec" => b = 1
      BY <2>1 DEF Bit, ToBeDone
    <3>2. Len(toDev) + Len(toHost) <= 4
      BY <1>1, <1>2, <1>3, <1>4, <1>5, <2>1, <2>2, <2>3
    <3>3. devMode = "exec" \/ HostDataOld >= 1 => Len(toDev) + Len(toHost) <= 3
      BY <1>1, <1>2, <1>3, <1>4, <1>5, <2>1, <2>2, <2>3, <3>1
    <3>. QED
      BY <1>1, <1>6, <3>2, <3>3
  <2>4. CASE devCall = call - 1
    <3>1. b = 1
      BY <1>1, <2>1, <2>4 DEF Bit, ToBeDone
    <3>2. Len(toDev) + Len(toHost) <= 4
      BY <1>1, <1>2, <1>3, <1>4, <1>5, <2>2, <2>4, <3>1
    <3>3. HostDataOld >= 1 => Len(toDev) + Len(toHost) <= 3
      BY <1>1, <1>2, <1>3, <1>4, <1>5, <2>2, <2>4, <3>1
    <3>4. devMode # "exec"
      BY <1>1, <2>4 DEF Sound, Calm, DevShape
    <3>. QED
      BY <1>1, <1>6, <3>2, <3>3, <3>4
  <2>. QED
    BY <1>1, <2>3, <2>4
<1>7. CASE Receiving
  <2>1. PICK b \in {0, 1} : b = Bit(ToBeDone)
    BY DEF Bit
  <2>2. HostData + HostAcks + DevData + DevAcks + HostDataOld + HostAcksOld + DevDataOld + b <= 2
    BY <1>7, <2>1 DEF Sound, Calm, Room, Load
  <2>3. devCall = call
    BY <1>7 DEF Sound, Calm, HostShape
  <2>4. Len(toDev) + Len(toHost) <= 3
    BY <1>1, <1>2, <1>3, <1>4, <1>5, <2>1, <2>2, <2>3
  <2>. QED
    BY <1>1, <2>4
<1>8. CASE pc = "idle"
  <2>1. HostData + HostAcks + DevData + DevAcks <= 2
    BY <1>8 DEF Sound, Calm, Room
  <2>2. /\ devCall = call
        /\ \A p \in Frames : HostFrameOk(p) /\ p.kind # "tickle" => p.call = call
    BY <1>8, Settled DEF CallsSucceed, Sound
  <2>3. \A p \in In(toHost) : p.call # call - 1
    <3>1. ASSUME NEW p \in In(toHost) PROVE p.call = call
      BY <2>2, CallsUnderWay DEF Sound, Calm, OrderInv, ToHostOk, In, FrameShape
    <3>. QED
      BY <1>1, <3>1
  <2>4. \A p \in In(toDev) : p.kind = "data" => p.call # call - 1
    BY <1>1, <2>2, CallsUnderWay DEF Sound, Calm
  <2>5. HostDataOld = 0 /\ HostAcksOld = 0 /\ DevDataOld = 0
    BY <1>1, <2>3, <2>4, CountNone DEF Is, HostDataOld, HostAcksOld, DevDataOld
  <2>6. Len(toDev) + Len(toHost) <= 3
    BY <1>1, <1>2, <1>3, <1>4, <1>5, <2>1, <2>2, <2>5
  <2>. QED
    BY <1>1, <2>6
<1>. QED
  BY <1>1, <1>6, <1>7, <1>8 DEF Receiving


LEMMA FramesKept ==
  ASSUME FrameShape, UNCHANGED devVars, In(toHost') \subseteq In(toHost),
         \A p \in In(toDev') :
           \/ p \in In(toDev)
           \/ p.kind = "data" /\ p.hdr.first /\ p.hdr.last
           \/ p.kind = "ack" /\ (p.call = devCall => devMode = "reply" /\ p.hdr = DevFragment)
  PROVE  FrameShape'
<1>1. DevFragment' = DevFragment
  BY DEF DevFragment, devVars
<1>2. ASSUME NEW p \in In(toDev')
      PROVE  /\ p.kind \in {"data", "ack"}
             /\ p.kind = "data" => p.hdr.first /\ p.hdr.last
             /\ Is(p, "ack", devCall') => devMode' = "reply" /\ p.hdr = DevFragment'
  BY <1>1 DEF FrameShape, Is, devVars
<1>3. ASSUME NEW p \in In(toHost')
      PROVE  /\ p.kind \in {"data", "ack"} /\ ~p.mem
             /\ Is(p, "data", devCall') => devMode' = "reply" /\ p.hdr = DevFragment'
  BY <1>1 DEF FrameShape, Is, devVars
<1>. QED
  BY <1>2, <1>3 DEF FrameShape, In

(* Reading a frame, by the kind and call it is of. *)
LEMMA HostTakes ==
  ASSUME TypeOK, OrderInv, WholeInv, FrameShape, NEW p \in First(toHost), toHost' = Tail(toHost)
  PROVE  /\ p \in In(toHost) /\ In(toHost') \subseteq In(toHost) /\ toHost' \in Seq(Frames)
         /\ \A kind, k : N(toHost, kind, k) = N(toHost', kind, k) + Bit(Is(p, kind, k))
         /\ \A kind, k : N(toHost', kind, k) \in Nat
<1>1. /\ toHost \in Seq(Frames) /\ toHost # <<>> /\ p = Head(toHost) /\ Tail(toHost) \in Seq(Frames)
  BY FirstType DEF TypeOK
<1>2. p \in In(toHost) /\ In(toHost') \subseteq In(toHost)
  BY <1>1, InFirst, InTail
<1>. QED
  BY <1>1, <1>2, CountTail, PlacesFinite

LEMMA DevTakes ==
  ASSUME TypeOK, OrderInv, WholeInv, FrameShape, NEW p \in First(toDev), toDev' = Tail(toDev)
  PROVE  /\ p \in In(toDev) /\ In(toDev') \subseteq In(toDev) /\ toDev' \in Seq(Frames)
         /\ \A kind, k : N(toDev, kind, k) = N(toDev', kind, k) + Bit(Is(p, kind, k))
         /\ \A kind, k : N(toDev', kind, k) \in Nat
<1>1. /\ toDev \in Seq(Frames) /\ toDev # <<>> /\ p = Head(toDev) /\ Tail(toDev) \in Seq(Frames)
  BY FirstType DEF TypeOK
<1>2. p \in In(toDev) /\ In(toDev') \subseteq In(toDev)
  BY <1>1, InFirst, InTail
<1>. QED
  BY <1>1, <1>2, CountTail, PlacesFinite

LEMMA AheadTail ==
  ASSUME NEW q \in Seq(Frames), q # <<>>, NEW c, ~Is(Head(q), "ack", c),
         \E i \in 1..Len(q) : Is(q[i], "ack", c) /\ \A j \in 1..i - 1 : ~Is(q[j], "data", c)
  PROVE  /\ ~Is(Head(q), "data", c)
         /\ \E i \in 1..Len(Tail(q)) : /\ Is(Tail(q)[i], "ack", c)
                                       /\ \A j \in 1..i - 1 : ~Is(Tail(q)[j], "data", c)
<1>1. PICK i \in 1..Len(q) : Is(q[i], "ack", c) /\ \A j \in 1..i - 1 : ~Is(q[j], "data", c)
  OBVIOUS
<1>2. /\ Head(q) = q[1] /\ Len(Tail(q)) = Len(q) - 1 /\ Len(q) \in Nat
      /\ \A j \in 1..Len(Tail(q)) : Tail(q)[j] = q[j + 1]
  BY TailIndex
<1>3. i # 1
  BY <1>1, <1>2
<1>4. 1 \in 1..i - 1 /\ i - 1 \in 1..Len(Tail(q)) /\ Tail(q)[i - 1] = q[i]
  BY <1>2, <1>3
<1>5. \A j \in 1..(i - 1) - 1 : j + 1 \in 1..i - 1 /\ Tail(q)[j] = q[j + 1]
  BY <1>2, <1>4
<1>. QED
  BY <1>1, <1>2, <1>4, <1>5

LEMMA AheadPut ==
  ASSUME NEW q \in Seq(Frames), NEW p \in Frames, NEW c,
         \E i \in 1..Len(q) : Is(q[i], "ack", c) /\ \A j \in 1..i - 1 : ~Is(q[j], "data", c)
  PROVE  \E i \in 1..Len(Put(q, p)) : /\ Is(Put(q, p)[i], "ack", c)
                                      /\ \A j \in 1..i - 1 : ~Is(Put(q, p)[j], "data", c)
<1>1. PICK i \in 1..Len(q) : Is(q[i], "ack", c) /\ \A j \in 1..i - 1 : ~Is(q[j], "data", c)
  OBVIOUS
<1>2. Len(Put(q, p)) >= Len(q) /\ \A j \in 1..Len(q) : Put(q, p)[j] = q[j]
  BY DEF Put
<1>. QED
  BY <1>1, <1>2

LEMMA HostTakesOne ==
  ASSUME TypeOK, OrderInv, WholeInv, FrameShape, NEW p \in First(toHost), toHost' = Tail(toHost)
  PROVE  /\ p.kind \in {"data", "ack"} /\ p.call \in {call - 1, call} /\ p \in Frames
         /\ N(toHost', p.kind, p.call) \in Nat /\ N(toHost, p.kind, p.call) \in Nat
         /\ N(toHost, p.kind, p.call) = N(toHost', p.kind, p.call) + 1
         /\ \A kind, k : ~Is(p, kind, k) => N(toHost', kind, k) = N(toHost, kind, k)
<1>1. /\ p \in In(toHost) /\ toHost \in Seq(Frames) /\ toHost' \in Seq(Frames)
      /\ \A kind, k : N(toHost, kind, k) = N(toHost', kind, k) + Bit(Is(p, kind, k))
  BY HostTakes DEF TypeOK
<1>2. p.kind \in {"data", "ack"} /\ p.call \in {call - 1, call} /\ p \in Frames
  BY <1>1, CallsUnderWay
<1>3. N(toHost', p.kind, p.call) \in Nat /\ N(toHost, p.kind, p.call) \in Nat
  BY <1>1, PlacesFinite
<1>4. N(toHost, p.kind, p.call) = N(toHost', p.kind, p.call) + 1
  BY <1>1 DEF Is, Bit
<1>5. ASSUME NEW kind, NEW k, ~Is(p, kind, k)
      PROVE  N(toHost', kind, k) = N(toHost, kind, k)
  <2>1. N(toHost', kind, k) \in Nat /\ N(toHost, kind, k) = N(toHost', kind, k) + 0
    BY <1>1, <1>5, PlacesFinite DEF Bit
  <2>. QED
    BY <2>1
<1>. QED
  BY <1>2, <1>3, <1>4, <1>5

LEMMA DevTakesOne ==
  ASSUME TypeOK, OrderInv, WholeInv, FrameShape, NEW p \in First(toDev), toDev' = Tail(toDev)
  PROVE  /\ p.kind = "data" => p.call \in {devCall, call}
         /\ p.kind = "ack" => p.call \in {devCall - 1, devCall}
         /\ p.kind \in {"data", "ack"} /\ p \in Frames
         /\ N(toDev', p.kind, p.call) \in Nat /\ N(toDev, p.kind, p.call) \in Nat
         /\ N(toDev, p.kind, p.call) = N(toDev', p.kind, p.call) + 1
         /\ \A kind, k : ~Is(p, kind, k) => N(toDev', kind, k) = N(toDev, kind, k)
<1>1. /\ p \in In(toDev) /\ toDev \in Seq(Frames) /\ toDev' \in Seq(Frames)
      /\ \A kind, k : N(toDev, kind, k) = N(toDev', kind, k) + Bit(Is(p, kind, k))
  BY DevTakes DEF TypeOK
<1>2. /\ p.kind = "data" => p.call \in {devCall, call}
      /\ p.kind = "ack" => p.call \in {devCall - 1, devCall}
      /\ p.kind \in {"data", "ack"} /\ p \in Frames
  BY <1>1, CallsUnderWay
<1>3. N(toDev', p.kind, p.call) \in Nat /\ N(toDev, p.kind, p.call) \in Nat
  BY <1>1, PlacesFinite
<1>4. N(toDev, p.kind, p.call) = N(toDev', p.kind, p.call) + 1
  BY <1>1 DEF Is, Bit
<1>5. ASSUME NEW kind, NEW k, ~Is(p, kind, k)
      PROVE  N(toDev', kind, k) = N(toDev, kind, k)
  <2>1. N(toDev', kind, k) \in Nat /\ N(toDev, kind, k) = N(toDev', kind, k) + 0
    BY <1>1, <1>5, PlacesFinite DEF Bit
  <2>. QED
    BY <2>1
<1>. QED
  BY <1>2, <1>3, <1>4, <1>5

(* A frame is taken from a line and nothing is put in its place. *)
LEMMA FewerTokens ==
  ASSUME TypeOK, OneToken, toHost' \in Seq(Frames), toDev' \in Seq(Frames),
         \A kind, k : N(toHost', kind, k) <= N(toHost, kind, k),
         \A kind, k : N(toDev', kind, k) <= N(toDev, kind, k)
  PROVE  OneToken'
<1>1. ASSUME NEW k \in Int PROVE Tokens(k)' <= 1
  <2>1. /\ N(toHost, "data", k) \in Nat /\ N(toHost', "data", k) \in Nat
        /\ N(toDev, "ack", k) \in Nat /\ N(toDev', "ack", k) \in Nat
    BY PlacesFinite DEF TypeOK
  <2>2. N(toHost, "data", k) + N(toDev, "ack", k) <= 1
    BY DEF OneToken, Tokens
  <2>3. N(toHost', "data", k) <= N(toHost, "data", k) /\ N(toDev', "ack", k) <= N(toDev, "ack", k)
    OBVIOUS
  <2>. QED
    BY <2>1, <2>2, <2>3 DEF Tokens
<1>. QED
  BY <1>1 DEF OneToken

LEMMA HostTakesFewer ==
  ASSUME TypeOK, OrderInv, WholeInv, FrameShape, OneToken,
         NEW p \in First(toHost), toHost' = Tail(toHost), toDev' = toDev
  PROVE  OneToken'
<1>1. /\ \A kind, k : N(toHost, kind, k) = N(toHost', kind, k) + Bit(Is(p, kind, k))
      /\ toHost \in Seq(Frames) /\ toHost' \in Seq(Frames) /\ toDev' \in Seq(Frames)
  BY HostTakes DEF TypeOK
<1>2. ASSUME NEW kind, NEW k PROVE N(toHost', kind, k) <= N(toHost, kind, k)
  <2>1. PICK b \in {0, 1}, n \in Nat : b = Bit(Is(p, kind, k)) /\ n = N(toHost', kind, k)
    BY <1>1, BitType, PlacesFinite
  <2>2. N(toHost, kind, k) = n + b
    BY <1>1, <2>1
  <2>. QED
    BY <2>1, <2>2
<1>3. ASSUME NEW kind, NEW k PROVE N(toDev', kind, k) <= N(toDev, kind, k)
  BY <1>1, PlacesFinite DEF TypeOK
<1>. QED
  BY <1>1, <1>2, <1>3, FewerTokens

LEMMA DevTakesFewer ==
  ASSUME TypeOK, OrderInv, WholeInv, FrameShape, OneToken,
         NEW p \in First(toDev), toDev' = Tail(toDev), toHost' = toHost
  PROVE  OneToken'
<1>1. /\ \A kind, k : N(toDev, kind, k) = N(toDev', kind, k) + Bit(Is(p, kind, k))
      /\ toDev \in Seq(Frames) /\ toDev' \in Seq(Frames) /\ toHost' \in Seq(Frames)
  BY DevTakes DEF TypeOK
<1>2. ASSUME NEW kind, NEW k PROVE N(toDev', kind, k) <= N(toDev, kind, k)
  <2>1. PICK b \in {0, 1}, n \in Nat : b = Bit(Is(p, kind, k)) /\ n = N(toDev', kind, k)
    BY <1>1, BitType, PlacesFinite
  <2>2. N(toDev, kind, k) = n + b
    BY <1>1, <2>1
  <2>. QED
    BY <2>1, <2>2
<1>3. ASSUME NEW kind, NEW k PROVE N(toHost', kind, k) <= N(toHost, kind, k)
  BY <1>1, PlacesFinite DEF TypeOK
<1>. QED
  BY <1>1, <1>2, <1>3, FewerTokens

(* How a step that reads a frame, or puts one, changes the counts. *)
LEMMA HostTakesCounts ==
  ASSUME TypeOK, OrderInv, WholeInv, FrameShape, NEW p \in First(toHost), toHost' = Tail(toHost),
         call' = call
  PROVE  \/ /\ Is(p, "data", call) /\ HostData = HostData' + 1
            /\ HostDataOld' = HostDataOld /\ HostAcks' = HostAcks /\ HostAcksOld' = HostAcksOld
         \/ /\ Is(p, "data", call - 1) /\ HostDataOld = HostDataOld' + 1
            /\ HostData' = HostData /\ HostAcks' = HostAcks /\ HostAcksOld' = HostAcksOld
         \/ /\ Is(p, "ack", call) /\ HostAcks = HostAcks' + 1
            /\ HostData' = HostData /\ HostDataOld' = HostDataOld /\ HostAcksOld' = HostAcksOld
         \/ /\ Is(p, "ack", call - 1) /\ HostAcksOld = HostAcksOld' + 1
            /\ HostData' = HostData /\ HostDataOld' = HostDataOld /\ HostAcks' = HostAcks
<1>1. /\ p.kind \in {"data", "ack"} /\ p.call \in {call - 1, call}
      /\ N(toHost, p.kind, p.call) = N(toHost', p.kind, p.call) + 1
      /\ \A kind, k : ~Is(p, kind, k) => N(toHost', kind, k) = N(toHost, kind, k)
  BY HostTakesOne
<1>2. call \in Nat /\ call - 1 # call
  BY CallsUnderWay
<1>3. /\ HostData' = N(toHost', "data", call) /\ HostDataOld' = N(toHost', "data", call - 1)
      /\ HostAcks' = N(toHost', "ack", call) /\ HostAcksOld' = N(toHost', "ack", call - 1)
  BY DEF HostData, HostDataOld, HostAcks, HostAcksOld
<1>. QED
  BY <1>1, <1>2, <1>3 DEF Is, HostData, HostDataOld, HostAcks, HostAcksOld

LEMMA DevTakesCounts ==
  ASSUME TypeOK, OrderInv, WholeInv, FrameShape, NEW p \in First(toDev), toDev' = Tail(toDev),
         call' = call
  PROVE  \/ /\ Is(p, "data", call) /\ DevData = DevData' + 1
            /\ DevDataOld' = DevDataOld /\ DevAcks' = DevAcks /\ DevAcksOld' = DevAcksOld
         \/ /\ Is(p, "data", call - 1) /\ DevDataOld = DevDataOld' + 1
            /\ DevData' = DevData /\ DevAcks' = DevAcks /\ DevAcksOld' = DevAcksOld
         \/ /\ Is(p, "ack", call) /\ DevAcks = DevAcks' + 1
            /\ DevData' = DevData /\ DevDataOld' = DevDataOld /\ DevAcksOld' = DevAcksOld
         \/ /\ Is(p, "ack", call - 1) /\ DevAcksOld = DevAcksOld' + 1
            /\ DevData' = DevData /\ DevDataOld' = DevDataOld /\ DevAcks' = DevAcks
         \/ /\ p.kind = "ack" /\ p.call = call - 2 /\ devCall = call - 1
            /\ DevData' = DevData /\ DevDataOld' = DevDataOld /\ DevAcks' = DevAcks
            /\ DevAcksOld' = DevAcksOld
<1>1. /\ p.kind = "data" => p.call \in {devCall, call}
      /\ p.kind = "ack" => p.call \in {devCall - 1, devCall}
      /\ p.kind \in {"data", "ack"}
      /\ N(toDev, p.kind, p.call) = N(toDev', p.kind, p.call) + 1
      /\ \A kind, k : ~Is(p, kind, k) => N(toDev', kind, k) = N(toDev, kind, k)
  BY DevTakesOne
<1>2. call \in Nat /\ devCall \in {call - 1, call} /\ call - 1 # call
  BY CallsUnderWay
<1>3. /\ DevData' = N(toDev', "data", call) /\ DevDataOld' = N(toDev', "data", call - 1)
      /\ DevAcks' = N(toDev', "ack", call) /\ DevAcksOld' = N(toDev', "ack", call - 1)
  BY DEF DevData, DevDataOld, DevAcks, DevAcksOld
<1>4. p.kind = "ack" /\ p.call \notin {call - 1, call} => p.call = call - 2 /\ devCall = call - 1
  BY <1>1, <1>2
<1>. QED
  BY <1>1, <1>2, <1>3, <1>4 DEF Is, DevData, DevDataOld, DevAcks, DevAcksOld

LEMMA ToHostPutCounts ==
  ASSUME TypeOK, NEW p \in Frames, toHost' = Put(toHost, p), Len(toHost) < ChanCap, call' = call,
         call \in Nat
  PROVE  /\ HostData' = HostData + Bit(Is(p, "data", call))
         /\ HostDataOld' = HostDataOld + Bit(Is(p, "data", call - 1))
         /\ HostAcks' = HostAcks + Bit(Is(p, "ack", call))
         /\ HostAcksOld' = HostAcksOld + Bit(Is(p, "ack", call - 1))
<1>1. toHost \in Seq(Frames)
  BY DEF TypeOK
<1>. QED
  BY <1>1, CountPut DEF HostData, HostDataOld, HostAcks, HostAcksOld

LEMMA ToDevPutCounts ==
  ASSUME TypeOK, NEW p \in Frames, toDev' = Put(toDev, p), Len(toDev) < ChanCap, call' = call,
         call \in Nat
  PROVE  /\ DevData' = DevData + Bit(Is(p, "data", call))
         /\ DevDataOld' = DevDataOld + Bit(Is(p, "data", call - 1))
         /\ DevAcks' = DevAcks + Bit(Is(p, "ack", call))
         /\ DevAcksOld' = DevAcksOld + Bit(Is(p, "ack", call - 1))
<1>1. toDev \in Seq(Frames)
  BY DEF TypeOK
<1>. QED
  BY <1>1, CountPut DEF DevData, DevDataOld, DevAcks, DevAcksOld

LEMMA ToDevKept ==
  ASSUME UNCHANGED <<toDev, call>>
  PROVE  /\ DevData' = DevData /\ DevDataOld' = DevDataOld
         /\ DevAcks' = DevAcks /\ DevAcksOld' = DevAcksOld
BY DEF DevData, DevDataOld, DevAcks, DevAcksOld

LEMMA ToHostKept ==
  ASSUME UNCHANGED <<toHost, call>>
  PROVE  /\ HostData' = HostData /\ HostDataOld' = HostDataOld
         /\ HostAcks' = HostAcks /\ HostAcksOld' = HostAcksOld
BY DEF HostData, HostDataOld, HostAcks, HostAcksOld

LEMMA AckComesTail ==
  ASSUME TypeOK, NEW p \in First(toHost), toHost' = Tail(toHost), call' = call,
         AckComes, ~Is(p, "ack", call)
  PROVE  AckComes' /\ ~Is(p, "data", call)
<1>1. toHost \in Seq(Frames) /\ toHost # <<>> /\ p = Head(toHost)
  BY FirstType DEF TypeOK
<1>. QED
  BY <1>1, AheadTail DEF AckComes

LEMMA AckComesPut ==
  ASSUME TypeOK, NEW p \in Frames, toHost' = Put(toHost, p), call' = call, AckComes
  PROVE  AckComes'
<1>1. toHost \in Seq(Frames)
  BY DEF TypeOK
<1>. QED
  BY <1>1, AheadPut DEF AckComes

LEMMA LossSpent ==
  ASSUME TypeOK, Spend("losses", MaxLosses)
  PROVE  used'.losses = used.losses + 1 /\ used.losses \in Nat /\ used.losses + 1 <= MaxLosses
BY PadpAssumption DEF TypeOK, Spend, Budgets

LEMMA NumbersOk ==
  ASSUME Recoverable, TypeOK
  PROVE  /\ retries \in Nat /\ TxRetries \in Nat /\ retries <= TxRetries
         /\ devTries \in Nat /\ DevTries \in Nat /\ devTries <= DevTries
         /\ used.losses \in Nat /\ used.losses <= MaxLosses /\ MaxLosses \in Nat
         /\ MaxLosses < TxRetries /\ MaxLosses <= DevTries /\ ChanCap \in Nat /\ ChanCap >= 4
         /\ devOff \in Nat /\ devLen \in Nat /\ Len(rxbuf) \in Nat
BY PadpAssumption DEF TypeOK, Budgets, Recoverable

LEMMA CountTypesNext ==
  ASSUME TypeOK'
  PROVE  \E hd, hdo, ha, hao, dd, ddo, da, dao \in Nat :
           /\ HostData' = hd /\ HostDataOld' = hdo /\ HostAcks' = ha /\ HostAcksOld' = hao
           /\ DevData' = dd /\ DevDataOld' = ddo /\ DevAcks' = da /\ DevAcksOld' = dao
<1>1. toHost' \in Seq(Frames) /\ toDev' \in Seq(Frames)
  BY DEF TypeOK
<1>2. /\ HostData' \in Nat /\ HostDataOld' \in Nat /\ HostAcks' \in Nat /\ HostAcksOld' \in Nat
      /\ DevData' \in Nat /\ DevDataOld' \in Nat /\ DevAcks' \in Nat /\ DevAcksOld' \in Nat
  BY <1>1, PlacesFinite DEF HostData, HostDataOld, HostAcks, HostAcksOld,
                            DevData, DevDataOld, DevAcks, DevAcksOld
<1>. QED
  BY <1>2

LEMMA LoadType ==
  ASSUME TypeOK
  PROVE  /\ Load \in Nat
         /\ \A b \in {0, 1} : b = Bit(ToBeDone) =>
              Load = HostData + HostAcks + DevData + DevAcks + HostDataOld + HostAcksOld + DevDataOld + b
<1>1. PICK b \in {0, 1} : b = Bit(ToBeDone)
  BY BitType
<1>2. Load = HostData + HostAcks + DevData + DevAcks + HostDataOld + HostAcksOld + DevDataOld + b
  BY <1>1 DEF Load
<1>3. Load \in Nat
  BY <1>2, CountTypes
<1>. QED
  BY <1>1, <1>2, <1>3

LEMMA RoomKept ==
  ASSUME Room, TypeOK, pc' = pc,
         NEW hd \in Nat, NEW hdo \in Nat, NEW ha \in Nat, NEW hao \in Nat,
         NEW dd \in Nat, NEW ddo \in Nat, NEW da \in Nat,
         HostData' = hd, HostDataOld' = hdo, HostAcks' = ha, HostAcksOld' = hao,
         DevData' = dd, DevDataOld' = ddo, DevAcks' = da,
         NEW b \in {0, 1}, b = Bit(ToBeDone'),
         pc # "idle" => hd + ha + dd + da + hdo + hao + ddo + b <= Load,
         pc = "idle" => hd + ha + dd + da <= 2 /\ hd + ha + dd <= 1
  PROVE  Room'
<1>1. PICK l \in Nat : Load' = l /\ l = hd + ha + dd + da + hdo + hao + ddo + b
  BY DEF Load
<1>2. Load \in Nat
  BY LoadType
<1>3. (pc = "txWait" => l <= 3) /\ (Receiving => l <= 2)
  BY <1>1, <1>2 DEF Room, Receiving
<1>. QED
  BY <1>1, <1>3 DEF Room, Receiving

(* A lost frame: what it may cause is paid for by its loss. *)
LEMMA LoseToHostCalm ==
  ASSUME Recoverable, Sound, TypeOK', LoseToHost
  PROVE  Calm'
<1>1. /\ UNCHANGED <<hostVars, toDev, devVars>> /\ toHost' = Tail(toHost)
      /\ toHost # <<>> /\ Spend("losses", MaxLosses)
      /\ TypeOK /\ OrderInv /\ WholeInv /\ FrameShape /\ OneToken
  BY DEF LoseToHost, Sound, Calm
<1>2. PICK p \in First(toHost) : p = Head(toHost)
  BY <1>1 DEF First
<1>3. used'.losses = used.losses + 1 /\ used.losses \in Nat
  BY <1>1, LossSpent
<1>4. call' = call /\ call \in Nat /\ devCall \in {call - 1, call}
  BY <1>1, CallsUnderWay DEF hostVars
<1>5. PICK hd \in Nat, hdo \in Nat, ha \in Nat, hao \in Nat, dd \in Nat, ddo \in Nat, da \in Nat, dao \in Nat :
        /\ HostData' = hd /\ HostDataOld' = hdo /\ HostAcks' = ha /\ HostAcksOld' = hao
        /\ DevData' = dd /\ DevDataOld' = ddo /\ DevAcks' = da /\ DevAcksOld' = dao
  BY CountTypesNext
<1>6. /\ HostData \in Nat /\ HostDataOld \in Nat /\ HostAcks \in Nat /\ HostAcksOld \in Nat
      /\ DevData \in Nat /\ DevDataOld \in Nat /\ DevAcks \in Nat /\ DevAcksOld \in Nat
      /\ HostData + DevAcks <= 1 /\ HostDataOld + DevAcksOld <= 1
  BY <1>1, <1>4, CountTypes, TokenCounts
<1>7. dd = DevData /\ ddo = DevDataOld /\ da = DevAcks /\ dao = DevAcksOld
  BY <1>1, <1>4, <1>5, ToDevKept
<1>8. \/ /\ Is(p, "data", call) /\ HostData = hd + 1
         /\ hdo = HostDataOld /\ ha = HostAcks /\ hao = HostAcksOld
      \/ /\ Is(p, "data", call - 1) /\ HostDataOld = hdo + 1
         /\ hd = HostData /\ ha = HostAcks /\ hao = HostAcksOld
      \/ /\ Is(p, "ack", call) /\ HostAcks = ha + 1
         /\ hd = HostData /\ hdo = HostDataOld /\ hao = HostAcksOld
      \/ /\ Is(p, "ack", call - 1) /\ HostAcksOld = hao + 1
         /\ hd = HostData /\ hdo = HostDataOld /\ ha = HostAcks
  BY <1>1, <1>2, <1>4, <1>5, HostTakesCounts
<1>9. HostShape' /\ DevShape'
  BY <1>1 DEF Sound, Calm, HostShape, DevShape, hostVars, devVars, Receiving
<1>a. FrameShape'
  BY <1>1, <1>2, HostTakes, FramesKept
<1>b. OneToken'
  BY <1>1, <1>2, HostTakesFewer
<1>c. Room'
  <2>1. ToBeDone' = ToBeDone /\ pc' = pc /\ Room
    BY <1>1, <1>4 DEF ToBeDone, devVars, hostVars, Sound, Calm
  <2>2. PICK b \in {0, 1} : b = Bit(ToBeDone) /\ b = Bit(ToBeDone')
    BY <2>1, BitType
  <2>3. Load = HostData + HostAcks + DevData + DevAcks + HostDataOld + HostAcksOld + DevDataOld + b
    BY <1>1, <2>2, LoadType
  <2>4. hd + ha + dd + da + hdo + hao + ddo + b <= Load
    BY <1>6, <1>7, <1>8, <2>3
  <2>5. pc = "idle" => hd + ha + dd + da <= 2 /\ hd + ha + dd <= 1
    BY <1>6, <1>7, <1>8, <2>1 DEF Room
  <2>. QED
    BY <1>1, <1>5, <2>1, <2>2, <2>4, <2>5, RoomKept
<1>d. Requesting'
  <2>1. SUFFICES ASSUME pc = "txWait" PROVE Requesting'
    BY <1>1 DEF Requesting, hostVars
  <2>2. PICK a \in {0, 1}, x \in {0, 1}, b \in {0, 1}, y \in {0, 1} :
          /\ a = Bit(~Asked) /\ x = Bit(devCall # call /\ Unanswered)
          /\ b = Bit(~Asked') /\ y = Bit(devCall' # call' /\ Unanswered')
    BY BitType
  <2>3. /\ TxRetries - retries + HostDataOld + a + x <= used.losses
        /\ retries' = retries
    BY <1>1, <2>1, <2>2 DEF Sound, Calm, Requesting, hostVars
  <2>4. Is(p, "data", call - 1) => b = a
    BY <1>1, <1>4, <1>5, <1>7, <1>8, <2>2 DEF Asked, Is, devVars
  <2>5. ~Is(p, "data", call - 1) => y = x
    BY <1>1, <1>4, <1>5, <1>7, <1>8, <2>2 DEF Unanswered, Is, devVars
  <2>6. PICK n \in Nat : n = TxRetries - retries
    BY NumbersOk DEF Sound
  <2>7. n + hdo + b + y <= used.losses + 1
    <3>1. n + HostDataOld + a + x <= used.losses
      BY <2>3, <2>6
    <3>2. CASE Is(p, "data", call - 1)
      BY <1>3, <1>4, <1>6, <1>8, <2>2, <2>4, <3>1, <3>2 DEF Is
    <3>3. CASE ~Is(p, "data", call - 1)
      BY <1>3, <1>6, <1>8, <2>2, <2>5, <3>1, <3>3
    <3>. QED
      BY <3>2, <3>3
  <2>. QED
    BY <1>3, <1>5, <2>2, <2>3, <2>6, <2>7 DEF Requesting
<1>e. Resting'
  <2>1. used'.losses >= 1
    BY <1>3
  <2>. QED
    BY <2>1 DEF Resting
<1>f. Answering'
  <2>1. SUFFICES ASSUME pc # "idle", devCall = call PROVE Answering'
    BY <1>1 DEF Answering, hostVars, devVars
  <2>2. PICK u \in {0, 1}, c \in {0, 1}, v \in {0, 1}, d \in {0, 1} :
          /\ u = Bit(Unanswered) /\ c = Bit(~AckComes) /\ v = Bit(Unanswered') /\ d = Bit(~AckComes')
    BY BitType
  <2>3. Is(p, "data", call) => d <= c
    BY <1>1, <1>2, <1>4, <2>2, AckComesTail DEF Is, Bit
  <2>4. ~Is(p, "data", call) => v = u
    BY <1>1, <1>4, <1>5, <1>7, <1>8, <2>1, <2>2 DEF Unanswered, devVars
  <2>5. ASSUME NEW n \in Nat, n + u + c <= used.losses PROVE n + v + d <= used.losses + 1
    BY <1>3, <2>2, <2>3, <2>4, <2>5
  <2>6. ASSUME NEW n \in Nat, n + u <= used.losses PROVE n + v <= used.losses + 1
    BY <1>3, <2>2, <2>6
  <2>7. DevTries - devTries \in Nat
    BY NumbersOk DEF Sound
  <2>8. used'.losses >= 1
    BY <1>3
  <2>9. UNCHANGED <<pc, devCall, call, devMode, devTries, rxbuf, devOff, devLen>> /\ Answering
    BY <1>1 DEF hostVars, devVars, Sound, Calm
  <2>a. FirstUnacked' = FirstUnacked /\ Receiving' = Receiving
    BY <2>9 DEF FirstUnacked, Receiving
  <2>b. devMode = "reply" /\ pc = "txWait" =>
          (DevTries - devTries) + Bit(Unanswered') + Bit(~AckComes') <= used.losses + 1
    BY <2>1, <2>2, <2>5, <2>7, <2>9 DEF Answering
  <2>c. devMode = "reply" /\ Receiving /\ ~FirstUnacked =>
          (DevTries - devTries) + Bit(Unanswered') <= used.losses + 1
    BY <2>1, <2>2, <2>6, <2>7, <2>9 DEF Answering
  <2>. QED
    BY <1>3, <2>1, <2>8, <2>9, <2>a, <2>b, <2>c DEF Answering
<1>. QED
  BY <1>9, <1>a, <1>b, <1>c, <1>d, <1>e, <1>f DEF Calm

LEMMA LoseToDevCalm ==
  ASSUME Recoverable, Sound, TypeOK', LoseToDev
  PROVE  Calm'
<1>1. /\ UNCHANGED <<hostVars, toHost, devVars>> /\ toDev' = Tail(toDev)
      /\ toDev # <<>> /\ Spend("losses", MaxLosses)
      /\ TypeOK /\ OrderInv /\ WholeInv /\ FrameShape /\ OneToken
  BY DEF LoseToDev, Sound, Calm
<1>2. PICK p \in First(toDev) : p = Head(toDev)
  BY <1>1 DEF First
<1>3. used'.losses = used.losses + 1 /\ used.losses \in Nat
  BY <1>1, LossSpent
<1>4. call' = call /\ call \in Nat /\ devCall \in {call - 1, call}
  BY <1>1, CallsUnderWay DEF hostVars
<1>5. PICK hd \in Nat, hdo \in Nat, ha \in Nat, hao \in Nat, dd \in Nat, ddo \in Nat, da \in Nat, dao \in Nat :
        /\ HostData' = hd /\ HostDataOld' = hdo /\ HostAcks' = ha /\ HostAcksOld' = hao
        /\ DevData' = dd /\ DevDataOld' = ddo /\ DevAcks' = da /\ DevAcksOld' = dao
  BY CountTypesNext
<1>6. /\ HostData \in Nat /\ HostDataOld \in Nat /\ HostAcks \in Nat /\ HostAcksOld \in Nat
      /\ DevData \in Nat /\ DevDataOld \in Nat /\ DevAcks \in Nat /\ DevAcksOld \in Nat
      /\ HostData + DevAcks <= 1 /\ HostDataOld + DevAcksOld <= 1
  BY <1>1, <1>4, CountTypes, TokenCounts
<1>7. hd = HostData /\ hdo = HostDataOld /\ ha = HostAcks /\ hao = HostAcksOld
  BY <1>1, <1>4, <1>5, ToHostKept
<1>8. \/ /\ Is(p, "data", call) /\ DevData = dd + 1
         /\ ddo = DevDataOld /\ da = DevAcks /\ dao = DevAcksOld
      \/ /\ Is(p, "data", call - 1) /\ DevDataOld = ddo + 1
         /\ dd = DevData /\ da = DevAcks /\ dao = DevAcksOld
      \/ /\ Is(p, "ack", call) /\ DevAcks = da + 1
         /\ dd = DevData /\ ddo = DevDataOld /\ dao = DevAcksOld
      \/ /\ Is(p, "ack", call - 1) /\ DevAcksOld = dao + 1
         /\ dd = DevData /\ ddo = DevDataOld /\ da = DevAcks
      \/ /\ p.kind = "ack" /\ p.call = call - 2
         /\ dd = DevData /\ ddo = DevDataOld /\ da = DevAcks /\ dao = DevAcksOld
  BY <1>1, <1>2, <1>4, <1>5, DevTakesCounts
<1>9. HostShape' /\ DevShape'
  BY <1>1 DEF Sound, Calm, HostShape, DevShape, hostVars, devVars, Receiving
<1>a. FrameShape'
  BY <1>1, <1>2, DevTakes, FramesKept
<1>b. OneToken'
  BY <1>1, <1>2, DevTakesFewer
<1>c. Room'
  <2>1. ToBeDone' = ToBeDone /\ pc' = pc /\ Room
    BY <1>1, <1>4 DEF ToBeDone, devVars, hostVars, Sound, Calm
  <2>2. PICK b \in {0, 1} : b = Bit(ToBeDone) /\ b = Bit(ToBeDone')
    BY <2>1, BitType
  <2>3. Load = HostData + HostAcks + DevData + DevAcks + HostDataOld + HostAcksOld + DevDataOld + b
    BY <1>1, <2>2, LoadType
  <2>4. hd + ha + dd + da + hdo + hao + ddo + b <= Load
    BY <1>6, <1>7, <1>8, <2>3
  <2>5. pc = "idle" => hd + ha + dd + da <= 2 /\ hd + ha + dd <= 1
    BY <1>6, <1>7, <1>8, <2>1 DEF Room
  <2>. QED
    BY <1>1, <1>5, <2>1, <2>2, <2>4, <2>5, RoomKept
<1>d. Requesting'
  <2>1. SUFFICES ASSUME pc = "txWait" PROVE Requesting'
    BY <1>1 DEF Requesting, hostVars
  <2>2. PICK a \in {0, 1}, x \in {0, 1}, b \in {0, 1}, y \in {0, 1} :
          /\ a = Bit(~Asked) /\ x = Bit(devCall # call /\ Unanswered)
          /\ b = Bit(~Asked') /\ y = Bit(devCall' # call' /\ Unanswered')
    BY BitType
  <2>3. /\ TxRetries - retries + HostDataOld + a + x <= used.losses
        /\ retries' = retries
    BY <1>1, <2>1, <2>2 DEF Sound, Calm, Requesting, hostVars
  <2>4. ~Is(p, "data", call) => b = a
    BY <1>1, <1>4, <1>5, <1>7, <1>8, <2>2 DEF Asked, Is, devVars
  <2>5. ~Is(p, "ack", call - 1) => y = x
    BY <1>1, <1>4, <1>5, <1>7, <1>8, <2>2 DEF Unanswered, Is, devVars
  <2>6. PICK n \in Nat : n = TxRetries - retries
    BY NumbersOk DEF Sound
  <2>7. n + hdo + b + y <= used.losses + 1
    <3>1. n + HostDataOld + a + x <= used.losses
      BY <2>3, <2>6
    <3>2. CASE Is(p, "data", call)
      BY <1>3, <1>6, <1>7, <2>2, <2>5, <3>1, <3>2 DEF Is
    <3>3. CASE ~Is(p, "data", call)
      BY <1>3, <1>6, <1>7, <2>2, <2>4, <3>1, <3>3
    <3>. QED
      BY <3>2, <3>3
  <2>. QED
    BY <1>3, <1>5, <2>2, <2>3, <2>6, <2>7 DEF Requesting
<1>e. Resting'
  <2>1. used'.losses >= 1
    BY <1>3
  <2>. QED
    BY <2>1 DEF Resting
<1>f. Answering'
  <2>1. SUFFICES ASSUME pc # "idle", devCall = call PROVE Answering'
    BY <1>1 DEF Answering, hostVars, devVars
  <2>2. PICK u \in {0, 1}, c \in {0, 1}, v \in {0, 1}, d \in {0, 1} :
          /\ u = Bit(Unanswered) /\ c = Bit(~AckComes) /\ v = Bit(Unanswered') /\ d = Bit(~AckComes')
    BY BitType
  <2>3. d = c
    BY <1>1, <1>4, <2>2 DEF AckComes
  <2>5. ASSUME NEW n \in Nat, n + u + c <= used.losses PROVE n + v + d <= used.losses + 1
    BY <1>3, <2>2, <2>3, <2>5
  <2>6. ASSUME NEW n \in Nat, n + u <= used.losses PROVE n + v <= used.losses + 1
    BY <1>3, <2>2, <2>6
  <2>7. DevTries - devTries \in Nat
    BY NumbersOk DEF Sound
  <2>8. used'.losses >= 1
    BY <1>3
  <2>9. UNCHANGED <<pc, devCall, call, devMode, devTries, rxbuf, devOff, devLen>> /\ Answering
    BY <1>1 DEF hostVars, devVars, Sound, Calm
  <2>a. FirstUnacked' = FirstUnacked /\ Receiving' = Receiving
    BY <2>9 DEF FirstUnacked, Receiving
  <2>b. devMode = "reply" /\ pc = "txWait" =>
          (DevTries - devTries) + Bit(Unanswered') + Bit(~AckComes') <= used.losses + 1
    BY <2>1, <2>2, <2>5, <2>7, <2>9 DEF Answering
  <2>c. devMode = "reply" /\ Receiving /\ ~FirstUnacked =>
          (DevTries - devTries) + Bit(Unanswered') <= used.losses + 1
    BY <2>1, <2>2, <2>6, <2>7, <2>9 DEF Answering
  <2>. QED
    BY <1>3, <2>1, <2>8, <2>9, <2>a, <2>b, <2>c DEF Answering
<1>. QED
  BY <1>9, <1>a, <1>b, <1>c, <1>d, <1>e, <1>f DEF Calm

(* The room of a step that leaves little under way. *)
LEMMA RoomFor ==
  ASSUME NEW hd \in Nat, NEW hdo \in Nat, NEW ha \in Nat, NEW hao \in Nat,
         NEW dd \in Nat, NEW ddo \in Nat, NEW da \in Nat,
         HostData' = hd, HostDataOld' = hdo, HostAcks' = ha, HostAcksOld' = hao,
         DevData' = dd, DevDataOld' = ddo, DevAcks' = da,
         NEW b \in {0, 1}, b = Bit(ToBeDone'),
         pc' = "txWait" => hd + ha + dd + da + hdo + hao + ddo + b <= 3,
         pc' \in {"rxFirst", "rxNext"} => hd + ha + dd + da + hdo + hao + ddo + b <= 2,
         pc' = "idle" => hd + ha + dd + da <= 2 /\ hd + ha + dd <= 1
  PROVE  Room'
<1>1. PICK l \in Nat : Load' = l /\ l = hd + ha + dd + da + hdo + hao + ddo + b
  BY DEF Load
<1>2. (pc' = "txWait" => l <= 3) /\ (Receiving' => l <= 2)
  BY <1>1 DEF Receiving
<1>. QED
  BY <1>1, <1>2 DEF Room

LEMMA NothingUnderWay ==
  ASSUME toDev = <<>>, toHost = <<>>
  PROVE  /\ HostData = 0 /\ HostDataOld = 0 /\ HostAcks = 0 /\ HostAcksOld = 0
         /\ DevData = 0 /\ DevDataOld = 0 /\ DevAcks = 0 /\ DevAcksOld = 0
         /\ ~AckComes
<1>1. ~AckComes
  BY DEF AckComes
<1>. QED
  BY <1>1, CountEmpty DEF HostData, HostDataOld, HostAcks, HostAcksOld,
                          DevData, DevDataOld, DevAcks, DevAcksOld

(* The device gives up only on the one response the host will not ack.     *)
LEMMA DevGiveUpCalm ==
  ASSUME Recoverable, Sound, TypeOK', DevGiveUp
  PROVE  Calm'
<1>1. /\ UNCHANGED <<hostVars, toDev, toHost, devTxid, devCall, devGot, devLen, devOff, devTries,
                     execs, used>>
      /\ toDev = <<>> /\ toHost = <<>> /\ devMode = "reply" /\ devMode' = "wait" /\ devTries = 0
      /\ TypeOK /\ HostShape /\ DevShape /\ OneToken /\ Room /\ Requesting /\ Answering
  BY DEF DevGiveUp, Sound, Calm, Recoverable, Quiet
<1>2. UNCHANGED <<pc, call, outcome, retries, stuck, sent, reqLen, rxbuf, ids>>
  BY <1>1 DEF hostVars
<1>3. /\ HostData' = 0 /\ HostDataOld' = 0 /\ HostAcks' = 0 /\ HostAcksOld' = 0
      /\ DevData' = 0 /\ DevDataOld' = 0 /\ DevAcks' = 0 /\ DevAcksOld' = 0
      /\ HostData = 0 /\ HostDataOld = 0 /\ HostAcks = 0 /\ HostAcksOld = 0
      /\ DevData = 0 /\ DevDataOld = 0 /\ DevAcks = 0 /\ DevAcksOld = 0 /\ ~AckComes
  BY <1>1, <1>2, NothingUnderWay, ToDevKept, ToHostKept
<1>4. HostShape' /\ DevShape'
  BY <1>1, <1>2 DEF HostShape, DevShape, Receiving
<1>5. FrameShape'
  BY <1>1 DEF FrameShape, In
<1>6. OneToken'
  BY <1>1 DEF OneToken, Tokens
<1>7. Room'
  <2>1. PICK b \in {0, 1} : b = Bit(ToBeDone')
    BY BitType
  <2>. QED
    BY <1>3, <2>1, RoomFor
<1>8. Requesting'
  <2>1. SUFFICES ASSUME pc = "txWait" PROVE Requesting'
    BY <1>2 DEF Requesting
  <2>2. Asked' = Asked /\ ~Unanswered'
    BY <1>1, <1>2, <1>3 DEF Asked, Unanswered
  <2>3. PICK a \in {0, 1}, x \in {0, 1} : /\ a = Bit(~Asked) /\ a = Bit(~Asked')
                                          /\ x = Bit(devCall # call /\ Unanswered)
                                          /\ 0 = Bit(devCall' # call' /\ Unanswered')
    BY <2>2, BitType DEF Bit
  <2>4. PICK n \in Nat : n = TxRetries - retries
    BY <1>1, NumbersOk
  <2>5. n + 0 + a + x <= used.losses /\ used.losses \in Nat
    BY <1>1, <1>3, <2>1, <2>3, <2>4, NumbersOk DEF Requesting
  <2>6. n + 0 + a + 0 <= used.losses
    BY <2>3, <2>5
  <2>. QED
    BY <1>1, <1>2, <1>3, <2>3, <2>4, <2>6 DEF Requesting
<1>9. Resting'
  BY <1>1 DEF Resting
<1>a. Answering'
  <2>1. SUFFICES ASSUME pc # "idle", devCall = call PROVE FirstUnacked'
    BY <1>1, <1>2 DEF Answering
  <2>2. FirstUnacked' = FirstUnacked
    BY <1>1, <1>2 DEF FirstUnacked
  <2>3. Bit(Unanswered) = 1 /\ Bit(~AckComes) = 1
    BY <1>1, <1>3, <2>1 DEF Unanswered, Bit
  <2>4. DevTries - devTries = DevTries /\ DevTries \in Nat /\ used.losses <= DevTries /\ used.losses \in Nat
    <3>1. /\ DevTries \in Nat /\ used.losses \in Nat /\ MaxLosses \in Nat
          /\ used.losses <= MaxLosses /\ MaxLosses <= DevTries
      BY <1>1, NumbersOk
    <3>. QED
      BY <1>1, <3>1
  <2>5. pc # "txWait"
    BY <1>1, <2>1, <2>3, <2>4 DEF Answering
  <2>6. Receiving /\ ~FirstUnacked => DevTries + 1 <= used.losses
    BY <1>1, <2>1, <2>3, <2>4 DEF Answering
  <2>7. Receiving
    BY <1>1, <2>1, <2>5 DEF TypeOK, Receiving
  <2>. QED
    BY <2>2, <2>4, <2>6, <2>7
<1>. QED
  BY <1>4, <1>5, <1>6, <1>7, <1>8, <1>9, <1>a DEF Calm

LEMMA DevResendCalm ==
  ASSUME Recoverable, Sound, TypeOK', DevResend
  PROVE  Calm'
<1>. DEFINE x == DevFrag(devOff, devLen)
<1>1. /\ UNCHANGED <<hostVars, toDev, devMode, devTxid, devCall, devGot, devLen, devOff, execs, used>>
      /\ toDev = <<>> /\ toHost = <<>> /\ devMode = "reply" /\ devTries' = devTries - 1 /\ devTries > 0
      /\ toHost' = Put(toHost, x)
      /\ TypeOK /\ OrderInv /\ WholeInv /\ FrameShape
      /\ HostShape /\ DevShape /\ OneToken /\ Room /\ Requesting /\ Answering /\ Resting
  BY DEF DevResend, Sound, Calm, Recoverable, Quiet
<1>2. UNCHANGED <<pc, call, outcome, retries, stuck, sent, reqLen, rxbuf, ids>>
  BY <1>1 DEF hostVars
<1>3. /\ HostData = 0 /\ HostDataOld = 0 /\ HostAcks = 0 /\ HostAcksOld = 0
      /\ DevData = 0 /\ DevDataOld = 0 /\ DevAcks = 0 /\ DevAcksOld = 0 /\ ~AckComes
  BY <1>1, NothingUnderWay
<1>4. call \in Nat /\ devCall \in {call - 1, call} /\ devCall \in 0..MaxCalls
  BY <1>1, CallsUnderWay DEF TypeOK
<1>5. x \in Frames /\ x.kind = "data" /\ ~x.mem /\ x.call = devCall /\ x.hdr = DevFragment
  <2>1. x = Data(devTxid, devOff, devLen, devCall)
    BY DEF DevFrag
  <2>2. devTxid \in Txids /\ devOff \in Nat /\ devLen \in Nat
    BY <1>1 DEF TypeOK
  <2>3. x \in Frames
    BY <1>4, <2>1, <2>2, DataType
  <2>. QED
    BY <2>1, <2>2, <2>3, DataFields DEF DevFragment
<1>. HIDE DEF x
<1>6. /\ HostData' = HostData + Bit(Is(x, "data", call))
      /\ HostDataOld' = HostDataOld + Bit(Is(x, "data", call - 1))
      /\ HostAcks' = HostAcks + Bit(Is(x, "ack", call))
      /\ HostAcksOld' = HostAcksOld + Bit(Is(x, "ack", call - 1))
  <2>1. Len(toHost) < ChanCap
    BY <1>1, NumbersOk
  <2>. QED
    BY <1>1, <1>2, <1>4, <1>5, <2>1, ToHostPutCounts
<1>7. PICK e \in {0, 1}, o \in {0, 1} :
        /\ HostData' = e /\ HostDataOld' = o /\ HostAcks' = 0 /\ HostAcksOld' = 0
        /\ DevData' = 0 /\ DevDataOld' = 0 /\ DevAcks' = 0 /\ DevAcksOld' = 0
        /\ (e = 1 <=> devCall = call) /\ (o = 1 <=> devCall = call - 1)
  <2>1. /\ DevData' = 0 /\ DevDataOld' = 0 /\ DevAcks' = 0 /\ DevAcksOld' = 0
    BY <1>1, <1>2, <1>3, ToDevKept
  <2>2. ~Is(x, "ack", call) /\ ~Is(x, "ack", call - 1)
        /\ (Is(x, "data", call) <=> devCall = call) /\ (Is(x, "data", call - 1) <=> devCall = call - 1)
    BY <1>5 DEF Is
  <2>. QED
    BY <1>3, <1>6, <2>1, <2>2 DEF Bit
<1>8. HostShape' /\ DevShape'
  BY <1>1, <1>2 DEF HostShape, DevShape, Receiving
<1>9. FrameShape'
  <2>1. ASSUME NEW p \in In(toHost') PROVE p = x
    <3>1. p \in In(Put(toHost, x)) /\ toHost \in Seq(Frames) /\ In(toHost) = {}
      BY <1>1 DEF In, TypeOK
    <3>. QED
      BY <1>5, <3>1, InPut
  <2>2. DevFragment' = DevFragment /\ In(toDev') = {}
    BY <1>1 DEF DevFragment, In
  <2>. QED
    BY <1>1, <1>5, <2>1, <2>2 DEF FrameShape
<1>a. OneToken'
  <2>1. ASSUME NEW k \in Int PROVE Tokens(k)' <= 1
    <3>1. Len(toHost) < ChanCap /\ toHost \in Seq(Frames)
      BY <1>1, NumbersOk
    <3>2. N(toHost', "data", k) = 0 + Bit(Is(x, "data", k)) /\ N(toDev', "ack", k) = 0
      <4>1. N(Put(toHost, x), "data", k) = N(toHost, "data", k) + Bit(Is(x, "data", k))
        BY <1>5, <3>1, CountPut
      <4>2. N(toHost, "data", k) = 0 /\ N(toDev, "ack", k) = 0
        BY <1>1, CountEmpty
      <4>. QED
        BY <1>1, <4>1, <4>2
    <3>3. PICK b \in {0, 1} : b = Bit(Is(x, "data", k))
      BY BitType
    <3>. QED
      BY <3>2, <3>3 DEF Tokens
  <2>. QED
    BY <2>1 DEF OneToken
<1>b. Room'
  <2>1. PICK b \in {0, 1} : b = Bit(ToBeDone')
    BY BitType
  <2>2. e + o <= 1
    BY <1>4, <1>7
  <2>3. /\ e + 0 + 0 + 0 + o + 0 + 0 + b <= 2
        /\ e + 0 + 0 + 0 <= 2 /\ e + 0 + 0 <= 1
    BY <1>7, <2>1, <2>2
  <2>4. e \in Nat /\ o \in Nat
    BY <1>7
  <2>. QED
    BY <1>7, <2>1, <2>3, <2>4, RoomFor
<1>c. Requesting'
  <2>1. SUFFICES ASSUME pc = "txWait" PROVE Requesting'
    BY <1>2 DEF Requesting
  <2>2. PICK n \in Nat : n = TxRetries - retries
    BY <1>1, NumbersOk
  <2>3. used.losses \in Nat
    BY <1>1, NumbersOk
  <2>4. ~Unanswered'
    BY <1>1, <1>2, <1>4, <1>7 DEF Unanswered
  <2>5. CASE devCall = call
    <3>1. Asked' /\ Bit(~Asked') = 0 /\ Bit(devCall' # call' /\ Unanswered') = 0
      BY <1>1, <1>2, <1>7, <2>4, <2>5 DEF Asked, Bit
    <3>2. Bit(~Asked) = 1 /\ Bit(devCall # call /\ Unanswered) = 0
      BY <1>1, <1>3, <2>5 DEF Asked, Bit
    <3>3. n + 0 + 1 + 0 <= used.losses
      BY <1>1, <1>3, <2>1, <2>2, <3>2 DEF Requesting
    <3>4. o = 0 /\ n + 0 + 0 + 0 <= used.losses
      BY <1>4, <1>7, <2>3, <2>5, <3>3
    <3>. QED
      BY <1>1, <1>2, <1>7, <2>2, <3>1, <3>4 DEF Requesting
  <2>6. CASE devCall # call
    <3>1. ~Asked' /\ Bit(~Asked') = 1 /\ Bit(devCall' # call' /\ Unanswered') = 0
      BY <1>1, <1>2, <1>7, <2>4, <2>6 DEF Asked, Bit
    <3>2. Bit(~Asked) = 1 /\ Bit(devCall # call /\ Unanswered) = 1
      BY <1>1, <1>3, <2>6 DEF Asked, Bit, Unanswered
    <3>3. n + 0 + 1 + 1 <= used.losses
      BY <1>1, <1>3, <2>1, <2>2, <3>2 DEF Requesting
    <3>4. n + o + 1 + 0 <= used.losses
      BY <1>7, <2>3, <3>3
    <3>. QED
      BY <1>1, <1>2, <1>7, <2>2, <3>1, <3>4 DEF Requesting
  <2>. QED
    BY <2>5, <2>6
<1>d. Resting'
  BY <1>1, <1>2, <1>3 DEF Resting
<1>e. Answering'
  <2>1. SUFFICES ASSUME pc # "idle", devCall = call PROVE Answering'
    BY <1>1, <1>2 DEF Answering
  <2>2. Bit(Unanswered) = 1 /\ Bit(~AckComes) = 1
    BY <1>1, <1>3, <2>1 DEF Unanswered, Bit
  <2>3. Bit(Unanswered') = 0
    BY <1>1, <1>2, <1>7, <2>1 DEF Unanswered, Bit
  <2>4. PICK n \in Nat, c \in {0, 1} : /\ n = DevTries - devTries /\ DevTries - devTries' = n + 1
                                       /\ c = Bit(~AckComes')
    <3>1. DevTries \in Nat /\ devTries \in Nat /\ devTries <= DevTries
      BY <1>1, NumbersOk
    <3>2. DevTries - devTries \in Nat /\ DevTries - (devTries - 1) = (DevTries - devTries) + 1
      BY <3>1
    <3>3. devTries' = devTries - 1
      BY <1>1
    <3>. QED
      BY <3>2, <3>3, BitType
  <2>5. used.losses \in Nat
    BY <1>1, NumbersOk
  <2>6. pc = "txWait" => (n + 1) + 0 + c <= used.losses
    <3>1. pc = "txWait" => n + 1 + 1 <= used.losses
      BY <1>1, <2>1, <2>2, <2>4 DEF Answering
    <3>. QED
      BY <2>4, <2>5, <3>1
  <2>7. Receiving /\ ~FirstUnacked => (n + 1) + 0 <= used.losses
    BY <1>1, <2>1, <2>2, <2>4 DEF Answering
  <2>8. FirstUnacked' = FirstUnacked /\ Receiving' = Receiving
    BY <1>1, <1>2 DEF FirstUnacked, Receiving
  <2>. QED
    BY <1>1, <1>2, <2>1, <2>3, <2>4, <2>6, <2>7, <2>8 DEF Answering
<1>. QED
  BY <1>8, <1>9, <1>a, <1>b, <1>c, <1>d, <1>e DEF Calm

-----------------------------------------------------------------------------
(* Parts of Calm from step to step. *)

LEMMA TokensKept ==
  ASSUME OneToken,
         \A k \in Int : N(toHost', "data", k) + N(toDev', "ack", k)
                          <= N(toHost, "data", k) + N(toDev, "ack", k),
         TypeOK, TypeOK'
  PROVE  OneToken'
<1>1. ASSUME NEW k \in Int PROVE Tokens(k)' <= 1
  <2>1. /\ N(toHost, "data", k) \in Nat /\ N(toDev, "ack", k) \in Nat
        /\ N(toHost', "data", k) \in Nat /\ N(toDev', "ack", k) \in Nat
    BY PlacesFinite DEF TypeOK
  <2>2. PICK s \in Nat, t \in Nat : /\ s = N(toHost, "data", k) + N(toDev, "ack", k)
                                    /\ t = N(toHost', "data", k) + N(toDev', "ack", k)
    BY <2>1
  <2>3. s <= 1 /\ t <= s
    BY <2>2 DEF OneToken, Tokens
  <2>. QED
    BY <2>2, <2>3 DEF Tokens
<1>. QED
  BY <1>1 DEF OneToken

LEMMA RequestingKept ==
  ASSUME Recoverable, TypeOK, TypeOK', Requesting, UNCHANGED <<pc, retries, used>>,
         HostDataOld' <= HostDataOld, Asked => Asked',
         devCall' # call' /\ Unanswered' => devCall # call /\ Unanswered
  PROVE  Requesting'
<1>1. SUFFICES ASSUME pc = "txWait" PROVE Requesting'
  BY DEF Requesting
<1>2. PICK a \in {0, 1}, x \in {0, 1}, b \in {0, 1}, y \in {0, 1} :
        /\ a = Bit(~Asked) /\ x = Bit(devCall # call /\ Unanswered)
        /\ b = Bit(~Asked') /\ y = Bit(devCall' # call' /\ Unanswered')
  BY BitType
<1>3. b <= a /\ y <= x
  BY <1>2 DEF Bit
<1>4. PICK n \in Nat, l \in Nat, h \in Nat, i \in Nat :
        /\ n = TxRetries - retries /\ l = used.losses /\ h = HostDataOld /\ i = HostDataOld'
  <2>1. TxRetries - retries \in Nat /\ used.losses \in Nat
    BY NumbersOk
  <2>2. HostDataOld \in Nat /\ HostDataOld' \in Nat
    BY CountTypes, CountTypesNext
  <2>. QED
    BY <2>1, <2>2
<1>5. n + h + a + x <= l /\ i <= h
  BY <1>1, <1>2, <1>4 DEF Requesting
<1>6. n + i + b + y <= l
  BY <1>3, <1>5
<1>. QED
  BY <1>2, <1>4, <1>6 DEF Requesting

LEMMA AnsweringKept ==
  ASSUME Recoverable, TypeOK, Answering,
         UNCHANGED <<pc, call, devCall, devMode, devLen, devOff, devTries, rxbuf, used>>,
         AckComes => AckComes', devCall = call /\ Unanswered' => Unanswered
  PROVE  Answering'
<1>1. SUFFICES ASSUME pc # "idle", devCall = call PROVE Answering'
  BY DEF Answering
<1>2. PICK u \in {0, 1}, c \in {0, 1}, v \in {0, 1}, d \in {0, 1} :
        /\ u = Bit(Unanswered) /\ c = Bit(~AckComes)
        /\ v = Bit(Unanswered') /\ d = Bit(~AckComes')
  BY BitType
<1>3. v <= u /\ d <= c
  BY <1>1, <1>2 DEF Bit
<1>4. PICK n \in Nat, l \in Nat : n = DevTries - devTries /\ l = used.losses
  <2>1. DevTries - devTries \in Nat /\ used.losses \in Nat
    BY NumbersOk
  <2>. QED
    BY <2>1
<1>5. FirstUnacked' = FirstUnacked /\ Receiving' = Receiving
  BY DEF FirstUnacked, Receiving
<1>6. /\ devMode = "reply" /\ pc = "txWait" => n + u + c <= l
      /\ devMode = "reply" /\ Receiving /\ ~FirstUnacked => n + u <= l
      /\ devMode = "exec" /\ pc = "txWait" /\ ~AckComes => l >= 1
      /\ devMode = "wait" => FirstUnacked
  BY <1>1, <1>2, <1>4 DEF Answering
<1>7. /\ devMode = "reply" /\ pc = "txWait" => n + v + d <= l
      /\ devMode = "reply" /\ Receiving /\ ~FirstUnacked => n + v <= l
  BY <1>3, <1>6
<1>. QED
  BY <1>1, <1>2, <1>4, <1>5, <1>6, <1>7 DEF Answering

(* An ack put behind a line without data of its call comes first. *)
LEMMA AckPutComes ==
  ASSUME TypeOK, NEW p \in Frames, toHost' = Put(toHost, p), Len(toHost) < ChanCap,
         call' = call, Is(p, "ack", call), \A x \in In(toHost) : ~Is(x, "data", call)
  PROVE  AckComes'
<1>1. toHost \in Seq(Frames)
  BY DEF TypeOK
<1>2. /\ Len(toHost') = Len(toHost) + 1 /\ toHost'[Len(toHost) + 1] = p /\ Len(toHost) \in Nat
      /\ \A i \in 1..Len(toHost) : toHost'[i] = toHost[i]
  BY <1>1 DEF Put
<1>3. \A i \in 1..Len(toHost) : ~Is(toHost'[i], "data", call)
  BY <1>2 DEF In
<1>4. PICK n \in Nat : n = Len(toHost) + 1
  BY <1>2
<1>5. n \in 1..Len(toHost') /\ Is(toHost'[n], "ack", call')
      /\ \A j \in 1..n - 1 : ~Is(toHost'[j], "data", call')
  BY <1>2, <1>3, <1>4
<1>. QED
  BY <1>5 DEF AckComes

(* Without a call under way, the last one has succeeded. *)
LEMMA CallNow ==
  ASSUME Sound
  PROVE  /\ outcome = "ok" => pc = "idle" /\ devCall = call /\ devMode # "exec"
         /\ pc = "idle" /\ outcome # "ok" => call = 0
         /\ Receiving => devCall = call
         /\ devMode = "exec" => devCall = call
         /\ devMode \in {"exec", "reply"} => devCall >= 1
         /\ devMode = "exec" \/ devCall # call => rxbuf = <<>>
  BY DEF Sound, CallsSucceed, OrderInv, IdsInv, DevInv, WholeInv, BufferOk, Replied,
         Calm, HostShape, DevShape

-----------------------------------------------------------------------------
(* The device. *)

(* It begins to respond, and leaves with nothing more to be done. *)
LEMMA DevReplyCalm ==
  ASSUME Recoverable, Sound, TypeOK', DevReply
  PROVE  Calm'
<1>1. PICK n \in RespFrags : devLen' = n /\ toHost' = Put(toHost, DevFrag(0, n))
  BY DEF DevReply
<1>. DEFINE x == DevFrag(0, n)
<1>2. /\ UNCHANGED <<hostVars, toDev, devTxid, devCall, devGot, execs, used>>
      /\ devMode = "exec" /\ devMode' = "reply" /\ devOff' = 0 /\ devTries' = DevTries
      /\ TypeOK /\ OrderInv /\ WholeInv /\ FrameShape /\ CallsSucceed
      /\ HostShape /\ DevShape /\ OneToken /\ Room /\ Requesting /\ Answering
  BY DEF DevReply, Sound, Calm
<1>3. UNCHANGED <<pc, call, outcome, retries, stuck, sent, reqLen, rxbuf, ids>>
  BY <1>2 DEF hostVars
<1>4. /\ call \in Nat /\ devCall = call /\ call >= 1 /\ call \in 0..MaxCalls
      /\ outcome # "ok" /\ pc # "idle" /\ rxbuf = <<>>
  BY <1>2, CallNow, CallsUnderWay DEF TypeOK
<1>5. /\ x \in Frames /\ x.kind = "data" /\ ~x.mem /\ x.call = call
      /\ x.hdr = Header(devTxid, 0, n) /\ n \in Nat /\ n > 0
  <2>1. x = Data(devTxid, 0, n, call) /\ n \in Nat /\ n > 0
    BY <1>4, PadpAssumption DEF DevFrag
  <2>2. x \in Frames
    BY <1>2, <1>4, <2>1, DataType DEF TypeOK
  <2>. QED
    BY <2>1, <2>2, DataFields
<1>. HIDE DEF x
<1>6. /\ \A p \in In(toHost) : ~Is(p, "data", call)
      /\ \A p \in In(toDev) : ~Is(p, "ack", call)
  BY <1>2, <1>4 DEF WholeInv, InStep, Own, Replied, FrameShape, Is
<1>7. HostData = 0 /\ DevAcks = 0
  BY <1>2, <1>6, CountNone DEF HostData, DevAcks, TypeOK
<1>8. Len(toHost) < ChanCap
  <2>1. Len(toHost) \in Nat /\ Len(toDev) \in Nat /\ Len(toDev) + Len(toHost) <= 3
    BY <1>2, RoomOnLine
  <2>. QED
    BY <1>2, <2>1, NumbersOk
<1>9. PICK hdo \in Nat, ha \in Nat, hao \in Nat, dd \in Nat, ddo \in Nat, dao \in Nat :
        /\ HostDataOld = hdo /\ HostAcks = ha /\ HostAcksOld = hao
        /\ DevData = dd /\ DevDataOld = ddo /\ DevAcksOld = dao
  BY <1>2, CountTypes
<1>a. /\ HostData' = 1 /\ HostDataOld' = hdo /\ HostAcks' = ha /\ HostAcksOld' = hao
      /\ DevData' = dd /\ DevDataOld' = ddo /\ DevAcks' = 0 /\ DevAcksOld' = dao
  <2>1. /\ Is(x, "data", call) /\ ~Is(x, "data", call - 1)
        /\ ~Is(x, "ack", call) /\ ~Is(x, "ack", call - 1)
    BY <1>4, <1>5 DEF Is
  <2>2. /\ HostData' = HostData + Bit(Is(x, "data", call))
        /\ HostDataOld' = HostDataOld + Bit(Is(x, "data", call - 1))
        /\ HostAcks' = HostAcks + Bit(Is(x, "ack", call))
        /\ HostAcksOld' = HostAcksOld + Bit(Is(x, "ack", call - 1))
    BY <1>1, <1>2, <1>3, <1>4, <1>5, <1>8, ToHostPutCounts DEF x
  <2>. QED
    BY <1>2, <1>3, <1>7, <1>9, <2>1, <2>2, ToDevKept DEF Bit
<1>b. HostShape' /\ DevShape'
  <2>1. Len(rxbuf) = 0
    BY <1>4
  <2>. QED
    BY <1>1, <1>2, <1>3, <1>4, <1>5, <2>1 DEF HostShape, DevShape, Receiving
<1>c. FrameShape'
  <2>1. DevFragment' = x.hdr
    BY <1>1, <1>2, <1>5 DEF DevFragment
  <2>2. toHost \in Seq(Frames) /\ toHost' = Put(toHost, x)
    BY <1>1, <1>2 DEF TypeOK, x
  <2>3. ASSUME NEW p \in In(toHost')
        PROVE  /\ p.kind \in {"data", "ack"} /\ ~p.mem
               /\ Is(p, "data", devCall') => p.hdr = DevFragment'
    <3>1. p \in In(toHost) \/ p = x
      BY <1>5, <2>2, <2>3, InPut
    <3>. QED
      BY <1>2, <1>4, <1>5, <1>6, <2>1, <3>1 DEF FrameShape
  <2>4. In(toDev') = In(toDev)
    BY <1>2
  <2>. QED
    BY <1>2, <1>4, <1>6, <2>3, <2>4 DEF FrameShape
<1>d. OneToken'
  <2>1. ASSUME NEW k \in Int PROVE Tokens(k)' <= 1
    <3>1. /\ N(toHost', "data", k) = N(toHost, "data", k) + Bit(Is(x, "data", k))
          /\ N(toHost, "data", k) \in Nat /\ N(toDev, "ack", k) \in Nat
      BY <1>1, <1>2, <1>5, <1>8, CountPut, PlacesFinite DEF TypeOK, x
    <3>2. k # call => ~Is(x, "data", k)
      BY <1>5 DEF Is
    <3>3. N(toHost, "data", k) + N(toDev, "ack", k) <= 1
      BY <1>2 DEF OneToken, Tokens
    <3>4. Tokens(k)' = N(toHost', "data", k) + N(toDev, "ack", k)
      BY <1>2 DEF Tokens
    <3>5. CASE k = call
      BY <1>7, <3>1, <3>4, <3>5, BitType DEF HostData, DevAcks
    <3>6. CASE k # call
      BY <3>1, <3>2, <3>3, <3>4, <3>6 DEF Bit
    <3>. QED
      BY <3>5, <3>6
  <2>. QED
    BY <2>1 DEF OneToken
<1>e. Room'
  <2>1. Bit(ToBeDone) = 1 /\ Bit(ToBeDone') = 0
    BY <1>2, <1>3, <1>4 DEF ToBeDone, Bit
  <2>2. Load = 0 + ha + dd + 0 + hdo + hao + ddo + 1
    BY <1>2, <1>7, <1>9, <2>1, LoadType
  <2>3. 1 + ha + dd + 0 + hdo + hao + ddo + 0 <= Load
    BY <2>2
  <2>. QED
    BY <1>2, <1>3, <1>4, <1>a, <2>1, <2>3, RoomKept
<1>f. Requesting'
  <2>1. Asked' /\ devCall' = call' /\ HostDataOld' <= HostDataOld
    BY <1>2, <1>3, <1>4, <1>9, <1>a DEF Asked
  <2>. QED
    BY <1>2, <1>3, <2>1, RequestingKept
<1>g. Resting'
  BY <1>3, <1>4 DEF Resting
<1>h. Answering'
  <2>1. ~Unanswered'
    BY <1>2, <1>3, <1>4, <1>a DEF Unanswered
  <2>2. AckComes => AckComes'
    BY <1>1, <1>2, <1>3, <1>5, AckComesPut DEF x
  <2>3. PICK d \in {0, 1}, l \in Nat : d = Bit(~AckComes') /\ l = used.losses
    BY <1>2, BitType, NumbersOk
  <2>4. pc = "txWait" => d <= l
    <3>1. pc = "txWait" /\ ~AckComes => l >= 1
      BY <1>2, <1>4, <2>3 DEF Answering
    <3>2. AckComes => d = 0
      BY <2>2, <2>3 DEF Bit
    <3>. QED
      BY <2>3, <3>1, <3>2
  <2>5. DevTries - devTries' = 0 /\ Bit(Unanswered') = 0 /\ used'.losses = l
    BY <1>2, <2>1, <2>3, NumbersOk DEF Bit
  <2>6. 0 + 0 + d = d /\ 0 + 0 <= l
    BY <2>3
  <2>. QED
    BY <1>2, <1>3, <2>3, <2>4, <2>5, <2>6 DEF Answering
<1>. QED
  BY <1>b, <1>c, <1>d, <1>e, <1>f, <1>g, <1>h DEF Calm

(* It takes up a request: the ack it sends reaches the host before the     *)
(* response does.                                                          *)
LEMMA DevAcceptCalm ==
  ASSUME Recoverable, Sound, TypeOK', NEW p \in First(toDev), toDev' = Tail(toDev), DevAccept(p)
  PROVE  Calm'
<1>. DEFINE x == AckOf(p)
<1>1. /\ UNCHANGED <<hostVars, devLen, devOff, devTries, used>>
      /\ IsNewRequest(p) \/ IsNextFrag(p)
      /\ toHost' = Put(toHost, x) /\ devCall' = p.call /\ devGot' = Offset(p) + 1
      /\ p.hdr.last => devMode' = "exec"
      /\ TypeOK /\ OrderInv /\ WholeInv /\ FrameShape /\ CallsSucceed
      /\ HostShape /\ DevShape /\ OneToken /\ Room /\ Requesting /\ Answering
  BY DEF DevAccept, Sound, Calm
<1>2. UNCHANGED <<pc, call, outcome, retries, stuck, sent, reqLen, rxbuf, ids>>
  BY <1>1 DEF hostVars
<1>3. p \in In(toDev) /\ p.kind = "data" /\ p.hdr.first /\ p.hdr.last /\ p.hdr.txid # devTxid
  <2>1. p \in In(toDev) /\ ~IsNextFrag(p)
    BY <1>1, DevTakes DEF DevShape, IsNextFrag
  <2>. QED
    BY <1>1, <2>1 DEF FrameShape, IsNewRequest
<1>4. /\ p.call = call /\ call = devCall + 1 /\ devCall \in Nat /\ call \in Nat /\ devCall # call
      /\ call \in 0..MaxCalls /\ p \in Frames
  <2>1. p.call = call /\ call = devCall + 1
    BY <1>1, <1>3, DevFrameCall
  <2>2. devCall \in Nat /\ call \in Nat /\ p \in Frames
    BY <1>1, <1>3, CallsUnderWay
  <2>. QED
    BY <1>1, <2>1, <2>2 DEF TypeOK
<1>5. pc = "txWait"
  BY <1>1, <1>4, CallNow DEF TypeOK, Receiving
<1>6. x \in Frames /\ x.kind = "ack" /\ ~x.mem /\ x.call = call
  BY <1>4, AckType DEF AckOf, Frame
<1>. HIDE DEF x
<1>7. devMode' = "exec" /\ devCall' = call /\ devGot' = 1
  BY <1>1, <1>3, <1>4 DEF Offset
<1>8. /\ \A q \in In(toHost) : ~Is(q, "data", call)
      /\ \A q \in In(toDev) : ~Is(q, "ack", call)
  BY <1>1, <1>4, CallsUnderWay DEF Is
<1>9. HostData = 0 /\ DevAcks = 0
  BY <1>1, <1>8, CountNone DEF HostData, DevAcks, TypeOK
<1>a. Len(toHost) < ChanCap
  <2>1. Len(toHost) \in Nat /\ Len(toDev) \in Nat /\ Len(toDev) + Len(toHost) <= 4
    BY RoomOnLine
  <2>2. Len(toDev) >= 1
    BY <1>1, FirstType DEF TypeOK
  <2>. QED
    BY <1>1, <2>1, <2>2, NumbersOk
<1>b. PICK hdo \in Nat, ha \in Nat, hao \in Nat, dd \in Nat, ddo \in Nat, dao \in Nat :
        /\ HostDataOld = hdo /\ HostAcks = ha /\ HostAcksOld = hao
        /\ DevData = dd + 1 /\ DevDataOld = ddo /\ DevAcksOld = dao
        /\ DevData' = dd /\ DevDataOld' = ddo /\ DevAcks' = 0 /\ DevAcksOld' = dao
  <2>1. DevData = DevData' + 1 /\ DevDataOld' = DevDataOld /\ DevAcks' = DevAcks
        /\ DevAcksOld' = DevAcksOld
    BY <1>1, <1>2, <1>3, <1>4, DevTakesCounts DEF Is
  <2>2. DevData' \in Nat
    BY CountTypesNext
  <2>. QED
    BY <1>1, <1>9, <2>1, <2>2, CountTypes
<1>c. /\ HostData' = 0 /\ HostDataOld' = hdo /\ HostAcks' = ha + 1 /\ HostAcksOld' = hao
  <2>1. /\ ~Is(x, "data", call) /\ ~Is(x, "data", call - 1)
        /\ Is(x, "ack", call) /\ ~Is(x, "ack", call - 1)
    BY <1>4, <1>6 DEF Is
  <2>2. /\ HostData' = HostData + Bit(Is(x, "data", call))
        /\ HostDataOld' = HostDataOld + Bit(Is(x, "data", call - 1))
        /\ HostAcks' = HostAcks + Bit(Is(x, "ack", call))
        /\ HostAcksOld' = HostAcksOld + Bit(Is(x, "ack", call - 1))
    BY <1>1, <1>2, <1>4, <1>6, <1>a, ToHostPutCounts
  <2>. QED
    BY <1>9, <1>b, <2>1, <2>2 DEF Bit
<1>d. HostShape' /\ DevShape'
  BY <1>1, <1>2, <1>5, <1>7 DEF HostShape, DevShape, Receiving
<1>e. FrameShape'
  <2>1. toHost \in Seq(Frames) /\ In(toDev') \subseteq In(toDev)
    BY <1>1, DevTakes DEF TypeOK
  <2>2. ASSUME NEW q \in In(toHost')
        PROVE  q.kind \in {"data", "ack"} /\ ~q.mem /\ ~Is(q, "data", devCall')
    <3>1. q \in In(toHost) \/ q = x
      BY <1>1, <1>6, <2>1, <2>2, InPut
    <3>. QED
      BY <1>1, <1>6, <1>7, <1>8, <3>1 DEF FrameShape, Is
  <2>. QED
    BY <1>1, <1>7, <1>8, <2>1, <2>2 DEF FrameShape
<1>f. OneToken'
  <2>1. ASSUME NEW k \in Int
        PROVE  N(toHost', "data", k) + N(toDev', "ack", k) <= N(toHost, "data", k) + N(toDev, "ack", k)
    <3>0. toHost \in Seq(Frames)
      BY <1>1 DEF TypeOK
    <3>1. N(toHost', "data", k) = N(toHost, "data", k) + Bit(Is(x, "data", k))
      BY <1>1, <1>6, <1>a, <3>0, CountPut
    <3>2. ~Is(x, "data", k) /\ ~Is(p, "ack", k)
      BY <1>3, <1>6 DEF Is
    <3>3. N(toDev', "ack", k) = N(toDev, "ack", k)
      BY <1>1, <3>2, DevTakesOne
    <3>4. N(toHost, "data", k) \in Nat /\ N(toDev, "ack", k) \in Nat
      BY <1>1, PlacesFinite DEF TypeOK
    <3>. QED
      BY <3>1, <3>2, <3>3, <3>4 DEF Bit
  <2>. QED
    BY <1>1, <2>1, TokensKept
<1>g. Room'
  <2>1. Bit(ToBeDone) = 1 /\ Bit(ToBeDone') = 1
    BY <1>4, <1>7 DEF ToBeDone, Bit
  <2>2. Load = 0 + ha + (dd + 1) + 0 + hdo + hao + ddo + 1
    BY <1>1, <1>9, <1>b, <2>1, LoadType
  <2>3. 0 + (ha + 1) + dd + 0 + hdo + hao + ddo + 1 <= Load
    BY <2>2
  <2>. QED
    BY <1>1, <1>2, <1>5, <1>b, <1>c, <2>1, <2>3, RoomKept
<1>h. Requesting'
  <2>1. Asked' /\ devCall' = call' /\ HostDataOld' <= HostDataOld
    BY <1>2, <1>7, <1>b, <1>c DEF Asked
  <2>. QED
    BY <1>1, <1>2, <2>1, RequestingKept
<1>i. Resting'
  BY <1>2, <1>5 DEF Resting
<1>j. Answering'
  <2>1. AckComes'
    BY <1>1, <1>2, <1>6, <1>8, <1>a, AckPutComes DEF Is
  <2>. QED
    BY <1>2, <1>5, <1>7, <2>1 DEF Answering, Receiving
<1>. QED
  BY <1>d, <1>e, <1>f, <1>g, <1>h, <1>i, <1>j DEF Calm

(* It is sent a request it has already. *)
LEMMA DevRepeatAckCalm ==
  ASSUME Recoverable, Sound, TypeOK', NEW p \in First(toDev), toDev' = Tail(toDev), DevRepeatAck(p)
  PROVE  Calm'
<1>. DEFINE x == AckOf(p)
<1>1. /\ UNCHANGED <<hostVars, devVars, used>> /\ p.kind = "data" /\ p.hdr.txid = devTxid
      /\ toHost' = Put(toHost, x)
      /\ TypeOK /\ OrderInv /\ WholeInv /\ FrameShape /\ CallsSucceed
      /\ HostShape /\ DevShape /\ OneToken /\ Room /\ Requesting /\ Answering /\ Resting
  BY DEF DevRepeatAck, IsOldFrag, Sound, Calm
<1>2. /\ UNCHANGED <<pc, call, outcome, retries, stuck, sent, reqLen, rxbuf, ids>>
      /\ UNCHANGED <<devMode, devTxid, devCall, devGot, devLen, devOff, devTries>>
  BY <1>1 DEF hostVars, devVars
<1>3. /\ p.call = devCall /\ devCall \in {call - 1, call} /\ call \in Nat /\ call \in 0..MaxCalls
      /\ p \in Frames
  <2>1. p.call = devCall
    BY <1>1, DevFrameCall
  <2>2. p \in In(toDev)
    BY <1>1, DevTakes
  <2>. QED
    BY <1>1, <2>1, <2>2, CallsUnderWay DEF TypeOK
<1>4. x \in Frames /\ x.kind = "ack" /\ ~x.mem /\ x.call = devCall
  BY <1>3, AckType DEF AckOf, Frame
<1>. HIDE DEF x
<1>5. Len(toHost) < ChanCap
  <2>1. Len(toHost) \in Nat /\ Len(toDev) \in Nat /\ Len(toDev) + Len(toHost) <= 4
    BY RoomOnLine
  <2>2. Len(toDev) >= 1
    BY <1>1, FirstType DEF TypeOK
  <2>. QED
    BY <1>1, <2>1, <2>2, NumbersOk
<1>6. /\ HostData' = HostData + Bit(Is(x, "data", call))
      /\ HostDataOld' = HostDataOld + Bit(Is(x, "data", call - 1))
      /\ HostAcks' = HostAcks + Bit(Is(x, "ack", call))
      /\ HostAcksOld' = HostAcksOld + Bit(Is(x, "ack", call - 1))
  BY <1>1, <1>2, <1>3, <1>4, <1>5, ToHostPutCounts
<1>7. PICK hd \in Nat, hdo \in Nat, ha \in Nat, hao \in Nat, dd \in Nat, ddo \in Nat, da \in Nat, dao \in Nat :
        /\ HostData = hd /\ HostDataOld = hdo /\ HostAcks = ha /\ HostAcksOld = hao
        /\ DevData' = dd /\ DevDataOld' = ddo /\ DevAcks' = da /\ DevAcksOld' = dao
  <2>1. /\ HostData \in Nat /\ HostDataOld \in Nat /\ HostAcks \in Nat /\ HostAcksOld \in Nat
    BY <1>1, CountTypes
  <2>2. /\ DevData' \in Nat /\ DevDataOld' \in Nat /\ DevAcks' \in Nat /\ DevAcksOld' \in Nat
    BY CountTypesNext
  <2>. QED
    BY <2>1, <2>2
<1>8. /\ HostData' = hd /\ HostDataOld' = hdo /\ DevAcks = da /\ DevAcksOld = dao
      /\ \/ /\ devCall = call /\ HostAcks' = ha + 1 /\ HostAcksOld' = hao
            /\ DevData = dd + 1 /\ DevDataOld = ddo
         \/ /\ devCall # call /\ HostAcks' = ha /\ HostAcksOld' = hao + 1
            /\ DevData = dd /\ DevDataOld = ddo + 1
  <2>1. /\ ~Is(x, "data", call) /\ ~Is(x, "data", call - 1)
        /\ Is(x, "ack", call) <=> devCall = call
        /\ Is(x, "ack", call - 1) <=> devCall # call
    BY <1>3, <1>4 DEF Is
  <2>2. /\ Is(p, "data", call) <=> devCall = call
        /\ Is(p, "data", call - 1) <=> devCall # call
        /\ p.kind # "ack" /\ call # call - 1
    BY <1>1, <1>3 DEF Is
  <2>3. /\ DevAcks' = DevAcks /\ DevAcksOld' = DevAcksOld
        /\ devCall = call => DevData = DevData' + 1 /\ DevDataOld' = DevDataOld
        /\ devCall # call => DevDataOld = DevDataOld' + 1 /\ DevData' = DevData
    BY <1>1, <1>2, <2>2, DevTakesCounts DEF Is
  <2>. QED
    BY <1>6, <1>7, <2>1, <2>3 DEF Bit
<1>9. HostShape' /\ DevShape'
  BY <1>1, <1>2 DEF HostShape, DevShape, Receiving
<1>a. FrameShape'
  <2>1. toHost \in Seq(Frames) /\ In(toDev') \subseteq In(toDev) /\ DevFragment' = DevFragment
    BY <1>1, <1>2, DevTakes DEF TypeOK, DevFragment
  <2>2. ASSUME NEW q \in In(toHost') PROVE q \in In(toHost) \/ q = x
    BY <1>1, <1>4, <2>1, <2>2, InPut
  <2>. QED
    BY <1>1, <1>2, <1>4, <2>1, <2>2 DEF FrameShape, Is
<1>b. OneToken'
  <2>1. ASSUME NEW k \in Int
        PROVE  N(toHost', "data", k) + N(toDev', "ack", k) <= N(toHost, "data", k) + N(toDev, "ack", k)
    <3>0. toHost \in Seq(Frames)
      BY <1>1 DEF TypeOK
    <3>1. N(toHost', "data", k) = N(toHost, "data", k) + Bit(Is(x, "data", k))
      BY <1>1, <1>4, <1>5, <3>0, CountPut
    <3>2. ~Is(x, "data", k) /\ ~Is(p, "ack", k)
      BY <1>1, <1>4 DEF Is
    <3>3. N(toDev', "ack", k) = N(toDev, "ack", k)
      BY <1>1, <3>2, DevTakesOne
    <3>4. N(toHost, "data", k) \in Nat /\ N(toDev, "ack", k) \in Nat
      BY <1>1, PlacesFinite DEF TypeOK
    <3>. QED
      BY <3>1, <3>2, <3>3, <3>4 DEF Bit
  <2>. QED
    BY <1>1, <2>1, TokensKept
<1>c. Room'
  <2>1. ToBeDone' = ToBeDone /\ pc' = pc
    BY <1>2 DEF ToBeDone
  <2>2. PICK b \in {0, 1} : b = Bit(ToBeDone) /\ b = Bit(ToBeDone')
    BY <2>1, BitType
  <2>3. Load = HostData + HostAcks + DevData + DevAcks + HostDataOld + HostAcksOld + DevDataOld + b
    BY <1>1, <2>2, LoadType
  <2>4. PICK ha2 \in Nat, hao2 \in Nat : HostAcks' = ha2 /\ HostAcksOld' = hao2
    BY <1>8
  <2>5. hd + ha2 + dd + da + hdo + hao2 + ddo + b <= Load
    BY <1>7, <1>8, <2>3, <2>4
  <2>6. pc = "idle" => hd + ha2 + dd + da <= 2 /\ hd + ha2 + dd <= 1
    BY <1>1, <1>7, <1>8, <2>4 DEF Room
  <2>. QED
    BY <1>1, <1>7, <1>8, <2>1, <2>2, <2>4, <2>5, <2>6, RoomKept
<1>d. Requesting'
  <2>1. Asked => Asked'
    BY <1>2, <1>7, <1>8 DEF Asked
  <2>2. Unanswered' = Unanswered
    BY <1>2, <1>7, <1>8 DEF Unanswered
  <2>3. HostDataOld' <= HostDataOld
    BY <1>7, <1>8
  <2>. QED
    BY <1>1, <1>2, <2>1, <2>2, <2>3, RequestingKept
<1>e. Resting'
  BY <1>1, <1>2, <1>7, <1>8 DEF Resting
<1>f. Answering'
  <2>1. AckComes => AckComes'
    BY <1>1, <1>2, <1>4, AckComesPut
  <2>2. Unanswered' = Unanswered
    BY <1>2, <1>7, <1>8 DEF Unanswered
  <2>. QED
    BY <1>1, <1>2, <2>1, <2>2, AnsweringKept
<1>. QED
  BY <1>9, <1>a, <1>b, <1>c, <1>d, <1>e, <1>f DEF Calm

(* The acks the device takes are those of its response to the request at   *)
(* hand; what it and the host know of that response then agrees.           *)
LEMMA DevAckRead ==
  ASSUME Recoverable, Sound, TypeOK', NEW p \in First(toDev), toDev' = Tail(toDev), p.kind = "ack"
  PROVE  /\ AcksReply(p) <=> p.call = devCall
         /\ p.call = devCall =>
              /\ devMode = "reply" /\ Offset(p) = devOff /\ devCall >= 1
              /\ \A x \in In(toHost) : ~Is(x, "data", devCall)
              /\ \A x \in In(toDev') : ~Is(x, "ack", devCall)
              /\ N(toHost, "data", devCall) = 0 /\ N(toDev', "ack", devCall) = 0
<1>1. /\ TypeOK /\ OrderInv /\ WholeInv /\ FrameShape /\ HostShape /\ OneToken
      /\ toHost \in Seq(Frames) /\ toDev' \in Seq(Frames)
  BY DEF Sound, Calm, TypeOK
<1>2. p \in In(toDev)
  BY <1>1, DevTakes
<1>3. /\ devCall \in Nat /\ call \in Nat /\ devCall <= call
      /\ p.call \in {devCall - 1, devCall} /\ p.call >= 1 /\ p.call \in Nat
      /\ p.hdr.txid = ids[p.call]
  BY <1>1, <1>2, CallsUnderWay
<1>4. devTxid = ids[devCall] /\ devCall >= 1
  <2>1. devCall >= 1 /\ devCall # 0
    BY <1>3
  <2>. QED
    BY <1>1, <2>1 DEF OrderInv, DevInv
<1>5. ASSUME p.call = devCall
      PROVE  devMode = "reply" /\ p.hdr = DevFragment /\ Offset(p) = devOff /\ AcksReply(p)
  <2>1. devMode = "reply" /\ p.hdr = DevFragment
    BY <1>1, <1>2, <1>5 DEF FrameShape, Is
  <2>2. Offset(p) = devOff /\ p.hdr.txid = devTxid
    <3>1. devOff \in Nat /\ devLen \in Nat
      BY <1>1 DEF TypeOK
    <3>2. p.hdr = Header(devTxid, devOff, devLen)
      BY <2>1 DEF DevFragment
    <3>. QED
      BY <3>1, <3>2, HeaderOffset
  <2>. QED
    BY <2>1, <2>2 DEF AcksReply, DevFragment
<1>6. ASSUME AcksReply(p) PROVE p.call = devCall
  <2>1. SUFFICES ASSUME p.call = devCall - 1 PROVE FALSE
    BY <1>3
  <2>2. devCall \in 2..call
    BY <1>3, <2>1
  <2>3. ids[devCall] # ids[devCall - 1]
    BY <1>1, <2>2 DEF HostShape
  <2>. QED
    BY <1>3, <1>4, <1>6, <2>1, <2>3 DEF AcksReply
<1>7. ASSUME p.call = devCall
      PROVE  N(toHost, "data", devCall) = 0 /\ N(toDev', "ack", devCall) = 0
  <2>1. N(toDev, "ack", devCall) = N(toDev', "ack", devCall) + 1
    BY <1>1, <1>7, DevTakesOne
  <2>2. N(toHost, "data", devCall) + N(toDev, "ack", devCall) <= 1
    BY <1>1, <1>3 DEF OneToken, Tokens
  <2>3. N(toHost, "data", devCall) \in Nat /\ N(toDev', "ack", devCall) \in Nat
    BY <1>1, PlacesFinite
  <2>. QED
    BY <2>1, <2>2, <2>3
<1>8. ASSUME p.call = devCall
      PROVE  /\ \A x \in In(toHost) : ~Is(x, "data", devCall)
             /\ \A x \in In(toDev') : ~Is(x, "ack", devCall)
  <2>1. ASSUME NEW x \in In(toHost), Is(x, "data", devCall) PROVE FALSE
    <3>1. N(toHost, "data", devCall) >= 1
      BY <1>1, <2>1, CountSome
    <3>. QED
      BY <1>7, <1>8, <3>1
  <2>2. ASSUME NEW x \in In(toDev'), Is(x, "ack", devCall) PROVE FALSE
    <3>1. N(toDev', "ack", devCall) >= 1
      BY <1>1, <2>2, CountSome
    <3>. QED
      BY <1>7, <1>8, <3>1
  <2>. QED
    BY <2>1, <2>2
<1>. QED
  BY <1>4, <1>5, <1>6, <1>7, <1>8

(* An ack of an earlier response. *)
LEMMA DevGetsOtherCalm ==
  ASSUME Recoverable, Sound, TypeOK', NEW p \in First(toDev), toDev' = Tail(toDev), p.kind = "ack",
         p.call # devCall, UNCHANGED <<hostVars, toHost, devVars, used>>
  PROVE  Calm'
<1>1. /\ UNCHANGED <<pc, call, outcome, retries, stuck, sent, reqLen, rxbuf, ids, toHost, used>>
      /\ UNCHANGED <<devMode, devTxid, devCall, devGot, devLen, devOff, devTries>>
      /\ TypeOK /\ OrderInv /\ WholeInv /\ FrameShape /\ CallsSucceed
      /\ HostShape /\ DevShape /\ OneToken /\ Room /\ Requesting /\ Answering /\ Resting
  BY DEF Sound, Calm, hostVars, devVars
<1>2. /\ p.call = devCall - 1 /\ devCall \in {call - 1, call} /\ call \in Nat /\ devCall \in Nat
  BY <1>1, DevTakesOne, CallsUnderWay
<1>3. PICK hd \in Nat, hdo \in Nat, ha \in Nat, hao \in Nat, dd \in Nat, ddo \in Nat, da \in Nat, dao \in Nat :
        /\ HostData' = hd /\ HostDataOld' = hdo /\ HostAcks' = ha /\ HostAcksOld' = hao
        /\ DevData' = dd /\ DevDataOld' = ddo /\ DevAcks' = da /\ DevAcksOld' = dao
  BY CountTypesNext
<1>4. /\ HostData = hd /\ HostDataOld = hdo /\ HostAcks = ha /\ HostAcksOld = hao
      /\ DevData = dd /\ DevDataOld = ddo /\ DevAcks = da /\ (devCall # call => DevAcksOld = dao)
  <2>1. /\ ~Is(p, "data", call) /\ ~Is(p, "data", call - 1) /\ ~Is(p, "ack", call)
        /\ devCall # call => ~Is(p, "ack", call - 1)
    BY <1>2 DEF Is
  <2>2. /\ DevData' = DevData /\ DevDataOld' = DevDataOld /\ DevAcks' = DevAcks
        /\ devCall # call => DevAcksOld' = DevAcksOld
    BY <1>1, <2>1, DevTakesCounts
  <2>. QED
    BY <1>1, <1>3, <2>2, ToHostKept
<1>5. HostShape' /\ DevShape'
  BY <1>1 DEF HostShape, DevShape, Receiving
<1>6. FrameShape'
  <2>1. In(toDev') \subseteq In(toDev) /\ In(toHost') = In(toHost) /\ DevFragment' = DevFragment
    BY <1>1, DevTakes DEF DevFragment
  <2>. QED
    BY <1>1, <2>1 DEF FrameShape
<1>7. OneToken'
  BY <1>1, DevTakesFewer
<1>8. Room'
  <2>1. ToBeDone' = ToBeDone /\ pc' = pc
    BY <1>1 DEF ToBeDone
  <2>2. PICK b \in {0, 1} : b = Bit(ToBeDone) /\ b = Bit(ToBeDone')
    BY <2>1, BitType
  <2>3. Load = HostData + HostAcks + DevData + DevAcks + HostDataOld + HostAcksOld + DevDataOld + b
    BY <1>1, <2>2, LoadType
  <2>4. hd + ha + dd + da + hdo + hao + ddo + b <= Load
    BY <1>4, <2>3
  <2>5. pc = "idle" => hd + ha + dd + da <= 2 /\ hd + ha + dd <= 1
    BY <1>1, <1>4 DEF Room
  <2>. QED
    BY <1>1, <1>3, <2>1, <2>2, <2>4, <2>5, RoomKept
<1>9. Asked' = Asked /\ Unanswered' = Unanswered /\ AckComes' = AckComes
  BY <1>1, <1>3, <1>4 DEF Asked, Unanswered, AckComes
<1>a. Requesting'
  <2>1. HostDataOld' <= HostDataOld
    BY <1>3, <1>4
  <2>. QED
    BY <1>1, <1>9, <2>1, RequestingKept
<1>b. Resting'
  BY <1>1, <1>3, <1>4 DEF Resting
<1>c. Answering'
  BY <1>1, <1>9, AnsweringKept
<1>. QED
  BY <1>5, <1>6, <1>7, <1>8, <1>a, <1>b, <1>c DEF Calm

(* The ack of the last fragment: with a call under way the host has not    *)
(* sent it, for it would have returned.                                    *)
LEMMA DevGetsLastCalm ==
  ASSUME Recoverable, Sound, TypeOK', NEW p \in First(toDev), toDev' = Tail(toDev), p.kind = "ack",
         p.call = devCall, devOff + 1 = devLen, devMode' = "wait", devOff' = devOff + 1,
         UNCHANGED <<hostVars, toHost, devTxid, devCall, devGot, devLen, devTries, execs, used>>
  PROVE  Calm'
<1>1. /\ UNCHANGED <<pc, call, outcome, retries, stuck, sent, reqLen, rxbuf, ids, toHost, used>>
      /\ TypeOK /\ OrderInv /\ WholeInv /\ FrameShape /\ CallsSucceed
      /\ HostShape /\ DevShape /\ OneToken /\ Room /\ Requesting /\ Answering /\ Resting
  BY DEF Sound, Calm, hostVars
<1>2. /\ devCall \in {call - 1, call} /\ call \in Nat /\ devCall \in Nat /\ p \in In(toDev)
  BY <1>1, DevTakes, CallsUnderWay
<1>3. /\ devMode = "reply" /\ Offset(p) = devOff /\ devCall >= 1
      /\ \A x \in In(toHost) : ~Is(x, "data", devCall)
      /\ \A x \in In(toDev') : ~Is(x, "ack", devCall)
  BY DevAckRead
<1>4. PICK hd \in Nat, hdo \in Nat, ha \in Nat, hao \in Nat, dd \in Nat, ddo \in Nat, da \in Nat, dao \in Nat :
        /\ HostData' = hd /\ HostDataOld' = hdo /\ HostAcks' = ha /\ HostAcksOld' = hao
        /\ DevData' = dd /\ DevDataOld' = ddo /\ DevAcks' = da /\ DevAcksOld' = dao
  BY CountTypesNext
<1>5. /\ HostData = hd /\ HostDataOld = hdo /\ HostAcks = ha /\ HostAcksOld = hao
      /\ DevData = dd /\ DevDataOld = ddo /\ (DevAcks = da \/ DevAcks = da + 1)
  <2>1. ~Is(p, "data", call) /\ ~Is(p, "data", call - 1)
    BY DEF Is
  <2>2. /\ DevData' = DevData /\ DevDataOld' = DevDataOld
        /\ DevAcks' = DevAcks \/ DevAcks = DevAcks' + 1
    BY <1>1, <2>1, DevTakesCounts
  <2>. QED
    BY <1>1, <1>4, <2>2, ToHostKept
<1>6. HostShape' /\ DevShape'
  BY <1>1, <1>3 DEF HostShape, DevShape, Receiving
<1>7. FrameShape'
  <2>1. In(toDev') \subseteq In(toDev) /\ In(toHost') = In(toHost)
    BY <1>1, DevTakes
  <2>. QED
    BY <1>1, <1>3, <2>1 DEF FrameShape
<1>8. OneToken'
  BY <1>1, DevTakesFewer
<1>9. Room'
  <2>1. ToBeDone' = ToBeDone /\ pc' = pc
    BY <1>1, <1>3 DEF ToBeDone
  <2>2. PICK b \in {0, 1} : b = Bit(ToBeDone) /\ b = Bit(ToBeDone')
    BY <2>1, BitType
  <2>3. Load = HostData + HostAcks + DevData + DevAcks + HostDataOld + HostAcksOld + DevDataOld + b
    BY <1>1, <2>2, LoadType
  <2>4. hd + ha + dd + da + hdo + hao + ddo + b <= Load
    BY <1>5, <2>3
  <2>5. pc = "idle" => hd + ha + dd + da <= 2 /\ hd + ha + dd <= 1
    BY <1>1, <1>5 DEF Room
  <2>. QED
    BY <1>1, <1>4, <2>1, <2>2, <2>4, <2>5, RoomKept
<1>a. Requesting'
  <2>1. Asked' = Asked
    BY <1>1, <1>3, <1>4, <1>5 DEF Asked
  <2>2. ~Unanswered'
    BY DEF Unanswered
  <2>3. HostDataOld' <= HostDataOld
    BY <1>4, <1>5
  <2>. QED
    BY <1>1, <2>1, <2>2, <2>3, RequestingKept
<1>b. Resting'
  BY DEF Resting
<1>c. pc = "idle" \/ devCall # call
  <2>1. SUFFICES ASSUME pc # "idle", devCall = call PROVE FALSE
    OBVIOUS
  <2>2. Replied
    BY <1>1, <1>3, <2>1 DEF Replied, OrderInv, DevInv
  <2>3. Offset(p) < Len(rxbuf)
    BY <1>1, <1>2, <2>1 DEF WholeInv, InStep
  <2>4. Receiving => Len(rxbuf) < devLen
    BY <1>1, <2>2 DEF WholeInv, BufferOk
  <2>5. pc = "txWait" => Len(rxbuf) = 0
    BY <1>1 DEF WholeInv, BufferOk
  <2>6. pc = "txWait" \/ Receiving
    BY <1>1, <2>1 DEF TypeOK, Receiving
  <2>7. Len(rxbuf) \in Nat /\ devOff \in Nat
    BY <1>1 DEF TypeOK
  <2>. QED
    BY <1>3, <2>3, <2>4, <2>5, <2>6, <2>7
<1>d. Answering'
  BY <1>1, <1>c DEF Answering
<1>. QED
  BY <1>6, <1>7, <1>8, <1>9, <1>a, <1>b, <1>d DEF Calm

(* The ack of a fragment before the last: the device sends the next one.   *)
LEMMA DevGetsMoreCalm ==
  ASSUME Recoverable, Sound, TypeOK', NEW p \in First(toDev), toDev' = Tail(toDev), p.kind = "ack",
         p.call = devCall, devOff + 1 # devLen, devTries' = DevTries, devOff' = devOff + 1,
         toHost' = Put(toHost, DevFrag(devOff + 1, devLen)),
         UNCHANGED <<hostVars, devMode, devTxid, devCall, devGot, devLen, execs, used>>
  PROVE  Calm'
<1>. DEFINE x == DevFrag(devOff + 1, devLen)
<1>1. /\ UNCHANGED <<pc, call, outcome, retries, stuck, sent, reqLen, rxbuf, ids>>
      /\ TypeOK /\ OrderInv /\ WholeInv /\ FrameShape /\ CallsSucceed
      /\ HostShape /\ DevShape /\ OneToken /\ Room /\ Requesting /\ Answering /\ Resting
  BY DEF Sound, Calm, hostVars
<1>2. /\ devCall \in {call - 1, call} /\ call \in Nat /\ devCall \in Nat /\ p \in In(toDev)
      /\ devCall \in 0..MaxCalls /\ devOff \in Nat /\ devLen \in Nat /\ devTxid \in Txids
  BY <1>1, DevTakes, CallsUnderWay DEF TypeOK
<1>3. /\ devMode = "reply" /\ Offset(p) = devOff /\ devCall >= 1
      /\ \A y \in In(toHost) : ~Is(y, "data", devCall)
      /\ \A y \in In(toDev') : ~Is(y, "ack", devCall)
      /\ N(toHost, "data", devCall) = 0 /\ N(toDev', "ack", devCall) = 0
  BY DevAckRead
<1>4. devCall = call /\ outcome # "ok" /\ devOff + 1 < devLen
  BY <1>1, <1>2, <1>3 DEF DevShape
<1>5. pc = "rxNext"
  <2>1. Offset(p) < Len(rxbuf)
    BY <1>1, <1>2, <1>4 DEF WholeInv, InStep
  <2>2. rxbuf # <<>>
    BY <1>2, <1>3, <2>1
  <2>3. pc \notin {"txWait", "rxFirst"}
    BY <1>1, <2>2 DEF WholeInv, BufferOk
  <2>4. pc # "idle"
    BY <1>1, <1>2, <1>3, <1>4, CallNow
  <2>. QED
    BY <1>1, <2>3, <2>4 DEF TypeOK
<1>6. x \in Frames /\ x.kind = "data" /\ ~x.mem /\ x.call = call /\ x.hdr = DevFragment'
  <2>1. x = Data(devTxid, devOff + 1, devLen, devCall)
    BY DEF DevFrag
  <2>2. devOff + 1 \in Nat
    BY <1>2
  <2>3. x \in Frames
    BY <1>2, <2>1, <2>2, DataType
  <2>4. x.kind = "data" /\ ~x.mem /\ x.call = devCall /\ x.hdr = Header(devTxid, devOff + 1, devLen)
    BY <1>2, <2>1, <2>2, DataFields
  <2>. QED
    BY <1>4, <2>3, <2>4 DEF DevFragment
<1>. HIDE DEF x
<1>7. Len(toHost) < ChanCap
  <2>1. Len(toHost) \in Nat /\ Len(toDev) \in Nat /\ Len(toDev) + Len(toHost) <= 4
    BY RoomOnLine
  <2>2. Len(toDev) >= 1
    BY <1>1, FirstType DEF TypeOK
  <2>. QED
    BY <1>1, <2>1, <2>2, NumbersOk
<1>8. PICK hdo \in Nat, ha \in Nat, hao \in Nat, dd \in Nat, ddo \in Nat :
        /\ HostDataOld = hdo /\ HostAcks = ha /\ HostAcksOld = hao /\ DevData = dd /\ DevDataOld = ddo
        /\ HostData = 0 /\ DevAcks = 1
        /\ DevData' = dd /\ DevDataOld' = ddo /\ DevAcks' = 0
  <2>1. /\ Is(p, "ack", call) /\ ~Is(p, "ack", call - 1)
        /\ ~Is(p, "data", call) /\ ~Is(p, "data", call - 1)
    BY <1>2, <1>4 DEF Is
  <2>2. /\ DevAcks = DevAcks' + 1 /\ DevData' = DevData /\ DevDataOld' = DevDataOld
    BY <1>1, <1>2, <2>1, DevTakesCounts DEF Is
  <2>3. HostData = 0 /\ DevAcks' = 0
    BY <1>1, <1>3, <1>4 DEF HostData, DevAcks
  <2>. QED
    BY <1>1, <2>2, <2>3, CountTypes
<1>9. /\ HostData' = 1 /\ HostDataOld' = hdo /\ HostAcks' = ha /\ HostAcksOld' = hao
  <2>1. /\ Is(x, "data", call) /\ ~Is(x, "data", call - 1)
        /\ ~Is(x, "ack", call) /\ ~Is(x, "ack", call - 1)
    BY <1>2, <1>6 DEF Is
  <2>2. /\ HostData' = HostData + Bit(Is(x, "data", call))
        /\ HostDataOld' = HostDataOld + Bit(Is(x, "data", call - 1))
        /\ HostAcks' = HostAcks + Bit(Is(x, "ack", call))
        /\ HostAcksOld' = HostAcksOld + Bit(Is(x, "ack", call - 1))
    BY <1>1, <1>2, <1>6, <1>7, ToHostPutCounts DEF x
  <2>. QED
    BY <1>8, <2>1, <2>2 DEF Bit
<1>a. HostShape' /\ DevShape'
  <2>1. Len(rxbuf) <= devOff + 1 /\ Len(rxbuf) \in Nat
    BY <1>1, <1>3, <1>5 DEF HostShape, Receiving, TypeOK
  <2>2. Len(rxbuf) <= devOff' + 1 /\ devOff' < devLen
    BY <1>2, <1>4, <2>1
  <2>. QED
    BY <1>1, <1>3, <1>4, <1>5, <2>2 DEF HostShape, DevShape, Receiving
<1>b. FrameShape'
  <2>1. toHost \in Seq(Frames) /\ In(toDev') \subseteq In(toDev)
    BY <1>1, DevTakes DEF TypeOK
  <2>2. ASSUME NEW q \in In(toHost') PROVE q \in In(toHost) \/ q = x
    BY <1>6, <2>1, <2>2, InPut DEF x
  <2>3. devCall' = devCall /\ devMode' = devMode
    OBVIOUS
  <2>. QED
    BY <1>1, <1>3, <1>6, <2>1, <2>2, <2>3 DEF FrameShape
<1>c. OneToken'
  <2>1. ASSUME NEW k \in Int
        PROVE  N(toHost', "data", k) + N(toDev', "ack", k) <= N(toHost, "data", k) + N(toDev, "ack", k)
    <3>0. toHost \in Seq(Frames) /\ toDev \in Seq(Frames)
      BY <1>1 DEF TypeOK
    <3>1. N(toHost', "data", k) = N(toHost, "data", k) + Bit(Is(x, "data", k))
      BY <1>6, <1>7, <3>0, CountPut DEF x
    <3>2. CASE k = call
      <4>1. N(toDev, "ack", k) = N(toDev', "ack", k) + 1
        BY <1>1, <1>4, <3>2, DevTakesOne
      <4>2. Bit(Is(x, "data", k)) = 1
        BY <1>6, <3>2 DEF Is, Bit
      <4>. QED
        BY <1>3, <1>4, <3>1, <3>2, <4>1, <4>2
    <3>3. CASE k # call
      <4>1. ~Is(x, "data", k) /\ ~Is(p, "ack", k)
        BY <1>4, <1>6, <3>3 DEF Is
      <4>2. N(toDev', "ack", k) = N(toDev, "ack", k)
        BY <1>1, <4>1, DevTakesOne
      <4>3. N(toHost, "data", k) \in Nat /\ N(toDev, "ack", k) \in Nat
        BY <3>0, PlacesFinite
      <4>. QED
        BY <3>1, <4>1, <4>2, <4>3 DEF Bit
    <3>. QED
      BY <3>2, <3>3
  <2>. QED
    BY <1>1, <2>1, TokensKept
<1>d. Room'
  <2>1. ToBeDone' = ToBeDone /\ pc' = pc
    BY <1>1 DEF ToBeDone
  <2>2. PICK b \in {0, 1} : b = Bit(ToBeDone) /\ b = Bit(ToBeDone')
    BY <2>1, BitType
  <2>3. Load = 0 + ha + dd + 1 + hdo + hao + ddo + b
    BY <1>1, <1>8, <2>2, LoadType
  <2>4. 1 + ha + dd + 0 + hdo + hao + ddo + b <= Load
    BY <1>8, <2>2, <2>3
  <2>. QED
    BY <1>1, <1>5, <1>8, <1>9, <2>1, <2>2, <2>4, RoomKept
<1>e. Requesting'
  BY <1>1, <1>5 DEF Requesting
<1>f. Resting'
  BY <1>1, <1>5 DEF Resting
<1>g. Answering'
  <2>1. ~Unanswered'
    BY <1>1, <1>3, <1>4, <1>8, <1>9 DEF Unanswered
  <2>2. DevTries - devTries' = 0 /\ Bit(Unanswered') = 0 /\ used'.losses \in Nat
    BY <1>1, <2>1, NumbersOk DEF Bit
  <2>. QED
    BY <1>1, <1>3, <1>5, <2>2 DEF Answering
<1>. QED
  BY <1>a, <1>b, <1>c, <1>d, <1>e, <1>f, <1>g DEF Calm

LEMMA DevReadsCalm ==
  ASSUME Recoverable, Sound, TypeOK', DevReads
  PROVE  Calm'
<1>1. PICK p \in First(toDev) :
        /\ toDev' = Tail(toDev)
        /\ DevAccept(p) \/ DevMemErr(p) \/ DevRepeatAck(p) \/ DevIgnore(p) \/ DevGetsAck(p)
  BY DEF DevReads
<1>2. /\ TypeOK /\ OrderInv /\ WholeInv /\ FrameShape /\ DevShape /\ p \in In(toDev)
  BY <1>1, DevTakes DEF Sound, Calm
<1>3. CASE DevAccept(p)
  BY <1>1, <1>3, DevAcceptCalm
<1>4. CASE DevMemErr(p)
  <2>1. MaxMemErrs = 0 /\ used["memerrs"] < MaxMemErrs /\ used \in Budgets
    BY <1>2, <1>4 DEF DevMemErr, Spend, Recoverable, TypeOK
  <2>. QED
    BY <2>1 DEF Budgets
<1>5. CASE DevRepeatAck(p)
  BY <1>1, <1>5, DevRepeatAckCalm
<1>6. CASE DevIgnore(p)
  <2>1. p.kind = "data" /\ p.hdr.first /\ p.hdr.txid = devTxid
    BY <1>2, <1>6 DEF DevIgnore, FrameShape, IsNewRequest
  <2>2. p.call = devCall /\ p.call >= 1
    BY <1>1, <1>2, <2>1, DevFrameCall, CallsUnderWay
  <2>3. Offset(p) = 0 /\ devGot = 1
    BY <1>2, <2>1, <2>2 DEF Offset, DevShape
  <2>. QED
    BY <1>6, <2>1, <2>3 DEF DevIgnore, IsOldFrag
<1>7. CASE DevGetsAck(p)
  <2>1. p.kind = "ack" /\ (AcksReply(p) <=> p.call = devCall)
    BY <1>1, <1>7, DevAckRead DEF DevGetsAck
  <2>2. CASE ~AcksReply(p)
    <3>1. UNCHANGED <<hostVars, toHost, devVars, used>>
      BY <1>7, <2>2 DEF DevGetsAck, devVars
    <3>. QED
      BY <1>1, <2>1, <2>2, <3>1, DevGetsOtherCalm
  <2>3. CASE AcksReply(p) /\ devOff + 1 = devLen
    <3>1. /\ devMode' = "wait" /\ devOff' = devOff + 1
          /\ UNCHANGED <<hostVars, toHost, devTxid, devCall, devGot, devLen, devTries, execs, used>>
      BY <1>7, <2>3 DEF DevGetsAck
    <3>. QED
      BY <1>1, <2>1, <2>3, <3>1, DevGetsLastCalm
  <2>4. CASE AcksReply(p) /\ devOff + 1 # devLen
    <3>1. /\ devTries' = DevTries /\ devOff' = devOff + 1
          /\ toHost' = Put(toHost, DevFrag(devOff + 1, devLen))
          /\ UNCHANGED <<hostVars, devMode, devTxid, devCall, devGot, devLen, execs, used>>
      BY <1>7, <2>4 DEF DevGetsAck
    <3>. QED
      BY <1>1, <2>1, <2>4, <3>1, DevGetsMoreCalm
  <2>. QED
    BY <2>2, <2>3, <2>4
<1>. QED
  BY <1>1, <1>3, <1>4, <1>5, <1>6, <1>7

LEMMA NoTickles ==
  ASSUME Recoverable, TypeOK
  PROVE  ~DevTickle
<1>1. SUFFICES ASSUME DevTickle PROVE FALSE
  OBVIOUS
<1>2. MaxTickles = 0 /\ used["tickles"] < MaxTickles /\ used \in Budgets
  BY <1>1 DEF DevTickle, Spend, Recoverable, TypeOK
<1>. QED
  BY <1>2 DEF Budgets

LEMMA DeviceCalm ==
  ASSUME Recoverable, Sound, TypeOK',
         DevReads \/ DevReply \/ DevResend \/ DevGiveUp \/ DevTickle \/ LoseToDev \/ LoseToHost
  PROVE  Calm'
BY DevReadsCalm, DevReplyCalm, DevResendCalm, DevGiveUpCalm, NoTickles, LoseToDevCalm, LoseToHostCalm
   DEF Sound

-----------------------------------------------------------------------------
(* The host. *)

LEMMA HostFrameRead ==
  ASSUME Sound, NEW p \in First(toHost), toHost' = Tail(toHost), pc # "idle"
  PROVE  /\ p \in In(toHost) /\ p \in Frames /\ p.kind \in {"data", "ack"} /\ ~p.mem
         /\ p.call \in {call - 1, call} /\ p.call <= devCall /\ p.call \in Nat
         /\ p.hdr.txid = txid <=> p.call = call
<1>1. TypeOK /\ OrderInv /\ WholeInv /\ FrameShape
  BY DEF Sound, Calm
<1>2. p \in In(toHost)
  BY <1>1, HostTakes
<1>3. /\ p \in Frames /\ p.kind \in {"data", "ack"} /\ ~p.mem
      /\ p.call \in {call - 1, call} /\ p.call <= devCall /\ p.call \in Nat
      /\ p.hdr.txid = ids[p.call]
  BY <1>1, <1>2, CallsUnderWay DEF FrameShape
<1>4. txid = ids[call]
  BY <1>1 DEF OrderInv, IdsInv
<1>5. p.hdr.txid = txid => p.call = call
  BY <1>1, <1>3, HostFrameCall
<1>. QED
  BY <1>2, <1>3, <1>4, <1>5

(* A fragment of the response: its ack is on the way instead, and it is    *)
(* the last the device has to wait for when it ends the call.              *)
LEMMA RxAcceptCalm ==
  ASSUME Recoverable, Sound, TypeOK', NEW p \in First(toHost), toHost' = Tail(toHost), RxAccept(p)
  PROVE  Calm'
<1>. DEFINE x == AckOf(p)
<1>1. /\ UNCHANGED <<call, retries, sent, reqLen, stuck, ids, devVars, used>>
      /\ Receiving /\ IsWanted(p) /\ toDev' = Put(toDev, x)
      /\ rxbuf' = IF Offset(p) = Len(rxbuf)
                  THEN Append(rxbuf, [call |-> p.call, off |-> Offset(p)]) ELSE rxbuf
      /\ TypeOK /\ OrderInv /\ WholeInv /\ FrameShape /\ CallsSucceed
      /\ HostShape /\ DevShape /\ OneToken /\ Room /\ Requesting /\ Answering /\ Resting
  BY DEF RxAccept, Acked, Sound, Calm
<1>2. UNCHANGED <<devMode, devTxid, devCall, devGot, devLen, devOff, devTries, execs>>
  BY <1>1 DEF devVars
<1>3. \/ p.hdr.last /\ pc' = "idle" /\ outcome' = "ok"
      \/ ~p.hdr.last /\ pc' = "rxNext" /\ outcome' = outcome
  BY DEF RxAccept, EndsResponse, Return
<1>4. pc # "idle" /\ pc # "txWait" /\ devCall = call
  BY <1>1 DEF Receiving, HostShape
<1>5. /\ p \in In(toHost) /\ p \in Frames /\ p.kind = "data" /\ p.call = call
      /\ call \in Nat /\ (p.hdr.first <=> pc = "rxFirst")
  BY <1>1, <1>4, HostFrameRead, CallsUnderWay DEF IsWanted
<1>6. devMode = "reply" /\ p.hdr = DevFragment
  BY <1>1, <1>4, <1>5 DEF FrameShape, Is
<1>7. /\ Offset(p) = devOff /\ (p.hdr.last <=> devOff + 1 = devLen) /\ (p.hdr.first <=> devOff = 0)
      /\ devOff \in Nat /\ devLen \in Nat
  <2>1. devOff \in Nat /\ devLen \in Nat
    BY <1>1 DEF TypeOK
  <2>2. p.hdr = Header(devTxid, devOff, devLen)
    BY <1>6 DEF DevFragment
  <2>. QED
    BY <2>1, <2>2, HeaderOffset
<1>8. /\ Len(rxbuf) \in Nat /\ devOff <= Len(rxbuf) /\ Len(rxbuf) <= devOff + 1
      /\ rxbuf \in Seq(Pieces)
  <2>1. Replied
    BY <1>1, <1>5 DEF WholeInv, InStep, Own
  <2>. QED
    BY <1>1, <1>6, <2>1 DEF WholeInv, BufferOk, HostShape, TypeOK
<1>9. x \in Frames /\ x.kind = "ack" /\ ~x.mem /\ x.call = call /\ x.hdr = DevFragment
  BY <1>5, <1>6, AckType DEF AckOf, Frame
<1>. HIDE DEF x
<1>a. Len(toDev) < ChanCap
  <2>1. Len(toHost) \in Nat /\ Len(toDev) \in Nat /\ Len(toDev) + Len(toHost) <= 4
    BY RoomOnLine
  <2>2. Len(toHost) >= 1
    BY <1>1, FirstType DEF TypeOK
  <2>. QED
    BY <1>1, <2>1, <2>2, NumbersOk
<1>b. PICK hdo \in Nat, ha \in Nat, hao \in Nat, dd \in Nat, ddo \in Nat :
        /\ HostDataOld = hdo /\ HostAcks = ha /\ HostAcksOld = hao /\ DevData = dd /\ DevDataOld = ddo
        /\ HostData = 1 /\ DevAcks = 0
        /\ HostData' = 0 /\ HostDataOld' = hdo /\ HostAcks' = ha /\ HostAcksOld' = hao
  <2>1. /\ Is(p, "data", call) /\ ~Is(p, "data", call - 1) /\ ~Is(p, "ack", call) /\ ~Is(p, "ack", call - 1)
    BY <1>5 DEF Is
  <2>2. /\ HostData = HostData' + 1 /\ HostDataOld' = HostDataOld
        /\ HostAcks' = HostAcks /\ HostAcksOld' = HostAcksOld
    BY <1>1, <2>1, HostTakesCounts
  <2>3. PICK h \in Nat : h = HostData'
    BY CountTypesNext
  <2>4. HostData + DevAcks <= 1 /\ DevAcks \in Nat
    BY <1>1, <1>5, TokenCounts, CountTypes
  <2>5. /\ HostDataOld \in Nat /\ HostAcks \in Nat /\ HostAcksOld \in Nat
        /\ DevData \in Nat /\ DevDataOld \in Nat
    BY <1>1, CountTypes
  <2>6. HostData = h + 1
    BY <2>2, <2>3
  <2>7. HostData = 1 /\ DevAcks = 0 /\ h = 0
    BY <2>4, <2>6
  <2>. QED
    BY <2>2, <2>3, <2>5, <2>7
<1>c. DevData' = dd /\ DevDataOld' = ddo /\ DevAcks' = 1
  <2>1. /\ ~Is(x, "data", call) /\ ~Is(x, "data", call - 1) /\ Is(x, "ack", call)
    BY <1>9 DEF Is
  <2>2. /\ DevData' = DevData + Bit(Is(x, "data", call))
        /\ DevDataOld' = DevDataOld + Bit(Is(x, "data", call - 1))
        /\ DevAcks' = DevAcks + Bit(Is(x, "ack", call))
    BY <1>1, <1>5, <1>9, <1>a, ToDevPutCounts
  <2>. QED
    BY <1>b, <2>1, <2>2 DEF Bit
<1>d. HostShape'
  <2>1. pc' = "rxNext" => Len(rxbuf') <= devOff + 1 /\ rxbuf' # <<>>
    <3>1. CASE Len(rxbuf) = devOff
      BY <1>1, <1>7, <1>8, <3>1
    <3>2. CASE Len(rxbuf) = devOff + 1
      <4>1. rxbuf' = rxbuf /\ rxbuf # <<>>
        BY <1>1, <1>7, <1>8, <3>2
      <4>. QED
        BY <3>2, <4>1
    <3>. QED
      BY <1>7, <1>8, <3>1, <3>2
  <2>. QED
    BY <1>1, <1>2, <1>3, <1>4, <2>1 DEF HostShape, Receiving
<1>e. DevShape'
  BY <1>1, <1>2, <1>3, <1>4, <1>7 DEF DevShape
<1>f. FrameShape'
  <2>1. toDev \in Seq(Frames) /\ In(toHost') \subseteq In(toHost)
    BY <1>1, HostTakes DEF TypeOK
  <2>2. ASSUME NEW q \in In(toDev') PROVE q \in In(toDev) \/ q = x
    BY <1>1, <1>9, <2>1, <2>2, InPut
  <2>. QED
    BY <1>1, <1>6, <1>9, <2>1, <2>2, FramesKept
<1>g. OneToken'
  <2>1. ASSUME NEW k \in Int
        PROVE  N(toHost', "data", k) + N(toDev', "ack", k) <= N(toHost, "data", k) + N(toDev, "ack", k)
    <3>0. toHost \in Seq(Frames) /\ toDev \in Seq(Frames)
      BY <1>1 DEF TypeOK
    <3>1. N(toDev', "ack", k) = N(toDev, "ack", k) + Bit(Is(x, "ack", k))
      BY <1>1, <1>9, <1>a, <3>0, CountPut
    <3>3. N(toHost', "data", k) \in Nat /\ N(toDev, "ack", k) \in Nat
      BY <1>1, <3>0, PlacesFinite DEF TypeOK
    <3>4. CASE k = call
      <4>1. N(toHost, "data", k) = N(toHost', "data", k) + 1
        BY <1>1, <1>5, <3>4, HostTakesOne
      <4>2. Bit(Is(x, "ack", k)) = 1
        BY <1>9, <3>4 DEF Is, Bit
      <4>. QED
        BY <3>1, <3>3, <4>1, <4>2
    <3>5. CASE k # call
      <4>1. ~Is(x, "ack", k) /\ ~Is(p, "data", k)
        BY <1>5, <1>9, <3>5 DEF Is
      <4>2. N(toHost', "data", k) = N(toHost, "data", k)
        BY <1>1, <4>1, HostTakesOne
      <4>. QED
        BY <3>1, <3>3, <4>1, <4>2 DEF Bit
    <3>. QED
      BY <3>4, <3>5
  <2>. QED
    BY <1>1, <2>1, TokensKept
<1>h. Room'
  <2>1. ToBeDone' = ToBeDone
    BY <1>1, <1>2 DEF ToBeDone
  <2>2. PICK b \in {0, 1} : b = Bit(ToBeDone) /\ b = Bit(ToBeDone')
    BY <2>1, BitType
  <2>3. Load = 1 + ha + dd + 0 + hdo + hao + ddo + b /\ Load <= 2
    BY <1>1, <1>b, <2>2, LoadType DEF Room
  <2>4. /\ 0 + ha + dd + 1 + hdo + hao + ddo + b <= 2
        /\ 0 + ha + dd + 1 <= 2 /\ 0 + ha + dd <= 1
    BY <1>b, <2>2, <2>3
  <2>5. pc' # "txWait"
    BY <1>3
  <2>. QED
    BY <1>b, <1>c, <2>2, <2>4, <2>5, RoomFor
<1>i. Requesting'
  BY <1>3 DEF Requesting
<1>j. Resting'
  BY <1>c DEF Resting
<1>k. Answering'
  <2>1. ~Unanswered' /\ ~Unanswered
    BY <1>1, <1>2, <1>4, <1>b, <1>c DEF Unanswered
  <2>2. ~FirstUnacked
    BY <1>5, <1>7 DEF FirstUnacked
  <2>3. Bit(Unanswered) = 0 /\ Bit(Unanswered') = 0
    BY <2>1 DEF Bit
  <2>4. (DevTries - devTries) + 0 <= used.losses
    BY <1>1, <1>4, <1>6, <2>2, <2>3 DEF Answering
  <2>. QED
    BY <1>1, <1>2, <1>3, <1>4, <1>6, <2>3, <2>4 DEF Answering
<1>. QED
  BY <1>d, <1>e, <1>f, <1>g, <1>h, <1>i, <1>j, <1>k DEF Calm

(* Anything else: of the response the host passes over only the first      *)
(* fragment, once it has it.                                               *)
LEMMA RxWrongCalm ==
  ASSUME Recoverable, Sound, TypeOK', NEW p \in First(toHost), toHost' = Tail(toHost), RxWrong(p)
  PROVE  Calm'
<1>1. /\ UNCHANGED <<pc, call, outcome, retries, stuck, sent, reqLen, rxbuf, ids, toDev, used>>
      /\ UNCHANGED <<devMode, devTxid, devCall, devGot, devLen, devOff, devTries>>
      /\ UNCHANGED devVars /\ Receiving /\ ~IsWanted(p)
      /\ TypeOK /\ OrderInv /\ WholeInv /\ FrameShape /\ CallsSucceed
      /\ HostShape /\ DevShape /\ OneToken /\ Room /\ Requesting /\ Answering /\ Resting
  BY DEF RxWrong, Sound, Calm, devVars, Recoverable
<1>2. pc # "idle" /\ pc # "txWait" /\ devCall = call
  BY <1>1 DEF Receiving, HostShape
<1>3. /\ p \in In(toHost) /\ p \in Frames /\ p.call \in {call - 1, call} /\ call \in Nat /\ ~p.mem
      /\ p.hdr.txid = txid <=> p.call = call
  BY <1>1, <1>2, HostFrameRead, CallsUnderWay
<1>4. PICK hd \in Nat, hdo \in Nat, ha \in Nat, hao \in Nat, dd \in Nat, ddo \in Nat, da \in Nat, dao \in Nat :
        /\ HostData' = hd /\ HostDataOld' = hdo /\ HostAcks' = ha /\ HostAcksOld' = hao
        /\ DevData' = dd /\ DevDataOld' = ddo /\ DevAcks' = da /\ DevAcksOld' = dao
  BY CountTypesNext
<1>5. /\ HostData \in Nat /\ HostDataOld \in Nat /\ HostAcks \in Nat /\ HostAcksOld \in Nat
      /\ DevData = dd /\ DevDataOld = ddo /\ DevAcks = da /\ DevAcksOld = dao
      /\ hd <= HostData /\ hdo <= HostDataOld /\ ha <= HostAcks /\ hao <= HostAcksOld
      /\ ~Is(p, "data", call) => hd = HostData
  <2>1. /\ HostData \in Nat /\ HostDataOld \in Nat /\ HostAcks \in Nat /\ HostAcksOld \in Nat
    BY <1>1, CountTypes
  <2>2. /\ hd = HostData \/ (Is(p, "data", call) /\ HostData = hd + 1)
        /\ hdo = HostDataOld \/ HostDataOld = hdo + 1
        /\ ha = HostAcks \/ HostAcks = ha + 1
        /\ hao = HostAcksOld \/ HostAcksOld = hao + 1
    BY <1>1, <1>4, HostTakesCounts
  <2>. QED
    BY <1>1, <1>4, <2>1, <2>2, ToDevKept
<1>6. HostShape' /\ DevShape'
  BY <1>1 DEF HostShape, DevShape, Receiving
<1>7. FrameShape'
  <2>1. In(toHost') \subseteq In(toHost)
    BY <1>1, HostTakes
  <2>. QED
    BY <1>1, <2>1, FramesKept
<1>8. OneToken'
  BY <1>1, HostTakesFewer
<1>9. Room'
  <2>1. ToBeDone' = ToBeDone /\ pc' = pc
    BY <1>1 DEF ToBeDone
  <2>2. PICK b \in {0, 1} : b = Bit(ToBeDone) /\ b = Bit(ToBeDone')
    BY <2>1, BitType
  <2>3. Load = HostData + HostAcks + DevData + DevAcks + HostDataOld + HostAcksOld + DevDataOld + b
    BY <1>1, <2>2, LoadType
  <2>4. hd + ha + dd + da + hdo + hao + ddo + b <= Load
    BY <1>5, <2>3
  <2>. QED
    BY <1>1, <1>2, <1>4, <2>1, <2>2, <2>4, RoomKept
<1>a. Requesting' /\ Resting'
  BY <1>1, <1>2 DEF Requesting, Resting
<1>b. Answering'
  <2>1. CASE Is(p, "data", call)
    <3>1. p.kind = "data" /\ p.hdr.txid = txid /\ ~(p.hdr.first <=> pc = "rxFirst")
          /\ devMode = "reply" /\ p.hdr = DevFragment
      BY <1>1, <1>2, <1>3, <2>1 DEF Is, IsWanted, FrameShape
    <3>2. devOff \in Nat /\ devLen \in Nat /\ Len(rxbuf) \in Nat
      BY <1>1 DEF TypeOK
    <3>3. p.hdr.first <=> devOff = 0
      <4>1. p.hdr = Header(devTxid, devOff, devLen)
        BY <3>1 DEF DevFragment
      <4>. QED
        BY <3>2, <4>1, HeaderOffset
    <3>4. Replied
      BY <1>1, <1>3, <2>1 DEF WholeInv, InStep, Own, Is
    <3>5. /\ devOff <= Len(rxbuf) /\ Len(rxbuf) <= devOff + 1 /\ Len(rxbuf) < devLen
          /\ pc = "rxFirst" => Len(rxbuf) = 0
          /\ pc = "rxNext" => rxbuf # <<>>
      BY <1>1, <3>1, <3>4 DEF WholeInv, BufferOk, HostShape
    <3>6. pc = "rxNext"
      BY <1>1, <3>1, <3>2, <3>3, <3>5 DEF Receiving
    <3>7. FirstUnacked
      <4>1. devOff = 0 /\ Len(rxbuf) # 0
        BY <3>1, <3>3, <3>5, <3>6
      <4>2. PICK n \in Nat : n = Len(rxbuf)
        BY <3>2
      <4>3. n <= 1 /\ n # 0 /\ n < devLen
        BY <3>5, <4>1, <4>2
      <4>4. n = 1 /\ devLen > 1
        BY <3>2, <4>3
      <4>. QED
        BY <3>6, <4>1, <4>2, <4>4 DEF FirstUnacked
    <3>8. FirstUnacked'
      BY <1>1, <3>7 DEF FirstUnacked
    <3>. QED
      BY <1>1, <1>2, <3>1, <3>8 DEF Answering
  <2>2. CASE ~Is(p, "data", call)
    <3>1. Unanswered' = Unanswered
      BY <1>1, <1>2, <1>4, <1>5, <2>2 DEF Unanswered
    <3>2. FirstUnacked' = FirstUnacked /\ Receiving' = Receiving
      BY <1>1 DEF FirstUnacked, Receiving
    <3>. QED
      BY <1>1, <1>2, <3>1, <3>2 DEF Answering
  <2>. QED
    BY <2>1, <2>2
<1>. QED
  BY <1>6, <1>7, <1>8, <1>9, <1>a, <1>b DEF Calm

(* The ack of the request, or the response that stands for it.             *)
LEMMA TxDoneCalm ==
  ASSUME Recoverable, Sound, TypeOK', NEW p \in First(toHost), toHost' = Tail(toHost),
         TxMissingAck(p) \/ TxAck(p)
  PROVE  Calm'
<1>1. /\ pc = "txWait" /\ stuck = FALSE /\ sent = 0 /\ reqLen = 1 /\ TxLastFrag
      /\ p.hdr.txid = txid
      /\ TypeOK /\ OrderInv /\ WholeInv /\ FrameShape /\ CallsSucceed
      /\ HostShape /\ DevShape /\ OneToken /\ Room /\ Requesting /\ Answering /\ Resting
  BY DEF TxMissingAck, TxAck, TxReads, IsResponse, IsAck, Sound, Calm, HostShape, TxLastFrag
<1>2. /\ pc' = "rxFirst" /\ UNCHANGED devVars
      /\ UNCHANGED <<call, outcome, retries, stuck, reqLen, rxbuf, ids, toDev, used>>
  BY <1>1 DEF TxMissingAck, TxAck, TxDone
<1>3. UNCHANGED <<devMode, devTxid, devCall, devGot, devLen, devOff, devTries>>
  BY <1>2 DEF devVars
<1>4. /\ p.call = call /\ devCall = call /\ call \in Nat /\ p.kind \in {"data", "ack"}
  <2>1. p.call = call /\ p.call <= devCall /\ p.kind \in {"data", "ack"}
    BY <1>1, HostFrameRead
  <2>2. devCall \in {call - 1, call} /\ call \in Nat
    BY <1>1, CallsUnderWay
  <2>. QED
    BY <2>1, <2>2
<1>5. PICK hd \in Nat, hdo \in Nat, ha \in Nat, hao \in Nat, dd \in Nat, ddo \in Nat, da \in Nat, dao \in Nat :
        /\ HostData' = hd /\ HostDataOld' = hdo /\ HostAcks' = ha /\ HostAcksOld' = hao
        /\ DevData' = dd /\ DevDataOld' = ddo /\ DevAcks' = da /\ DevAcksOld' = dao
  BY CountTypesNext
<1>6. /\ HostDataOld = hdo /\ HostAcksOld = hao
      /\ DevData = dd /\ DevDataOld = ddo /\ DevAcks = da /\ DevAcksOld = dao
      /\ \/ Is(p, "data", call) /\ HostData = hd + 1 /\ HostAcks = ha
         \/ Is(p, "ack", call) /\ HostData = hd /\ HostAcks = ha + 1
  <2>1. ~Is(p, "data", call - 1) /\ ~Is(p, "ack", call - 1)
    BY <1>4 DEF Is
  <2>2. /\ HostDataOld' = HostDataOld /\ HostAcksOld' = HostAcksOld
        /\ \/ Is(p, "data", call) /\ HostData = HostData' + 1 /\ HostAcks' = HostAcks
           \/ Is(p, "ack", call) /\ HostData' = HostData /\ HostAcks = HostAcks' + 1
    BY <1>1, <1>2, <2>1, HostTakesCounts
  <2>. QED
    BY <1>2, <1>5, <2>2, ToDevKept
<1>7. HostShape' /\ DevShape'
  <2>1. Len(rxbuf) = 0 /\ devOff \in Nat
    BY <1>1 DEF WholeInv, BufferOk, TypeOK
  <2>. QED
    BY <1>1, <1>2, <1>3, <1>4, <2>1 DEF HostShape, DevShape
<1>8. FrameShape'
  <2>1. In(toHost') \subseteq In(toHost)
    BY <1>1, HostTakes
  <2>. QED
    BY <1>1, <1>2, <2>1, FramesKept
<1>9. OneToken'
  BY <1>1, <1>2, HostTakesFewer
<1>a. Room'
  <2>1. ToBeDone' = ToBeDone
    BY <1>2, <1>3 DEF ToBeDone
  <2>2. PICK b \in {0, 1} : b = Bit(ToBeDone) /\ b = Bit(ToBeDone')
    BY <2>1, BitType
  <2>3. Load = HostData + HostAcks + DevData + DevAcks + HostDataOld + HostAcksOld + DevDataOld + b
    BY <1>1, <2>2, LoadType
  <2>4. Load <= 3
    BY <1>1 DEF Room
  <2>5. HostData + HostAcks = hd + ha + 1
    BY <1>5, <1>6
  <2>6. hd + ha + 1 + dd + da + hdo + hao + ddo + b <= 3
    BY <1>6, <2>3, <2>4, <2>5
  <2>7. hd + ha + dd + da + hdo + hao + ddo + b <= 2
    BY <1>5, <2>2, <2>6
  <2>. QED
    BY <1>2, <1>5, <2>2, <2>7, RoomFor
<1>b. Requesting' /\ Resting'
  BY <1>2 DEF Requesting, Resting
<1>c. Answering'
  <2>1. devMode # "wait"
    BY <1>1, <1>4 DEF Answering, FirstUnacked
  <2>2. SUFFICES ASSUME devMode = "reply"
                 PROVE  (DevTries - devTries) + Bit(Unanswered') <= used.losses
    BY <1>2, <1>3, <2>1 DEF Answering
  <2>3. PICK u \in {0, 1}, c \in {0, 1}, v \in {0, 1} :
          u = Bit(Unanswered) /\ c = Bit(~AckComes) /\ v = Bit(Unanswered')
    BY BitType
  <2>4. CASE Is(p, "ack", call)
    <3>1. HostData = hd
      BY <1>4, <1>6, <2>4 DEF Is
    <3>2. Unanswered' = Unanswered
      BY <1>2, <1>3, <1>4, <1>5, <1>6, <3>1 DEF Unanswered
    <3>3. (DevTries - devTries) + Bit(Unanswered) + Bit(~AckComes) <= used.losses
      BY <1>1, <1>4, <2>2 DEF Answering
    <3>4. (DevTries - devTries) + v + c <= used.losses
      BY <2>3, <3>2, <3>3
    <3>5. (DevTries - devTries) + v <= used.losses
      <4>1. DevTries \in Nat /\ devTries \in Nat /\ used.losses \in Nat
        BY <1>1, NumbersOk
      <4>. QED
        BY <3>4, <4>1
    <3>. QED
      BY <2>3, <3>5
  <2>5. CASE Is(p, "data", call)
    <3>1. ~AckComes
      <4>1. ~Is(p, "ack", call)
        BY <2>5 DEF Is
      <4>. QED
        BY <1>1, <1>2, <2>5, <4>1, AckComesTail
    <3>2. c = 1
      BY <2>3, <3>1 DEF Bit
    <3>3. PICK n \in Nat, l \in Nat : n = DevTries - devTries /\ l = used.losses
      BY <1>1, NumbersOk
    <3>4. n + u + 1 <= l
      BY <1>1, <1>4, <2>2, <2>3, <3>2, <3>3 DEF Answering
    <3>5. n + v <= l
      BY <2>3, <3>3, <3>4
    <3>. QED
      BY <2>3, <3>3, <3>5
  <2>. QED
    BY <1>6, <2>4, <2>5
<1>. QED
  BY <1>7, <1>8, <1>9, <1>a, <1>b, <1>c DEF Calm

(* A request in one fragment. *)
LEMMA RequestFrame ==
  ASSUME NEW t \in Txids, NEW k \in 0..MaxCalls
  PROVE  /\ Data(t, 0, 1, k) \in Frames /\ Data(t, 0, 1, k).kind = "data"
         /\ Data(t, 0, 1, k).call = k
         /\ Data(t, 0, 1, k).hdr.first /\ Data(t, 0, 1, k).hdr.last
<1>. DEFINE d == Data(t, 0, 1, k)
<1>1. d \in Frames
  BY DataType
<1>2. d.kind = "data" /\ d.call = k /\ d.hdr = Header(t, 0, 1)
  BY DataFields
<1>3. d.hdr.first /\ d.hdr.last
  BY <1>2, HeaderOffset
<1>. QED
  BY <1>1, <1>2, <1>3

(* One transmission more, where retries are left. *)
LEMMA AgainSends ==
  ASSUME Sound, pc = "txWait", NEW line, TxAgain(line), retries # 1
  PROVE  /\ UNCHANGED <<pc, outcome, txid, sent, reqLen, stuck, rxbuf, call, ids>>
         /\ retries' = retries - 1
         /\ \E d \in Frames : /\ toDev' = Put(line, d)
                              /\ d.kind = "data" /\ d.call = call /\ d.hdr.first /\ d.hdr.last
<1>1. HostShape /\ TypeOK
  BY DEF Sound, Calm
<1>2. stuck = FALSE /\ sent = 0 /\ reqLen = 1
  BY <1>1 DEF HostShape
<1>3. /\ UNCHANGED <<pc, outcome, txid, sent, reqLen, stuck, rxbuf, call, ids>>
      /\ retries' = retries - 1
      /\ toDev' = Put(line, Data(txid, 0, 1, call))
  BY <1>2 DEF TxAgain, Resent, RetriesLeft
<1>. DEFINE d == Data(txid, 0, 1, call)
<1>4. d \in Frames /\ d.kind = "data" /\ d.call = call /\ d.hdr.first /\ d.hdr.last
  BY <1>1, RequestFrame DEF TypeOK
<1>. QED
  BY <1>3, <1>4

(* Time runs out on a silent line: the request, or all that came of it,    *)
(* was lost.                                                               *)
LEMMA TxTimeoutCalm ==
  ASSUME Recoverable, Sound, TypeOK', TxTimeout
  PROVE  Calm' /\ UNCHANGED <<pc, outcome>>
<1>1. /\ pc = "txWait" /\ toDev = <<>> /\ toHost = <<>> /\ devMode # "exec"
      /\ TxAgain(<<>>) /\ UNCHANGED <<toHost, devVars, used>>
      /\ TypeOK /\ OrderInv /\ WholeInv /\ FrameShape /\ CallsSucceed
      /\ HostShape /\ DevShape /\ OneToken /\ Room /\ Requesting /\ Answering /\ Resting
  BY DEF TxTimeout, Recoverable, Quiet, Sound, Calm
<1>2. UNCHANGED <<devMode, devTxid, devCall, devGot, devLen, devOff, devTries>>
  BY <1>1 DEF devVars
<1>3. /\ HostData = 0 /\ HostDataOld = 0 /\ HostAcks = 0 /\ HostAcksOld = 0
      /\ DevData = 0 /\ DevDataOld = 0 /\ DevAcks = 0 /\ DevAcksOld = 0
  BY <1>1, NothingUnderWay
<1>4. PICK n \in Nat, l \in Nat, x \in {0, 1} :
        n = TxRetries - retries /\ l = used.losses /\ x = Bit(devCall # call /\ Unanswered)
  <2>1. TxRetries - retries \in Nat /\ used.losses \in Nat
    BY <1>1, NumbersOk
  <2>. QED
    BY <2>1, BitType
<1>5. n + 0 + 1 + x <= l
  <2>1. Bit(~Asked) = 1
    BY <1>1, <1>3 DEF Asked, Bit
  <2>. QED
    BY <1>1, <1>3, <1>4, <2>1 DEF Requesting
<1>6. retries # 1 /\ retries \in Nat /\ TxRetries \in Nat
  <2>1. l <= MaxLosses /\ MaxLosses < TxRetries /\ MaxLosses \in Nat /\ TxRetries \in Nat /\ retries \in Nat
    BY <1>1, <1>4, NumbersOk
  <2>. QED
    BY <1>4, <1>5, <2>1
<1>7. /\ UNCHANGED <<pc, outcome, txid, sent, reqLen, stuck, rxbuf, call, ids>>
      /\ retries' = retries - 1
  BY <1>1, <1>6, AgainSends
<1>8. PICK d \in Frames : /\ toDev' = Put(toDev, d)
                          /\ d.kind = "data" /\ d.call = call /\ d.hdr.first /\ d.hdr.last
  BY <1>1, <1>6, AgainSends
<1>9. call \in Nat
  BY <1>1, CallsUnderWay
<1>a. Len(toDev) < ChanCap /\ toDev \in Seq(Frames)
  BY <1>1, NumbersOk
<1>b. /\ HostData' = 0 /\ HostDataOld' = 0 /\ HostAcks' = 0 /\ HostAcksOld' = 0
      /\ DevData' = 1 /\ DevDataOld' = 0 /\ DevAcks' = 0 /\ DevAcksOld' = 0
  <2>1. /\ Is(d, "data", call) /\ ~Is(d, "data", call - 1)
        /\ ~Is(d, "ack", call) /\ ~Is(d, "ack", call - 1)
    BY <1>8, <1>9 DEF Is
  <2>2. /\ DevData' = DevData + Bit(Is(d, "data", call))
        /\ DevDataOld' = DevDataOld + Bit(Is(d, "data", call - 1))
        /\ DevAcks' = DevAcks + Bit(Is(d, "ack", call))
        /\ DevAcksOld' = DevAcksOld + Bit(Is(d, "ack", call - 1))
    BY <1>1, <1>7, <1>8, <1>9, <1>a, ToDevPutCounts
  <2>. QED
    BY <1>1, <1>3, <1>7, <2>1, <2>2, ToHostKept DEF Bit
<1>c. HostShape' /\ DevShape'
  BY <1>1, <1>2, <1>7 DEF HostShape, DevShape, Receiving
<1>d. FrameShape'
  <2>1. In(toHost') = In(toHost)
    BY <1>1
  <2>2. ASSUME NEW q \in In(toDev') PROVE q \in In(toDev) \/ q = d
    BY <1>8, <1>a, <2>2, InPut
  <2>. QED
    BY <1>1, <1>8, <2>1, <2>2, FramesKept
<1>e. OneToken'
  <2>1. ASSUME NEW k \in Int
        PROVE  N(toHost', "data", k) + N(toDev', "ack", k) <= N(toHost, "data", k) + N(toDev, "ack", k)
    <3>1. N(toDev', "ack", k) = N(toDev, "ack", k) + Bit(Is(d, "ack", k))
      BY <1>8, <1>a, CountPut
    <3>2. N(toDev, "ack", k) = 0 /\ N(toHost, "data", k) = 0 /\ toHost' = toHost
      BY <1>1, CountEmpty
    <3>3. ~Is(d, "ack", k)
      BY <1>8 DEF Is
    <3>. QED
      BY <3>1, <3>2, <3>3 DEF Bit
  <2>. QED
    BY <1>1, <2>1, TokensKept
<1>f. Room'
  <2>1. PICK b \in {0, 1} : b = Bit(ToBeDone')
    BY BitType
  <2>2. 0 + 0 + 1 + 0 + 0 + 0 + 0 + b <= 3
    BY <2>1
  <2>. QED
    BY <1>1, <1>7, <1>b, <2>1, <2>2, RoomFor
<1>g. Requesting'
  <2>1. Bit(~Asked') = 0
    BY <1>b DEF Asked, Bit
  <2>2. Unanswered' = Unanswered
    BY <1>2, <1>3, <1>7, <1>b DEF Unanswered
  <2>3. Bit(devCall' # call' /\ Unanswered') = x
    BY <1>2, <1>4, <1>7, <2>2
  <2>4. TxRetries - retries' = n + 1
    BY <1>4, <1>6, <1>7
  <2>5. (n + 1) + 0 + 0 + x <= l
    BY <1>4, <1>5
  <2>. QED
    BY <1>1, <1>4, <1>b, <2>1, <2>3, <2>4, <2>5 DEF Requesting
<1>h. Resting'
  BY <1>1, <1>7 DEF Resting
<1>i. Answering'
  <2>1. Unanswered' = Unanswered /\ AckComes' = AckComes
    BY <1>1, <1>2, <1>3, <1>7, <1>b DEF Unanswered, AckComes
  <2>. QED
    BY <1>1, <1>2, <1>7, <2>1, AnsweringKept
<1>. QED
  BY <1>7, <1>c, <1>d, <1>e, <1>f, <1>g, <1>h, <1>i DEF Calm

(* A frame the host cannot read counts as a loss, and its loss pays for    *)
(* the transmission it causes.                                             *)
LEMMA TxDamagedCalm ==
  ASSUME Recoverable, Sound, TypeOK', TxDamaged
  PROVE  Calm' /\ UNCHANGED <<pc, outcome>>
<1>1. /\ pc = "txWait" /\ toHost # <<>> /\ toHost' = Tail(toHost)
      /\ Spend("losses", MaxLosses) /\ TxAgain(toDev) /\ UNCHANGED devVars
      /\ TypeOK /\ OrderInv /\ WholeInv /\ FrameShape /\ CallsSucceed
      /\ HostShape /\ DevShape /\ OneToken /\ Room /\ Requesting /\ Answering /\ Resting
  BY DEF TxDamaged, Sound, Calm
<1>2. UNCHANGED <<devMode, devTxid, devCall, devGot, devLen, devOff, devTries>>
  BY <1>1 DEF devVars
<1>3. PICK p \in First(toHost) : p = Head(toHost)
  BY <1>1 DEF First
<1>4. PICK l \in Nat : l = used.losses /\ used'.losses = l + 1 /\ l + 1 <= MaxLosses
  BY <1>1, LossSpent
<1>5. PICK n \in Nat : n = TxRetries - retries
  BY <1>1, NumbersOk
<1>6. PICK a \in {0, 1}, x \in {0, 1} : /\ a = Bit(~Asked) /\ x = Bit(devCall # call /\ Unanswered)
  BY BitType
<1>7. n + HostDataOld + a + x <= l /\ HostDataOld \in Nat
  BY <1>1, <1>4, <1>5, <1>6, CountTypes DEF Requesting
<1>8. retries # 1 /\ retries \in Nat /\ TxRetries \in Nat
  <2>1. MaxLosses < TxRetries /\ MaxLosses \in Nat /\ TxRetries \in Nat /\ retries \in Nat
    BY <1>1, NumbersOk
  <2>2. n <= l
    BY <1>4, <1>5, <1>6, <1>7
  <2>. QED
    BY <1>4, <1>5, <2>1, <2>2
<1>9. /\ UNCHANGED <<pc, outcome, txid, sent, reqLen, stuck, rxbuf, call, ids>>
      /\ retries' = retries - 1
  BY <1>1, <1>8, AgainSends
<1>a. PICK d \in Frames : /\ toDev' = Put(toDev, d)
                          /\ d.kind = "data" /\ d.call = call /\ d.hdr.first /\ d.hdr.last
  BY <1>1, <1>8, AgainSends
<1>b. call \in Nat /\ devCall \in {call - 1, call}
  BY <1>1, CallsUnderWay
<1>c. Len(toDev) < ChanCap /\ toDev \in Seq(Frames)
  <2>1. Len(toHost) \in Nat /\ Len(toDev) \in Nat /\ Len(toDev) + Len(toHost) <= 4
    BY RoomOnLine
  <2>2. Len(toHost) >= 1
    BY <1>1, <1>3, FirstType DEF TypeOK
  <2>. QED
    <3>1. toDev \in Seq(Frames)
      BY <1>1 DEF TypeOK
    <3>2. ChanCap \in Nat /\ ChanCap >= 4
      BY <1>1, NumbersOk
    <3>. QED
      BY <2>1, <2>2, <3>1, <3>2
<1>d. PICK dd \in Nat, ddo \in Nat, da \in Nat, dao \in Nat :
        /\ DevData = dd /\ DevDataOld = ddo /\ DevAcks = da /\ DevAcksOld = dao
        /\ DevData' = dd + 1 /\ DevDataOld' = ddo /\ DevAcks' = da /\ DevAcksOld' = dao
  <2>1. /\ Is(d, "data", call) /\ ~Is(d, "data", call - 1)
        /\ ~Is(d, "ack", call) /\ ~Is(d, "ack", call - 1)
    BY <1>a, <1>b DEF Is
  <2>2. /\ DevData' = DevData + Bit(Is(d, "data", call))
        /\ DevDataOld' = DevDataOld + Bit(Is(d, "data", call - 1))
        /\ DevAcks' = DevAcks + Bit(Is(d, "ack", call))
        /\ DevAcksOld' = DevAcksOld + Bit(Is(d, "ack", call - 1))
    BY <1>1, <1>9, <1>a, <1>b, <1>c, ToDevPutCounts
  <2>3. DevData \in Nat /\ DevDataOld \in Nat /\ DevAcks \in Nat /\ DevAcksOld \in Nat
    BY <1>1, CountTypes
  <2>. QED
    BY <2>1, <2>2, <2>3 DEF Bit
<1>e. PICK hd \in Nat, hdo \in Nat, ha \in Nat, hao \in Nat :
        /\ HostData' = hd /\ HostDataOld' = hdo /\ HostAcks' = ha /\ HostAcksOld' = hao
  BY CountTypesNext
<1>f. \/ /\ Is(p, "data", call) /\ HostData = hd + 1
         /\ HostDataOld = hdo /\ HostAcks = ha /\ HostAcksOld = hao
      \/ /\ Is(p, "data", call - 1) /\ HostDataOld = hdo + 1
         /\ HostData = hd /\ HostAcks = ha /\ HostAcksOld = hao
      \/ /\ Is(p, "ack", call) /\ HostAcks = ha + 1
         /\ HostData = hd /\ HostDataOld = hdo /\ HostAcksOld = hao
      \/ /\ Is(p, "ack", call - 1) /\ HostAcksOld = hao + 1
         /\ HostData = hd /\ HostDataOld = hdo /\ HostAcks = ha
  BY <1>1, <1>9, <1>e, HostTakesCounts
<1>g. HostShape' /\ DevShape'
  BY <1>1, <1>2, <1>9 DEF HostShape, DevShape, Receiving
<1>h. FrameShape'
  <2>1. In(toHost') \subseteq In(toHost)
    BY <1>1, HostTakes
  <2>2. ASSUME NEW q \in In(toDev') PROVE q \in In(toDev) \/ q = d
    BY <1>a, <1>c, <2>2, InPut
  <2>. QED
    BY <1>1, <1>a, <2>1, <2>2, FramesKept
<1>i. OneToken'
  <2>1. ASSUME NEW k \in Int
        PROVE  N(toHost', "data", k) + N(toDev', "ack", k) <= N(toHost, "data", k) + N(toDev, "ack", k)
    <3>1. N(toDev', "ack", k) = N(toDev, "ack", k) + Bit(Is(d, "ack", k))
      BY <1>a, <1>c, CountPut
    <3>2. ~Is(d, "ack", k)
      BY <1>a DEF Is
    <3>3. N(toHost, "data", k) = N(toHost', "data", k) + Bit(Is(p, "data", k))
      BY <1>1, HostTakes
    <3>4. N(toHost', "data", k) \in Nat /\ N(toDev, "ack", k) \in Nat
      BY <1>c, PlacesFinite DEF TypeOK
    <3>5. PICK b \in {0, 1} : b = Bit(Is(p, "data", k))
      BY BitType
    <3>6. N(toDev', "ack", k) = N(toDev, "ack", k)
      BY <3>1, <3>2, <3>4 DEF Bit
    <3>. QED
      BY <3>3, <3>4, <3>5, <3>6
  <2>. QED
    BY <1>1, <2>1, TokensKept
<1>j. Room'
  <2>1. ToBeDone' = ToBeDone
    BY <1>2, <1>9 DEF ToBeDone
  <2>2. PICK b \in {0, 1} : b = Bit(ToBeDone) /\ b = Bit(ToBeDone')
    BY <2>1, BitType
  <2>3. Load = HostData + HostAcks + dd + da + HostDataOld + HostAcksOld + ddo + b
    BY <1>1, <1>d, <2>2, LoadType
  <2>4. hd + ha + (dd + 1) + da + hdo + hao + ddo + b <= Load
    BY <1>d, <1>e, <1>f, <2>2, <2>3
  <2>. QED
    BY <1>1, <1>9, <1>d, <1>e, <2>2, <2>4, RoomKept
<1>k. Requesting'
  <2>1. Bit(~Asked') = 0
    <3>1. DevData' > 0
      BY <1>d
    <3>. QED
      BY <3>1 DEF Asked, Bit
  <2>2. PICK y \in {0, 1} : y = Bit(devCall' # call' /\ Unanswered')
    BY BitType
  <2>3. ~Is(p, "data", call - 1) => hdo = HostDataOld /\ y <= x
    <3>1. SUFFICES ASSUME ~Is(p, "data", call - 1) PROVE hdo = HostDataOld /\ y <= x
      OBVIOUS
    <3>2. hdo = HostDataOld
      BY <1>f, <3>1
    <3>3. devCall # call => Unanswered' = Unanswered
      BY <1>2, <1>9, <1>d, <1>e, <3>2 DEF Unanswered
    <3>. QED
      BY <1>2, <1>6, <1>9, <2>2, <3>2, <3>3 DEF Bit
  <2>4. Is(p, "data", call - 1) => HostDataOld = hdo + 1
    BY <1>b, <1>f DEF Is
  <2>5. (n + 1) + hdo + 0 + y <= l + 1
    <3>1. CASE Is(p, "data", call - 1)
      BY <1>4, <1>6, <1>7, <2>2, <2>4, <3>1
    <3>2. CASE ~Is(p, "data", call - 1)
      BY <1>4, <1>6, <1>7, <2>2, <2>3, <3>2
    <3>. QED
      BY <3>1, <3>2
  <2>6. TxRetries - retries' = n + 1
    BY <1>5, <1>8, <1>9
  <2>. QED
    BY <1>4, <1>e, <2>1, <2>2, <2>5, <2>6 DEF Requesting
<1>l. Resting'
  BY <1>1, <1>9 DEF Resting
<1>m. Answering'
  <2>1. SUFFICES ASSUME devCall = call PROVE Answering'
    BY <1>2, <1>9 DEF Answering
  <2>2. PICK u \in {0, 1}, c \in {0, 1}, v \in {0, 1}, e \in {0, 1}, m \in Nat :
          /\ u = Bit(Unanswered) /\ c = Bit(~AckComes) /\ v = Bit(Unanswered') /\ e = Bit(~AckComes')
          /\ m = DevTries - devTries
    BY <1>1, BitType, NumbersOk
  <2>3. Is(p, "data", call) => e <= c
    <3>1. Is(p, "data", call) => ~Is(p, "ack", call)
      BY DEF Is
    <3>2. Is(p, "data", call) => ~AckComes
      BY <1>1, <1>9, <3>1, AckComesTail
    <3>. QED
      BY <2>2, <3>2 DEF Bit
  <2>4. ~Is(p, "data", call) => v = u
    <3>1. SUFFICES ASSUME ~Is(p, "data", call) PROVE Unanswered' = Unanswered
      BY <2>2
    <3>2. hd = HostData
      BY <1>f, <3>1
    <3>. QED
      BY <1>2, <1>9, <1>d, <1>e, <2>1, <3>2 DEF Unanswered
  <2>5. m + u + c <= l => m + v + e <= l + 1
    BY <1>4, <2>2, <2>3, <2>4
  <2>6. /\ devMode = "wait" => FirstUnacked
        /\ devMode = "reply" => m + u + c <= l
    BY <1>1, <1>4, <2>1, <2>2 DEF Answering
  <2>7. l + 1 >= 1 /\ FirstUnacked' = FirstUnacked /\ ~Receiving'
    BY <1>1, <1>2, <1>4, <1>9 DEF FirstUnacked, Receiving
  <2>. QED
    BY <1>1, <1>2, <1>4, <1>9, <2>1, <2>2, <2>5, <2>6, <2>7 DEF Answering
<1>. QED
  BY <1>9, <1>g, <1>h, <1>i, <1>j, <1>k, <1>l, <1>m DEF Calm

(* A repeat of the response before: it is acked, and the request sent once *)
(* more.  The repeat was paid for.                                         *)
LEMMA TxRepeatCalm ==
  ASSUME Recoverable, Sound, TypeOK', NEW p \in First(toHost), toHost' = Tail(toHost), TxRepeat(p)
  PROVE  Calm' /\ UNCHANGED <<pc, outcome>>
<1>. DEFINE x == AckOf(p)
<1>1. /\ pc = "txWait" /\ p.kind = "data" /\ ~IsResponse(p)
      /\ TxAgain(Put(toDev, x)) /\ UNCHANGED <<devVars, used>>
      /\ TypeOK /\ OrderInv /\ WholeInv /\ FrameShape /\ CallsSucceed
      /\ HostShape /\ DevShape /\ OneToken /\ Room /\ Requesting /\ Answering /\ Resting
  BY DEF TxRepeat, TxReads, IsRepeat, Sound, Calm
<1>2. UNCHANGED <<devMode, devTxid, devCall, devGot, devLen, devOff, devTries>>
  BY <1>1 DEF devVars
<1>3. /\ p.call = call - 1 /\ p \in In(toHost) /\ p \in Frames
      /\ call \in Nat /\ devCall \in {call - 1, call}
  <2>1. p.hdr.txid # txid
    BY <1>1 DEF IsResponse, HostShape, TxLastFrag
  <2>. QED
    BY <1>1, <2>1, HostFrameRead, CallsUnderWay
<1>4. /\ x \in Frames /\ x.kind = "ack" /\ x.call = call - 1 /\ x.hdr = p.hdr
  BY <1>3, AckType DEF AckOf, Frame
<1>. HIDE DEF x
<1>5. PICK hd \in Nat, hdo \in Nat, ha \in Nat, hao \in Nat :
        /\ HostData' = hd /\ HostDataOld' = hdo /\ HostAcks' = ha /\ HostAcksOld' = hao
  BY CountTypesNext
<1>6. PICK n \in Nat, l \in Nat, a \in {0, 1}, y \in {0, 1} :
        /\ n = TxRetries - retries /\ l = used.losses
        /\ a = Bit(~Asked) /\ y = Bit(devCall # call /\ Unanswered)
  <2>1. TxRetries - retries \in Nat /\ used.losses \in Nat
    BY <1>1, NumbersOk
  <2>. QED
    BY <2>1, BitType
<1>7. n + HostDataOld + a + y <= l
  BY <1>1, <1>6 DEF Requesting
<1>8. UNCHANGED call
  BY <1>1 DEF TxAgain
<1>9. HostDataOld = hdo + 1 /\ HostData = hd /\ HostAcks = ha /\ HostAcksOld = hao
  <2>1. ~Is(p, "data", call) /\ ~Is(p, "ack", call) /\ ~Is(p, "ack", call - 1)
    BY <1>1, <1>3 DEF Is
  <2>2. /\ HostDataOld = HostDataOld' + 1
        /\ HostData' = HostData /\ HostAcks' = HostAcks /\ HostAcksOld' = HostAcksOld
    BY <1>1, <1>8, <2>1, HostTakesCounts
  <2>. QED
    BY <1>5, <2>2
<1>a. retries # 1 /\ retries \in Nat /\ TxRetries \in Nat /\ (n + 1) + hdo + a + y <= l
  <2>1. /\ MaxLosses < TxRetries /\ MaxLosses \in Nat /\ TxRetries \in Nat /\ retries \in Nat
        /\ l <= MaxLosses
    BY <1>1, <1>6, NumbersOk
  <2>2. (n + 1) + hdo + a + y <= l
    BY <1>6, <1>7, <1>9
  <2>. QED
    BY <1>6, <2>1, <2>2
<1>b. /\ UNCHANGED <<pc, outcome, txid, sent, reqLen, stuck, rxbuf, call, ids>>
      /\ retries' = retries - 1
  BY <1>1, <1>a, AgainSends
<1>c. PICK d \in Frames : /\ toDev' = Put(Put(toDev, x), d)
                          /\ d.kind = "data" /\ d.call = call /\ d.hdr.first /\ d.hdr.last
  BY <1>1, <1>a, AgainSends
<1>d. /\ toDev \in Seq(Frames) /\ Len(toDev) < ChanCap
      /\ Put(toDev, x) \in Seq(Frames) /\ Len(Put(toDev, x)) < ChanCap
  <2>1. /\ Len(toHost) \in Nat /\ Len(toDev) \in Nat /\ Len(toDev) + Len(toHost) <= 3
    <3>1. HostDataOld >= 1
      BY <1>5, <1>9
    <3>. QED
      BY <3>1, RoomOnLine
  <2>2. Len(toHost) >= 1 /\ toDev \in Seq(Frames)
    BY <1>1, FirstType DEF TypeOK
  <2>3. ChanCap \in Nat /\ ChanCap >= 4
    BY <1>1, NumbersOk
  <2>4. Len(toDev) + 2 <= ChanCap
    BY <2>1, <2>2, <2>3
  <2>5. Len(Put(toDev, x)) = Len(toDev) + 1 /\ Put(toDev, x) \in Seq(Frames)
    BY <1>4, <2>1, <2>2, <2>3, <2>4, PutType DEF Put
  <2>. QED
    BY <2>1, <2>2, <2>3, <2>4, <2>5
<1>e. ASSUME NEW kind, NEW k
      PROVE  N(toDev', kind, k) = N(toDev, kind, k) + Bit(Is(x, kind, k)) + Bit(Is(d, kind, k))
  <2>1. N(Put(toDev, x), kind, k) = N(toDev, kind, k) + Bit(Is(x, kind, k))
    BY <1>4, <1>d, CountPut
  <2>2. N(toDev', kind, k) = N(Put(toDev, x), kind, k) + Bit(Is(d, kind, k))
    BY <1>c, <1>d, CountPut
  <2>. QED
    BY <2>1, <2>2
<1>f. PICK dd \in Nat, ddo \in Nat, da \in Nat, dao \in Nat :
        /\ DevData = dd /\ DevDataOld = ddo /\ DevAcks = da /\ DevAcksOld = dao
        /\ DevData' = dd + 1 /\ DevDataOld' = ddo /\ DevAcks' = da /\ DevAcksOld' = dao + 1
  <2>1. /\ Is(d, "data", call) /\ ~Is(d, "data", call - 1)
        /\ ~Is(d, "ack", call) /\ ~Is(d, "ack", call - 1)
        /\ ~Is(x, "data", call) /\ ~Is(x, "data", call - 1)
        /\ ~Is(x, "ack", call) /\ Is(x, "ack", call - 1)
    BY <1>3, <1>4, <1>c DEF Is
  <2>2. DevData \in Nat /\ DevDataOld \in Nat /\ DevAcks \in Nat /\ DevAcksOld \in Nat
    BY <1>1, CountTypes
  <2>3. /\ N(toDev', "data", call) = N(toDev, "data", call) + 0 + 1
        /\ N(toDev', "data", call - 1) = N(toDev, "data", call - 1) + 0 + 0
        /\ N(toDev', "ack", call) = N(toDev, "ack", call) + 0 + 0
        /\ N(toDev', "ack", call - 1) = N(toDev, "ack", call - 1) + 1 + 0
    BY <1>e, <2>1 DEF Bit
  <2>4. /\ DevData' = N(toDev', "data", call) /\ DevDataOld' = N(toDev', "data", call - 1)
        /\ DevAcks' = N(toDev', "ack", call) /\ DevAcksOld' = N(toDev', "ack", call - 1)
    BY <1>8 DEF DevData, DevDataOld, DevAcks, DevAcksOld
  <2>5. /\ DevData' = DevData + 1 /\ DevDataOld' = DevDataOld + 0
        /\ DevAcks' = DevAcks + 0 /\ DevAcksOld' = DevAcksOld + 1
    BY <2>2, <2>3, <2>4 DEF DevData, DevDataOld, DevAcks, DevAcksOld
  <2>. QED
    BY <2>2, <2>5
<1>g. HostShape' /\ DevShape'
  BY <1>1, <1>2, <1>b DEF HostShape, DevShape, Receiving
<1>h. FrameShape'
  <2>1. In(toHost') \subseteq In(toHost)
    BY <1>1, HostTakes
  <2>2. ASSUME NEW q \in In(toDev') PROVE q \in In(toDev) \/ q = x \/ q = d
    <3>1. q \in In(Put(toDev, x)) \/ q = d
      BY <1>c, <1>d, <2>2, InPut
    <3>2. q \in In(Put(toDev, x)) => q \in In(toDev) \/ q = x
      BY <1>4, <1>d, InPut
    <3>. QED
      BY <3>1, <3>2
  <2>3. x.call = devCall => devMode = "reply" /\ x.hdr = DevFragment
    BY <1>1, <1>3, <1>4 DEF FrameShape, Is
  <2>. QED
    BY <1>1, <1>4, <1>c, <2>1, <2>2, <2>3, FramesKept
<1>i. OneToken'
  <2>1. ASSUME NEW k \in Int
        PROVE  N(toHost', "data", k) + N(toDev', "ack", k) <= N(toHost, "data", k) + N(toDev, "ack", k)
    <3>1. N(toDev', "ack", k) = N(toDev, "ack", k) + Bit(Is(x, "ack", k)) + Bit(Is(d, "ack", k))
      BY <1>e
    <3>2. Bit(Is(d, "ack", k)) = 0 /\ Bit(Is(x, "ack", k)) = Bit(Is(p, "data", k))
      BY <1>1, <1>3, <1>4, <1>c DEF Is, Bit
    <3>3. N(toHost, "data", k) = N(toHost', "data", k) + Bit(Is(p, "data", k))
      BY <1>1, HostTakes
    <3>4. N(toHost', "data", k) \in Nat /\ N(toDev, "ack", k) \in Nat
      BY <1>d, PlacesFinite DEF TypeOK
    <3>5. PICK b \in {0, 1} : b = Bit(Is(p, "data", k))
      BY BitType
    <3>6. N(toDev', "ack", k) = N(toDev, "ack", k) + b
      BY <3>1, <3>2, <3>4, <3>5
    <3>. QED
      BY <3>3, <3>4, <3>5, <3>6
  <2>. QED
    BY <1>1, <2>1, TokensKept
<1>j. Room'
  <2>1. ToBeDone' = ToBeDone
    BY <1>2, <1>b DEF ToBeDone
  <2>2. PICK b \in {0, 1} : b = Bit(ToBeDone) /\ b = Bit(ToBeDone')
    BY <2>1, BitType
  <2>3. Load = hd + ha + dd + da + (hdo + 1) + hao + ddo + b
    BY <1>1, <1>9, <1>f, <2>2, LoadType
  <2>4. hd + ha + (dd + 1) + da + hdo + hao + ddo + b <= Load
    BY <1>5, <1>f, <2>2, <2>3
  <2>. QED
    BY <1>1, <1>5, <1>b, <1>f, <2>2, <2>4, RoomKept
<1>k. Unanswered' = Unanswered
  <2>1. hdo + (dao + 1) = (hdo + 1) + dao
    BY <1>5, <1>f
  <2>. QED
    BY <1>2, <1>5, <1>9, <1>b, <1>f, <2>1 DEF Unanswered
<1>l. Requesting'
  <2>1. Bit(~Asked') = 0
    <3>1. DevData' > 0
      BY <1>f
    <3>. QED
      BY <3>1 DEF Asked, Bit
  <2>2. Bit(devCall' # call' /\ Unanswered') = y
    BY <1>2, <1>6, <1>b, <1>k
  <2>3. TxRetries - retries' = n + 1
    BY <1>6, <1>a, <1>b
  <2>4. (n + 1) + hdo + 0 + y <= l
    BY <1>5, <1>6, <1>a
  <2>. QED
    BY <1>1, <1>5, <1>6, <2>1, <2>2, <2>3, <2>4 DEF Requesting
<1>m. Resting'
  BY <1>1, <1>b DEF Resting
<1>n. Answering'
  <2>1. AckComes => AckComes'
    <3>1. ~Is(p, "ack", call)
      BY <1>1 DEF Is
    <3>. QED
      BY <1>1, <1>b, <3>1, AckComesTail
  <2>. QED
    BY <1>1, <1>2, <1>b, <1>k, <2>1, AnsweringKept
<1>. QED
  BY <1>b, <1>g, <1>h, <1>i, <1>j, <1>l, <1>m, <1>n DEF Calm

(* A call begins: what is left of the last one is at most one frame that   *)
(* needs an answer, and that was paid for.                                 *)
LEMMA BeginCalm ==
  ASSUME Recoverable, Sound, TypeOK', OrderInv', Begin
  PROVE  Calm' /\ outcome' = "none"
<1>1. /\ pc = "idle" /\ outcome \in {"none", "ok"}
      /\ pc' = "txWait" /\ outcome' = "none" /\ call' = call + 1
      /\ ids' = [ids EXCEPT ![call + 1] = TxTxid]
      /\ retries' = TxRetries /\ sent' = 0 /\ reqLen' = 1 /\ stuck' = FALSE
      /\ toDev' = Put(toDev, Data(TxTxid, 0, 1, call + 1))
      /\ UNCHANGED <<devVars, used>>
      /\ TypeOK /\ OrderInv /\ WholeInv /\ FrameShape
      /\ HostShape /\ DevShape /\ OneToken /\ Room /\ Resting
  BY DEF Begin, PadpTx, Recoverable, Sound, Calm
<1>2. PICK i \in 0..Len(toHost) : toHost' = SubSeq(toHost, i + 1, Len(toHost))
  <2>1. PICK i \in 0..(IF FlushDiscards THEN Len(toHost) ELSE 0) :
          toHost' = SubSeq(toHost, i + 1, Len(toHost))
    BY DEF Begin, PadpTx
  <2>2. Len(toHost) \in Nat
    BY <1>1 DEF TypeOK
  <2>. QED
    BY <2>1, <2>2
<1>3. UNCHANGED <<devMode, devTxid, devCall, devGot, devLen, devOff, devTries>>
  BY <1>1 DEF devVars
<1>4. /\ call \in Nat /\ call + 1 \in 1..MaxCalls /\ toDev \in Seq(Frames) /\ toHost \in Seq(Frames)
      /\ toHost' \in Seq(Frames) /\ toDev' \in Seq(Frames)
  <2>1. call \in Nat /\ call + 1 \in 0..MaxCalls /\ MaxCalls \in Nat
    BY <1>1, CallsUnderWay, PadpAssumption DEF TypeOK
  <2>. QED
    BY <1>1, <2>1 DEF TypeOK
<1>5. devCall = call /\ devMode # "exec" /\ (outcome # "ok" => devMode = "wait")
  <2>1. outcome = "ok" => devCall = call /\ devMode # "exec"
    BY CallNow
  <2>2. outcome # "ok" => call = 0
    BY <1>1, CallNow
  <2>3. devCall \in {call - 1, call} /\ devCall \in Nat
    BY <1>1, CallsUnderWay
  <2>4. call = 0 => devCall = 0 /\ devMode = "wait"
    BY <1>1, <2>3, CallNow DEF DevShape, TypeOK
  <2>. QED
    BY <2>1, <2>2, <2>4
<1>. DEFINE d == Data(TxTxid, 0, 1, call + 1)
<1>6. d \in Frames /\ d.kind = "data" /\ d.call = call + 1 /\ d.hdr.first /\ d.hdr.last
  <2>1. TxTxid \in Txids
    BY <1>1, TxTxidType DEF TypeOK
  <2>. QED
    BY <1>4, <2>1, RequestFrame
<1>. HIDE DEF d
<1>7. Len(toDev) < ChanCap
  <2>1. Len(toHost) \in Nat /\ Len(toDev) \in Nat /\ Len(toDev) + Len(toHost) <= 3
    BY <1>1, RoomOnLine
  <2>2. ChanCap \in Nat /\ ChanCap >= 4
    BY <1>1, NumbersOk
  <2>. QED
    BY <2>1, <2>2
<1>8. \A q \in In(toHost') : q \in In(toHost)
  BY <1>2, <1>4 DEF In
<1>9. ASSUME NEW kind, NEW k
      PROVE  /\ N(toHost', kind, k) <= N(toHost, kind, k)
             /\ N(toDev', kind, k) = N(toDev, kind, k) + Bit(Is(d, kind, k))
             /\ N(toHost', kind, k) \in Nat /\ N(toHost, kind, k) \in Nat /\ N(toDev, kind, k) \in Nat
  <2>1. N(toHost', kind, k) <= N(toHost, kind, k)
    BY <1>2, <1>4, CountSuffix
  <2>2. N(toDev', kind, k) = N(toDev, kind, k) + Bit(Is(d, kind, k))
    BY <1>1, <1>4, <1>6, <1>7, CountPut DEF d
  <2>. QED
    BY <1>4, <2>1, <2>2, PlacesFinite
<1>a. /\ \A q \in In(toHost') : ~Is(q, "data", call + 1) /\ ~Is(q, "ack", call + 1)
      /\ \A q \in In(toDev) : ~Is(q, "data", call + 1) /\ ~Is(q, "ack", call + 1)
  <2>1. /\ \A q \in In(toHost) : q.call \in {call - 1, call}
        /\ \A q \in In(toDev) : /\ q.kind = "data" => q.call \in {devCall, call}
                                /\ q.kind = "ack" => q.call \in {devCall - 1, devCall}
    BY <1>1, CallsUnderWay
  <2>. QED
    BY <1>4, <1>5, <1>8, <2>1 DEF Is
<1>b. /\ N(toHost', "data", call + 1) = 0 /\ N(toHost', "ack", call + 1) = 0
      /\ N(toDev, "data", call + 1) = 0 /\ N(toDev, "ack", call + 1) = 0
  BY <1>4, <1>a, CountNone
<1>c. PICK hd \in Nat, ha \in Nat, dd \in Nat, da \in Nat, hdo \in Nat, hao \in Nat :
        /\ HostData = hd /\ HostAcks = ha /\ DevData = dd /\ DevAcks = da
        /\ hdo = N(toHost', "data", call) /\ hao = N(toHost', "ack", call)
        /\ hdo <= hd /\ hao <= ha
  BY <1>9 DEF HostData, HostAcks, DevData, DevAcks
<1>d. /\ HostData' = 0 /\ HostAcks' = 0 /\ DevData' = 1 /\ DevAcks' = 0
      /\ HostDataOld' = hdo /\ HostAcksOld' = hao /\ DevDataOld' = dd /\ DevAcksOld' = da
  <2>1. /\ Is(d, "data", call + 1) /\ ~Is(d, "data", call) /\ ~Is(d, "ack", call + 1) /\ ~Is(d, "ack", call)
    BY <1>4, <1>6 DEF Is
  <2>2. /\ N(toDev', "data", call + 1) = 0 + 1 /\ N(toDev', "ack", call + 1) = 0 + 0
        /\ N(toDev', "data", call) = dd + 0 /\ N(toDev', "ack", call) = da + 0
    BY <1>9, <1>b, <1>c, <2>1 DEF Bit, DevData, DevAcks
  <2>3. call' - 1 = call
    BY <1>1, <1>4
  <2>4. /\ HostData' = N(toHost', "data", call + 1) /\ HostAcks' = N(toHost', "ack", call + 1)
        /\ DevData' = N(toDev', "data", call + 1) /\ DevAcks' = N(toDev', "ack", call + 1)
    BY <1>1 DEF HostData, HostAcks, DevData, DevAcks
  <2>5. /\ HostDataOld' = N(toHost', "data", call) /\ HostAcksOld' = N(toHost', "ack", call)
        /\ DevDataOld' = N(toDev', "data", call) /\ DevAcksOld' = N(toDev', "ack", call)
    BY <2>3 DEF HostDataOld, HostAcksOld, DevDataOld, DevAcksOld
  <2>. QED
    BY <1>b, <1>c, <2>2, <2>4, <2>5
<1>e. HostShape'
  <2>1. ASSUME NEW k \in 2..call + 1 PROVE ids'[k] # ids'[k - 1]
    <3>1. CASE k = call + 1
      <4>1. call' >= 2 /\ call' = k
        BY <1>1, <1>4, <3>1
      <4>2. ids'[call'] # ids'[call' - 1]
        BY <4>1 DEF OrderInv, IdsInv
      <4>. QED
        BY <4>1, <4>2
    <3>2. CASE k # call + 1
      <4>1. k \in 2..call /\ k # call + 1 /\ k - 1 # call + 1 /\ k \in 1..MaxCalls /\ k - 1 \in 1..MaxCalls
        BY <1>4, <3>2, PadpAssumption
      <4>2. ids \in [1..MaxCalls -> Txids]
        BY <1>1 DEF TypeOK, Ids
      <4>3. ids'[k] = ids[k] /\ ids'[k - 1] = ids[k - 1]
        BY <1>1, <4>1, <4>2
      <4>. QED
        BY <1>1, <4>1, <4>3 DEF HostShape
    <3>. QED
      BY <3>1, <3>2
  <2>. QED
    BY <1>1, <2>1 DEF HostShape, Receiving
<1>f. DevShape'
  <2>1. devMode = "reply" => devOff + 1 = devLen
    BY <1>1, <1>5 DEF DevShape
  <2>2. devMode \in {"wait", "reply"}
    BY <1>1, <1>5 DEF DevShape, TypeOK
  <2>. QED
    BY <1>1, <1>3, <2>1, <2>2 DEF DevShape
<1>g. FrameShape'
  <2>1. ASSUME NEW q \in In(toDev') PROVE q \in In(toDev) \/ q = d
    BY <1>1, <1>4, <1>6, <2>1, InPut DEF d
  <2>. QED
    BY <1>1, <1>6, <1>8, <2>1, FramesKept
<1>h. OneToken'
  <2>1. ASSUME NEW k \in Int
        PROVE  N(toHost', "data", k) + N(toDev', "ack", k) <= N(toHost, "data", k) + N(toDev, "ack", k)
    <3>1. /\ N(toHost', "data", k) <= N(toHost, "data", k)
          /\ N(toHost', "data", k) \in Nat /\ N(toHost, "data", k) \in Nat
      BY <1>9
    <3>2. /\ N(toDev', "ack", k) = N(toDev, "ack", k) + Bit(Is(d, "ack", k)) /\ N(toDev, "ack", k) \in Nat
      BY <1>9
    <3>3. ~Is(d, "ack", k)
      BY <1>6 DEF Is
    <3>4. N(toDev', "ack", k) = N(toDev, "ack", k)
      BY <3>2, <3>3 DEF Bit
    <3>. QED
      BY <3>1, <3>2, <3>4
  <2>. QED
    BY <1>1, <2>1, TokensKept
<1>i. Room'
  <2>1. PICK b \in {0, 1} : b = Bit(ToBeDone')
    BY BitType
  <2>2. hd + ha + dd <= 1
    BY <1>1, <1>c DEF Room
  <2>3. hdo + hao + dd <= 1
    BY <1>c, <2>2
  <2>4. b <= 1
    OBVIOUS
  <2>5. 0 + 0 + 1 + 0 + hdo + hao + dd + b <= 3
    BY <2>3, <2>4
  <2>. QED
    BY <1>1, <1>c, <1>d, <2>1, <2>5, RoomFor
<1>j. Requesting'
  <2>1. Bit(~Asked') = 0 /\ TxRetries - retries' = 0
    <3>1. DevData' > 0 /\ TxRetries \in Nat
      BY <1>1, <1>d, NumbersOk
    <3>2. Bit(~Asked') = 0
      BY <3>1 DEF Asked, Bit
    <3>. QED
      BY <1>1, <3>1, <3>2
  <2>2. PICK y \in {0, 1}, l \in Nat : y = Bit(devCall' # call' /\ Unanswered') /\ l = used.losses
    BY <1>1, BitType, NumbersOk
  <2>3. y = 1 => devMode = "reply" /\ hdo + da = 0
    <3>1. devCall' # call'
      BY <1>1, <1>3, <1>4, <1>5
    <3>. QED
      BY <1>3, <1>d, <2>2, <3>1 DEF Unanswered, Bit
  <2>4. hd + da <= 1
    BY <1>1, <1>4, <1>c, TokenCounts
  <2>5. hd # 0 => devMode = "reply"
    <3>1. SUFFICES ASSUME hd # 0, devMode # "reply" PROVE FALSE
      OBVIOUS
    <3>2. \A q \in In(toHost) : ~Is(q, "data", call)
      BY <1>1, <1>5, <3>1 DEF FrameShape
    <3>3. HostData = 0
      BY <1>4, <3>2, CountNone DEF HostData
    <3>. QED
      BY <1>c, <3>1, <3>3
  <2>6. devMode = "reply" /\ da = 0 => l >= 1
    BY <1>1, <1>c, <2>2 DEF Resting
  <2>7. 0 + hdo + 0 + y <= l
    <3>1. CASE y = 1
      <4>1. hdo \in Nat /\ da \in Nat /\ hdo + da = 0
        BY <1>c, <2>3, <3>1
      <4>2. hdo = 0 /\ da = 0
        BY <4>1
      <4>. QED
        BY <2>2, <2>3, <2>6, <3>1, <4>2
    <3>2. CASE y = 0 /\ hdo # 0
      BY <1>c, <2>2, <2>4, <2>5, <2>6, <3>2
    <3>3. CASE y = 0 /\ hdo = 0
      BY <2>2, <3>3
    <3>. QED
      BY <2>2, <3>1, <3>2, <3>3
  <2>. QED
    BY <1>1, <1>d, <2>1, <2>2, <2>7 DEF Requesting
<1>k. Resting'
  BY <1>1 DEF Resting
<1>l. Answering'
  <2>1. devCall' # call'
    BY <1>1, <1>3, <1>4, <1>5
  <2>. QED
    BY <2>1 DEF Answering
<1>. QED
  BY <1>1, <1>e, <1>f, <1>g, <1>h, <1>i, <1>j, <1>k, <1>l DEF Calm

-----------------------------------------------------------------------------
(* Recovery. *)

LEMMA RxSilenceRecover ==
  ASSUME Recoverable, Sound, RxSilence
  PROVE  Recover'
<1>1. /\ Receiving /\ toDev = <<>> /\ devMode # "exec" /\ devMode # "reply"
      /\ pc' = "idle" /\ outcome' = "timeout" /\ UNCHANGED <<toDev, devVars, rxbuf>>
      /\ TypeOK /\ HostShape /\ DevShape /\ Answering
  BY DEF RxSilence, Quiet, Recoverable, Return, Sound, Calm
<1>2. devMode = "wait" /\ devCall = call /\ pc # "idle"
  BY <1>1 DEF TypeOK, DevShape, HostShape, Receiving
<1>3. FirstUnacked
  BY <1>1, <1>2 DEF Answering
<1>. QED
  BY <1>1, <1>2, <1>3 DEF Recover, GaveUp, FirstUnacked, CallsSucceed, devVars

LEMMA HostReadsRecover ==
  ASSUME Recoverable, Sound, Recover, TypeOK', HostReads
  PROVE  Recover'
<1>1. PICK p \in First(toHost) :
        /\ toHost' = Tail(toHost)
        /\ \/ TxSwallow \/ TxTickle(p) \/ TxMissingAck(p) \/ TxAck(p)
           \/ TxFail(p) \/ TxRepeat(p)
           \/ RxAccept(p) \/ RxMemErr(p) \/ RxWrong(p)
  BY DEF HostReads
<1>2. pc # "idle" /\ outcome = "none" /\ HostShape
  <2>1. pc # "idle"
    BY <1>1 DEF TxSwallow, TxTickle, TxMissingAck, TxAck, TxFail, TxRepeat, RxAccept, RxMemErr,
                RxWrong, TxReads, Receiving
  <2>. QED
    BY <2>1 DEF Recover, Sound, Calm
<1>3. p.kind \in {"data", "ack"} /\ ~p.mem
  BY <1>1, <1>2, HostFrameRead
<1>4. CASE TxSwallow \/ TxTickle(p) \/ RxMemErr(p)
  BY <1>2, <1>3, <1>4 DEF TxSwallow, TxTickle, RxMemErr, IsMemErr, HostShape
<1>5. CASE TxMissingAck(p) \/ TxAck(p)
  <2>1. Calm' /\ outcome' = outcome
    <3>1. Calm'
      BY <1>1, <1>5, TxDoneCalm
    <3>2. outcome' = outcome
      BY <1>5 DEF TxMissingAck, TxAck, TxDone
    <3>. QED
      BY <3>1, <3>2
  <2>. QED
    BY <1>2, <2>1 DEF Recover, GaveUp
<1>6. CASE TxFail(p)
  <2>1. pc' = "idle" /\ outcome' = "failed"
    BY <1>6 DEF TxFail, Return
  <2>. QED
    BY <2>1 DEF Recover, GaveUp, CallsSucceed
<1>7. CASE TxRepeat(p)
  <2>1. Calm' /\ outcome' = outcome
    BY <1>1, <1>7, TxRepeatCalm
  <2>. QED
    BY <1>2, <2>1 DEF Recover, GaveUp
<1>8. CASE RxAccept(p)
  <2>1. Calm'
    BY <1>1, <1>8, RxAcceptCalm
  <2>2. (pc' = "idle" /\ outcome' = "ok") \/ (pc' # "idle" /\ outcome' = "none")
    BY <1>2, <1>8 DEF RxAccept, Return
  <2>. QED
    BY <2>1, <2>2 DEF Recover, GaveUp
<1>9. CASE RxWrong(p)
  <2>1. Calm'
    BY <1>1, <1>9, RxWrongCalm
  <2>2. outcome' = outcome
    BY <1>9 DEF RxWrong, Recoverable
  <2>. QED
    BY <1>2, <2>1, <2>2 DEF Recover, GaveUp
<1>. QED
  BY <1>1, <1>4, <1>5, <1>6, <1>7, <1>8, <1>9

(* A call has failed and no other is made: nothing moves that matters.     *)
LEMMA FailedRecover ==
  ASSUME Recoverable, TypeOK, Recover, ~CallsSucceed, Next
  PROVE  Recover'
<1>1. pc = "idle"
  BY DEF Recover, CallsSucceed
<1>2. ~Begin /\ ~HostReads /\ ~TxTimeout /\ ~RxSilence /\ ~TxDamaged
  BY <1>1 DEF Begin, PadpTx, HostReads, TxTimeout, RxSilence, TxDamaged, TxSwallow, TxTickle,
              TxMissingAck, TxAck, TxFail, TxRepeat, RxAccept, RxMemErr, RxWrong, TxReads,
              Receiving, Recoverable, CallsSucceed
<1>3. CASE Finished
  BY <1>3 DEF Finished, vars, hostVars, devVars, Recover, GaveUp, CallsSucceed
<1>4. CASE ~Finished
  <2>1. DevReads \/ DevReply \/ DevResend \/ DevGiveUp \/ LoseToDev \/ LoseToHost
    BY <1>2, <1>4, NoTickles DEF Next, Line
  <2>2. UNCHANGED <<pc, outcome, rxbuf>>
    BY <2>1 DEF DevReads, DevAccept, DevMemErr, DevRepeatAck, DevIgnore, DevGetsAck, DevReply,
                DevResend, DevGiveUp, LoseToDev, LoseToHost, hostVars
  <2>3. outcome = "timeout" => UNCHANGED <<toDev, devMode, devOff, devLen>>
    <3>1. SUFFICES ASSUME outcome = "timeout" PROVE UNCHANGED <<toDev, devMode, devOff, devLen>>
      OBVIOUS
    <3>2. toDev = <<>> /\ devMode = "wait"
      BY <3>1 DEF Recover, GaveUp
    <3>3. LoseToHost
      BY <2>1, <3>2 DEF DevReads, First, DevReply, DevResend, DevGiveUp, LoseToDev
    <3>. QED
      BY <3>3 DEF LoseToHost, devVars
  <2>. QED
    BY <1>1, <2>2, <2>3 DEF Recover, GaveUp, CallsSucceed
<1>. QED
  BY <1>3, <1>4

LEMMA NextRecover ==
  ASSUME Recoverable, TypeOK, OrderInv, WholeInv, Recover, [Next]_vars, TypeOK', OrderInv'
  PROVE  Recover'
<1>1. CASE UNCHANGED vars
  <2>1. UNCHANGED <<hostVars, toDev, toHost, devVars, used>>
    BY <1>1 DEF vars
  <2>2. UNCHANGED <<pc, outcome, retries, stuck, sent, reqLen, rxbuf, ids, call, toDev, toHost, used>>
        /\ UNCHANGED <<devMode, devTxid, devCall, devGot, devLen, devOff, devTries>>
    BY <2>1 DEF hostVars, devVars
  <2>3. /\ Asked' = Asked /\ Unanswered' = Unanswered /\ AckComes' = AckComes
        /\ ToBeDone' = ToBeDone /\ FirstUnacked' = FirstUnacked /\ DevFragment' = DevFragment
    BY <2>2, ToDevKept, ToHostKept DEF Asked, Unanswered, AckComes, ToBeDone, FirstUnacked, DevFragment
  <2>4. Load' = Load
    BY <2>2, <2>3, ToDevKept, ToHostKept DEF Load
  <2>5. HostShape' = HostShape /\ DevShape' = DevShape /\ FrameShape' = FrameShape
    BY <2>2, <2>3 DEF HostShape, DevShape, FrameShape, Receiving, In
  <2>6. OneToken' = OneToken /\ Room' = Room
    BY <2>2, <2>4, ToDevKept, ToHostKept DEF OneToken, Tokens, Room, Receiving
  <2>7. Requesting' = Requesting /\ Resting' = Resting /\ Answering' = Answering
    BY <2>2, <2>3, ToDevKept, ToHostKept DEF Requesting, Resting, Answering, Receiving
  <2>. QED
    BY <2>2, <2>5, <2>6, <2>7 DEF Recover, GaveUp, CallsSucceed, Calm
<1>2. CASE Next /\ ~CallsSucceed
  BY <1>2, FailedRecover
<1>3. CASE Next /\ CallsSucceed
  <2>1. Sound
    BY <1>3 DEF Sound, Recover
  <2>2. CASE Begin
    <3>1. Calm' /\ outcome' = "none"
      BY <2>1, <2>2, BeginCalm
    <3>. QED
      BY <3>1 DEF Recover, GaveUp
  <2>3. CASE HostReads
    BY <2>1, <2>3, HostReadsRecover
  <2>4. CASE RxSilence
    BY <2>1, <2>4, RxSilenceRecover
  <2>5. CASE TxTimeout \/ TxDamaged
    <3>1. Calm' /\ UNCHANGED <<pc, outcome>>
      BY <2>1, <2>5, TxTimeoutCalm, TxDamagedCalm
    <3>. QED
      BY <1>3, <3>1 DEF Recover, GaveUp, CallsSucceed
  <2>6. CASE DevReads \/ DevReply \/ DevResend \/ DevGiveUp \/ DevTickle \/ LoseToDev \/ LoseToHost
    <3>1. Calm'
      BY <2>1, <2>6, DeviceCalm
    <3>2. UNCHANGED <<pc, outcome>>
      BY <2>6 DEF DevReads, DevAccept, DevMemErr, DevRepeatAck, DevIgnore, DevGetsAck, DevReply,
                  DevResend, DevGiveUp, DevTickle, LoseToDev, LoseToHost, hostVars
    <3>. QED
      BY <1>3, <3>1, <3>2 DEF Recover, GaveUp, CallsSucceed
  <2>7. CASE Finished
    BY <1>1, <2>7 DEF Finished
  <2>. QED
    BY <1>3, <2>2, <2>3, <2>4, <2>5, <2>6, <2>7 DEF Next, Line
<1>. QED
  BY <1>1, <1>2, <1>3

LEMMA InitRecover ==
  ASSUME Recoverable, Init
  PROVE  Recover
<1>1. /\ pc = "idle" /\ outcome = "none" /\ call = 0 /\ stuck = FALSE
      /\ toDev = <<>> /\ toHost = <<>> /\ rxbuf = <<>>
      /\ devMode = "wait" /\ devCall = 0
  BY DEF Init
<1>2. HostShape /\ DevShape
  BY <1>1 DEF HostShape, DevShape, Receiving
<1>3. FrameShape
  BY <1>1 DEF FrameShape, In
<1>4. OneToken
  <2>1. ASSUME NEW k \in Int PROVE Tokens(k) <= 1
    BY <1>1, CountEmpty DEF Tokens
  <2>. QED
    BY <2>1 DEF OneToken
<1>5. Room
  BY <1>1, NothingUnderWay DEF Room, Receiving
<1>6. Requesting /\ Resting /\ Answering
  BY <1>1 DEF Requesting, Resting, Answering
<1>. QED
  BY <1>1, <1>2, <1>3, <1>4, <1>5, <1>6 DEF Recover, GaveUp, Calm

(* On a device and a line that are only slow, never longer than the waits  *)
(* of padp_tx, a call whose request is one fragment survives the loss of   *)
(* any TxRetries - 1 frames of the session: padp_tx never gives the device *)
(* up, and padp_rx runs out of time for one reason only, the ack of the    *)
(* first of several fragments that it sends but once.                      *)
THEOREM LossesRecovered ==
  ASSUME Recoverable
  PROVE  Spec => []LossesMadeUpFor
<1>1. Init => TypeOK /\ OrderInv /\ WholeInv /\ Recover
  BY InitType, InitOrder, InitWhole, InitRecover
<1>2. TypeOK /\ OrderInv /\ WholeInv /\ Recover /\ [Next]_vars
        => TypeOK' /\ OrderInv' /\ WholeInv' /\ Recover'
  <2>1. TypeOK /\ OrderInv /\ WholeInv /\ [Next]_vars => TypeOK' /\ OrderInv' /\ WholeInv'
    BY NextType, NextOrder, NextWhole DEF Recoverable
  <2>. QED
    BY <2>1, NextRecover
<1>3. Recover => LossesMadeUpFor
  BY DEF Recover, GaveUp, LossesMadeUpFor
<1>. QED
  BY <1>1, <1>2, <1>3, PTL DEF Spec
=============================================================================
