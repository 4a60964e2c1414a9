-------------------------------- MODULE Serial --------------------------------
(***************************************************************************)
(* SLP frames over a serial line: slp_tx over s_write at one end, s_read   *)
(* below slp_rx at the other (slp.c, unixserial.c), preceded by the search *)
(* for a first PADP packet with which protocol_queue_build (socket.c)      *)
(* finds out what the device speaks.  The line may damage bytes, the       *)
(* kernel cut writes and hand over bytes in pieces, signals interrupt.     *)
(*                                                                         *)
(* A byte is <<kind, packet, index>>.  A packet is a signature of three    *)
(* bytes, the rest of the header (HeaderRest bytes, the last of them its   *)
(* checksum), data and a CRC; the sums are taken to detect any damage.     *)
(***************************************************************************)
EXTENDS Naturals, Sequences, FiniteSets, Functions

CONSTANTS
  MaxPackets,  \* bound: packets sent
  Payloads,    \* what they carry: sequences over "data", "be", "ef", "ed"
  HeaderRest,  \* bytes of a header after its signature (7 in the code)
  Room,        \* len: the longest payload slp_rx is asked for
  MaxLine,     \* bound: bytes not yet read when the next packet is written
  MaxHarms,    \* bound: bytes lost, damaged or added on the line, writes cut
               \*        short, and pauses that outlast a read
  MaxAlarms    \* bound: signals and hangups while a read waits

ASSUME SerialAssumption ==
  /\ {MaxPackets, HeaderRest, Room, MaxLine, MaxHarms, MaxAlarms} \subseteq Nat
  /\ HeaderRest > 0
  /\ Payloads \subseteq Seq({"data", "be", "ef", "ed"}) \ {<<>>}

VARIABLES
  packets,    \* packets handed to slp_tx: their data, and do they open a connection?
  tx,         \* of s_write: the packet, and total, what it takes to be unsent
  written,    \* packets slp_tx returned without an error for
  line,       \* bytes written and not read
  hungup,     \* has the line been hung up?
  pc,         \* of the reader: "detect", "rx", "idle" or "failed"
  timed,      \* has the device a timeout (data->timeout)?
  blocked,    \* in read, after a select that was interrupted
  readAhead,  \* data->buf, what was peeked at
  state,      \* of slp_rx: which part of the packet it reads
  frame,      \* slp_buf
  expect,     \* how much is missing of that part
  from,       \* the packet that detection ended with, or 0
  delivered,  \* what slp_rx returned: header and data
  harms, alarms

sender == <<packets, tx, written>>
slp    == <<state, frame, expect>>
reader == <<pc, timed, blocked, readAhead, slp, from, delivered>>
env    == <<hungup, harms, alarms>>
vars   == <<sender, line, reader, env>>

SigKinds == <<"be", "ef", "ed">>
Byte(kind) == <<kind, 0, 0>>
Noise      == Byte("noise")
SigLen     == 3
CrcLen     == 2
PeekLen    == SigLen + HeaderRest

Sig        == [i \in 1..SigLen |-> Byte(SigKinds[i])]
Header(p)  == [i \in 1..HeaderRest |-> <<"head", p, i>>]
Data(p)    == [i \in DOMAIN packets[p].data |->
                 IF packets[p].data[i] = "data" THEN <<"data", p, i>>
                 ELSE Byte(packets[p].data[i])]
Content(p) == Header(p) \o Data(p)
Frame(p)   == Sig \o Content(p) \o [i \in 1..CrcLen |-> <<"crc", p, i>>]

Packets  == 1..Len(packets)
First(s, k)   == SubSeq(s, 1, k)
Without(s, k) == SubSeq(s, k + 1, Len(s))
Least(m, n)   == IF m < n THEN m ELSE n

NoTx == [of |-> 0, total |-> 0]

Init ==
  /\ packets = <<>> /\ tx = NoTx /\ written = {}
  /\ line = <<>> /\ hungup = FALSE
  /\ pc = "detect" /\ timed \in BOOLEAN /\ blocked = FALSE /\ readAhead = <<>>
  /\ state = "sig" /\ frame = <<>> /\ expect = SigLen
  /\ from = 0 /\ delivered = <<>>
  /\ harms = 0 /\ alarms = 0

-----------------------------------------------------------------------------
(* Sending.  Only a first packet opens a connection, and once it is found  *)
(* it makes no difference any more which one does.                         *)

SlpTx ==
  /\ tx = NoTx /\ ~hungup /\ Len(packets) < MaxPackets
  /\ \E d \in Payloads, w \in {FALSE, from = 0} :
       /\ packets' = Append(packets, [data |-> d, wake |-> w])
       /\ tx' = [of |-> Len(packets) + 1, total |-> 3 + HeaderRest + Len(d) + CrcLen]
  /\ UNCHANGED <<written, line, reader, env>>

(* The line: a byte is lost, damaged or added.                             *)
Damaged(s) ==
  UNION {{First(s, i - 1) \o Without(s, i),
          First(s, i - 1) \o <<Noise>> \o Without(s, i),
          First(s, i - 1) \o <<Noise>> \o Without(s, i - 1)} : i \in DOMAIN s}

CanWrite == tx # NoTx /\ ~hungup /\ Len(line) <= MaxLine
Harm     == harms < MaxHarms /\ harms' = harms + 1

Write ==
  /\ CanWrite
  /\ \/ line' = line \o Frame(tx.of) /\ UNCHANGED harms
     \/ /\ Harm
        /\ \E s \in Damaged(Frame(tx.of)) : line' = line \o s
  /\ tx' = NoTx /\ written' = written \cup {tx.of}
  /\ UNCHANGED <<packets, reader, hungup, alarms>>

(* A signal ends a write after k bytes.  s_write counts them, and writes   *)
(* the whole buffer again, until it has counted len bytes.                 *)
WriteCut ==
  /\ CanWrite /\ Harm
  /\ \E k \in 1..(Len(Frame(tx.of)) - 1) :
       /\ line' = line \o First(Frame(tx.of), k)
       /\ IF k < tx.total
          THEN tx' = [tx EXCEPT !.total = @ - k] /\ UNCHANGED written
          ELSE tx' = NoTx /\ written' = written \cup {tx.of}
  /\ UNCHANGED <<packets, reader, hungup, alarms>>

WriteFails ==
  /\ tx # NoTx /\ tx' = NoTx
  /\ UNCHANGED <<packets, written, line, reader, env>>


-----------------------------------------------------------------------------
(* protocol_queue_build: peek at as many bytes as a header has, drop some  *)
(* that do not begin one, and look again.                                  *)

SumOk(h) == \E p \in Packets : h = Header(p)

PeekForgets == First(readAhead, 0)
Peeked      == readAhead

Peek ==
  /\ pc = "detect" /\ Len(readAhead) < PeekLen /\ line # <<>>
  /\ \E k \in 1..Least(PeekLen - Len(readAhead), Len(line)) :
       readAhead' = readAhead \o First(line, k) /\ line' = Without(line, k)
  /\ blocked' = FALSE
  /\ UNCHANGED <<sender, pc, timed, slp, from, delivered, env>>

LooksLikeHeader == First(readAhead, SigLen) = Sig
ToSkip == CASE ~LooksLikeHeader                     -> 1
            [] SumOk(Without(readAhead, SigLen))    -> PeekLen
            [] OTHER                                -> SigLen
Opens == /\ LooksLikeHeader
         /\ SumOk(Without(readAhead, SigLen))
         /\ packets[readAhead[PeekLen][2]].wake

Examine ==
  /\ pc = "detect" /\ Len(readAhead) = PeekLen
  /\ IF Opens
     THEN /\ pc' = "rx" /\ from' = readAhead[PeekLen][2]
          /\ readAhead' = Peeked
     ELSE /\ readAhead' = Without(readAhead, ToSkip)
          /\ UNCHANGED <<pc, from>>
  /\ UNCHANGED <<sender, line, timed, blocked, slp, delivered, env>>

-----------------------------------------------------------------------------
(* slp_rx.  A part of the packet that is complete decides what is next.    *)

Restart == state' = "sig" /\ frame' = <<>> /\ expect' = SigLen

(* It returns the data, 0 for a bad packet, or an error.                   *)
Return(out) == pc' = "idle" /\ Restart /\ delivered' = delivered \o out
GoesOn(part, f, n) ==
  state' = part /\ frame' = f /\ expect' = n /\ UNCHANGED <<pc, delivered>>

HuntAfresh(f) == GoesOn("sig", <<>>, SigLen)
Hunt(f) == GoesOn("sig", Tail(f), 1)

GotSig(f) == IF f = Sig THEN GoesOn("header", f, HeaderRest) ELSE Hunt(f)

GotHeader(f) ==
  LET h == Without(f, SigLen) IN
  IF SumOk(h) /\ Len(packets[h[1][2]].data) <= Room
  THEN GoesOn("data", f, Len(packets[h[1][2]].data))
  ELSE Return(<<>>)

CrcIgnored(f) == TRUE
CrcOk(f) == \E p \in Packets : f = Frame(p)

GotCrc(f) ==
  Return(IF CrcOk(f) THEN <<Without(First(f, Len(f) - CrcLen), SigLen)>> ELSE <<>>)

StillExpected(k) == expect
Missing(k) == expect - k

(* What one s_read adds: next->read and what follows.                      *)
Got(bytes) ==
  LET f == frame \o bytes IN
  IF Len(bytes) < expect THEN GoesOn(state, f, Missing(Len(bytes)))
  ELSE \/ state = "sig"    /\ GotSig(f)
       \/ state = "header" /\ GotHeader(f)
       \/ state = "data"   /\ GoesOn("crc", f, CrcLen)
       \/ state = "crc"    /\ GotCrc(f)

ReadBuf ==
  /\ pc = "rx" /\ readAhead # <<>>
  /\ LET k == Least(expect, Len(readAhead)) IN
       Got(First(readAhead, k)) /\ readAhead' = Without(readAhead, k)
  /\ UNCHANGED <<sender, line, timed, blocked, from, env>>

Read ==
  /\ pc = "rx" /\ readAhead = <<>> /\ line # <<>>
  /\ \E k \in 1..Least(expect, Len(line)) :
       Got(First(line, k)) /\ line' = Without(line, k)
  /\ blocked' = FALSE
  /\ UNCHANGED <<sender, timed, readAhead, from, env>>

(* padp_rx or padp_tx read again, with a timeout or without.               *)
SlpRx ==
  /\ pc = "idle" /\ pc' = "rx" /\ timed' \in BOOLEAN
  /\ UNCHANGED <<sender, line, blocked, readAhead, slp, from, delivered, env>>

-----------------------------------------------------------------------------
Waiting == \/ pc = "detect" /\ Len(readAhead) < PeekLen
           \/ pc = "rx" /\ readAhead = <<>>
InSelect == Waiting /\ ~blocked /\ ~hungup

(* The time is over: the packet begun is dropped, detection fails.         *)
GiveUp ==
  /\ IF pc = "detect" THEN pc' = "failed" /\ UNCHANGED <<slp, delivered>>
                      ELSE Return(<<>>)
  /\ UNCHANGED <<sender, line, timed, blocked, readAhead, from>>

TimesOutAtStart == InSelect /\ timed /\ line = <<>> /\ frame = <<>> /\ GiveUp /\ UNCHANGED env
TimesOut == InSelect /\ timed /\ line = <<>> /\ GiveUp /\ UNCHANGED env

Pause ==
  /\ InSelect /\ timed /\ line # <<>> /\ GiveUp /\ Harm
  /\ UNCHANGED <<hungup, alarms>>

(* select fails and leaves its set as it was: s_read goes on to read.      *)
Alarm ==
  /\ InSelect /\ line = <<>>
  /\ alarms < MaxAlarms /\ alarms' = alarms + 1 /\ blocked' = TRUE
  /\ UNCHANGED <<sender, line, pc, timed, readAhead, slp, from, delivered,
                 hungup, harms>>

Hangup ==
  /\ InSelect /\ line = <<>>
  /\ alarms < MaxAlarms /\ alarms' = alarms + 1 /\ hungup' = TRUE
  /\ UNCHANGED <<sender, line, reader, harms>>

(* Also after a hangup: read returns 0 at once, and is called again.       *)
WaitsOn == Waiting /\ line = <<>> /\ UNCHANGED vars
Failed  == pc = "failed" /\ UNCHANGED vars

-----------------------------------------------------------------------------
Reads   == Peek \/ Examine \/ ReadBuf \/ Read \/ TimesOut
Sends   == SlpTx \/ Write \/ WriteCut \/ WriteFails
Next    == \/ Sends \/ Reads \/ SlpRx
           \/ Hangup \/ Pause \/ Alarm
           \/ WaitsOn \/ Failed

(* The reader runs when there is something to read, or its time is over.   *)
Spec == Init /\ [][Next]_vars /\ WF_vars(Reads)

-----------------------------------------------------------------------------
Bytes == {Noise} \cup {Sig[i] : i \in 1..SigLen}
         \cup ({"head", "data", "crc"} \X Packets \X Nat)

(* The variables have their types, and slp_buf ends where slp_rx computes  *)
(* it to: what it has and what it expects is the part it is in.            *)
TypeOK ==
  /\ packets \in Seq([data : Payloads, wake : BOOLEAN])
  /\ tx.of \in 0..Len(packets) /\ tx.total \in Nat
  /\ written \subseteq Packets /\ from \in 0..Len(packets)
  /\ Range(line) \subseteq Bytes /\ Range(frame) \subseteq Bytes
  /\ pc \in {"detect", "rx", "idle", "failed"}
  /\ {timed, blocked, hungup} \subseteq BOOLEAN
  /\ Len(readAhead) <= PeekLen
  /\ expect \in Nat \ {0}
  /\ LET full == Len(frame) + expect IN
       \/ state = "sig"    /\ full = SigLen
       \/ state = "header" /\ full = PeekLen
       \/ state = "data"   /\ full = PeekLen + Len(packets[frame[PeekLen][2]].data)
       \/ state = "crc"    /\ full = Len(Frame(frame[PeekLen][2]))

(* Whatever happens on the line and to the writes, what slp_rx returns are *)
(* packets that were sent, complete, in their order and once.              *)
InOrder ==
  /\ \A i \in DOMAIN delivered : \E p \in Packets : delivered[i] = Content(p)
  /\ \A i, j \in DOMAIN delivered : i < j => delivered[i][1][2] < delivered[j][1][2]

HasSig(p) == \E i \in DOMAIN packets[p].data : packets[p].data[i] = "be"
Lost == {p \in written : /\ p >= from /\ Len(packets[p].data) <= Room
                         /\ Content(p) \notin Range(delivered)}

(* A packet that was peeked at is not lost, and the reader finds a         *)
(* packet's start again: damage costs the packet it hits and the next, and *)
(* one more for every packet with something like a signature in its data.  *)
LossBounded ==
  from > 0 /\ line = <<>> /\ readAhead = <<>> /\ tx = NoTx =>
    Cardinality(Lost) <= 2 * harms
                           + Cardinality({p \in Packets : HasSig(p)})

(* A read with a timeout returns, unless a signal has interrupted it or    *)
(* the line was hung up (unixserial.c:440, "otherwise wait till timeout    *)
(* milliseconds").                                                         *)
TimedReadsReturn == (Waiting /\ timed) ~> (~Waiting \/ ~timed \/ blocked \/ hungup)
=============================================================================
