------------------------------ MODULE NetProofs ------------------------------
(***************************************************************************)
(* Theorems about Net, for any number of calls, tickles, failures and      *)
(* attempts to close, and any lengths of requests and responses.           *)
(***************************************************************************)
EXTENDS Net, SequenceTheorems, TLAPS

-----------------------------------------------------------------------------
(* Where an operation is, and what that means for the variables.           *)
Plan == <<"rx", "tx", "rx", "tx", "rx">>
Todos == {<<>>, <<"rx">>, <<"tx", "rx">>, <<"rx", "tx", "rx">>,
          <<"tx", "rx", "tx", "rx">>, Plan}

Control ==
  /\ pc \in {"detect", "app", "tx", "body", "rx", "read", "closed"}
  /\ op \in {"handshake", "call", "close"} /\ todo \in Todos
  /\ op # "handshake" => todo \in {<<>>, <<"rx">>, <<"tx", "rx">>}
  /\ pc \in {"app", "closed"} => todo = <<>>
  /\ pc = "detect" => op = "handshake" /\ todo = Plan
  /\ pc \in {"tx", "body"} => Len(todo) \in {2, 4}
  /\ pc \in {"rx", "read"} => Len(todo) \in {1, 3, 5}
  /\ pc = "body" => out # <<>>
  /\ pc # "read" => rx = NothingRead
  /\ op = "handshake" /\ todo # <<>> => command = TRUE /\ conn = "LISTEN" /\ cur = "cmd"
  /\ pc = "read" /\ command => cur = "cmd"
  /\ op = "handshake" => call = 0 /\ outcome = "none"
  /\ op = "call" => call \in Nat \ {0}
  /\ op = "call" /\ todo # <<>> => outcome = "none"

(* An application that stops at errors does not go on after pi_close.      *)
Closing ==
  /\ op = "close" => used.closes > 0
  /\ ~goesOn /\ op # "close" => used.closes = 0

(* What is sent to the device is about calls, the two packets of the host  *)
(* in the handshake, the end, or a tickle.                                 *)
Sent == {<<"call", k>> : k \in 1..MaxCalls}
        \cup {Shake(2), Shake(4), <<"close", 0>>, <<"tickle", 0>>}

(* The device ends the synchronization as it says so.                      *)
CloseSeen ==
  /\ \A i \in 1..Len(toHost) : toHost[i].of[1] = "close" => devTask = Ended
  /\ \A i \in 1..Len(rx.got) : rx.got[i].of[1] = "close" => devTask = Ended
  /\ conn = "END" => devTask = Ended

-----------------------------------------------------------------------------
(* A call is sent once: the beginnings of requests that the device has not *)
(* read, and the one it is reading, are of different calls, none of them   *)
(* carried out.                                                            *)
OfCall(u) == u.part = "first" /\ u.of[1] = "call"
Top == IF op = "call" /\ pc = "tx" THEN call - 1 ELSE call

Once ==
  /\ \A i \in 1..Len(toDev) :
       OfCall(toDev[i]) => toDev[i].of[2] <= Top /\ execs[toDev[i].of[2]] = 0
  /\ \A i, j \in 1..Len(toDev) :
       OfCall(toDev[i]) /\ OfCall(toDev[j]) /\ toDev[i].of = toDev[j].of => i = j
  /\ dev.have > 0 /\ dev.hdr.of[1] = "call" =>
       /\ dev.hdr.of[2] <= Top /\ execs[dev.hdr.of[2]] = 0
       /\ \A i \in 1..Len(toDev) : OfCall(toDev[i]) => toDev[i].of # dev.hdr.of
  /\ \A k \in 1..MaxCalls : execs[k] \in {0, 1} /\ (execs[k] = 1 => k <= Top)
  /\ \A i \in 1..Len(out) : out[i].part = "piece"

-----------------------------------------------------------------------------
(* While nothing has gone wrong, host and device take turns, and what the  *)
(* host has read of the stream is where it takes it to be.                 *)
Good ==
  /\ pc # "closed"
  /\ \/ ~goesOn /\ outcome # "error" /\ op # "close"
     \/ ~goesOn /\ outcome # "error" /\ op = "close" /\ todo # <<>> /\ used.closes = 1
     \/ op = "call" /\ clean /\ todo # <<>>

Opening(u) == u.part = "first" /\ u.type = DATA

(* Whose turn it is.                                                       *)
HostsTurn == pc \in {"app", "tx"}
OnItsWay  == \E i \in 1..Len(toDev) : Opening(toDev[i])
BeingRead == dev.have > 0 /\ dev.hdr.type = DATA
Tasked    == devTask \notin {Waiting, Lost, Ended}
Answered  == \E i \in 1..Len(toHost) : toHost[i].type = DATA
Receiving == rx.have > 0 /\ rx.hdr.type = DATA

(* The one packet that is no tickle is where the turn is.                  *)
OneTurn ==
  /\ HostsTurn => ~OnItsWay /\ ~BeingRead /\ ~Tasked /\ ~Answered /\ ~Receiving
  /\ OnItsWay  => ~BeingRead /\ ~Tasked /\ ~Answered /\ ~Receiving
  /\ BeingRead => ~Tasked /\ ~Answered /\ ~Receiving
  /\ Tasked    => ~Answered /\ ~Receiving
  /\ \A i, j \in 1..Len(toDev) : Opening(toDev[i]) /\ Opening(toDev[j]) => i = j

(* Headers reach the device in one piece.                                  *)
Headers ==
  /\ \A i \in 1..Len(toDev) :
       toDev[i].part = "first" => i < Len(toDev) /\ toDev[i + 1].type = toDev[i].type
  /\ dev.have = 1 => Len(toDev) > 0 /\ toDev[1].type = dev.hdr.type

(* Before the first packet has been read nothing else is on its way.       *)
Greeting ==
  todo = Plan =>
    /\ toDev = <<>> /\ devTask = Waiting /\ conn = "LISTEN"
    /\ pc = "detect" => ~eof
    /\ \A i \in 1..Len(toHost) : toHost[i].type = DATA

(* It is about the operation under way, and a call that is answered was    *)
(* carried out.                                                            *)
ThisCall == <<"call", call>>
Fits(of) ==
  /\ op = "call" => of = ThisCall
  /\ op = "close" => of = <<"close", 0>>
  /\ op = "handshake" => of[1] = "handshake"
Executed == op = "call" => execs[call] = 1
Current1 ==
  /\ \A i \in 1..Len(toDev) : Opening(toDev[i]) => Fits(toDev[i].of)
  /\ BeingRead => Fits(dev.hdr.of)
  /\ Tasked => Fits(devTask) /\ Executed
  /\ \A i \in 1..Len(toHost) : toHost[i].type = DATA => Fits(toHost[i].of) /\ Executed
  /\ Receiving => Fits(rx.hdr.of) /\ Executed

(* Headers are whole, and followed by as many pieces as they say.          *)
Follows(u, v) == v.part = "more" /\ v.type = u.type /\ v.of = u.of /\ v.len = u.len
PieceOf(u, v) == v.part = "piece" /\ v.type = DATA /\ v.of = u.of

Linked(s) ==
  \A i \in 1..Len(s) :
    /\ s[i].type \in {DATA, TCKL}
    /\ s[i].type = TCKL => s[i].part \in {"first", "more"} /\ s[i].len = 0
    /\ s[i].type = DATA => s[i].len \in Nat \ {0} /\ s[i].len <= PacketMax
    /\ s[i].part = "first" => (i < Len(s) => Follows(s[i], s[i + 1]))
    /\ s[i].part = "more" =>
         /\ \A j \in 1..s[i].len : i + j <= Len(s) => PieceOf(s[i], s[i + j])
         /\ i + s[i].len < Len(s) => s[i + s[i].len + 1].part = "first"
Whole(s) ==
  \A i \in 1..Len(s) : /\ s[i].part = "first" => i < Len(s)
                       /\ s[i].part = "more" => i + s[i].len <= Len(s)

Expected == IF rx.have = 2 THEN rx.hdr.len - Len(rx.got) ELSE 0
(* The only packet of data that has not been begun.                        *)
OneAnswer(s) ==
  \A j \in 1..Len(s) : s[j].type = DATA =>
    \E i \in 1..j : Opening(s[i]) /\ j <= i + 1 + s[i].len
                    /\ \A k \in 1..Len(s) : Opening(s[k]) => k = i

Aligned ==
  LET s == toHost IN
  /\ Linked(s)
  /\ ~eof => Whole(s)
  /\ rx.have < 2 => rx.got = <<>>
  /\ rx.have = 0 => OneAnswer(s) /\ (s # <<>> => s[1].part = "first")
  /\ rx.have = 1 =>
       /\ rx.hdr.part = "first" /\ rx.hdr.type \in {DATA, TCKL}
       /\ rx.hdr.type = TCKL => rx.hdr.len = 0 /\ OneAnswer(s)
       /\ rx.hdr.type = DATA => \A i \in 1..Len(s) : s[i].type = DATA => i <= 1 + rx.hdr.len
       /\ s # <<>> => Follows(rx.hdr, s[1])
       /\ ~eof => s # <<>>
  /\ rx.have = 2 =>
       /\ rx.hdr.type = DATA /\ rx.hdr.len \in Nat \ {0} /\ Len(rx.got) <= rx.hdr.len
       /\ \A i \in 1..Len(rx.got) : PieceOf(rx.hdr, rx.got[i])
       /\ \A i \in 1..Len(s) : i <= Expected => PieceOf(rx.hdr, s[i])
       /\ \A i \in 1..Len(s) : s[i].type = DATA => i <= Expected
       /\ Expected < Len(s) => s[Expected + 1].part = "first"
       /\ ~eof => Expected <= Len(s)

(* Or the first packet has lost its beginning.                             *)
FirstPiece == Unit("piece", DATA, 1, Shake(1), 2)
FirstMore  == Unit("more", DATA, 1, Shake(1), 2)
Headless ==
  /\ op = "handshake" /\ todo = Plan /\ rx = NothingRead
  /\ inst["cmd"].txid = 0
  /\ \/ pc = "detect" /\ toHost = <<FirstMore, FirstPiece, FirstPiece>>
     \/ toHost = <<FirstPiece, FirstPiece>>
     \/ eof /\ toHost \in {<<>>, <<FirstPiece>>}

InTurn == Good => OneTurn /\ Current1
InStep == Good => Aligned \/ Headless

OwnAnswer ==
  outcome = "ok" /\ (clean \/ ~goesOn) => answer = ThisCall /\ (call \in 1..MaxCalls => execs[call] = 1)

-----------------------------------------------------------------------------
(* Control.                                                                *)
LEMMA TodoFacts ==
  ASSUME NEW t \in Todos
  PROVE  /\ t \in Seq({"tx", "rx"}) /\ Len(t) \in 0..5 /\ (t = <<>> <=> Len(t) = 0)
         /\ Len(t) = 1 => t = <<"rx">>
         /\ Len(t) = 5 => t = Plan
         /\ Len(t) > 1 => /\ Tail(t) \in Todos /\ Len(Tail(t)) = Len(t) - 1 /\ Tail(t) # <<>>
                          /\ Head(Tail(t)) = IF Len(t) \in {2, 4} THEN "rx" ELSE "tx"
         /\ Len(t) > 1 /\ t \in {<<>>, <<"rx">>, <<"tx", "rx">>} => Tail(t) = <<"rx">>
<1>1. CASE t = <<>>
  BY <1>1
<1>2. CASE t = <<"rx">>
  BY <1>2
<1>3. CASE t = <<"tx", "rx">>
  <2>1. Tail(t) = <<"rx">>
    BY <1>3
  <2> QED BY <1>3, <2>1 DEF Todos
<1>4. CASE t = <<"rx", "tx", "rx">>
  <2>1. Tail(t) = <<"tx", "rx">>
    BY <1>4
  <2> QED BY <1>4, <2>1 DEF Todos
<1>5. CASE t = <<"tx", "rx", "tx", "rx">>
  <2>1. Tail(t) = <<"rx", "tx", "rx">>
    BY <1>5
  <2> QED BY <1>5, <2>1 DEF Todos
<1>6. CASE t = Plan
  <2>1. Tail(t) = <<"tx", "rx", "tx", "rx">>
    BY <1>6 DEF Plan
  <2> QED BY <1>6, <2>1 DEF Todos, Plan
<1> QED BY <1>1, <1>2, <1>3, <1>4, <1>5, <1>6 DEF Todos

(* What becomes of an operation when net_tx or net_rx returns.             *)
GoesOnTo ==
  /\ Len(todo) > 1 /\ todo' = Tail(todo)
  /\ pc' = IF Len(todo) \in {2, 4} THEN "rx" ELSE "tx"
  /\ UNCHANGED <<op, conn, command, call, outcome, answer, clean>>
EndsWell(of) ==
  /\ todo = <<"rx">> /\ todo' = <<>>
  /\ pc' = IF op = "close" THEN "closed" ELSE "app"
  /\ conn' = IF op = "close" THEN "END" ELSE "ACCEPT"
  /\ op = "handshake" \/ RightCommand(of)
  /\ outcome' = IF op = "call" THEN "ok" ELSE outcome
  /\ answer' = IF op = "call" THEN of ELSE answer
  /\ command' = FALSE /\ UNCHANGED <<op, call, clean>>
EndsBadly ==
  /\ todo' = <<>> /\ pc' = IF op = "handshake" THEN "closed" ELSE "app"
  /\ conn' \in {conn, "BREAK"}
  /\ outcome' = IF op = "call" THEN "error" ELSE outcome
  /\ command' = IF op = "close" THEN FALSE ELSE command
  /\ UNCHANGED <<op, call, answer, clean>>

LEMMA Outcomes ==
  ASSUME Control, NEW of, StepDone(of)
  PROVE  GoesOnTo \/ EndsWell(of) \/ EndsBadly
<1>1. todo \in Todos
  BY DEF Control
<1>2. CASE Len(todo) > 1 /\ Enter(Tail(todo)) /\ UNCHANGED <<op, conn, command, results>>
  BY <1>1, <1>2, TodoFacts DEF Enter, GoesOnTo, results
<1>3. CASE Len(todo) = 1 /\ (op = "handshake" \/ RightCommand(of)) /\ Succeeds(of)
  BY <1>1, <1>3, TodoFacts DEF Succeeds, EndsWell
<1>4. CASE Len(todo) = 1 /\ Fails(conn)
  BY <1>4 DEF Fails, EndsBadly
<1> QED BY <1>2, <1>3, <1>4 DEF StepDone

LEMMA EndsBadlyControl ==
  ASSUME Control, todo # <<>>, EndsBadly, rx' = NothingRead
  PROVE  Control'
BY DEF Control, EndsBadly, Todos

LEMMA StepDoneControl ==
  ASSUME Control, todo # <<>>, NEW of, StepDone(of), rx' = NothingRead, cur' \in {cur, Current}
  PROVE  Control'
<1>1. CASE GoesOnTo
  <2>1. /\ todo' \in Todos /\ Len(todo') = Len(todo) - 1 /\ Len(todo) \in 2..5
        /\ (op # "handshake" => todo' = <<"rx">>) /\ todo' # <<>>
    BY <1>1, TodoFacts DEF Control, GoesOnTo
  <2>2. /\ pc' \in {"rx", "tx"}
        /\ pc' = "tx" => Len(todo') \in {2, 4}
        /\ pc' = "rx" => Len(todo') \in {1, 3, 5}
    BY <1>1, <2>1 DEF GoesOnTo
  <2>3. op = "handshake" => command = TRUE /\ conn = "LISTEN" /\ cur' = "cmd"
    BY <2>1 DEF Control, Current
  <2> QED BY <1>1, <2>1, <2>2, <2>3 DEF Control, GoesOnTo
<1>2. CASE EndsWell(of)
  BY <1>2 DEF Control, EndsWell, Todos
<1> QED BY <1>1, <1>2, Outcomes, EndsBadlyControl

LEMMA Busy ==
  ASSUME Control, pc \in {"tx", "body", "rx", "read"}
  PROVE  todo # <<>>
BY DEF Control

LEMMA FailsIs ==
  ASSUME NEW b \in {conn, "BREAK"}, Fails(b)
  PROVE  EndsBadly
BY DEF Fails, EndsBadly

LEMMA SameControl ==
  ASSUME Control, UNCHANGED <<pc, op, todo, out, rx, cur, call, outcome>>,
         UNCHANGED <<conn, command>> \/ (conn = "ACCEPT" /\ conn' = conn /\ command' = FALSE)
  PROVE  Control'
<1>1. op = "handshake" /\ todo # <<>> => conn # "ACCEPT"
  BY DEF Control
<1> QED BY <1>1 DEF Control

LEMMA NextControl ==
  ASSUME Control, TypeOK, [Next]_vars
  PROVE  Control'
<1> USE DEF regime, progress, netVars, results, devVars
<1>1. ASSUME NEW k, Begin(k) PROVE Control'
  <2>1. /\ op' = "call" /\ pc' = "tx" /\ todo' = <<"tx", "rx">>
        /\ call' = call + 1 /\ outcome' = "none" /\ pc = "app"
        /\ UNCHANGED <<conn, command, cur, out, rx>>
    BY <1>1 DEF Begin, Enter
  <2>2. call \in Nat
    BY NetAssumption DEF TypeOK
  <2> QED BY <2>1, <2>2 DEF Control, Todos
<1>2. ASSUME NEW k, Close(k) PROVE Control'
  <2>1. /\ op' = "close" /\ pc' = "tx" /\ todo' = <<"tx", "rx">>
        /\ command' = TRUE /\ pc = "app"
        /\ UNCHANGED <<conn, cur, out, rx, call, outcome>>
    BY <1>2 DEF Close, Enter
  <2> QED BY <2>1 DEF Control, Todos
<1>3. CASE CloseBroken
  BY <1>3 DEF CloseBroken, Control
<1>4. CASE Detect
  <2>1. pc = "detect" /\ pc' = "rx" /\ UNCHANGED <<op, todo, conn, command, cur, out, rx, call, outcome>>
    BY <1>4 DEF Detect
  <2>2. Len(todo) = 5
    BY <2>1 DEF Control, Plan
  <2> QED BY <2>1, <2>2 DEF Control
<1>5. CASE NetTx
  <2>1. /\ pc = "tx" /\ cur' = Current /\ UNCHANGED rx /\ rx = NothingRead /\ todo # <<>>
    BY <1>5, Busy DEF NetTx, Control
  <2>2. CASE split
    <3>1. /\ pc' = "body" /\ UNCHANGED <<op, todo, conn, command, call, outcome>>
      BY <1>5, <2>2 DEF NetTx
    <3>2. out' # <<>>
      <4>1. PICK n \in Lengths :
              out' = SubSeq(Packet(inst[Current].type, Txid(inst[Current]), Subject, n), 3,
                            Len(Packet(inst[Current].type, Txid(inst[Current]), Subject, n)))
        BY <1>5, <2>2 DEF NetTx
      <4> DEFINE p == Packet(inst[Current].type, Txid(inst[Current]), Subject, n)
      <4>2. n \in Nat \ {0}
        BY NetAssumption DEF Lengths
      <4>3. Len(p) = 2 + n
        BY <4>2 DEF Packet
      <4> HIDE DEF p
      <4>4. out' = SubSeq(p, 3, Len(p))
        BY <4>1 DEF p
      <4>5. Len(SubSeq(p, 3, Len(p))) = n
        BY <4>2, <4>3
      <4> QED BY <4>2, <4>4, <4>5
    <3>3. op = "handshake" => cur' = "cmd"
      BY <2>1 DEF Control, Current
    <3> QED BY <2>1, <3>1, <3>2, <3>3 DEF Control
  <2>3. CASE ~split
    BY <1>5, <2>1, <2>3, StepDoneControl DEF NetTx
  <2> QED BY <2>2, <2>3
<1>6. CASE WriteChunk
  <2>1. pc = "body" /\ UNCHANGED <<cur, rx>> /\ rx = NothingRead /\ todo # <<>>
    BY <1>6, Busy DEF WriteChunk, Control
  <2>2. CASE Len(out) > 1 /\ UNCHANGED <<progress, conn, command, results>>
    <3>1. out \in Seq(Units) /\ out # <<>>
      BY <2>2 DEF TypeOK
    <3>2. out' = Tail(out)
      BY <1>6 DEF WriteChunk
    <3>3. Len(out') = Len(out) - 1
      BY <3>1, <3>2, HeadTailProperties
    <3>4. out' # <<>>
      BY <2>2, <3>1, <3>3, LenProperties
    <3> QED BY <2>1, <2>2, <3>4 DEF Control
  <2>3. CASE Len(out) = 1 /\ StepDone(Subject)
    BY <2>1, <2>3, StepDoneControl
  <2> QED BY <1>6, <2>2, <2>3 DEF WriteChunk
<1>7. CASE WriteFails
  <2>1. pc \in {"tx", "body"} /\ UNCHANGED rx /\ rx = NothingRead /\ todo # <<>>
    BY <1>7 DEF WriteFails, Control
  <2> QED BY <1>7, <2>1, FailsIs, EndsBadlyControl DEF WriteFails
<1>8. CASE NetRx
  <2>1. /\ pc = "rx" /\ pc' = "read" /\ cur' = Current /\ rx' = NothingRead
        /\ UNCHANGED <<op, todo, conn, command, out, call, outcome>>
    BY <1>8 DEF NetRx
  <2>2. command => cur' = "cmd"
    BY <2>1 DEF Current
  <2> QED BY <2>1, <2>2 DEF Control
<1>9. CASE ReadFirst \/ ReadPayload
  <2>1. pc = "read" /\ UNCHANGED <<progress, conn, command, cur, out, call, outcome>>
    BY <1>9 DEF ReadFirst, ReadPayload, Arrived
  <2> QED BY <2>1 DEF Control
<1>10. CASE ReadHeader
  <2>1. pc = "read" /\ UNCHANGED <<cur, out>> /\ todo # <<>>
    BY <1>10 DEF ReadHeader, Arrived, Control
  <2>2. PICK h : Payload(h) \/ PassOver(h) \/ BadHeader(h)
    BY <1>10 DEF ReadHeader
  <2>3. CASE Payload(h) \/ PassOver(h)
    BY <2>1, <2>3 DEF Payload, PassOver, Control
  <2>4. CASE BadHeader(h)
    BY <2>1, <2>4, FailsIs, EndsBadlyControl DEF BadHeader
  <2> QED BY <2>2, <2>3, <2>4
<1>11. CASE ReadDone
  <2>1. pc = "read" /\ UNCHANGED <<cur, out>> /\ todo # <<>> /\ rx' = NothingRead
    BY <1>11 DEF ReadDone, Control
  <2> QED BY <1>11, <2>1, StepDoneControl DEF ReadDone
<1>12. CASE ReadTimesOut \/ ReadFails \/ ReadEof
  <2>1. pc = "read" /\ todo # <<>> /\ rx' = NothingRead
    BY <1>12 DEF ReadTimesOut, ReadFails, ReadEof, EofIn, Control
  <2> QED BY <1>12, <2>1, FailsIs, EndsBadlyControl DEF ReadTimesOut, ReadFails, ReadEof
<1>13. CASE Skip \/ Tickle \/ DevReads \/ DevReplies \/ DevTickles \/ DevCloses \/ UNCHANGED vars
  BY <1>13, SameControl DEF Skip, Tickle, DevReads, DevReplies, DevTickles, DevCloses, vars
<1> QED BY <1>1, <1>2, <1>3, <1>4, <1>5, <1>6, <1>7, <1>8, <1>9, <1>10, <1>11, <1>12, <1>13
        DEF Next, Host, Reading, Device, Spin, Finished

-----------------------------------------------------------------------------
(* Parts of sequences, and what they are put together from.                *)
LEMMA Suffix ==
  ASSUME NEW S, NEW s \in Seq(S), NEW k \in 0..Len(s)
  PROVE  /\ SubSeq(s, k + 1, Len(s)) \in Seq(S) /\ Len(SubSeq(s, k + 1, Len(s))) = Len(s) - k
         /\ \A i \in 1..(Len(s) - k) : SubSeq(s, k + 1, Len(s))[i] = s[i + k]
<1>1. Len(s) \in Nat /\ \A i \in 1..Len(s) : s[i] \in S
  BY LenProperties
<1> QED BY <1>1, SubSeqProperties

LEMMA Prefix ==
  ASSUME NEW S, NEW s \in Seq(S), NEW k \in 0..Len(s)
  PROVE  /\ SubSeq(s, 1, k) \in Seq(S) /\ Len(SubSeq(s, 1, k)) = k
         /\ \A i \in 1..k : SubSeq(s, 1, k)[i] = s[i]
<1>1. Len(s) \in Nat /\ \A i \in 1..Len(s) : s[i] \in S
  BY LenProperties
<1> QED BY <1>1, SubSeqProperties

LEMMA Joined ==
  ASSUME NEW S, NEW s \in Seq(S), NEW t \in Seq(S)
  PROVE  /\ s \o t \in Seq(S) /\ Len(s \o t) = Len(s) + Len(t)
         /\ Len(s) \in Nat /\ Len(t) \in Nat
         /\ \A i \in 1..Len(s) : (s \o t)[i] = s[i]
         /\ \A i \in 1..Len(t) : (s \o t)[Len(s) + i] = t[i]
<1>1. Len(s) \in Nat /\ Len(t) \in Nat
  BY LenProperties
<1>2. /\ s \o t \in Seq(S) /\ Len(s \o t) = Len(s) + Len(t)
      /\ \A i \in 1..(Len(s) + Len(t)) :
           (s \o t)[i] = IF i <= Len(s) THEN s[i] ELSE t[i - Len(s)]
  BY ConcatProperties
<1>3. ASSUME NEW i \in 1..Len(s) PROVE (s \o t)[i] = s[i]
  BY <1>1, <1>2
<1>4. ASSUME NEW i \in 1..Len(t) PROVE (s \o t)[Len(s) + i] = t[i]
  <2>1. Len(s) + i \in 1..(Len(s) + Len(t)) /\ ~(Len(s) + i <= Len(s)) /\ (Len(s) + i) - Len(s) = i
    BY <1>1
  <2> QED BY <1>2, <2>1
<1> QED BY <1>1, <1>2, <1>3, <1>4

LEMMA Place ==
  ASSUME NEW S, NEW s \in Seq(S), NEW t \in Seq(S), NEW i \in 1..Len(s \o t)
  PROVE  \/ i \in 1..Len(s) /\ (s \o t)[i] = s[i]
         \/ i - Len(s) \in 1..Len(t) /\ (s \o t)[i] = t[i - Len(s)]
<1>1. /\ Len(s \o t) = Len(s) + Len(t) /\ Len(s) \in Nat /\ Len(t) \in Nat
      /\ \A n \in 1..Len(s) : (s \o t)[n] = s[n]
      /\ \A n \in 1..Len(t) : (s \o t)[Len(s) + n] = t[n]
  BY Joined
<1>2. CASE i <= Len(s)
  BY <1>1, <1>2
<1>3. CASE i > Len(s)
  <2>1. i - Len(s) \in 1..Len(t) /\ Len(s) + (i - Len(s)) = i
    BY <1>1, <1>3
  <2> QED BY <1>1, <2>1
<1> QED BY <1>1, <1>2, <1>3


LEMMA PacketIs ==
  ASSUME NEW type \in Types, NEW txid \in 0..TxidWrap, NEW of \in Items, NEW n \in Nat
  PROVE  LET p == Packet(type, txid, of, n) IN
           /\ p \in Seq(Units) /\ Len(p) = n + 2
           /\ p[1] = Unit("first", type, txid, of, n) /\ p[2] = Unit("more", type, txid, of, n)
           /\ \A i \in 3..(n + 2) : p[i] = Unit("piece", type, txid, of, n)
<1> DEFINE h == <<Unit("first", type, txid, of, n), Unit("more", type, txid, of, n)>>
           d == [i \in 1..n |-> Unit("piece", type, txid, of, n)]
           p == h \o d
<1>1. \A part \in {"first", "more", "piece"} : Unit(part, type, txid, of, n) \in Units
  BY DEF Unit, Units
<1>2. h \in Seq(Units) /\ Len(h) = 2
  BY <1>1
<1>3. d \in Seq(Units) /\ Len(d) = n /\ \A i \in 1..n : d[i] = Unit("piece", type, txid, of, n)
  BY <1>1
<1>4. /\ p \in Seq(Units) /\ Len(p) = Len(h) + Len(d)
      /\ \A i \in 1..Len(h) : p[i] = h[i]
      /\ \A i \in 1..Len(d) : p[Len(h) + i] = d[i]
  <2>1. h \in Seq(Units) /\ d \in Seq(Units)
    BY <1>2, <1>3
  <2> HIDE DEF h, d
  <2> QED BY ONLY <2>1, Joined
<1>5. p[1] = h[1] /\ p[2] = h[2]
  <2> HIDE DEF h, d, p
  <2> QED BY <1>2, <1>4
<1>6. ASSUME NEW i \in 3..(n + 2) PROVE p[i] = Unit("piece", type, txid, of, n)
  <2>1. i - 2 \in 1..n /\ 2 + (i - 2) = i
    OBVIOUS
  <2> HIDE DEF h, d, p
  <2> QED BY <1>2, <1>3, <1>4, <2>1
<1>7. Packet(type, txid, of, n) = p
  BY DEF Packet
<1>8. Len(p) = n + 2
  <2> HIDE DEF h, d, p
  <2> QED BY <1>2, <1>3, <1>4
<1> QED BY <1>4, <1>5, <1>6, <1>7, <1>8

-----------------------------------------------------------------------------
(* Types.                                                                  *)
UsedTypes ==
  /\ regime \in BOOLEAN \X BOOLEAN \X BOOLEAN
  /\ used \in [{"alarms", "tickles", "faults", "closes"} -> Nat]

ResultTypes ==
  /\ conn \in {"LISTEN", "ACCEPT", "BREAK", "END"} /\ command \in BOOLEAN
  /\ cur \in {"cmd", "dlp"}
  /\ call \in 0..MaxCalls /\ outcome \in {"none", "ok", "error"}
  /\ answer \in Items /\ clean \in BOOLEAN

InstTypes ==
  /\ inst \in [{"cmd", "dlp"} -> [type : Types, txid : 0..TxidWrap]]
  /\ inst["dlp"].txid # TxidWrap

HostTypes ==
  /\ out \in Seq(Units) /\ rx \in Partly /\ toHost \in Seq(Units)
  /\ \A i \in 1..Len(out) : out[i].of \in Sent

DevTypes ==
  /\ toDev \in Seq(Units) /\ dev \in Partly
  /\ execs \in [1..MaxCalls -> Nat] /\ eof \in BOOLEAN
  /\ \A i \in 1..Len(toDev) : toDev[i].of \in Sent
  /\ dev.have > 0 => dev.hdr.of \in Sent
  /\ devTask \in Sent \cup {Waiting, Lost, Ended}

SentTypes == UsedTypes /\ ResultTypes /\ InstTypes /\ HostTypes /\ DevTypes

LEMMA SentItems == Sent \subseteq Items
BY DEF Sent, Items, Shake

LEMMA Typed ==
  ASSUME Control, SentTypes
  PROVE  TypeOK
<1>1. todo \in Seq({"tx", "rx"})
  BY TodoFacts DEF Control
<1> QED BY <1>1, SentItems DEF Control, SentTypes, UsedTypes, ResultTypes, InstTypes, HostTypes,
                               DevTypes, TypeOK

LEMMA InitTypes == Init => Control /\ SentTypes
<1> SUFFICES ASSUME Init PROVE Control /\ SentTypes
  OBVIOUS
<1> USE DEF Init
<1>1. Control
  BY DEF Control, Todos, Plan
<1>2. TxidWrap \in Nat /\ TxidWrap >= 2
  BY NetAssumption
<1>3. UsedTypes
  BY DEF UsedTypes, regime
<1>4. ResultTypes
  BY NetAssumption DEF ResultTypes, Items
<1>5. InstTypes
  BY <1>2 DEF InstTypes, Types
<1>6. NothingRead \in Partly
  <2>1. Unit("first", DATA, 0, Garbage, 0) \in Units
    BY <1>2 DEF Units, Unit, Types, Items
  <2> QED BY <2>1 DEF NothingRead, Partly
<1>7. HostTypes
  <2>1. Shake(1) \in Items /\ DATA \in Types /\ 1 \in 0..TxidWrap
    BY <1>2 DEF Items, Types
  <2>2. Packet(DATA, 1, Shake(1), 2) \in Seq(Units) /\ Len(Packet(DATA, 1, Shake(1), 2)) = 4
    <3>1. /\ Packet(DATA, 1, Shake(1), 2) \in Seq(Units)
          /\ Len(Packet(DATA, 1, Shake(1), 2)) = 2 + 2
      BY ONLY <2>1, PacketIs, 2 \in Nat
    <3> QED BY <3>1
  <2>3. PICK k \in 0..2 : toHost = SubSeq(Packet(DATA, 1, Shake(1), 2), k + 1, 4)
    OBVIOUS
  <2>4. toHost \in Seq(Units)
    <3> DEFINE p == Packet(DATA, 1, Shake(1), 2)
    <3>1. k \in 0..Len(p) /\ p \in Seq(Units)
      BY <2>2
    <3> HIDE DEF p
    <3>2. SubSeq(p, k + 1, Len(p)) \in Seq(Units)
      BY ONLY <3>1, Suffix
    <3> QED BY <2>2, <2>3, <3>2 DEF p
  <2>5. out = <<>> /\ rx \in Partly
    BY <1>6
  <2> QED BY <2>4, <2>5 DEF HostTypes
<1>8. DevTypes
  <2>1. toDev \in Seq(Units) /\ Len(toDev) = 0 /\ dev \in Partly /\ eof \in BOOLEAN
    <3>1. toDev = <<>> /\ dev = NothingRead /\ eof = FALSE
      OBVIOUS
    <3> HIDE DEF Init
    <3>2. toDev \in Seq(Units)
      BY <3>1
    <3>3. Len(toDev) = 0
      BY <3>1
    <3> QED BY <1>6, <3>1, <3>2, <3>3
  <2>2. execs \in [1..MaxCalls -> Nat]
    OBVIOUS
  <2>3. ~(dev.have > 0) /\ devTask = Waiting
    BY DEF NothingRead
  <2> QED BY <2>1, <2>2, <2>3 DEF DevTypes
<1> QED BY <1>1, <1>3, <1>4, <1>5, <1>7, <1>8 DEF SentTypes

LEMMA SpendTypes ==
  ASSUME UsedTypes, NEW what \in {"alarms", "tickles", "faults", "closes"}, NEW limit,
         Spend(what, limit)
  PROVE  used' \in [{"alarms", "tickles", "faults", "closes"} -> Nat]
BY DEF UsedTypes, Spend

LEMMA NextUsed ==
  ASSUME UsedTypes, [Next]_vars
  PROVE  UsedTypes'
<1>1. UNCHANGED regime
  BY DEF Next, Begin, Close, CloseBroken, Host, Detect, Skip, NetTx, WriteChunk, WriteFails, NetRx,
         Reading, ReadFirst, ReadHeader, ReadPayload, ReadDone, ReadEof, ReadTimesOut, ReadFails,
         Tickle, Device, DevReads, DevReplies, DevTickles, DevCloses, Spin, Finished, vars
<1>2. \/ UNCHANGED used
      \/ \E what \in {"alarms", "tickles", "faults", "closes"}, limit \in {MaxAlarms, MaxTickles, MaxFaults, MaxCloses} :
           Spend(what, limit)
  <2>1. CASE \/ CloseBroken \/ Detect \/ Skip \/ NetTx \/ WriteChunk \/ NetRx \/ Reading
             \/ ReadTimesOut \/ DevReads \/ DevReplies \/ Spin \/ Finished \/ UNCHANGED vars
             \/ \E k \in Arrivals : Begin(k)
    BY <2>1 DEF Begin, CloseBroken, Detect, Skip, NetTx, WriteChunk, NetRx,
         Reading, ReadFirst, ReadHeader, ReadPayload, ReadDone, ReadEof, ReadTimesOut,
         DevReads, DevReplies, Spin, Finished, vars
  <2>2. CASE \/ WriteFails \/ ReadFails \/ Tickle \/ DevTickles \/ DevCloses
             \/ \E k \in Arrivals : Close(k)
    <3> HIDE DEF Spend
    <3> QED BY <2>2 DEF WriteFails, ReadFails, Tickle, DevTickles, DevCloses, Close
  <2> QED BY <2>1, <2>2 DEF Next, Host, Device
<1> QED BY <1>1, <1>2, SpendTypes DEF UsedTypes, regime

LEMMA StepDoneTypes ==
  ASSUME ResultTypes, Control, NEW of \in Items, StepDone(of), cur' \in {"cmd", "dlp"}
  PROVE  ResultTypes'
<1>1. CASE GoesOnTo
  BY <1>1 DEF GoesOnTo, ResultTypes
<1>2. CASE EndsWell(of)
  BY <1>2 DEF EndsWell, ResultTypes
<1>3. CASE EndsBadly
  BY <1>3 DEF EndsBadly, ResultTypes
<1> QED BY <1>1, <1>2, <1>3, Outcomes

LEMMA FailsTypes ==
  ASSUME ResultTypes, NEW b \in {conn, "BREAK"}, Fails(b), cur' = cur
  PROVE  ResultTypes'
BY DEF Fails, ResultTypes

LEMMA SubjectSent ==
  ASSUME Control, ResultTypes, pc \in {"tx", "body"}
  PROVE  Subject \in Sent
<1>1. CASE op = "call"
  BY <1>1 DEF Subject, Control, ResultTypes, Sent
<1>2. CASE op = "close"
  BY <1>2 DEF Subject, Sent
<1>3. CASE op = "handshake"
  <2>1. 6 - Len(todo) \in {2, 4}
    <3>1. Len(todo) \in {2, 4}
      BY DEF Control
    <3>2. CASE Len(todo) = 2
      BY <3>2
    <3>3. CASE Len(todo) = 4
      BY <3>3
    <3> QED BY <3>1, <3>2, <3>3
  <2> QED BY <1>3, <2>1 DEF Subject, Sent
<1> QED BY <1>1, <1>2, <1>3 DEF Control

LEMMA ContentTypes ==
  ASSUME NEW got \in Seq(Units)
  PROVE  Content(got) \in Items
<1>1. CASE got = <<>>
  BY <1>1 DEF Content, Items
<1>2. CASE got # <<>>
  <2>1. Len(got) \in Nat /\ Len(got) # 0
    BY <1>2, LenProperties, EmptySeq
  <2>2. got[1] \in Units
    BY <2>1, LenProperties
  <2>3. got[1].of \in Items
    BY <2>2 DEF Units
  <2> QED BY <1>2, <2>3 DEF Content, Items
<1> QED BY <1>1, <1>2

LEMMA NextResults ==
  ASSUME SentTypes, Control, [Next]_vars
  PROVE  ResultTypes'
<1> USE DEF SentTypes
<1>1. ASSUME NEW k, Begin(k) PROVE ResultTypes'
  <2>1. call' = call + 1 /\ call < MaxCalls /\ outcome' = "none" /\ answer' = Garbage
        /\ clean' \in BOOLEAN /\ UNCHANGED <<conn, command, cur>>
    BY <1>1 DEF Begin, netVars
  <2>2. MaxCalls \in Nat
    BY NetAssumption
  <2> QED BY <2>1, <2>2 DEF ResultTypes, Items
<1>2. ASSUME NEW k, Close(k) PROVE ResultTypes'
  BY <1>2 DEF Close, results, ResultTypes
<1>3. CASE NetTx
  <2>1. cur' \in {"cmd", "dlp"}
    BY <1>3 DEF NetTx, Current
  <2>2. CASE split
    BY <1>3, <2>1, <2>2 DEF NetTx, results, ResultTypes
  <2>3. CASE ~split
    <3>1. Subject \in Items /\ StepDone(Subject)
      BY <1>3, <2>3, SubjectSent, SentItems DEF NetTx
    <3> QED BY <2>1, <3>1, StepDoneTypes
  <2> QED BY <2>2, <2>3
<1>4. CASE WriteChunk
  <2>1. cur' = cur /\ cur \in {"cmd", "dlp"}
    BY <1>4 DEF WriteChunk, ResultTypes
  <2>2. CASE UNCHANGED <<progress, conn, command, results>>
    BY <2>1, <2>2 DEF results, ResultTypes
  <2>3. CASE StepDone(Subject)
    <3>1. Subject \in Items
      BY <1>4, SubjectSent, SentItems DEF WriteChunk
    <3> QED BY <2>1, <2>3, <3>1, StepDoneTypes
  <2> QED BY <1>4, <2>2, <2>3 DEF WriteChunk
<1>5. CASE WriteFails \/ ReadTimesOut \/ ReadFails \/ ReadEof
  BY <1>5, FailsTypes DEF WriteFails, ReadTimesOut, ReadFails, ReadEof
<1>6. CASE NetRx
  BY <1>6 DEF NetRx, Current, results, ResultTypes
<1>7. CASE ReadHeader
  <2>1. cur' = cur
    BY <1>7 DEF ReadHeader
  <2>2. PICK h : Payload(h) \/ PassOver(h) \/ BadHeader(h)
    BY <1>7 DEF ReadHeader
  <2>3. CASE Payload(h) \/ PassOver(h)
    BY <2>1, <2>3 DEF Payload, PassOver, results, ResultTypes
  <2>4. CASE BadHeader(h)
    BY <2>1, <2>4, FailsTypes DEF BadHeader
  <2> QED BY <2>2, <2>3, <2>4
<1>8. CASE ReadDone
  <2>1. cur' = cur /\ cur \in {"cmd", "dlp"} /\ StepDone(Content(rx.got))
    BY <1>8 DEF ReadDone, ResultTypes
  <2>2. Content(rx.got) \in Items
    BY ContentTypes DEF HostTypes, Partly
  <2> QED BY <2>1, <2>2, StepDoneTypes
<1>9. CASE Tickle
  BY <1>9 DEF Tickle, results, ResultTypes
<1>10. CASE \/ CloseBroken \/ Detect \/ Skip \/ ReadFirst \/ ReadPayload \/ Device \/ UNCHANGED vars
  BY <1>10 DEF CloseBroken, Detect, Skip, ReadFirst, ReadPayload, Device, DevReads, DevReplies,
               DevTickles, DevCloses, vars, netVars, results, ResultTypes
<1> QED BY <1>1, <1>2, <1>3, <1>4, <1>5, <1>6, <1>7, <1>8, <1>9, <1>10
        DEF Next, Host, Reading, Spin, Finished

LEMMA NextInst ==
  ASSUME SentTypes, Control, [Next]_vars
  PROVE  InstTypes'
<1> USE DEF SentTypes
<1>1. CASE ReadHeader
  <2>1. PICK h : h.type \in Types /\ inst' = [inst EXCEPT ![cur].type = h.type]
    <3>1. PICK u \in Arrived : \E h \in Header(u) : inst' = [inst EXCEPT ![cur].type = h.type]
      BY <1>1 DEF ReadHeader
    <3>2. PICK h \in Header(u) : inst' = [inst EXCEPT ![cur].type = h.type]
      BY <3>1
    <3>3. u \in Units
      BY <3>1, LenProperties DEF Arrived, HostTypes
    <3>4. h.type \in Types
      BY <3>2, <3>3 DEF Header, Units, Unit, Types
    <3> QED BY <3>2, <3>4
  <2> QED BY <2>1 DEF InstTypes, ResultTypes
<1>2. CASE ReadDone
  <2>1. inst' = [inst EXCEPT ![cur].txid = IF command THEN rx.hdr.txid ELSE TxidAfter(inst[cur].txid)]
    BY <1>2 DEF ReadDone
  <2>2. cur \in {"cmd", "dlp"} /\ (command => cur = "cmd") /\ rx.hdr.txid \in 0..TxidWrap
    BY <1>2 DEF ResultTypes, Control, ReadDone, HostTypes, Partly, Units
  <2>3. ASSUME NEW t \in 0..TxidWrap PROVE TxidAfter(t) \in 0..TxidWrap /\ TxidAfter(t) # TxidWrap
    <3>1. TxidWrap \in Nat /\ TxidWrap >= 2
      BY NetAssumption
    <3>2. CASE t + 1 = TxidWrap
      BY <3>1, <3>2 DEF TxidAfter
    <3>3. CASE t = TxidWrap
      <4>1. (t + 1) % (TxidWrap + 1) = 0
        BY <3>1, <3>3
      <4> QED BY <3>1, <3>3, <4>1 DEF TxidAfter
    <3>4. CASE t + 1 # TxidWrap /\ t # TxidWrap
      <4>1. t + 1 \in 0..TxidWrap /\ t + 1 < TxidWrap + 1
        BY <3>1, <3>4
      <4>2. (t + 1) % (TxidWrap + 1) = t + 1
        BY <3>1, <4>1
      <4> QED BY <3>1, <3>4, <4>1, <4>2 DEF TxidAfter
    <3> QED BY <3>2, <3>3, <3>4
  <2>4. inst[cur].txid \in 0..TxidWrap
    BY <2>2 DEF InstTypes
  <2> QED BY <2>1, <2>2, <2>3, <2>4 DEF InstTypes
<1>3. CASE Tickle
  BY <1>3 DEF Tickle, TickleOf, InstTypes, Types
<1>4. CASE inst' = inst
  BY <1>4 DEF InstTypes
<1>5. CASE ~(ReadHeader \/ ReadDone \/ Tickle)
  <2>1. inst' = inst
    BY <1>5 DEF Next, Begin, Close, CloseBroken, Host, Detect, Skip, NetTx, WriteChunk, WriteFails, NetRx,
         Reading, ReadFirst, ReadPayload, ReadEof, ReadTimesOut, ReadFails,
         Device, DevReads, DevReplies, DevTickles, DevCloses, Spin, Finished, vars, netVars
  <2> QED BY <1>4, <2>1
<1> QED BY <1>1, <1>2, <1>3, <1>5

(* What is read of the line.                                               *)
LEMMA ArrivedUnit ==
  ASSUME HostTypes, NEW u \in Arrived
  PROVE  /\ pc = "read" /\ toHost # <<>> /\ u = toHost[1] /\ u \in Units
         /\ Len(toHost) \in Nat \ {0}
         /\ Tail(toHost) \in Seq(Units) /\ Len(Tail(toHost)) = Len(toHost) - 1
         /\ \A i \in 1..(Len(toHost) - 1) : Tail(toHost)[i] = toHost[i + 1]
<1>1. toHost \in Seq(Units)
  BY DEF HostTypes
<1>2. pc = "read" /\ u = toHost[1] /\ \E i \in DOMAIN toHost : TRUE
  BY DEF Arrived
<1>3. toHost # <<>>
  BY <1>2
<1>4. Len(toHost) \in Nat \ {0}
  BY <1>1, <1>3, LenProperties, EmptySeq
<1>5. u \in Units
  BY <1>1, <1>2, <1>4, LenProperties
<1>6. /\ Tail(toHost) \in Seq(Units) /\ Len(Tail(toHost)) = Len(toHost) - 1
      /\ \A i \in 1..Len(Tail(toHost)) : Tail(toHost)[i] = toHost[i + 1]
  BY <1>1, <1>3, HeadTailProperties
<1> QED BY <1>2, <1>3, <1>4, <1>5, <1>6

LEMMA FlushedUnits ==
  ASSUME toHost \in Seq(Units), NEW k \in Arrivals
  PROVE  SubSeq(toHost, k + 1, Len(toHost)) \in Seq(Units)
<1>1. k \in 0..Len(toHost)
  BY DEF Arrivals
<1> QED BY <1>1, Suffix

LEMMA PartRead ==
  ASSUME NEW A, NEW B, NEW C, NEW r \in [have : A, hdr : B, got : C]
  PROVE  /\ \A n \in A, h \in B : [r EXCEPT !.have = n, !.hdr = h] \in [have : A, hdr : B, got : C]
         /\ \A g \in C : [r EXCEPT !.got = g] \in [have : A, hdr : B, got : C]
OBVIOUS

LEMMA PartlyWith ==
  ASSUME NEW r \in Partly
  PROVE  /\ \A n \in 0..2, h \in Units : [r EXCEPT !.have = n, !.hdr = h] \in Partly
         /\ \A g \in Seq(Units) : [r EXCEPT !.got = g] \in Partly
BY PartRead DEF Partly

LEMMA NextHostTypes ==
  ASSUME SentTypes, Control, [Next]_vars
  PROVE  HostTypes'
<1>0. /\ out \in Seq(Units) /\ rx \in Partly /\ toHost \in Seq(Units)
      /\ \A i \in 1..Len(out) : out[i].of \in Sent
      /\ PacketMax \in Nat /\ RespLens \subseteq Nat \ {0} /\ TxidWrap \in Nat \ {0} /\ TxidWrap >= 2
  BY NetAssumption DEF SentTypes, HostTypes
<1>1. NothingRead \in Partly
  <2>1. Unit("first", DATA, 0, Garbage, 0) \in Units
    BY <1>0 DEF Units, Unit, Types, Items
  <2> QED BY <2>1 DEF NothingRead, Partly
<1>2. CASE NetTx
  <2> DEFINE d == inst[Current]
  <2>1. PICK n \in Lengths :
          out' = SubSeq(Packet(d.type, Txid(d), Subject, n),
                        (IF split THEN 2 ELSE Len(Packet(d.type, Txid(d), Subject, n))) + 1,
                        Len(Packet(d.type, Txid(d), Subject, n)))
    BY <1>2 DEF NetTx
  <2> DEFINE p == Packet(d.type, Txid(d), Subject, n)
  <2>2. n \in Nat \ {0} /\ d.type \in Types /\ Txid(d) \in 0..TxidWrap /\ Subject \in Sent
    <3>1. d \in [type : Types, txid : 0..TxidWrap]
      BY DEF SentTypes, InstTypes, Current
    <3>2. Subject \in Sent
      BY <1>2, SubjectSent DEF NetTx, SentTypes
    <3>3. n \in Nat \ {0}
      BY NetAssumption DEF Lengths
    <3> QED BY <1>0, <3>1, <3>2, <3>3 DEF Txid
  <2>3. /\ p \in Seq(Units) /\ Len(p) = n + 2
        /\ \A i \in 1..(n + 2) : p[i].of = Subject
    <3>1. Subject \in Items /\ n \in Nat
      BY <2>2, SentItems
    <3>2. /\ p \in Seq(Units) /\ Len(p) = n + 2
          /\ p[1] = Unit("first", d.type, Txid(d), Subject, n)
          /\ p[2] = Unit("more", d.type, Txid(d), Subject, n)
          /\ \A i \in 3..(n + 2) : p[i] = Unit("piece", d.type, Txid(d), Subject, n)
      <4>1. d.type \in Types /\ Txid(d) \in 0..TxidWrap
        BY <2>2
      <4> HIDE DEF d
      <4> QED BY ONLY <4>1, <3>1, PacketIs
    <3> HIDE DEF p, d
    <3>3. ASSUME NEW i \in 1..(n + 2) PROVE p[i].of = Subject
      <4>1. i = 1 \/ i = 2 \/ i \in 3..(n + 2)
        BY <3>1
      <4> QED BY <3>2, <4>1 DEF Unit
    <3> QED BY <3>2, <3>3
  <2>4. \E h \in 0..Len(p) : out' = SubSeq(p, h + 1, Len(p))
    <3>1. CASE split
      <4>1. 2 \in 0..Len(p)
        BY <2>2, <2>3
      <4>2. out' = SubSeq(p, 2 + 1, Len(p))
        BY <2>1, <3>1
      <4> QED BY <4>1, <4>2
    <3>2. CASE ~split
      <4>1. Len(p) \in 0..Len(p)
        BY <2>2, <2>3
      <4>2. out' = SubSeq(p, Len(p) + 1, Len(p))
        BY <2>1, <3>2
      <4> QED BY <4>1, <4>2
    <3> QED BY <3>1, <3>2
  <2> HIDE DEF p
  <2>5. PICK h \in 0..Len(p) : out' = SubSeq(p, h + 1, Len(p))
    BY <2>4
  <2>6. /\ out' \in Seq(Units) /\ Len(out') = Len(p) - h
        /\ \A i \in 1..(Len(p) - h) : out'[i] = p[i + h]
    BY <2>3, <2>5, Suffix
  <2>7. ASSUME NEW i \in 1..Len(out') PROVE out'[i].of \in Sent
    <3>1. i + h \in 1..(n + 2) /\ out'[i] = p[i + h]
      BY <2>2, <2>3, <2>6
    <3> QED BY <2>2, <2>3, <3>1
  <2>8. Sent' = Sent
    BY DEF Sent
  <2> QED BY <1>0, <1>2, <2>6, <2>7, <2>8 DEF NetTx, HostTypes
<1>3. CASE WriteChunk
  <2>1. out # <<>> /\ out' = Tail(out)
    BY <1>3 DEF WriteChunk, Control
  <2>2. /\ out' \in Seq(Units) /\ Len(out') = Len(out) - 1
        /\ \A i \in 1..Len(out') : out'[i] = out[i + 1]
    BY <1>0, <2>1, HeadTailProperties
  <2>3. ASSUME NEW i \in 1..Len(out') PROVE out'[i].of \in Sent
    <3>1. i + 1 \in 1..Len(out) /\ out'[i] = out[i + 1]
      BY <1>0, <2>2, LenProperties
    <3> QED BY <1>0, <3>1
  <2> QED BY <1>0, <1>3, <2>2, <2>3 DEF WriteChunk, HostTypes
<1>4. CASE UNCHANGED <<rx, toHost>> /\ out' \in {out, <<>>}
  <2>1. out' \in Seq(Units) /\ \A i \in 1..Len(out') : out'[i].of \in Sent
    <3>1. CASE out' = out
      BY <1>0, <3>1
    <3>2. CASE out' = <<>>
      <4>1. Len(out') = 0
        BY <3>2
      <4> QED BY <3>2, <4>1
    <3> QED BY <1>4, <3>1, <3>2
  <2>2. Sent' = Sent
    BY DEF Sent
  <2> QED BY <1>0, <1>4, <2>1, <2>2 DEF HostTypes
<1>5. CASE UNCHANGED out /\ rx' \in Partly /\ toHost' \in Seq(Units)
  BY <1>0, <1>5 DEF HostTypes
<1>6. CASE ReadFirst \/ ReadPayload
  <2>1. PICK u \in Arrived :
          \/ ReadsPayload /\ rx' = [rx EXCEPT !.got = Append(@, u)]
          \/ rx' = [rx EXCEPT !.have = 2, !.hdr = Unit("first", DATA, 1, Shake(1), 1)]
          \/ rx' = [rx EXCEPT !.have = 1, !.hdr = u]
    BY <1>6 DEF ReadFirst, ReadPayload
  <2>2. u \in Units /\ Tail(toHost) \in Seq(Units)
    BY ArrivedUnit DEF SentTypes
  <2>3. Unit("first", DATA, 1, Shake(1), 1) \in Units
    BY <1>0 DEF Unit, Units, Types, Items
  <2>4. rx' \in Partly
    <3>1. Append(rx.got, u) \in Seq(Units)
      BY <1>0, <2>2, AppendProperties DEF Partly
    <3>2. CASE rx' = [rx EXCEPT !.got = Append(@, u)]
      BY <1>0, <3>1, <3>2, PartlyWith
    <3>3. CASE rx' = [rx EXCEPT !.have = 2, !.hdr = Unit("first", DATA, 1, Shake(1), 1)]
      <4>1. 2 \in 0..2
        OBVIOUS
      <4> QED BY <1>0, <2>3, <3>3, <4>1, PartlyWith
    <3>4. CASE rx' = [rx EXCEPT !.have = 1, !.hdr = u]
      <4>1. 1 \in 0..2
        OBVIOUS
      <4> QED BY <1>0, <2>2, <3>4, <4>1, PartlyWith
    <3> QED BY <2>1, <3>2, <3>3, <3>4
  <2>5. UNCHANGED out /\ toHost' = Tail(toHost)
    BY <1>6 DEF ReadFirst, ReadPayload
  <2> QED BY <1>5, <2>2, <2>4, <2>5
<1>7. CASE ReadHeader
  <2>1. PICK u \in Arrived : \E h \in Header(u) : Payload(h) \/ PassOver(h) \/ BadHeader(h)
    BY <1>7 DEF ReadHeader
  <2>2. PICK h \in Header(u) : Payload(h) \/ PassOver(h) \/ BadHeader(h)
    BY <2>1
  <2>3. u \in Units /\ Tail(toHost) \in Seq(Units)
    BY ArrivedUnit DEF SentTypes
  <2>4. h \in Units
    <3>1. CASE h = u
      BY <2>3, <3>1
    <3>2. CASE \E t \in {DATA, TCKL, "unknown"}, n \in {0, PacketMax + 1} \cup RespLens :
                 h = Unit("more", t, TxidWrap, Garbage, n)
      <4>1. PICK t \in {DATA, TCKL, "unknown"}, n \in {0, PacketMax + 1} \cup RespLens :
                 h = Unit("more", t, TxidWrap, Garbage, n)
        BY <3>2
      <4>2. n \in Nat /\ TxidWrap \in 0..TxidWrap
        BY <1>0
      <4> QED BY <4>1, <4>2 DEF Unit, Units, Types, Items
    <3> QED BY <3>1, <3>2 DEF Header
  <2>5. rx' \in Partly
    <3>1. [rx EXCEPT !.have = 2, !.hdr = h] \in Partly
      <4>1. 2 \in 0..2
        OBVIOUS
      <4> QED BY <1>0, <2>4, <4>1, PartlyWith
    <3> QED BY <1>1, <2>2, <3>1 DEF Payload, PassOver, BadHeader, AfterTickle
  <2>6. toHost' \in Seq(Units)
    <3>1. CASE toHost' = Tail(toHost)
      BY <2>3, <3>1
    <3>2. CASE \E k \in Arrivals \ {0} : toHost' = SubSeq(toHost, k + 1, Len(toHost))
      BY <1>0, <3>2, FlushedUnits
    <3> QED BY <2>2, <3>1, <3>2 DEF Payload, PassOver, BadHeader
  <2>7. out' = out
    BY <1>7 DEF ReadHeader
  <2> QED BY <1>5, <2>5, <2>6, <2>7
<1>8. CASE ReadDone \/ ReadTimesOut \/ ReadFails \/ ReadEof \/ NetRx
  BY <1>0, <1>1, <1>5, <1>8 DEF ReadDone, ReadTimesOut, ReadFails, ReadEof, NetRx
<1>9. CASE Skip
  <2>1. toHost' = Tail(toHost) /\ toHost # <<>> /\ UNCHANGED <<out, rx>>
    BY <1>9 DEF Skip, netVars
  <2>2. Tail(toHost) \in Seq(Units)
    BY <1>0, <2>1, HeadTailProperties
  <2> QED BY <1>0, <1>5, <2>1, <2>2
<1>10. ASSUME NEW k \in Arrivals, Begin(k) \/ Close(k) PROVE HostTypes'
  <2>1. toHost' = SubSeq(toHost, k + 1, Len(toHost)) /\ UNCHANGED <<out, rx>>
    BY <1>10 DEF Begin, Close, Flushed, netVars
  <2> QED BY <1>0, <1>5, <2>1, FlushedUnits
<1>11. CASE DevReplies \/ DevTickles
  <2>1. UNCHANGED <<out, rx>>
    BY <1>11 DEF DevReplies, DevTickles, netVars
  <2>2. \E type \in Types, t \in 0..TxidWrap, of \in Items, n \in Nat :
          toHost' = toHost \o Packet(type, t, of, n)
    <3>1. CASE DevReplies
      <4>1. PICK n \in IF devTask[1] = "call" THEN RespLens ELSE {1} :
              toHost' = toHost \o Packet(DATA, 1, Reply, n)
        BY <3>1 DEF DevReplies
      <4>2. Reply \in Items
        <5>1. devTask \in Sent
          BY <3>1 DEF DevReplies, SentTypes, DevTypes
        <5>2. CASE devTask[1] = "handshake"
          <6>1. devTask \in {Shake(2), Shake(4)}
            BY <5>1, <5>2 DEF Sent
          <6>2. Reply \in {Shake(3), Shake(5)}
            BY <5>2, <6>1 DEF Reply, Shake
          <6> QED BY <6>2 DEF Items
        <5>3. CASE devTask[1] # "handshake"
          BY <5>1, <5>3, SentItems DEF Reply
        <5> QED BY <5>2, <5>3
      <4>3. n \in Nat /\ DATA \in Types /\ 1 \in 0..TxidWrap
        BY <1>0, <4>1 DEF Types
      <4> QED BY <4>1, <4>2, <4>3
    <3>2. CASE DevTickles
      <4>1. toHost' = toHost \o Packet(TCKL, TxidWrap, <<"tickle", 0>>, 0)
        BY <3>2 DEF DevTickles
      <4>2. TCKL \in Types /\ TxidWrap \in 0..TxidWrap /\ <<"tickle", 0>> \in Items /\ 0 \in Nat
        BY <1>0 DEF Types, Items
      <4> QED BY <4>1, <4>2
    <3> QED BY <1>11, <3>1, <3>2
  <2>3. PICK type \in Types, t \in 0..TxidWrap, of \in Items, n \in Nat :
          toHost' = toHost \o Packet(type, t, of, n)
    BY <2>2
  <2>4. Packet(type, t, of, n) \in Seq(Units)
    BY PacketIs
  <2>5. toHost' \in Seq(Units)
    BY <1>0, <2>3, <2>4, ConcatProperties
  <2> QED BY <1>0, <1>5, <2>1, <2>5
<1>12. CASE DevCloses
  <2>1. PICK k \in 0..Len(toHost) : toHost' = SubSeq(toHost, 1, k)
    BY <1>12 DEF DevCloses
  <2>2. toHost' \in Seq(Units) /\ UNCHANGED <<out, rx>>
    BY <1>0, <1>12, <2>1, Prefix DEF DevCloses, netVars
  <2> QED BY <1>0, <1>5, <2>2
<1>13. CASE WriteFails \/ CloseBroken \/ Detect \/ Tickle \/ DevReads \/ UNCHANGED vars
  BY <1>4, <1>13 DEF WriteFails, CloseBroken, Detect, Tickle, DevReads, vars, netVars
<1> QED BY <1>2, <1>3, <1>6, <1>7, <1>8, <1>9, <1>10, <1>11, <1>12, <1>13
        DEF Next, Host, Reading, Device, Spin, Finished

(* What net_tx writes: a packet, of which the first units go out at once.  *)
Tx(part, n) == Unit(part, inst[Current].type, Txid(inst[Current]), Subject, n)

LEMMA TxUnits ==
  ASSUME SentTypes, Control, NetTx
  PROVE  \E n \in Lengths, h \in Nat :
           /\ n \in Nat \ {0} /\ h \in 2..(n + 2) /\ \A part \in {"first", "more", "piece"} : Tx(part, n) \in Units
           /\ toDev' \in Seq(Units) /\ Len(toDev') = Len(toDev) + h
           /\ \A i \in 1..Len(toDev) : toDev'[i] = toDev[i]
           /\ toDev'[Len(toDev) + 1] = Tx("first", n) /\ toDev'[Len(toDev) + 2] = Tx("more", n)
           /\ \A i \in 3..h : toDev'[Len(toDev) + i] = Tx("piece", n)
           /\ out' \in Seq(Units) /\ \A i \in 1..Len(out') : out'[i] = Tx("piece", n)
<1> DEFINE d == inst[Current]
<1>1. PICK n \in Lengths :
          /\ toDev' = toDev \o SubSeq(Packet(d.type, Txid(d), Subject, n), 1,
                        IF split THEN 2 ELSE Len(Packet(d.type, Txid(d), Subject, n)))
          /\ out' = SubSeq(Packet(d.type, Txid(d), Subject, n),
                        (IF split THEN 2 ELSE Len(Packet(d.type, Txid(d), Subject, n))) + 1,
                        Len(Packet(d.type, Txid(d), Subject, n)))
  BY DEF NetTx
<1> DEFINE p == Packet(d.type, Txid(d), Subject, n)
<1>2. n \in Nat \ {0} /\ d.type \in Types /\ Txid(d) \in 0..TxidWrap /\ Subject \in Items
  <2>0. TxidWrap \in Nat
    BY NetAssumption
  <2>1. d \in [type : Types, txid : 0..TxidWrap]
    BY DEF SentTypes, InstTypes, Current
  <2>2. Subject \in Items
    BY SubjectSent, SentItems DEF NetTx, SentTypes
  <2>3. n \in Nat \ {0}
    BY NetAssumption DEF Lengths
  <2> QED BY <2>0, <2>1, <2>2, <2>3 DEF Txid
<1>3. /\ p \in Seq(Units) /\ Len(p) = n + 2
      /\ p[1] = Tx("first", n) /\ p[2] = Tx("more", n)
      /\ \A i \in 3..(n + 2) : p[i] = Tx("piece", n)
  <2>1. n \in Nat
    BY <1>2
  <2> QED BY <1>2, <2>1, PacketIs DEF Tx
<1>4. \A part \in {"first", "more", "piece"} : Tx(part, n) \in Units
  BY <1>2 DEF Tx, Unit, Units
<1>5. \E h \in 2..(n + 2) : toDev' = toDev \o SubSeq(p, 1, h) /\ out' = SubSeq(p, h + 1, Len(p))
  <2>1. CASE split
    <3>1. 2 \in 2..(n + 2)
      BY <1>2
    <3>2. toDev' = toDev \o SubSeq(p, 1, 2) /\ out' = SubSeq(p, 2 + 1, Len(p))
      BY <1>1, <2>1
    <3> QED BY <3>1, <3>2
  <2>2. CASE ~split
    <3>1. n + 2 \in 2..(n + 2)
      BY <1>2
    <3>2. toDev' = toDev \o SubSeq(p, 1, Len(p)) /\ out' = SubSeq(p, Len(p) + 1, Len(p))
      BY <1>1, <2>2
    <3> QED BY <1>3, <3>1, <3>2
  <2> QED BY <2>1, <2>2
<1>6. PICK h \in 2..(n + 2) : toDev' = toDev \o SubSeq(p, 1, h) /\ out' = SubSeq(p, h + 1, Len(p))
  BY <1>5
<1> DEFINE a == SubSeq(p, 1, h)
<1> HIDE DEF p
<1>7. h \in 0..Len(p)
  BY <1>2, <1>3, <1>6
<1>8. a \in Seq(Units) /\ Len(a) = h /\ \A i \in 1..h : a[i] = p[i]
  BY <1>3, <1>7, Prefix
<1>9. /\ out' \in Seq(Units) /\ Len(out') = Len(p) - h
      /\ \A i \in 1..(Len(p) - h) : out'[i] = p[i + h]
  BY <1>3, <1>6, <1>7, Suffix
<1> HIDE DEF a
<1>10. toDev \in Seq(Units)
  BY DEF SentTypes, DevTypes
<1>11. /\ toDev' \in Seq(Units) /\ Len(toDev') = Len(toDev) + Len(a) /\ Len(toDev) \in Nat
       /\ \A i \in 1..Len(toDev) : toDev'[i] = toDev[i]
       /\ \A i \in 1..Len(a) : toDev'[Len(toDev) + i] = a[i]
  <2>1. toDev' = toDev \o a
    BY <1>6 DEF a
  <2>2. a \in Seq(Units)
    BY <1>8
  <2>3. /\ toDev \o a \in Seq(Units) /\ Len(toDev \o a) = Len(toDev) + Len(a) /\ Len(toDev) \in Nat
        /\ \A i \in 1..Len(toDev) : (toDev \o a)[i] = toDev[i]
        /\ \A i \in 1..Len(a) : (toDev \o a)[Len(toDev) + i] = a[i]
    BY ONLY <1>10, <2>2, Joined
  <2> QED BY <2>1, <2>3
<1>12. 1 \in 1..h /\ 2 \in 1..h
  BY <1>6, <1>2
<1>13. ASSUME NEW i \in 3..h PROVE toDev'[Len(toDev) + i] = Tx("piece", n)
  <2>1. i \in 1..h /\ i \in 3..(n + 2)
    BY <1>2, <1>6
  <2> QED BY <1>3, <1>8, <1>11, <2>1
<1>14. ASSUME NEW i \in 1..Len(out') PROVE out'[i] = Tx("piece", n)
  <2>1. i \in 1..(Len(p) - h) /\ i + h \in 3..(n + 2)
    BY <1>2, <1>3, <1>6, <1>9
  <2> QED BY <1>3, <1>9, <2>1
<1>15. h \in Nat /\ n \in Nat /\ Len(toDev') = Len(toDev) + h
  BY <1>2, <1>6, <1>8, <1>11
<1>16. toDev'[Len(toDev) + 1] = Tx("first", n) /\ toDev'[Len(toDev) + 2] = Tx("more", n)
  BY <1>3, <1>8, <1>11, <1>12
<1> HIDE DEF d
<1> QED BY ONLY <1>4, <1>6, <1>9, <1>11, <1>13, <1>14, <1>15, <1>16, <1>2

(* What the device reads, and what it makes of it.                         *)
DevMeets(u, d) ==
  \/ devTask' = Lost /\ dev' = NothingRead /\ execs' = execs
  \/ devTask = Waiting /\ InPlace(dev, u) /\ dev' = d /\ UNCHANGED <<devTask, execs>>
  \/ devTask = Waiting /\ InPlace(dev, u) /\ Complete(d) /\ dev' = NothingRead
     /\ Receive(d.hdr.type, d.hdr.of)

LEMMA DevTakes ==
  ASSUME SentTypes, DevReads
  PROVE  \E u \in Units, d \in Partly :
           /\ toDev # <<>> /\ Len(toDev) \in Nat \ {0} /\ u = toDev[1] /\ u.of \in Sent
           /\ toDev' \in Seq(Units) /\ Len(toDev') = Len(toDev) - 1
           /\ \A i \in 1..(Len(toDev) - 1) : toDev'[i] = toDev[i + 1]
           /\ d = DevTake(dev, u) /\ d.have > 0 /\ d.hdr.of \in Sent
           /\ dev.have = 0 => d.hdr = u
           /\ InPlace(dev, u) /\ dev.have # 0 => d.hdr.of = dev.hdr.of
           /\ DevMeets(u, d)
<1>1. toDev \in Seq(Units) /\ toDev # <<>> /\ toDev' = Tail(toDev)
  BY DEF DevReads, SentTypes, DevTypes
<1>2. Len(toDev) \in Nat \ {0}
  BY <1>1, LenProperties, EmptySeq
<1>3. /\ Tail(toDev) \in Seq(Units) /\ Len(Tail(toDev)) = Len(toDev) - 1
      /\ \A i \in 1..Len(Tail(toDev)) : Tail(toDev)[i] = toDev[i + 1]
  BY <1>1, HeadTailProperties
<1> DEFINE u == toDev[1]
           d == DevTake(dev, u)
<1>4. u \in Units /\ u.of \in Sent /\ u = Head(toDev)
  <2>1. toDev[1] \in Units
    BY <1>1, <1>2, LenProperties
  <2>2. 1 \in 1..Len(toDev)
    BY <1>2
  <2> QED BY <1>1, <2>1, <2>2 DEF SentTypes, DevTypes
<1>5. dev \in Partly /\ dev.have \in 0..2 /\ dev.hdr \in Units /\ dev.got \in Seq(Units)
  BY DEF SentTypes, DevTypes, Partly
<1>6. /\ d \in Partly /\ d.have > 0 /\ d.hdr.of \in Sent
      /\ dev.have = 0 => d.hdr = u
      /\ InPlace(dev, u) /\ dev.have # 0 => d.hdr.of = dev.hdr.of
  <2> HIDE DEF u
  <2>1. CASE dev.have = 0
    <3>1. d = [dev EXCEPT !.have = 1, !.hdr = u] /\ 1 \in 0..2
      BY <2>1 DEF DevTake
    <3>2. d \in Partly
      <4>1. [dev EXCEPT !.have = 1, !.hdr = u] \in Partly
        <5>1. 1 \in 0..2 /\ u \in Units /\ dev \in Partly
          BY <1>4, <1>5
        <5> QED BY ONLY <5>1, PartlyWith
      <4> QED BY <3>1, <4>1
    <3>3. d.have = 1 /\ d.hdr = u
      BY <1>5, <3>1 DEF Partly
    <3> HIDE DEF d
    <3> QED BY <1>4, <2>1, <3>2, <3>3
  <2>2. CASE dev.have = 1
    <3>1. d = [dev EXCEPT !.have = 2, !.hdr = u] /\ 2 \in 0..2
      BY <2>2 DEF DevTake
    <3>2. d \in Partly
      <4>1. [dev EXCEPT !.have = 2, !.hdr = u] \in Partly
        <5>1. 2 \in 0..2 /\ u \in Units /\ dev \in Partly
          BY <1>4, <1>5
        <5> QED BY ONLY <5>1, PartlyWith
      <4> QED BY <3>1, <4>1
    <3>3. d.have = 2 /\ d.hdr = u
      BY <1>5, <3>1 DEF Partly
    <3>4. InPlace(dev, u) => u.of = dev.hdr.of
      BY <2>2 DEF InPlace
    <3> HIDE DEF d
    <3> QED BY <1>4, <2>2, <3>2, <3>3, <3>4
  <2>3. CASE dev.have = 2
    <3>1. d = [dev EXCEPT !.got = Append(@, u)]
      BY <2>3 DEF DevTake
    <3>2. Append(dev.got, u) \in Seq(Units)
      BY <1>4, <1>5, AppendProperties
    <3>3. d \in Partly
      BY <1>5, <3>1, <3>2, PartlyWith
    <3>4. d.have = 2 /\ d.hdr = dev.hdr
      BY <1>5, <2>3, <3>1 DEF Partly
    <3>5. dev.hdr.of \in Sent
      BY <2>3 DEF SentTypes, DevTypes
    <3> HIDE DEF d
    <3> QED BY <2>3, <3>3, <3>4, <3>5
  <2> QED BY <1>5, <2>1, <2>2, <2>3
<1>7. DevMeets(u, d)
  BY <1>4 DEF DevReads, DevMeets
<1> HIDE DEF u, d
<1>8. u = toDev[1] /\ d = DevTake(dev, u)
  BY DEF u, d
<1> QED BY <1>1, <1>2, <1>3, <1>4, <1>6, <1>7, <1>8

LEMMA TicklePacket ==
  LET p == Packet(TCKL, TxidWrap, <<"tickle", 0>>, 0) IN
    /\ p \in Seq(Units) /\ Len(p) = 2 /\ \A i \in 1..2 : p[i].of = <<"tickle", 0>>
    /\ p[1] = Unit("first", TCKL, TxidWrap, <<"tickle", 0>>, 0)
    /\ p[2] = Unit("more", TCKL, TxidWrap, <<"tickle", 0>>, 0)
<1> DEFINE p == Packet(TCKL, TxidWrap, <<"tickle", 0>>, 0)
<1>1. TCKL \in Types /\ TxidWrap \in 0..TxidWrap /\ <<"tickle", 0>> \in Items
  BY NetAssumption DEF Types, Items
<1>2. /\ p \in Seq(Units) /\ Len(p) = 0 + 2
      /\ p[1] = Unit("first", TCKL, TxidWrap, <<"tickle", 0>>, 0)
      /\ p[2] = Unit("more", TCKL, TxidWrap, <<"tickle", 0>>, 0)
  BY ONLY <1>1, PacketIs, 0 \in Nat
<1> HIDE DEF p
<1>3. ASSUME NEW i \in 1..2 PROVE p[i].of = <<"tickle", 0>>
  <2>1. i = 1 \/ i = 2
    OBVIOUS
  <2> QED BY <1>2, <2>1 DEF Unit
<1>4. p = Packet(TCKL, TxidWrap, <<"tickle", 0>>, 0)
  BY DEF p
<1> QED BY <1>2, <1>3, <1>4

LEMMA NextDevTypes ==
  ASSUME SentTypes, Control, [Next]_vars
  PROVE  DevTypes'
<1>0. /\ toDev \in Seq(Units) /\ Len(toDev) \in Nat
      /\ \A i \in 1..Len(toDev) : toDev[i].of \in Sent
  BY LenProperties DEF SentTypes, DevTypes
<1>s. Sent' = Sent
  BY DEF Sent
<1>1. CASE UNCHANGED <<dev, devTask, execs, eof>>
           /\ toDev' \in Seq(Units) /\ \A i \in 1..Len(toDev') : toDev'[i].of \in Sent
  BY <1>1, <1>s DEF SentTypes, DevTypes
<1>2. CASE NetTx
  <2>1. PICK n \in Lengths, h \in Nat :
           /\ n \in Nat \ {0} /\ h \in 2..(n + 2)
           /\ toDev' \in Seq(Units) /\ Len(toDev') = Len(toDev) + h
           /\ \A i \in 1..Len(toDev) : toDev'[i] = toDev[i]
           /\ toDev'[Len(toDev) + 1] = Tx("first", n) /\ toDev'[Len(toDev) + 2] = Tx("more", n)
           /\ \A i \in 3..h : toDev'[Len(toDev) + i] = Tx("piece", n)
    BY <1>2, TxUnits
  <2>2. Subject \in Sent
    BY <1>2, SubjectSent DEF NetTx, SentTypes
  <2>3. ASSUME NEW part, NEW m PROVE Tx(part, m).of \in Sent
    BY <2>2 DEF Tx, Unit
  <2>4. ASSUME NEW i \in 1..Len(toDev') PROVE toDev'[i].of \in Sent
    <3>1. CASE i <= Len(toDev)
      BY <1>0, <2>1, <3>1
    <3>2. CASE ~(i <= Len(toDev))
      <4>1. PICK j \in 1..h : i = Len(toDev) + j
        <5>1. i - Len(toDev) \in 1..h /\ i = Len(toDev) + (i - Len(toDev))
          BY <1>0, <2>1, <3>2
        <5> QED BY <5>1
      <4>2. j = 1 \/ j = 2 \/ j \in 3..h
        BY <4>1
      <4> QED BY <2>1, <2>3, <4>1, <4>2
    <3> QED BY <3>1, <3>2
  <2> QED BY <1>1, <1>2, <2>1, <2>4 DEF NetTx, devVars
<1>3. CASE WriteChunk
  <2>1. out \in Seq(Units) /\ out # <<>> /\ \A i \in 1..Len(out) : out[i].of \in Sent
    BY <1>3 DEF WriteChunk, Control, SentTypes, HostTypes
  <2>2. Head(out) \in Units /\ Head(out).of \in Sent /\ toDev' = Append(toDev, Head(out))
    <3>1. Len(out) \in Nat \ {0}
      BY <2>1, LenProperties, EmptySeq
    <3>2. Head(out) = out[1] /\ out[1] \in Units
      BY <2>1, <3>1, LenProperties
    <3> QED BY <1>3, <2>1, <3>1, <3>2 DEF WriteChunk
  <2>3. /\ toDev' \in Seq(Units) /\ Len(toDev') = Len(toDev) + 1
        /\ \A i \in 1..Len(toDev) : toDev'[i] = toDev[i]
        /\ toDev'[Len(toDev) + 1] = Head(out)
    BY <1>0, <2>2, AppendProperties
  <2>4. ASSUME NEW i \in 1..Len(toDev') PROVE toDev'[i].of \in Sent
    <3>1. i \in 1..Len(toDev) \/ i = Len(toDev) + 1
      BY <1>0, <2>3
    <3> QED BY <1>0, <2>2, <2>3, <3>1
  <2> QED BY <1>1, <1>3, <2>3, <2>4 DEF WriteChunk, devVars
<1>4. CASE Tickle
  <2> DEFINE p == Packet(TCKL, TxidWrap, <<"tickle", 0>>, 0)
  <2>1. p \in Seq(Units) /\ Len(p) = 2 /\ \A i \in 1..2 : p[i].of = <<"tickle", 0>>
    BY TicklePacket
  <2>2. toDev' = toDev \o p /\ UNCHANGED <<dev, devTask, execs, eof>>
    BY <1>4 DEF Tickle, devVars
  <2> HIDE DEF p
  <2>3. toDev' \in Seq(Units) /\ Len(toDev') \in Nat
    BY <1>0, <2>1, <2>2, ConcatProperties, LenProperties
  <2>4. ASSUME NEW i \in 1..Len(toDev') PROVE toDev'[i].of \in Sent
    <3>1. \/ i \in 1..Len(toDev) /\ toDev'[i] = toDev[i]
          \/ i - Len(toDev) \in 1..Len(p) /\ toDev'[i] = p[i - Len(toDev)]
      BY <1>0, <2>1, <2>2, Place
    <3>2. <<"tickle", 0>> \in Sent
      BY DEF Sent
    <3> QED BY <1>0, <2>1, <3>1, <3>2
  <2> QED BY <1>1, <2>2, <2>3, <2>4
<1>5. CASE DevReads
  <2>1. PICK u \in Units, d \in Partly :
           /\ Len(toDev) \in Nat \ {0}
           /\ toDev' \in Seq(Units) /\ Len(toDev') = Len(toDev) - 1
           /\ \A i \in 1..(Len(toDev) - 1) : toDev'[i] = toDev[i + 1]
           /\ d.hdr.of \in Sent
           /\ DevMeets(u, d)
    BY <1>5, DevTakes
  <2>2. ASSUME NEW i \in 1..Len(toDev') PROVE toDev'[i].of \in Sent
    <3>1. i + 1 \in 1..Len(toDev) /\ i \in 1..(Len(toDev) - 1)
      BY <2>1
    <3> QED BY <1>0, <2>1, <3>1
  <2>3. NothingRead \in Partly /\ ~(NothingRead.have > 0)
    <3>1. Unit("first", DATA, 0, Garbage, 0) \in Units
      BY NetAssumption DEF Units, Unit, Types, Items
    <3> QED BY <3>1 DEF NothingRead, Partly
  <2>4. dev' \in Partly /\ (dev'.have > 0 => dev'.hdr.of \in Sent)
    BY <2>1, <2>3 DEF DevMeets
  <2>5. devTask' \in Sent \cup {Waiting, Lost, Ended}
    BY <2>1 DEF DevMeets, Receive, SentTypes, DevTypes
  <2>6. execs' \in [1..MaxCalls -> Nat]
    BY <2>1 DEF DevMeets, Receive, SentTypes, DevTypes
  <2>7. eof' = eof
    BY <1>5 DEF DevReads
  <2> QED BY <1>s, <2>1, <2>2, <2>4, <2>5, <2>6, <2>7 DEF SentTypes, DevTypes
<1>6. CASE DevReplies
  BY <1>0, <1>6, <1>s DEF DevReplies, SentTypes, DevTypes
<1>7. CASE DevCloses
  BY <1>0, <1>7, <1>s DEF DevCloses, SentTypes, DevTypes
<1>8. CASE ~(NetTx \/ WriteChunk \/ Tickle \/ DevReads \/ DevReplies \/ DevCloses)
  <2>1. UNCHANGED <<toDev, devVars>>
    BY <1>8 DEF Next, Begin, Close, CloseBroken, Host, Detect, Skip, WriteFails, NetRx,
         Reading, ReadFirst, ReadHeader, ReadPayload, ReadDone, ReadEof, ReadTimesOut, ReadFails,
         Device, DevTickles, Spin, Finished, vars
  <2> QED BY <1>0, <1>1, <2>1 DEF devVars
<1> QED BY <1>2, <1>3, <1>4, <1>5, <1>6, <1>7, <1>8

-----------------------------------------------------------------------------
(* Where what the host reads comes from.                                   *)
OfLine(u) == \E j \in 1..Len(toHost) : u = toHost[j]

LEMMA SuffixOfLine ==
  ASSUME HostTypes, NEW k \in 0..Len(toHost), NEW i \in 1..Len(SubSeq(toHost, k + 1, Len(toHost)))
  PROVE  OfLine(SubSeq(toHost, k + 1, Len(toHost))[i])
<1>1. toHost \in Seq(Units)
  BY DEF HostTypes
<1>2. Len(toHost) \in Nat
  BY <1>1, LenProperties
<1>3. /\ Len(SubSeq(toHost, k + 1, Len(toHost))) = Len(toHost) - k
      /\ \A n \in 1..(Len(toHost) - k) : SubSeq(toHost, k + 1, Len(toHost))[n] = toHost[n + k]
  BY ONLY <1>1, k \in 0..Len(toHost), Suffix
<1>4. i + k \in 1..Len(toHost) /\ i \in 1..(Len(toHost) - k)
  BY <1>2, <1>3
<1> QED BY <1>3, <1>4 DEF OfLine

LEMMA TailOfLine ==
  ASSUME HostTypes, toHost # <<>>, NEW i \in 1..Len(Tail(toHost))
  PROVE  OfLine(Tail(toHost)[i])
<1>1. toHost \in Seq(Units)
  BY DEF HostTypes
<1>2. /\ Len(Tail(toHost)) = Len(toHost) - 1
      /\ \A n \in 1..Len(Tail(toHost)) : Tail(toHost)[n] = toHost[n + 1]
  BY <1>1, HeadTailProperties
<1>3. i + 1 \in 1..Len(toHost)
  BY <1>1, <1>2, LenProperties
<1> QED BY <1>2, <1>3 DEF OfLine

(* A packet of the device is of one subject.                               *)
LEMMA DevPacket ==
  ASSUME SentTypes, DevReplies \/ DevTickles
  PROVE  \E type \in {DATA, TCKL}, txid \in {1, TxidWrap}, of \in Items, n \in Nat :
           /\ type \in Types /\ txid \in 0..TxidWrap
           /\ toHost' = toHost \o Packet(type, txid, of, n)
           /\ DevReplies => type = DATA /\ of = Reply /\ n # 0 /\ n <= PacketMax
           /\ DevTickles /\ ~DevReplies => type = TCKL /\ of = <<"tickle", 0>> /\ n = 0
<1>0. TxidWrap \in Nat /\ TxidWrap >= 2 /\ DATA \in Types /\ TCKL \in Types
  BY NetAssumption DEF Types
<1>1. CASE DevReplies
  <2>1. PICK n \in IF devTask[1] = "call" THEN RespLens ELSE {1} :
          toHost' = toHost \o Packet(DATA, 1, Reply, n)
    BY <1>1 DEF DevReplies
  <2>2. Reply \in Items
    <3>1. devTask \in Sent
      BY <1>1 DEF DevReplies, SentTypes, DevTypes
    <3>2. CASE devTask[1] = "handshake"
      <4>1. devTask \in {Shake(2), Shake(4)}
        BY <3>1, <3>2 DEF Sent
      <4>2. Reply \in {Shake(3), Shake(5)}
        BY <3>2, <4>1 DEF Reply, Shake
      <4> QED BY <4>2 DEF Items
    <3>3. CASE devTask[1] # "handshake"
      BY <3>1, <3>3, SentItems DEF Reply
    <3> QED BY <3>2, <3>3
  <2>3. n \in Nat /\ n # 0 /\ n <= PacketMax
    <3>1. CASE n = 1
      BY <3>1, NetAssumption
    <3>2. CASE n \in RespLens
      BY <3>2, NetAssumption
    <3> QED BY <2>1, <3>1, <3>2
  <2> QED BY <1>0, <1>1, <2>1, <2>2, <2>3
<1>2. CASE DevTickles /\ ~DevReplies
  <2>1. toHost' = toHost \o Packet(TCKL, TxidWrap, <<"tickle", 0>>, 0)
    BY <1>2 DEF DevTickles
  <2>2. <<"tickle", 0>> \in Items /\ 0 \in Nat /\ TxidWrap \in 0..TxidWrap
    BY <1>0 DEF Items
  <2> QED BY <1>0, <1>2, <2>1, <2>2
<1> QED BY <1>1, <1>2

LEMMA DevAppends ==
  ASSUME SentTypes, DevReplies \/ DevTickles, NEW i \in 1..Len(toHost')
  PROVE  \/ OfLine(toHost'[i])
         \/ DevReplies /\ toHost'[i].of = Reply
         \/ DevTickles /\ toHost'[i].of = <<"tickle", 0>>
<1>1. PICK type \in {DATA, TCKL}, txid \in {1, TxidWrap}, of \in Items, n \in Nat :
           /\ type \in Types /\ txid \in 0..TxidWrap
           /\ toHost' = toHost \o Packet(type, txid, of, n)
           /\ DevReplies => of = Reply
           /\ DevTickles /\ ~DevReplies => of = <<"tickle", 0>>
  BY DevPacket
<1> DEFINE p == Packet(type, txid, of, n)
<1>2. /\ p \in Seq(Units) /\ Len(p) = n + 2
      /\ p[1] = Unit("first", type, txid, of, n) /\ p[2] = Unit("more", type, txid, of, n)
      /\ \A j \in 3..(n + 2) : p[j] = Unit("piece", type, txid, of, n)
  BY <1>1, PacketIs
<1> HIDE DEF p
<1>3. ASSUME NEW j \in 1..Len(p) PROVE p[j].of = of
  <2>1. j = 1 \/ j = 2 \/ j \in 3..(n + 2)
    BY <1>2
  <2> QED BY <1>2, <2>1 DEF Unit
<1>4. toHost \in Seq(Units)
  BY DEF SentTypes, HostTypes
<1>5. i \in 1..Len(toHost \o p) /\ toHost' = toHost \o p
  BY <1>1 DEF p
<1>6. \/ i \in 1..Len(toHost) /\ (toHost \o p)[i] = toHost[i]
      \/ i - Len(toHost) \in 1..Len(p) /\ (toHost \o p)[i] = p[i - Len(toHost)]
  BY ONLY <1>2, <1>4, <1>5, Place
<1> QED BY <1>1, <1>3, <1>5, <1>6 DEF OfLine

LEMMA HostUnits ==
  ASSUME Control, SentTypes, [Next]_vars, NEW i \in 1..Len(toHost')
  PROVE  \/ OfLine(toHost'[i])
         \/ DevReplies /\ toHost'[i].of = Reply
         \/ DevTickles /\ toHost'[i].of = <<"tickle", 0>>
<1>1. CASE DevReplies \/ DevTickles
  BY <1>1, DevAppends
<1>2. CASE toHost # <<>> /\ toHost' = Tail(toHost)
  BY <1>2, TailOfLine DEF SentTypes
<1>3. CASE \E k \in Arrivals : toHost' = SubSeq(toHost, k + 1, Len(toHost))
  BY <1>3, SuffixOfLine DEF SentTypes, Arrivals
<1>4. CASE toHost' = toHost
  BY <1>4 DEF OfLine
<1>5. CASE DevCloses
  <2>1. PICK k \in 0..Len(toHost) : toHost' = SubSeq(toHost, 1, k)
    BY <1>5 DEF DevCloses
  <2>2. toHost \in Seq(Units)
    BY DEF SentTypes, HostTypes
  <2>3. /\ Len(SubSeq(toHost, 1, k)) = k
        /\ \A n \in 1..k : SubSeq(toHost, 1, k)[n] = toHost[n]
    BY ONLY <2>1, <2>2, Prefix
  <2>4. i \in 1..k /\ i \in 1..Len(toHost)
    BY <2>1, <2>2, <2>3, LenProperties
  <2> QED BY <2>1, <2>3, <2>4 DEF OfLine
<1>6. CASE Reading
  <2>1. CASE ReadFirst \/ ReadPayload
    <3>1. \E u \in Arrived : toHost' = Tail(toHost)
      BY <2>1 DEF ReadFirst, ReadPayload
    <3>2. toHost # <<>>
      BY <3>1, ArrivedUnit DEF SentTypes
    <3> QED BY <1>2, <3>1, <3>2
  <2>2. CASE ReadHeader
    <3>1. PICK u \in Arrived : \E h \in Header(u) : Payload(h) \/ PassOver(h) \/ BadHeader(h)
      BY <2>2 DEF ReadHeader
    <3>2. toHost # <<>>
      BY <3>1, ArrivedUnit DEF SentTypes
    <3> QED BY <1>2, <1>3, <3>1, <3>2 DEF Payload, PassOver, BadHeader
  <2>3. CASE ReadDone \/ ReadEof
    BY <1>4, <2>3 DEF ReadDone, ReadEof
  <2> QED BY <1>6, <2>1, <2>2, <2>3 DEF Reading
<1>7. ASSUME NEW k \in Arrivals, Begin(k) \/ Close(k)
      PROVE  toHost' = SubSeq(toHost, k + 1, Len(toHost))
  BY <1>7 DEF Begin, Close, Flushed
<1>8. CASE Skip
  BY <1>2, <1>8 DEF Skip
<1>9. CASE \/ CloseBroken \/ Detect \/ NetTx \/ WriteChunk \/ WriteFails \/ NetRx
           \/ ReadTimesOut \/ ReadFails \/ Tickle \/ DevReads \/ UNCHANGED vars
  BY <1>4, <1>9 DEF CloseBroken, Detect, NetTx, WriteChunk, WriteFails, NetRx,
                    ReadTimesOut, ReadFails, Tickle, DevReads, vars
<1> QED BY <1>1, <1>3, <1>5, <1>6, <1>7, <1>8, <1>9 DEF Next, Host, Device, Spin, Finished

LEMMA GotUnits ==
  ASSUME Control, SentTypes, [Next]_vars, NEW i \in 1..Len(rx'.got)
  PROVE  \/ \E j \in 1..Len(rx.got) : rx'.got[i] = rx.got[j]
         \/ OfLine(rx'.got[i])
<1>0. rx \in Partly /\ rx.got \in Seq(Units)
  BY DEF SentTypes, HostTypes, Partly
<1>1. CASE rx' = NothingRead
  <2>1. Len(rx'.got) = 0
    BY <1>1 DEF NothingRead
  <2> QED BY <2>1
<1>2. CASE rx'.got = rx.got
  BY <1>2
<1>3. CASE ReadPayload
  <2>1. PICK u \in Arrived : rx' = [rx EXCEPT !.got = Append(@, u)]
    BY <1>3 DEF ReadPayload
  <2>2. u \in Units /\ OfLine(u)
    BY ArrivedUnit DEF SentTypes, OfLine
  <2>3. rx'.got = Append(rx.got, u)
    BY <1>0, <2>1 DEF Partly
  <2>4. /\ Len(Append(rx.got, u)) = Len(rx.got) + 1
        /\ \A n \in 1..Len(rx.got) : Append(rx.got, u)[n] = rx.got[n]
        /\ Append(rx.got, u)[Len(rx.got) + 1] = u
    BY <1>0, <2>2, AppendProperties
  <2>5. i \in 1..Len(rx.got) \/ i = Len(rx.got) + 1
    BY <1>0, <2>3, <2>4, LenProperties
  <2> QED BY <2>2, <2>3, <2>4, <2>5
<1>4. CASE ReadFirst
  BY <1>0, <1>2, <1>4 DEF ReadFirst, Partly
<1>5. CASE ReadHeader
  BY <1>0, <1>1, <1>2, <1>5 DEF ReadHeader, Payload, PassOver, BadHeader, AfterTickle, Partly
<1>6. CASE ReadDone \/ ReadEof \/ ReadTimesOut \/ ReadFails \/ NetRx
  BY <1>1, <1>6 DEF ReadDone, ReadEof, ReadTimesOut, ReadFails, NetRx
<1>7. CASE ~(ReadPayload \/ ReadFirst \/ ReadHeader \/ ReadDone \/ ReadEof \/ ReadTimesOut \/ ReadFails \/ NetRx)
  <2>1. rx' = rx
    BY <1>7 DEF Next, Begin, Close, CloseBroken, Host, Detect, Skip, NetTx, WriteChunk, WriteFails,
         Reading, Tickle, Device, DevReads, DevReplies, DevTickles, DevCloses, Spin, Finished,
         vars, netVars
  <2> QED BY <1>2, <2>1
<1> QED BY <1>3, <1>4, <1>5, <1>6, <1>7

-----------------------------------------------------------------------------
(* The end of the synchronization.                                         *)
LEMMA EndedStays ==
  ASSUME [Next]_vars, devTask = Ended
  PROVE  devTask' = Ended
<1>1. Ended # Waiting /\ Ended # Lost
  BY DEF Ended, Waiting, Lost
<1>2. ~DevReads /\ ~DevReplies
  BY <1>1 DEF DevReads, DevReplies
<1> QED BY <1>2 DEF Next, Begin, Close, CloseBroken, Host, Detect, Skip, NetTx, WriteChunk, WriteFails, NetRx,
         Reading, ReadFirst, ReadHeader, ReadPayload, ReadDone, ReadEof, ReadTimesOut, ReadFails,
         Tickle, Device, DevTickles, DevCloses, Spin, Finished, vars, devVars

LEMMA ClosesWell ==
  ASSUME Control, SentTypes, CloseSeen, ReadDone, op = "close", EndsWell(Content(rx.got))
  PROVE  devTask = Ended
<1>1. Content(rx.got)[1] = "close"
  BY DEF EndsWell, RightCommand
<1>2. rx.got # <<>> /\ Content(rx.got) = rx.got[1].of
  BY <1>1 DEF Content, Short, Garbage
<1>3. rx.got \in Seq(Units)
  BY DEF SentTypes, HostTypes, Partly
<1>4. 1 \in 1..Len(rx.got)
  BY <1>2, <1>3, LenProperties, EmptySeq
<1> QED BY <1>1, <1>2, <1>4 DEF CloseSeen

LEMMA NextCloseSeen ==
  ASSUME Control, SentTypes, CloseSeen, [Next]_vars
  PROVE  CloseSeen'
<1>1. ASSUME NEW i \in 1..Len(toHost'), toHost'[i].of[1] = "close" PROVE devTask' = Ended
  <2>1. CASE OfLine(toHost'[i])
    BY <1>1, <2>1, EndedStays DEF OfLine, CloseSeen
  <2>2. CASE DevReplies /\ toHost'[i].of = Reply
    <3>1. devTask[1] = "close"
      BY <1>1, <2>2 DEF Reply, Shake
    <3> QED BY <2>2, <3>1 DEF DevReplies
  <2>3. CASE toHost'[i].of = <<"tickle", 0>>
    BY <1>1, <2>3
  <2> QED BY <2>1, <2>2, <2>3, HostUnits
<1>2. ASSUME NEW i \in 1..Len(rx'.got), rx'.got[i].of[1] = "close" PROVE devTask' = Ended
  BY <1>2, GotUnits, EndedStays DEF OfLine, CloseSeen
<1>3. ASSUME conn' = "END", conn # "END" PROVE devTask' = Ended
  <2>1. CASE NetTx \/ WriteChunk
    <3>1. Len(todo) # 1
      <4>1. Len(todo) \in {2, 4}
        BY <2>1 DEF NetTx, WriteChunk, Control
      <4>2. CASE Len(todo) = 2
        BY <4>2
      <4>3. CASE Len(todo) = 4
        BY <4>3
      <4> QED BY <4>1, <4>2, <4>3
    <3>2. ~EndsWell(Subject)
      BY <3>1 DEF EndsWell
    <3>3. ~StepDone(Subject) \/ EndsBadly \/ GoesOnTo
      BY <3>2, Outcomes
    <3> QED BY <1>3, <2>1, <3>3 DEF NetTx, WriteChunk, EndsBadly, GoesOnTo
  <2>2. CASE ReadDone
    <3>1. EndsWell(Content(rx.got))
      BY <1>3, <2>2, Outcomes DEF ReadDone, GoesOnTo, EndsBadly
    <3>2. op = "close"
      BY <1>3, <3>1 DEF EndsWell
    <3> QED BY <2>2, <3>1, <3>2, ClosesWell, EndedStays
  <2>3. CASE ReadHeader
    BY <1>3, <2>3 DEF ReadHeader, Payload, PassOver, BadHeader, Fails
  <2>4. CASE WriteFails \/ ReadTimesOut \/ ReadFails \/ ReadEof
    BY <1>3, <2>4 DEF WriteFails, ReadTimesOut, ReadFails, ReadEof, Fails
  <2>5. CASE ~(NetTx \/ WriteChunk \/ ReadDone \/ ReadHeader \/ WriteFails \/ ReadTimesOut \/ ReadFails \/ ReadEof)
    <3>1. conn' = conn
      BY <2>5 DEF Next, Begin, Close, CloseBroken, Host, Detect, Skip, NetRx,
         Reading, ReadFirst, ReadPayload,
         Tickle, Device, DevReads, DevReplies, DevTickles, DevCloses, Spin, Finished, vars, netVars
    <3> QED BY <1>3, <3>1
  <2> QED BY <2>1, <2>2, <2>3, <2>4, <2>5
<1>4. conn = "END" => devTask' = Ended
  BY EndedStays DEF CloseSeen
<1> QED BY <1>1, <1>2, <1>3, <1>4 DEF CloseSeen

-----------------------------------------------------------------------------
(* A call is carried out once.                                             *)
LEMMA SentCall ==
  ASSUME NEW of \in Sent, of[1] = "call"
  PROVE  of[2] \in 1..MaxCalls /\ of = <<"call", of[2]>>
BY DEF Sent, Shake

LEMMA TopGrows ==
  ASSUME Control, SentTypes, [Next]_vars
  PROVE  Top \in Int /\ Top' \in Int /\ Top <= Top'
<1>0. call \in Nat /\ MaxCalls \in Nat
  BY NetAssumption DEF SentTypes, ResultTypes
<1>1. ASSUME NEW k, Begin(k) PROVE call' = call + 1 /\ op' = "call" /\ pc' = "tx" /\ pc = "app"
  BY <1>1 DEF Begin, Enter
<1>2. ASSUME NEW k, Close(k) PROVE call' = call /\ op' = "close"
  BY <1>2 DEF Close, results
<1>3. CASE call' = call /\ op' = op /\ (op = "call" /\ pc' = "tx" => pc = "tx")
  BY <1>0, <1>3 DEF Top
<1>4. CASE NetTx \/ WriteChunk
  <2>1. CASE UNCHANGED <<op, results>> /\ pc' \in {pc, "body"}
    BY <1>3, <2>1 DEF results
  <2>2. CASE StepDone(Subject)
    <3>1. Len(todo) \in {2, 4}
      BY <1>4 DEF NetTx, WriteChunk, Control
    <3>2. GoesOnTo \/ EndsBadly \/ EndsWell(Subject)
      BY <2>2, Outcomes
    <3>3. call' = call /\ op' = op /\ pc' # "tx"
      BY <3>1, <3>2 DEF GoesOnTo, EndsBadly, EndsWell
    <3> QED BY <1>3, <3>3
  <2> QED BY <1>4, <2>1, <2>2 DEF NetTx, WriteChunk, progress
<1>5. CASE ReadDone
  <2>1. op = "call" => todo \in {<<>>, <<"rx">>, <<"tx", "rx">>}
    BY DEF Control
  <2>2. op = "call" => ~(Len(todo) > 1)
    <3>1. Len(todo) \in {1, 3, 5}
      BY <1>5 DEF ReadDone, Control
    <3>2. CASE todo = <<"tx", "rx">>
      <4>1. Len(todo) = 2
        BY <3>2
      <4> QED BY <3>1, <4>1
    <3>3. CASE todo \in {<<>>, <<"rx">>}
      <4>1. CASE Len(todo) = 0
        BY <4>1
      <4>2. CASE Len(todo) = 1
        BY <4>2
      <4> QED BY <3>3, <4>1, <4>2
    <3> QED BY <2>1, <3>2, <3>3
  <2>3. GoesOnTo \/ EndsBadly \/ EndsWell(Content(rx.got))
    BY <1>5, Outcomes DEF ReadDone
  <2> QED BY <1>3, <2>2, <2>3 DEF GoesOnTo, EndsBadly, EndsWell
<1>6. CASE ReadHeader
  BY <1>3, <1>6 DEF ReadHeader, Payload, PassOver, BadHeader, Fails, progress, results
<1>7. CASE WriteFails \/ ReadFails \/ ReadTimesOut \/ ReadEof
  BY <1>3, <1>7 DEF WriteFails, ReadFails, ReadTimesOut, ReadEof, Fails
<1>8. CASE \/ CloseBroken \/ Detect \/ Skip \/ NetRx \/ ReadFirst \/ ReadPayload \/ Tickle
           \/ DevReads \/ DevReplies \/ DevTickles \/ DevCloses \/ UNCHANGED vars
  BY <1>3, <1>8 DEF CloseBroken, Detect, Skip, NetRx, ReadFirst, ReadPayload, Tickle,
           DevReads, DevReplies, DevTickles, DevCloses, vars, progress, results
<1>9. ASSUME NEW k, Begin(k) \/ Close(k) PROVE Top \in Int /\ Top' \in Int /\ Top <= Top'
  <2>1. CASE Begin(k)
    BY <1>0, <1>1, <2>1 DEF Top
  <2>2. CASE Close(k)
    BY <1>0, <1>2, <2>2 DEF Top
  <2> QED BY <1>9, <2>1, <2>2
<1> QED BY <1>4, <1>5, <1>6, <1>7, <1>8, <1>9 DEF Next, Host, Reading, Device, Spin, Finished

(* Nothing that begins a request is added.                                 *)
LEMMA OnceNotSent ==
  ASSUME SentTypes, Once, Top \in Int, Top' \in Int, Top <= Top', execs' = execs, dev' = dev,
         \A i \in 1..Len(toDev') : OfCall(toDev'[i]) => i \in 1..Len(toDev) /\ toDev'[i] = toDev[i],
         \A i \in 1..Len(out') : out'[i].part = "piece"
  PROVE  Once'
<1>1. /\ \A i \in 1..Len(toDev) : toDev[i].of \in Sent
      /\ dev.have > 0 => dev.hdr.of \in Sent
      /\ MaxCalls \in Nat
  BY NetAssumption DEF SentTypes, DevTypes
<1>2. ASSUME NEW i \in 1..Len(toDev'), OfCall(toDev'[i])
      PROVE  toDev'[i].of[2] <= Top' /\ execs'[toDev'[i].of[2]] = 0
  <2>1. i \in 1..Len(toDev) /\ toDev'[i] = toDev[i] /\ toDev[i].of \in Sent
    BY <1>1, <1>2
  <2>2. toDev[i].of[2] \in 1..MaxCalls
    BY <1>2, <2>1, SentCall DEF OfCall
  <2>3. toDev[i].of[2] <= Top /\ execs[toDev[i].of[2]] = 0
    BY <1>2, <2>1 DEF Once
  <2> QED BY <1>1, <2>1, <2>2, <2>3
<1>3. ASSUME NEW i \in 1..Len(toDev'), NEW j \in 1..Len(toDev'),
             OfCall(toDev'[i]), OfCall(toDev'[j]), toDev'[i].of = toDev'[j].of
      PROVE  i = j
  BY <1>3 DEF Once
<1>4. ASSUME dev'.have > 0, dev'.hdr.of[1] = "call"
      PROVE  /\ dev'.hdr.of[2] <= Top' /\ execs'[dev'.hdr.of[2]] = 0
             /\ \A i \in 1..Len(toDev') : OfCall(toDev'[i]) => toDev'[i].of # dev'.hdr.of
  <2>1. dev.hdr.of[2] \in 1..MaxCalls
    BY <1>1, <1>4, SentCall
  <2>2. /\ dev.hdr.of[2] <= Top /\ execs[dev.hdr.of[2]] = 0
        /\ \A i \in 1..Len(toDev) : OfCall(toDev[i]) => toDev[i].of # dev.hdr.of
    BY <1>4 DEF Once
  <2> QED BY <1>1, <2>1, <2>2
<1>5. ASSUME NEW k \in 1..MaxCalls PROVE execs'[k] \in {0, 1} /\ (execs'[k] = 1 => k <= Top')
  <2>1. execs[k] \in {0, 1} /\ (execs[k] = 1 => k <= Top)
    BY DEF Once
  <2> QED BY <1>1, <2>1
<1>6. \A u : OfCall(u)' <=> OfCall(u)
  BY DEF OfCall
<1> QED BY <1>2, <1>3, <1>4, <1>5 DEF Once, OfCall

LEMMA NetTxOnce ==
  ASSUME Control, SentTypes, Once, NetTx
  PROVE  Once'
<1>0. /\ \A i \in 1..Len(toDev) : toDev[i].of \in Sent
      /\ dev.have > 0 => dev.hdr.of \in Sent
      /\ MaxCalls \in Nat /\ call \in Nat /\ Len(toDev) \in Nat
  BY NetAssumption, LenProperties DEF SentTypes, DevTypes, ResultTypes
<1>1. Top \in Int /\ Top' \in Int /\ Top <= Top'
  BY TopGrows DEF Next, Host
<1>2. UNCHANGED <<dev, execs, devTask>>
  BY DEF NetTx, devVars
<1>3. PICK n \in Lengths, h \in Nat :
           /\ n \in Nat \ {0} /\ h \in 2..(n + 2)
           /\ toDev' \in Seq(Units) /\ Len(toDev') = Len(toDev) + h
           /\ \A i \in 1..Len(toDev) : toDev'[i] = toDev[i]
           /\ toDev'[Len(toDev) + 1] = Tx("first", n) /\ toDev'[Len(toDev) + 2] = Tx("more", n)
           /\ \A i \in 3..h : toDev'[Len(toDev) + i] = Tx("piece", n)
           /\ out' \in Seq(Units) /\ \A i \in 1..Len(out') : out'[i] = Tx("piece", n)
  BY TxUnits
<1>4. \A i \in 1..Len(out') : out'[i].part = "piece"
  BY <1>3 DEF Tx, Unit
<1>5. ASSUME NEW i \in 1..Len(toDev'), OfCall(toDev'[i]), i > Len(toDev)
      PROVE  i = Len(toDev) + 1 /\ toDev'[i].of = Subject /\ Subject[1] = "call"
  <2>1. PICK j \in 1..h : i = Len(toDev) + j
    <3>1. i - Len(toDev) \in 1..h /\ i = Len(toDev) + (i - Len(toDev))
      BY <1>0, <1>3, <1>5
    <3> QED BY <3>1
  <2>2. j = 1 \/ j = 2 \/ j \in 3..h
    BY <2>1
  <2>3. j = 1
    BY <1>3, <1>5, <2>1, <2>2 DEF Tx, Unit, OfCall
  <2> QED BY <1>3, <1>5, <2>1, <2>3 DEF Tx, Unit, OfCall
<1>6. CASE op # "call"
  <2>1. Subject[1] # "call"
    BY <1>6 DEF Subject, Control, Shake
  <2>2. ASSUME NEW i \in 1..Len(toDev'), OfCall(toDev'[i])
        PROVE  i \in 1..Len(toDev) /\ toDev'[i] = toDev[i]
    BY <1>0, <1>3, <1>5, <2>1, <2>2
  <2> QED BY <1>1, <1>2, <1>4, <2>2, OnceNotSent
<1>7. CASE op = "call"
  <2>1. Subject = <<"call", call>> /\ Top = call - 1 /\ call \in 1..MaxCalls
    BY <1>7 DEF Subject, Top, NetTx, Control, SentTypes, ResultTypes
  <2>2. Top' = call
    <3>1. op' = op /\ call' = call /\ pc' # "tx"
      <4>1. CASE split
        BY <4>1 DEF NetTx, results
      <4>2. CASE ~split
        <5>1. GoesOnTo \/ EndsBadly \/ EndsWell(Subject)
          BY <4>2, Outcomes DEF NetTx
        <5>2. Len(todo) \in {2, 4}
          BY DEF NetTx, Control
        <5> QED BY <5>1, <5>2 DEF GoesOnTo, EndsBadly, EndsWell
      <4> QED BY <4>1, <4>2
    <3> QED BY <3>1 DEF Top
  <2>3. execs[call] = 0
    <3>1. execs[call] \in {0, 1} /\ (execs[call] = 1 => call <= Top)
      BY <2>1 DEF Once
    <3> QED BY <1>0, <2>1, <3>1
  <2>4. ASSUME NEW i \in 1..Len(toDev'), OfCall(toDev'[i])
        PROVE  \/ i \in 1..Len(toDev) /\ toDev'[i] = toDev[i] /\ toDev[i].of[2] \in 1..MaxCalls
                  /\ toDev[i].of[2] <= Top /\ execs[toDev[i].of[2]] = 0 /\ toDev[i].of # <<"call", call>>
               \/ i = Len(toDev) + 1 /\ toDev'[i].of = <<"call", call>>
    <3>1. CASE i > Len(toDev)
      BY <1>5, <2>1, <2>4, <3>1
    <3>2. CASE ~(i > Len(toDev))
      <4>1. i \in 1..Len(toDev) /\ toDev'[i] = toDev[i] /\ toDev[i].of \in Sent
        BY <1>0, <1>3, <3>2
      <4>2. toDev[i].of[2] \in 1..MaxCalls
        BY <2>4, <4>1, SentCall DEF OfCall
      <4>3. toDev[i].of[2] <= Top /\ execs[toDev[i].of[2]] = 0
        BY <2>4, <4>1 DEF Once
      <4>4. toDev[i].of[2] # call
        BY <1>0, <2>1, <4>2, <4>3
      <4> QED BY <4>1, <4>2, <4>3, <4>4
    <3> QED BY <3>1, <3>2
  <2>5. ASSUME NEW i \in 1..Len(toDev'), OfCall(toDev'[i])
        PROVE  toDev'[i].of[2] <= Top' /\ execs'[toDev'[i].of[2]] = 0
    BY <1>0, <1>2, <2>1, <2>2, <2>3, <2>4, <2>5
  <2>6. ASSUME NEW i \in 1..Len(toDev'), NEW j \in 1..Len(toDev'),
               OfCall(toDev'[i]), OfCall(toDev'[j]), toDev'[i].of = toDev'[j].of
        PROVE  i = j
    <3>1. CASE i = Len(toDev) + 1 \/ j = Len(toDev) + 1
      BY <1>0, <2>4, <2>6, <3>1
    <3>2. CASE i \in 1..Len(toDev) /\ j \in 1..Len(toDev)
      BY <2>4, <2>6, <3>2 DEF Once
    <3> QED BY <2>4, <2>6, <3>1, <3>2
  <2>7. ASSUME dev.have > 0, dev.hdr.of[1] = "call"
        PROVE  /\ dev.hdr.of[2] <= Top' /\ execs[dev.hdr.of[2]] = 0
               /\ \A i \in 1..Len(toDev') : OfCall(toDev'[i]) => toDev'[i].of # dev.hdr.of
    <3>1. dev.hdr.of[2] \in 1..MaxCalls /\ dev.hdr.of[2] <= Top /\ execs[dev.hdr.of[2]] = 0
          /\ \A i \in 1..Len(toDev) : OfCall(toDev[i]) => toDev[i].of # dev.hdr.of
      BY <1>0, <2>7, SentCall DEF Once
    <3>2. dev.hdr.of # <<"call", call>>
      BY <1>0, <2>1, <3>1
    <3>3. dev.hdr.of[2] <= Top'
      BY <1>0, <2>1, <2>2, <3>1
    <3>4. ASSUME NEW i \in 1..Len(toDev'), OfCall(toDev'[i]) PROVE toDev'[i].of # dev.hdr.of
      BY <2>4, <3>1, <3>2, <3>4
    <3> QED BY <3>1, <3>3, <3>4
  <2>8. ASSUME NEW k \in 1..MaxCalls PROVE execs[k] \in {0, 1} /\ (execs[k] = 1 => k <= Top')
    <3>1. execs[k] \in {0, 1} /\ (execs[k] = 1 => k <= Top)
      BY DEF Once
    <3> QED BY <1>0, <2>1, <2>2, <3>1
  <2> QED BY <1>2, <1>4, <2>5, <2>6, <2>7, <2>8 DEF Once, OfCall
<1> QED BY <1>6, <1>7

LEMMA DevReadsOnce ==
  ASSUME Control, SentTypes, Once, DevReads
  PROVE  Once'
<1>0. /\ MaxCalls \in Nat /\ execs \in [1..MaxCalls -> Nat] /\ dev.have \in 0..2
      /\ dev.have > 0 => dev.hdr.of \in Sent
  BY NetAssumption DEF SentTypes, DevTypes, Partly
<1>1. Top \in Int /\ Top' = Top /\ UNCHANGED out
  <2>1. Top \in Int
    BY TopGrows DEF Next, Device
  <2>2. UNCHANGED <<pc, op, call, out>>
    BY DEF DevReads, progress, results, netVars
  <2> QED BY <2>1, <2>2 DEF Top
<1>2. PICK u \in Units, d \in Partly :
           /\ Len(toDev) \in Nat \ {0} /\ u = toDev[1] /\ u.of \in Sent
           /\ toDev' \in Seq(Units) /\ Len(toDev') = Len(toDev) - 1
           /\ \A i \in 1..(Len(toDev) - 1) : toDev'[i] = toDev[i + 1]
           /\ d = DevTake(dev, u) /\ d.have > 0 /\ d.hdr.of \in Sent
           /\ dev.have = 0 => d.hdr = u
           /\ InPlace(dev, u) /\ dev.have # 0 => d.hdr.of = dev.hdr.of
           /\ DevMeets(u, d)
  BY DevTakes
<1>3. ASSUME NEW i \in 1..Len(toDev')
      PROVE  i + 1 \in 1..Len(toDev) /\ i + 1 # 1 /\ toDev'[i] = toDev[i + 1] /\ toDev[i + 1].of \in Sent
  <2>1. i + 1 \in 1..Len(toDev) /\ i + 1 # 1 /\ i \in 1..(Len(toDev) - 1)
    BY <1>2
  <2> QED BY <1>2, <2>1 DEF SentTypes, DevTypes
<1>4. ASSUME NEW i \in 1..Len(toDev'), NEW j \in 1..Len(toDev'),
             OfCall(toDev'[i]), OfCall(toDev'[j]), toDev'[i].of = toDev'[j].of
      PROVE  i = j
  <2>1. i + 1 = j + 1
    BY <1>3, <1>4 DEF Once
  <2> QED BY <1>2, <2>1
(* What has been read of a request: it is not carried out, and not on its way. *)
<1>5. ASSUME InPlace(dev, u), d.hdr.of[1] = "call"
      PROVE  /\ d.hdr.of[2] \in 1..MaxCalls /\ d.hdr.of = <<"call", d.hdr.of[2]>>
             /\ d.hdr.of[2] <= Top /\ execs[d.hdr.of[2]] = 0
             /\ \A i \in 1..Len(toDev') : OfCall(toDev'[i]) => toDev'[i].of # d.hdr.of
  <2>1. d.hdr.of[2] \in 1..MaxCalls /\ d.hdr.of = <<"call", d.hdr.of[2]>>
    BY <1>2, <1>5, SentCall
  <2>2. CASE dev.have = 0
    <3>1. OfCall(toDev[1]) /\ d.hdr.of = toDev[1].of /\ 1 \in 1..Len(toDev)
      BY <1>2, <1>5, <2>2 DEF InPlace, OfCall
    <3>2. d.hdr.of[2] <= Top /\ execs[d.hdr.of[2]] = 0
      BY <3>1 DEF Once
    <3>3. ASSUME NEW i \in 1..Len(toDev'), OfCall(toDev'[i]) PROVE toDev'[i].of # d.hdr.of
      BY <1>3, <3>1, <3>3 DEF Once
    <3> QED BY <2>1, <3>2, <3>3
  <2>3. CASE dev.have # 0
    <3>1. d.hdr.of = dev.hdr.of /\ dev.have > 0
      BY <1>0, <1>2, <1>5, <2>3
    <3>2. /\ d.hdr.of[2] <= Top /\ execs[d.hdr.of[2]] = 0
          /\ \A i \in 1..Len(toDev) : OfCall(toDev[i]) => toDev[i].of # d.hdr.of
      BY <1>5, <3>1 DEF Once
    <3> QED BY <1>3, <2>1, <3>2
  <2> QED BY <2>2, <2>3
<1>6. CASE execs' = execs
  <2>1. ASSUME NEW i \in 1..Len(toDev'), OfCall(toDev'[i])
        PROVE  toDev'[i].of[2] <= Top /\ execs[toDev'[i].of[2]] = 0
    BY <1>3, <2>1 DEF Once
  <2>2. (dev' = d /\ InPlace(dev, u)) \/ ~(dev'.have > 0)
    BY <1>2 DEF DevMeets, NothingRead
  <2>3. ASSUME dev'.have > 0, dev'.hdr.of[1] = "call"
        PROVE  /\ dev'.hdr.of[2] <= Top /\ execs[dev'.hdr.of[2]] = 0
               /\ \A i \in 1..Len(toDev') : OfCall(toDev'[i]) => toDev'[i].of # dev'.hdr.of
    BY <1>5, <2>2, <2>3
  <2> QED BY <1>1, <1>4, <1>6, <2>1, <2>3 DEF Once, OfCall
<1>7. CASE execs' # execs
  <2>1. /\ InPlace(dev, u) /\ d.hdr.of[1] = "call" /\ ~(dev'.have > 0)
        /\ execs' = [execs EXCEPT ![d.hdr.of[2]] = @ + 1]
    BY <1>2, <1>7 DEF DevMeets, NothingRead, Receive
  <2> DEFINE c == d.hdr.of[2]
  <2>2. /\ c \in 1..MaxCalls /\ c <= Top /\ execs[c] = 0
        /\ \A i \in 1..Len(toDev') : OfCall(toDev'[i]) => toDev'[i].of # <<"call", c>>
    BY <1>5, <2>1
  <2>3. execs'[c] = 1 /\ \A k \in 1..MaxCalls : k # c => execs'[k] = execs[k]
    BY <1>0, <2>1, <2>2
  <2> HIDE DEF c
  <2>4. ASSUME NEW i \in 1..Len(toDev'), OfCall(toDev'[i])
        PROVE  toDev'[i].of[2] <= Top /\ execs'[toDev'[i].of[2]] = 0
    <3>1. /\ toDev'[i].of[2] \in 1..MaxCalls /\ toDev'[i].of = <<"call", toDev'[i].of[2]>>
          /\ toDev'[i].of[2] <= Top /\ execs[toDev'[i].of[2]] = 0
      BY <1>3, <2>4, SentCall DEF Once, OfCall
    <3>2. toDev'[i].of[2] # c
      BY <2>2, <2>4, <3>1
    <3> QED BY <2>3, <3>1, <3>2
  <2>5. ASSUME NEW k \in 1..MaxCalls PROVE execs'[k] \in {0, 1} /\ (execs'[k] = 1 => k <= Top)
    BY <2>2, <2>3 DEF Once
  <2> QED BY <1>1, <1>4, <2>1, <2>4, <2>5 DEF Once, OfCall
<1> QED BY <1>6, <1>7

LEMMA NextOnce ==
  ASSUME Control, SentTypes, Once, [Next]_vars
  PROVE  Once'
<1>0. /\ Top \in Int /\ Top' \in Int /\ Top <= Top'
      /\ \A i \in 1..Len(out) : out[i].part = "piece"
      /\ toDev \in Seq(Units) /\ Len(toDev) \in Nat
  BY TopGrows, LenProperties DEF Once, SentTypes, DevTypes
<1>1. CASE WriteChunk
  <2>1. out \in Seq(Units) /\ out # <<>>
    BY <1>1 DEF WriteChunk, Control, SentTypes, HostTypes
  <2>2. Len(out) \in Nat \ {0} /\ Head(out) = out[1] /\ out[1] \in Units
    <3>1. Len(out) \in Nat \ {0}
      BY <2>1, LenProperties, EmptySeq
    <3> QED BY <2>1, <3>1, LenProperties
  <2>3. toDev' = Append(toDev, Head(out)) /\ out' = Tail(out) /\ UNCHANGED <<dev, execs>>
    BY <1>1 DEF WriteChunk, devVars
  <2>4. /\ Len(toDev') = Len(toDev) + 1
        /\ \A i \in 1..Len(toDev) : toDev'[i] = toDev[i]
        /\ toDev'[Len(toDev) + 1] = out[1]
    BY <1>0, <2>2, <2>3, AppendProperties
  <2>5. /\ Len(out') = Len(out) - 1
        /\ \A i \in 1..Len(out') : out'[i] = out[i + 1]
    BY <2>1, <2>3, HeadTailProperties
  <2>6. ASSUME NEW i \in 1..Len(toDev'), OfCall(toDev'[i])
        PROVE  i \in 1..Len(toDev) /\ toDev'[i] = toDev[i]
    <3>1. i \in 1..Len(toDev) \/ i = Len(toDev) + 1
      BY <1>0, <2>4
    <3>2. out[1].part = "piece"
      BY <1>0, <2>2
    <3> QED BY <2>4, <2>6, <3>1, <3>2 DEF OfCall
  <2>7. ASSUME NEW i \in 1..Len(out') PROVE out'[i].part = "piece"
    <3>1. i + 1 \in 1..Len(out) /\ out'[i] = out[i + 1]
      BY <2>2, <2>5
    <3> QED BY <1>0, <3>1
  <2> QED BY <1>0, <2>3, <2>6, <2>7, OnceNotSent
<1>2. CASE Tickle
  <2> DEFINE p == Packet(TCKL, TxidWrap, <<"tickle", 0>>, 0)
  <2>1. p \in Seq(Units) /\ Len(p) = 2 /\ \A i \in 1..2 : p[i].of = <<"tickle", 0>>
    BY TicklePacket
  <2>2. toDev' = toDev \o p /\ UNCHANGED <<dev, execs, out>>
    BY <1>2 DEF Tickle, devVars
  <2> HIDE DEF p
  <2>3. ASSUME NEW i \in 1..Len(toDev'), OfCall(toDev'[i])
        PROVE  i \in 1..Len(toDev) /\ toDev'[i] = toDev[i]
    <3>1. p \in Seq(Units) /\ i \in 1..Len(toDev \o p)
      BY <2>1, <2>2
    <3>2. \/ i \in 1..Len(toDev) /\ (toDev \o p)[i] = toDev[i]
          \/ i - Len(toDev) \in 1..Len(p) /\ (toDev \o p)[i] = p[i - Len(toDev)]
      BY ONLY <1>0, <3>1, Place
    <3> QED BY <2>1, <2>2, <2>3, <3>2 DEF OfCall
  <2> QED BY <1>0, <2>2, <2>3, OnceNotSent
<1>3. CASE UNCHANGED <<toDev, dev, execs>> /\ out' \in {out, <<>>}
  <2>1. \A i \in 1..Len(out') : out'[i].part = "piece"
    <3>1. CASE out' = <<>>
      <4>1. Len(out') = 0
        BY <3>1
      <4> QED BY <4>1
    <3> QED BY <1>0, <1>3, <3>1
  <2> QED BY <1>0, <1>3, <2>1, OnceNotSent
<1>4. CASE ~(WriteChunk \/ Tickle \/ NetTx \/ DevReads)
  <2>1. UNCHANGED <<toDev, dev, execs>> /\ out' \in {out, <<>>}
    BY <1>4 DEF Next, Begin, Close, CloseBroken, Host, Detect, Skip, WriteFails, NetRx,
         Reading, ReadFirst, ReadHeader, ReadPayload, ReadDone, ReadEof, ReadTimesOut, ReadFails,
         Device, DevReplies, DevTickles, DevCloses, Spin, Finished, vars, devVars, netVars
  <2> QED BY <1>3, <2>1
<1> QED BY <1>1, <1>2, <1>4, NetTxOnce, DevReadsOnce

-----------------------------------------------------------------------------
(* Headers on their way to the device.                                     *)
LEMMA HeadersAfter ==
  ASSUME SentTypes, Headers, dev' = dev, NEW t \in Seq(Units), toDev' = toDev \o t,
         \A i \in 1..Len(t) : t[i].part = "first" => i < Len(t) /\ t[i + 1].type = t[i].type
  PROVE  Headers'
<1>1. toDev \in Seq(Units) /\ Len(toDev) \in Nat /\ Len(t) \in Nat
  BY LenProperties DEF SentTypes, DevTypes
<1>2. /\ Len(toDev \o t) = Len(toDev) + Len(t)
      /\ \A i \in 1..Len(toDev) : (toDev \o t)[i] = toDev[i]
      /\ \A i \in 1..Len(t) : (toDev \o t)[Len(toDev) + i] = t[i]
  BY ONLY <1>1, t \in Seq(Units), Joined
<1> DEFINE s == toDev \o t
<1> HIDE DEF s
<1>3. ASSUME NEW i \in 1..Len(s), s[i].part = "first"
      PROVE  i < Len(s) /\ s[i + 1].type = s[i].type
  <2>1. CASE i \in 1..Len(toDev)
    <3>1. s[i] = toDev[i] /\ i < Len(toDev) /\ toDev[i + 1].type = toDev[i].type
      BY <1>2, <1>3, <2>1 DEF Headers, s
    <3>2. i + 1 \in 1..Len(toDev) /\ i < Len(s)
      BY <1>1, <1>2, <2>1, <3>1 DEF s
    <3>3. s[i + 1] = toDev[i + 1]
      BY <1>2, <3>2 DEF s
    <3> QED BY <3>1, <3>2, <3>3
  <2>2. CASE ~(i \in 1..Len(toDev))
    <3>1. PICK j \in 1..Len(t) : i = Len(toDev) + j
      <4>1. i - Len(toDev) \in 1..Len(t) /\ i = Len(toDev) + (i - Len(toDev))
        BY <1>1, <1>2, <2>2 DEF s
      <4> QED BY <4>1
    <3>2. s[i] = t[j]
      BY <1>2, <3>1 DEF s
    <3>3. j < Len(t) /\ t[j + 1].type = t[j].type
      BY <1>3, <3>2
    <3>4. j + 1 \in 1..Len(t) /\ i + 1 = Len(toDev) + (j + 1) /\ i < Len(s)
      BY <1>1, <1>2, <3>1, <3>3 DEF s
    <3>5. s[i + 1] = t[j + 1]
      BY <1>2, <3>4 DEF s
    <3> QED BY <3>2, <3>3, <3>4, <3>5
  <2> QED BY <2>1, <2>2
<1>4. ASSUME dev.have = 1 PROVE Len(s) > 0 /\ s[1].type = dev.hdr.type
  <2>1. Len(toDev) > 0 /\ toDev[1].type = dev.hdr.type
    BY <1>4 DEF Headers
  <2>2. 1 \in 1..Len(toDev) /\ Len(s) > 0
    BY <1>1, <1>2, <2>1 DEF s
  <2> QED BY <1>2, <2>1, <2>2 DEF s
<1>5. toDev' = s
  BY DEF s
<1> QED BY <1>3, <1>4, <1>5 DEF Headers

LEMMA NextHeaders ==
  ASSUME Control, SentTypes, Once, Headers, [Next]_vars
  PROVE  Headers'
<1>0. toDev \in Seq(Units) /\ Len(toDev) \in Nat
  BY LenProperties DEF SentTypes, DevTypes
<1>1. CASE NetTx
  <2> DEFINE d == inst[Current]
  <2>1. PICK n \in Lengths, h \in Nat :
           /\ n \in Nat \ {0} /\ h \in 2..(n + 2)
           /\ toDev' \in Seq(Units) /\ Len(toDev') = Len(toDev) + h
           /\ \A i \in 1..Len(toDev) : toDev'[i] = toDev[i]
           /\ toDev'[Len(toDev) + 1] = Tx("first", n) /\ toDev'[Len(toDev) + 2] = Tx("more", n)
           /\ \A i \in 3..h : toDev'[Len(toDev) + i] = Tx("piece", n)
    BY <1>1, TxUnits
  <2>2. ASSUME NEW i \in 1..Len(toDev'), toDev'[i].part = "first"
        PROVE  i < Len(toDev') /\ toDev'[i + 1].type = toDev'[i].type
    <3>1. CASE i \in 1..Len(toDev)
      <4>1. toDev'[i] = toDev[i] /\ i < Len(toDev) /\ toDev[i + 1].type = toDev[i].type
        BY <2>1, <2>2, <3>1 DEF Headers
      <4>2. i + 1 \in 1..Len(toDev) /\ i < Len(toDev')
        BY <1>0, <2>1, <3>1, <4>1
      <4> QED BY <2>1, <4>1, <4>2
    <3>2. CASE ~(i \in 1..Len(toDev))
      <4>1. PICK j \in 1..h : i = Len(toDev) + j
        <5>1. i - Len(toDev) \in 1..h /\ i = Len(toDev) + (i - Len(toDev))
          BY <1>0, <2>1, <3>2
        <5> QED BY <5>1
      <4>2. j = 1 \/ j = 2 \/ j \in 3..h
        BY <4>1
      <4>3. j = 1
        BY <2>1, <2>2, <4>1, <4>2 DEF Tx, Unit
      <4>4. i + 1 = Len(toDev) + 2 /\ i < Len(toDev')
        BY <1>0, <2>1, <4>1, <4>3
      <4> QED BY <2>1, <4>1, <4>3, <4>4 DEF Tx, Unit
    <3> QED BY <3>1, <3>2
  <2>3. ASSUME dev.have = 1 PROVE Len(toDev') > 0 /\ toDev'[1].type = dev.hdr.type
    <3>1. Len(toDev) > 0 /\ toDev[1].type = dev.hdr.type
      BY <2>3 DEF Headers
    <3>2. 1 \in 1..Len(toDev) /\ Len(toDev') > 0
      BY <1>0, <2>1, <3>1
    <3> QED BY <2>1, <3>1, <3>2
  <2>4. dev' = dev
    BY <1>1 DEF NetTx, devVars
  <2> QED BY <2>2, <2>3, <2>4 DEF Headers
<1>2. CASE WriteChunk
  <2>1. out \in Seq(Units) /\ out # <<>> /\ \A i \in 1..Len(out) : out[i].part = "piece"
    BY <1>2 DEF WriteChunk, Control, SentTypes, HostTypes, Once
  <2>2. Head(out) = out[1] /\ out[1] \in Units /\ out[1].part = "piece"
    <3>1. Len(out) \in Nat \ {0}
      BY <2>1, LenProperties, EmptySeq
    <3> QED BY <2>1, <3>1, LenProperties
  <2> DEFINE t == <<out[1]>>
  <2>3. t \in Seq(Units) /\ Len(t) = 1 /\ t[1] = out[1]
    BY <2>2
  <2>4. toDev' = toDev \o t /\ dev' = dev
    BY <1>0, <1>2, <2>2 DEF WriteChunk, devVars
  <2> HIDE DEF t
  <2>5. \A i \in 1..Len(t) : t[i].part # "first"
    BY <2>2, <2>3
  <2> QED BY <2>3, <2>4, <2>5, HeadersAfter
<1>3. CASE Tickle
  <2> DEFINE p == Packet(TCKL, TxidWrap, <<"tickle", 0>>, 0)
  <2>1. /\ p \in Seq(Units) /\ Len(p) = 2
        /\ p[1] = Unit("first", TCKL, TxidWrap, <<"tickle", 0>>, 0)
        /\ p[2] = Unit("more", TCKL, TxidWrap, <<"tickle", 0>>, 0)
    BY TicklePacket
  <2>2. toDev' = toDev \o p /\ dev' = dev
    BY <1>3 DEF Tickle, devVars
  <2> HIDE DEF p
  <2>3. ASSUME NEW i \in 1..Len(p), p[i].part = "first" PROVE i < Len(p) /\ p[i + 1].type = p[i].type
    <3>1. i = 1 \/ i = 2
      BY <2>1
    <3>2. i = 1
      BY <2>1, <2>3, <3>1 DEF Unit
    <3> QED BY <2>1, <3>2 DEF Unit
  <2> QED BY <2>1, <2>2, <2>3, HeadersAfter
<1>4. CASE DevReads
  <2>1. PICK u \in Units, d \in Partly :
           /\ Len(toDev) \in Nat \ {0} /\ u = toDev[1]
           /\ Len(toDev') = Len(toDev) - 1
           /\ \A i \in 1..(Len(toDev) - 1) : toDev'[i] = toDev[i + 1]
           /\ d = DevTake(dev, u)
           /\ dev.have = 0 => d.hdr = u
           /\ DevMeets(u, d)
    BY <1>4, DevTakes
  <2>2. ASSUME NEW i \in 1..Len(toDev'), toDev'[i].part = "first"
        PROVE  i < Len(toDev') /\ toDev'[i + 1].type = toDev'[i].type
    <3>1. i + 1 \in 1..Len(toDev) /\ i \in 1..(Len(toDev) - 1) /\ toDev'[i] = toDev[i + 1]
      BY <2>1
    <3>2. i + 1 < Len(toDev) /\ toDev[(i + 1) + 1].type = toDev[i + 1].type
      BY <2>2, <3>1 DEF Headers
    <3>3. i + 1 \in 1..(Len(toDev) - 1) /\ i < Len(toDev')
      BY <2>1, <3>1, <3>2
    <3> QED BY <2>1, <3>1, <3>2, <3>3
  <2>3. ASSUME dev'.have = 1 PROVE Len(toDev') > 0 /\ toDev'[1].type = dev'.hdr.type
    <3>1. dev' = d /\ InPlace(dev, u) /\ dev.have \in 0..2 /\ dev \in Partly
      BY <2>1, <2>3 DEF DevMeets, NothingRead, SentTypes, DevTypes, Partly
    <3>2. dev.have = 0
      BY <2>1, <2>3, <3>1 DEF DevTake, Partly
    <3>3. u.part = "first" /\ d.hdr = u /\ 1 \in 1..Len(toDev)
      BY <2>1, <3>1, <3>2 DEF InPlace
    <3>4. 1 < Len(toDev) /\ toDev[1 + 1].type = toDev[1].type
      BY <2>1, <3>3 DEF Headers
    <3>5. 1 \in 1..(Len(toDev) - 1) /\ Len(toDev') > 0
      BY <2>1, <3>4
    <3>6. toDev'[1] = toDev[1 + 1]
      BY <2>1, <3>5
    <3> QED BY <2>1, <3>1, <3>3, <3>4, <3>5, <3>6
  <2> QED BY <2>2, <2>3 DEF Headers
<1>5. CASE ~(NetTx \/ WriteChunk \/ Tickle \/ DevReads)
  <2>1. UNCHANGED <<toDev, dev>>
    BY <1>5 DEF Next, Begin, Close, CloseBroken, Host, Detect, Skip, WriteFails, NetRx,
         Reading, ReadFirst, ReadHeader, ReadPayload, ReadDone, ReadEof, ReadTimesOut, ReadFails,
         Device, DevReplies, DevTickles, DevCloses, Spin, Finished, vars, devVars
  <2> QED BY <2>1 DEF Headers
<1> QED BY <1>1, <1>2, <1>3, <1>4, <1>5

-----------------------------------------------------------------------------
(* The first packet.                                                       *)
LEMMA PlanLeft ==
  ASSUME Control, (\E of : StepDone(of)) \/ (\E b : Fails(b))
  PROVE  todo' # Plan
<1>0. Plan # <<>> /\ Len(Plan) = 5 /\ todo \in Todos
  BY DEF Plan, Control
<1>1. CASE todo' = <<>>
  BY <1>0, <1>1
<1>2. CASE Len(todo) > 1 /\ todo' = Tail(todo)
  <2>1. Len(Tail(todo)) = Len(todo) - 1 /\ Len(todo) \in 0..5
    BY <1>0, <1>2, TodoFacts
  <2>2. Len(todo') # 5
    BY <1>2, <2>1
  <2> QED BY <1>0, <2>2
<1>3. todo' = <<>> \/ (Len(todo) > 1 /\ todo' = Tail(todo))
  <2>1. ASSUME NEW of, StepDone(of) PROVE todo' = <<>> \/ (Len(todo) > 1 /\ todo' = Tail(todo))
    BY <2>1, Outcomes DEF GoesOnTo, EndsWell, EndsBadly
  <2>2. ASSUME NEW b, Fails(b) PROVE todo' = <<>>
    BY <2>2 DEF Fails
  <2> QED BY <2>1, <2>2
<1> QED BY <1>1, <1>2, <1>3

LEMMA PlanBefore ==
  ASSUME Control, [Next]_vars, todo' = Plan
  PROVE  todo = Plan
<1>0. Plan # <<>> /\ Plan # <<"tx", "rx">> /\ Len(Plan) = 5
  BY DEF Plan
<1>a. ASSUME NEW of PROVE ~StepDone(of) /\ ~Fails(of)
  BY PlanLeft
<1>1. UNCHANGED todo
  <2>3. CASE ~(ReadHeader \/ NetTx \/ WriteChunk \/ ReadDone \/ ReadFails \/ ReadEof \/ ReadTimesOut \/ WriteFails)
    <3> HIDE DEF Plan
    <3> QED BY <1>0, <2>3 DEF Next, Begin, Close, Enter, CloseBroken, Host, Detect, Skip, NetRx,
         Reading, ReadFirst, ReadPayload,
         Tickle, Device, DevReads, DevReplies, DevTickles, DevCloses, Spin, Finished, vars, progress
  <2>4. CASE ReadFails \/ ReadEof \/ ReadTimesOut \/ WriteFails
    BY <1>a, <2>4 DEF ReadFails, ReadEof, ReadTimesOut, WriteFails
  <2>5. CASE NetTx \/ WriteChunk \/ ReadDone
    BY <1>a, <2>5 DEF NetTx, WriteChunk, ReadDone, progress
  <2>6. CASE ReadHeader
    BY <1>a, <2>6 DEF ReadHeader, Payload, PassOver, BadHeader, progress
  <2>7. todo' = todo
    BY <2>3, <2>4, <2>5, <2>6
  <2> QED BY <2>7
<1> QED BY <1>1

LEMMA NextGreeting ==
  ASSUME Control, SentTypes, Greeting, [Next]_vars
  PROVE  Greeting'
<1> SUFFICES ASSUME todo' = Plan
             PROVE  /\ toDev' = <<>> /\ devTask' = Waiting /\ conn' = "LISTEN"
                    /\ pc' = "detect" => ~eof'
                    /\ \A i \in 1..Len(toHost') : toHost'[i].type = DATA
  BY DEF Greeting, Plan
<1>0. Plan # <<>> /\ Plan # <<"tx", "rx">> /\ Len(Plan) = 5
  BY DEF Plan
<1>a. ASSUME NEW of PROVE ~StepDone(of) /\ ~Fails(of)
  BY PlanLeft
<1>1. todo = Plan /\ UNCHANGED todo
  BY PlanBefore
<1>2. op = "handshake" /\ todo # <<>> /\ pc \in {"detect", "rx", "read"}
  <2>1. op = "handshake"
    <3>1. op # "handshake" => todo \in {<<>>, <<"rx">>, <<"tx", "rx">>}
      BY DEF Control
    <3>2. Plan # <<"rx">>
      BY DEF Plan
    <3>3. op \in {"handshake", "call", "close"}
      BY DEF Control
    <3> HIDE DEF Plan
    <3> QED BY <1>0, <1>1, <3>1, <3>2
  <2>2. pc \notin {"tx", "body"}
    <3>1. pc \in {"tx", "body"} => Len(todo) \in {2, 4}
      BY DEF Control
    <3> HIDE DEF Plan
    <3> QED BY <1>0, <1>1, <3>1
  <2> QED BY <1>0, <1>1, <2>1, <2>2 DEF Control
<1>3. toDev = <<>> /\ devTask = Waiting /\ conn = "LISTEN"
  BY <1>1 DEF Greeting
<1>4. ~(NetTx \/ WriteChunk \/ WriteFails \/ Tickle \/ DevReads \/ DevReplies \/ DevTickles)
  BY <1>2, <1>3 DEF NetTx, WriteChunk, WriteFails, Tickle, DevReads, DevReplies, DevTickles
<1>5. UNCHANGED <<toDev, devTask, conn>>
  <2>1. CASE Reading \/ ReadTimesOut \/ ReadFails
    <3> QED BY <1>a, <2>1 DEF Reading, ReadFirst, ReadHeader, Payload, PassOver, BadHeader,
              ReadPayload, ReadDone, ReadEof, ReadTimesOut, ReadFails, devVars
  <2>2. CASE ~(Reading \/ ReadTimesOut \/ ReadFails)
    <3> HIDE DEF Plan
    <3> QED BY <1>4, <2>2 DEF Next, Begin, Close, CloseBroken, Host, Detect, Skip, NetRx,
              Device, DevCloses, Spin, Finished, vars, netVars, devVars
  <2> QED BY <2>1, <2>2
<1>6. ASSUME pc' = "detect" PROVE ~eof'
  <2>1. pc = "detect"
    <3>1. CASE Reading \/ ReadTimesOut \/ ReadFails
      BY <1>a, <1>6, <3>1 DEF Reading, ReadFirst, ReadHeader, Payload, PassOver, BadHeader,
              ReadPayload, ReadDone, ReadEof, ReadTimesOut, ReadFails, progress
    <3>2. CASE ~(Reading \/ ReadTimesOut \/ ReadFails)
      <4>1. ~\E k \in Arrivals : Begin(k) \/ Close(k)
        BY <1>2 DEF Begin, Close
      <4> QED BY <1>4, <1>6, <3>2, <4>1 DEF Next, CloseBroken, Host, Detect, Skip, NetRx,
              Device, DevCloses, Spin, Finished, vars, progress
    <3> QED BY <3>1, <3>2
  <2>2. ~eof
    BY <1>1, <2>1 DEF Greeting
  <2>3. UNCHANGED eof
    BY <1>4, <2>1 DEF Next, Begin, Close, CloseBroken, Host, Detect, Skip, NetRx,
              Device, DevCloses, Spin, Finished, vars, Reading, ReadFirst, ReadHeader,
              ReadPayload, ReadDone, ReadEof, EofIn, ReadTimesOut, ReadFails, devVars
  <2> QED BY <2>2, <2>3
<1>7. ASSUME NEW i \in 1..Len(toHost') PROVE toHost'[i].type = DATA
  <2>1. OfLine(toHost'[i])
    BY <1>4, HostUnits
  <2>2. \A j \in 1..Len(toHost) : toHost[j].type = DATA
    BY <1>1 DEF Greeting
  <2> QED BY <2>1, <2>2 DEF OfLine
<1> QED BY <1>3, <1>5, <1>6, <1>7

-----------------------------------------------------------------------------
(* Lines of whole packets: what is taken from the front or added at the    *)
(* end, and what is left when the connection ends.                         *)
IsSuffix(t, s, k) ==
  /\ Len(s) \in Nat /\ k \in Nat /\ k <= Len(s) /\ Len(t) = Len(s) - k
  /\ \A i \in 1..Len(t) : t[i] = s[i + k]
IsPrefix(t, s) ==
  /\ Len(s) \in Nat /\ Len(t) \in Nat /\ Len(t) <= Len(s)
  /\ \A i \in 1..Len(t) : t[i] = s[i]
IsJoin(c, s, p) ==
  /\ Len(s) \in Nat /\ Len(p) \in Nat /\ Len(c) = Len(s) + Len(p)
  /\ \A i \in 1..Len(s) : c[i] = s[i]
  /\ \A i \in 1..Len(p) : c[Len(s) + i] = p[i]

LEMMA LinkedLen ==
  ASSUME NEW s, Linked(s), NEW i \in 1..Len(s)
  PROVE  s[i].len \in Nat
BY DEF Linked

LEMMA LinkedSuffix ==
  ASSUME NEW s, NEW t, NEW k, IsSuffix(t, s, k), Linked(s)
  PROVE  Linked(t)
<1> USE DEF IsSuffix
<1>1. ASSUME NEW i \in 1..Len(t)
      PROVE  i + k \in 1..Len(s) /\ t[i] = s[i + k] /\ s[i + k].len \in Nat
  <2>1. i + k \in 1..Len(s)
    OBVIOUS
  <2> QED BY <2>1, LinkedLen
<1>0. \A i \in 1..Len(t) : t[i] = s[i + k]
  OBVIOUS
<1>2. ASSUME NEW i \in 1..Len(t), t[i].part = "first", i < Len(t) PROVE Follows(t[i], t[i + 1])
  <2>1. i + 1 \in 1..Len(t) /\ (i + 1) + k = (i + k) + 1 /\ i + k < Len(s)
    BY <1>2
  <2>2. t[i + 1] = s[(i + k) + 1]
    BY <2>1
  <2>3. Follows(s[i + k], s[(i + k) + 1])
    BY <1>1, <1>2, <2>1 DEF Linked
  <2> QED BY <1>1, <2>2, <2>3
<1>3. ASSUME NEW i \in 1..Len(t), t[i].part = "more", NEW j \in 1..t[i].len, i + j <= Len(t)
      PROVE  PieceOf(t[i], t[i + j])
  <2>1. s[i + k].part = "more" /\ j \in 1..s[i + k].len /\ s[i + k].len \in Nat
    BY <1>1, <1>3
  <2>2. i + j \in 1..Len(t) /\ (i + j) + k = (i + k) + j /\ (i + k) + j <= Len(s)
    BY <1>3, <2>1
  <2>3. t[i + j] = s[(i + k) + j]
    BY <2>2
  <2>4. PieceOf(s[i + k], s[(i + k) + j])
    BY <1>1, <2>1, <2>2 DEF Linked
  <2> QED BY <1>1, <2>3, <2>4
<1>4. ASSUME NEW i \in 1..Len(t), t[i].part = "more", i + t[i].len < Len(t)
      PROVE  t[i + t[i].len + 1].part = "first"
  <2>1. s[i + k].part = "more" /\ t[i].len = s[i + k].len /\ s[i + k].len \in Nat /\ i + k \in 1..Len(s)
    BY <1>1, <1>4
  <2> DEFINE n == s[i + k].len
  <2>2. /\ i + n + 1 \in 1..Len(t) /\ (i + n + 1) + k = (i + k) + n + 1 /\ (i + k) + n < Len(s)
    <3>1. i + n < Len(t) /\ n \in Nat
      BY <1>4, <2>1
    <3> HIDE DEF n
    <3> QED BY <3>1
  <2>3. t[i + n + 1] = s[(i + k) + n + 1]
    <3> HIDE DEF n
    <3>1. t[i + n + 1] = s[(i + n + 1) + k]
      BY ONLY <1>0, <2>2
    <3> QED BY ONLY <2>2, <3>1
  <2>4. s[(i + k) + n + 1].part = "first"
    BY <2>1, <2>2 DEF Linked
  <2> QED BY <2>1, <2>3, <2>4
<1>5. ASSUME NEW i \in 1..Len(t)
      PROVE  /\ t[i].type \in {DATA, TCKL}
             /\ t[i].type = TCKL => t[i].part \in {"first", "more"} /\ t[i].len = 0
             /\ t[i].type = DATA => t[i].len \in Nat \ {0} /\ t[i].len <= PacketMax
  <2>1. PICK m \in 1..Len(s) : t[i] = s[m]
    BY <1>1
  <2> QED BY <2>1 DEF Linked
<1> QED BY <1>2, <1>3, <1>4, <1>5 DEF Linked

LEMMA WholeSuffix ==
  ASSUME NEW s, NEW t, NEW k, IsSuffix(t, s, k), Linked(s), Whole(s)
  PROVE  Whole(t)
<1> USE DEF IsSuffix
<1>1. ASSUME NEW i \in 1..Len(t)
      PROVE  i + k \in 1..Len(s) /\ t[i] = s[i + k] /\ s[i + k].len \in Nat
  <2>1. i + k \in 1..Len(s)
    OBVIOUS
  <2> QED BY <2>1, LinkedLen
<1>2. ASSUME NEW i \in 1..Len(t), t[i].part = "first" PROVE i < Len(t)
  <2>1. i + k < Len(s)
    BY <1>1, <1>2 DEF Whole
  <2> QED BY <2>1
<1>3. ASSUME NEW i \in 1..Len(t), t[i].part = "more" PROVE i + t[i].len <= Len(t)
  <2>1. (i + k) + t[i].len <= Len(s) /\ t[i].len \in Nat
    BY <1>1, <1>3 DEF Whole
  <2> QED BY <2>1
<1> QED BY <1>2, <1>3 DEF Whole

LEMMA LinkedPrefix ==
  ASSUME NEW s, NEW t, IsPrefix(t, s), Linked(s)
  PROVE  Linked(t)
<1> USE DEF IsPrefix
<1>1. ASSUME NEW i \in 1..Len(t)
      PROVE  i \in 1..Len(s) /\ t[i] = s[i] /\ s[i].len \in Nat
  <2>1. i \in 1..Len(s)
    OBVIOUS
  <2> QED BY <2>1, LinkedLen
<1>2. ASSUME NEW i \in 1..Len(t), t[i].part = "first", i < Len(t) PROVE Follows(t[i], t[i + 1])
  <2>1. i + 1 \in 1..Len(t) /\ i < Len(s)
    BY <1>2
  <2>2. Follows(s[i], s[i + 1])
    BY <1>1, <1>2, <2>1 DEF Linked
  <2> QED BY <1>1, <2>1, <2>2
<1>3. ASSUME NEW i \in 1..Len(t), t[i].part = "more", NEW j \in 1..t[i].len, i + j <= Len(t)
      PROVE  PieceOf(t[i], t[i + j])
  <2>1. s[i].part = "more" /\ j \in 1..s[i].len /\ s[i].len \in Nat
    BY <1>1, <1>3
  <2>2. i + j \in 1..Len(t) /\ i + j <= Len(s)
    BY <1>3, <2>1
  <2>3. PieceOf(s[i], s[i + j])
    BY <1>1, <2>1, <2>2 DEF Linked
  <2> QED BY <1>1, <2>2, <2>3
<1>4. ASSUME NEW i \in 1..Len(t), t[i].part = "more", i + t[i].len < Len(t)
      PROVE  t[i + t[i].len + 1].part = "first"
  <2>1. s[i].part = "more" /\ t[i].len = s[i].len /\ s[i].len \in Nat /\ i \in 1..Len(s)
    BY <1>1, <1>4
  <2>2. i + s[i].len + 1 \in 1..Len(t) /\ i + s[i].len < Len(s)
    BY <1>4, <2>1
  <2>3. s[i + s[i].len + 1].part = "first"
    BY <2>1, <2>2 DEF Linked
  <2> QED BY <2>1, <2>2, <2>3
<1>5. ASSUME NEW i \in 1..Len(t)
      PROVE  /\ t[i].type \in {DATA, TCKL}
             /\ t[i].type = TCKL => t[i].part \in {"first", "more"} /\ t[i].len = 0
             /\ t[i].type = DATA => t[i].len \in Nat \ {0} /\ t[i].len <= PacketMax
  BY <1>1 DEF Linked
<1> QED BY <1>2, <1>3, <1>4, <1>5 DEF Linked

LEMMA InJoin ==
  ASSUME NEW c, NEW s, NEW p, IsJoin(c, s, p), NEW i \in 1..Len(c)
  PROVE  \/ i \in 1..Len(s) /\ c[i] = s[i]
         \/ \E j \in 1..Len(p) : i = Len(s) + j /\ c[i] = p[j]
<1> USE DEF IsJoin
<1>1. CASE i <= Len(s)
  BY <1>1
<1>2. CASE ~(i <= Len(s))
  <2>1. i - Len(s) \in 1..Len(p) /\ i = Len(s) + (i - Len(s))
    BY <1>2
  <2> QED BY <2>1
<1> QED BY <1>1, <1>2

LEMMA LinkedJoin ==
  ASSUME NEW c, NEW s, NEW p, IsJoin(c, s, p), Linked(s), Whole(s), Linked(p), Whole(p),
         Len(p) > 0, p[1].part = "first"
  PROVE  Linked(c) /\ Whole(c)
<1>0. ASSUME NEW i \in 1..Len(c)
      PROVE  \/ i \in 1..Len(s) /\ c[i] = s[i]
             \/ \E m \in 1..Len(p) : i = Len(s) + m /\ c[i] = p[m]
  BY InJoin
<1> USE DEF IsJoin
<1>1. ASSUME NEW i \in 1..Len(s)
      PROVE  /\ i \in 1..Len(c) /\ c[i] = s[i] /\ s[i].len \in Nat
             /\ s[i].part = "first" => i < Len(s) /\ Follows(s[i], c[i + 1])
             /\ s[i].part = "more" => i + s[i].len <= Len(s)
  <2>1. i \in 1..Len(c) /\ c[i] = s[i] /\ s[i].len \in Nat
    BY LinkedLen
  <2>2. ASSUME s[i].part = "first" PROVE i < Len(s) /\ Follows(s[i], c[i + 1])
    <3>1. i < Len(s)
      BY <2>2 DEF Whole
    <3>2. i + 1 \in 1..Len(s)
      BY <3>1
    <3> QED BY <2>2, <3>1, <3>2 DEF Linked
  <2>3. s[i].part = "more" => i + s[i].len <= Len(s)
    BY DEF Whole
  <2> QED BY <2>1, <2>2, <2>3
<1>2. ASSUME NEW j \in 1..Len(p)
      PROVE  /\ Len(s) + j \in 1..Len(c) /\ c[Len(s) + j] = p[j] /\ p[j].len \in Nat
             /\ p[j].part = "first" => j < Len(p) /\ Follows(p[j], c[Len(s) + j + 1])
             /\ p[j].part = "more" => j + p[j].len <= Len(p)
  <2>1. Len(s) + j \in 1..Len(c) /\ c[Len(s) + j] = p[j] /\ p[j].len \in Nat
    BY LinkedLen
  <2>2. ASSUME p[j].part = "first" PROVE j < Len(p) /\ Follows(p[j], c[Len(s) + j + 1])
    <3>1. j < Len(p)
      BY <2>2 DEF Whole
    <3>2. j + 1 \in 1..Len(p) /\ Len(s) + (j + 1) = Len(s) + j + 1
      BY <3>1
    <3>3. c[Len(s) + (j + 1)] = p[j + 1]
      BY <3>2
    <3> QED BY <2>2, <3>1, <3>2, <3>3 DEF Linked
  <2>3. p[j].part = "more" => j + p[j].len <= Len(p)
    BY DEF Whole
  <2> QED BY <2>1, <2>2, <2>3
<1>3. ASSUME NEW i \in 1..Len(s), s[i].part = "more"
      PROVE  /\ \A j \in 1..s[i].len : PieceOf(s[i], c[i + j])
             /\ i + s[i].len < Len(c) => c[i + s[i].len + 1].part = "first"
  <2>1. s[i].len \in Nat /\ i + s[i].len <= Len(s)
    BY <1>1, <1>3
  <2>2. ASSUME NEW j \in 1..s[i].len PROVE PieceOf(s[i], c[i + j])
    <3>1. i + j \in 1..Len(s) /\ i + j <= Len(s)
      BY <2>1
    <3>2. PieceOf(s[i], s[i + j])
      BY <1>3, <3>1 DEF Linked
    <3> QED BY <3>1, <3>2
  <2>3. c[i + s[i].len + 1].part = "first"
    <3>1. CASE i + s[i].len < Len(s)
      <4>1. i + s[i].len + 1 \in 1..Len(s)
        BY <2>1, <3>1
      <4>2. s[i + s[i].len + 1].part = "first"
        BY <1>3, <3>1 DEF Linked
      <4> QED BY <4>1, <4>2
    <3>2. CASE i + s[i].len = Len(s)
      <4>1. 1 \in 1..Len(p) /\ i + s[i].len + 1 = Len(s) + 1
        BY <3>2
      <4>2. c[Len(s) + 1] = p[1]
        BY <4>1
      <4> QED BY <4>1, <4>2
    <3> QED BY <2>1, <3>1, <3>2
  <2> QED BY <2>2, <2>3
<1>4. ASSUME NEW m \in 1..Len(p), p[m].part = "more"
      PROVE  /\ \A j \in 1..p[m].len : PieceOf(p[m], c[(Len(s) + m) + j])
             /\ (Len(s) + m) + p[m].len < Len(c) => c[(Len(s) + m) + p[m].len + 1].part = "first"
  <2>1. p[m].len \in Nat /\ m + p[m].len <= Len(p)
    BY <1>2, <1>4
  <2>2. ASSUME NEW j \in 1..p[m].len PROVE PieceOf(p[m], c[(Len(s) + m) + j])
    <3>1. m + j \in 1..Len(p) /\ m + j <= Len(p) /\ (Len(s) + m) + j = Len(s) + (m + j)
      <4> DEFINE n == p[m].len
      <4>1. n \in Nat /\ m + n <= Len(p) /\ j \in 1..n
        BY <2>1, <2>2
      <4>2. Len(s) \in Nat /\ Len(p) \in Nat /\ m \in 1..Len(p)
        OBVIOUS
      <4> HIDE DEF n
      <4> QED BY ONLY <4>1, <4>2
    <3>2. PieceOf(p[m], p[m + j])
      BY <1>4, <3>1 DEF Linked
    <3> QED BY <3>1, <3>2
  <2>3. ASSUME (Len(s) + m) + p[m].len < Len(c) PROVE c[(Len(s) + m) + p[m].len + 1].part = "first"
    <3>1. /\ m + p[m].len + 1 \in 1..Len(p) /\ m + p[m].len < Len(p)
          /\ (Len(s) + m) + p[m].len + 1 = Len(s) + (m + p[m].len + 1)
      <4> DEFINE n == p[m].len
      <4>1. n \in Nat /\ (Len(s) + m) + n < Len(c)
        BY <2>1, <2>3
      <4>2. Len(s) \in Nat /\ Len(p) \in Nat /\ Len(c) = Len(s) + Len(p) /\ m \in 1..Len(p)
        OBVIOUS
      <4> HIDE DEF n
      <4>3. /\ m + n + 1 \in 1..Len(p) /\ m + n < Len(p)
            /\ (Len(s) + m) + n + 1 = Len(s) + (m + n + 1)
        BY ONLY <4>1, <4>2
      <4> QED BY <4>3 DEF n
    <3>2. p[m + p[m].len + 1].part = "first"
      BY <1>4, <3>1 DEF Linked
    <3>3. c[Len(s) + (m + p[m].len + 1)] = p[m + p[m].len + 1]
      BY <3>1
    <3> QED BY <3>1, <3>2, <3>3
  <2> QED BY <2>2, <2>3
<1>5. ASSUME NEW i \in 1..Len(c)
      PROVE  /\ c[i].type \in {DATA, TCKL}
             /\ c[i].type = TCKL => c[i].part \in {"first", "more"} /\ c[i].len = 0
             /\ c[i].type = DATA => c[i].len \in Nat \ {0} /\ c[i].len <= PacketMax
             /\ c[i].part = "first" => i < Len(c) /\ Follows(c[i], c[i + 1])
             /\ c[i].part = "more" =>
                  /\ \A j \in 1..c[i].len : PieceOf(c[i], c[i + j])
                  /\ i + c[i].len < Len(c) => c[i + c[i].len + 1].part = "first"
                  /\ i + c[i].len <= Len(c)
  <2>1. CASE i \in 1..Len(s)
    <3>1. c[i] = s[i]
      BY <2>1
    <3>2. /\ s[i].type \in {DATA, TCKL}
          /\ s[i].type = TCKL => s[i].part \in {"first", "more"} /\ s[i].len = 0
          /\ s[i].type = DATA => s[i].len \in Nat \ {0} /\ s[i].len <= PacketMax
      BY <2>1 DEF Linked
    <3>3. s[i].part = "first" => i < Len(c) /\ Follows(s[i], c[i + 1])
      BY <1>1, <2>1
    <3>4. s[i].part = "more" => i + s[i].len <= Len(c)
      BY <1>1, <2>1
    <3>5. s[i].part = "more" =>
                  /\ \A j \in 1..s[i].len : PieceOf(s[i], c[i + j])
                  /\ i + s[i].len < Len(c) => c[i + s[i].len + 1].part = "first"
      BY <1>3, <2>1
    <3> QED BY <3>1, <3>2, <3>3, <3>4, <3>5
  <2>2. ASSUME NEW m \in 1..Len(p), i = Len(s) + m
        PROVE  /\ p[m].type \in {DATA, TCKL}
               /\ p[m].type = TCKL => p[m].part \in {"first", "more"} /\ p[m].len = 0
               /\ p[m].type = DATA => p[m].len \in Nat \ {0} /\ p[m].len <= PacketMax
               /\ p[m].part = "first" => i < Len(c) /\ Follows(p[m], c[i + 1])
               /\ p[m].part = "more" =>
                    /\ \A j \in 1..p[m].len : PieceOf(p[m], c[i + j])
                    /\ i + p[m].len < Len(c) => c[i + p[m].len + 1].part = "first"
                    /\ i + p[m].len <= Len(c)
    <3>2. /\ p[m].type \in {DATA, TCKL}
          /\ p[m].type = TCKL => p[m].part \in {"first", "more"} /\ p[m].len = 0
          /\ p[m].type = DATA => p[m].len \in Nat \ {0} /\ p[m].len <= PacketMax
      BY DEF Linked
    <3>3. p[m].part = "first" => i < Len(c) /\ Follows(p[m], c[i + 1])
      BY <1>2, <2>2
    <3>4. ASSUME p[m].part = "more" PROVE i + p[m].len <= Len(c)
      <4>1. p[m].len \in Nat /\ m + p[m].len <= Len(p)
        BY <1>2, <3>4
      <4>2. Len(s) \in Nat /\ Len(p) \in Nat /\ Len(c) = Len(s) + Len(p) /\ m \in 1..Len(p)
        OBVIOUS
      <4> QED BY ONLY <2>2, <4>1, <4>2
    <3>5. p[m].part = "more" =>
                  /\ \A j \in 1..p[m].len : PieceOf(p[m], c[i + j])
                  /\ i + p[m].len < Len(c) => c[i + p[m].len + 1].part = "first"
      BY <1>4, <2>2
    <3> QED BY <3>2, <3>3, <3>4, <3>5
  <2>3. CASE \E m \in 1..Len(p) : i = Len(s) + m /\ c[i] = p[m]
    <3>1. PICK m \in 1..Len(p) : i = Len(s) + m /\ c[i] = p[m]
      BY <2>3
    <3> QED BY <2>2, <3>1
  <2>4. \/ i \in 1..Len(s) /\ c[i] = s[i]
        \/ \E m \in 1..Len(p) : i = Len(s) + m /\ c[i] = p[m]
    BY <1>0
  <2> QED BY <2>1, <2>3, <2>4
<1>6. Linked(c)
  BY <1>5 DEF Linked
<1>7. Whole(c)
  BY <1>5 DEF Whole
<1> QED BY <1>6, <1>7

LEMMA PacketLinked ==
  ASSUME NEW type \in {DATA, TCKL}, NEW txid \in 0..TxidWrap, NEW of \in Items, NEW n \in Nat,
         type = TCKL => n = 0, type = DATA => n # 0 /\ n <= PacketMax,
         NEW p, p = Packet(type, txid, of, n)
  PROVE  /\ Linked(p) /\ Whole(p) /\ p \in Seq(Units) /\ Len(p) = n + 2
         /\ p[1].part = "first" /\ p[1].len = n /\ p[1].type = type
         /\ \A i \in 1..Len(p) : p[i].type = type /\ p[i].of = of /\ (p[i].part = "first" => i = 1)
<1>1. /\ p \in Seq(Units) /\ Len(p) = n + 2
      /\ p[1] = Unit("first", type, txid, of, n) /\ p[2] = Unit("more", type, txid, of, n)
      /\ \A i \in 3..(n + 2) : p[i] = Unit("piece", type, txid, of, n)
  <2>1. type \in Types
    BY DEF Types
  <2> QED BY <2>1, PacketIs
<1>2. ASSUME NEW i \in 1..Len(p) PROVE i = 1 \/ i = 2 \/ i \in 3..(n + 2)
  BY <1>1
<1>3. ASSUME NEW i \in 1..Len(p)
      PROVE  /\ p[i].type = type /\ p[i].of = of /\ p[i].len = n
             /\ p[i].part = "first" <=> i = 1
             /\ p[i].part = "more" <=> i = 2
             /\ p[i].part \in {"first", "more", "piece"}
  BY <1>1, <1>2 DEF Unit
<1>4. Whole(p)
  BY <1>1, <1>3 DEF Whole
<1>5. Linked(p)
  <2>1. ASSUME NEW i \in 1..Len(p), p[i].part = "first" PROVE Follows(p[i], p[i + 1])
    <3>1. i = 1 /\ p[2] = p[i + 1] /\ 2 \in 1..Len(p)
      BY <1>1, <1>3, <2>1
    <3> QED BY <1>3, <3>1 DEF Follows
  <2>2. ASSUME NEW i \in 1..Len(p), p[i].part = "more"
        PROVE  /\ \A j \in 1..p[i].len : PieceOf(p[i], p[i + j])
               /\ ~(i + p[i].len < Len(p))
    <3>1. i = 2 /\ p[i].len = n
      BY <1>3, <2>2
    <3>2. ASSUME NEW j \in 1..n PROVE PieceOf(p[i], p[i + j])
      <4>1. i + j \in 3..(n + 2) /\ i + j \in 1..Len(p) /\ type = DATA
        BY <1>1, <3>1
      <4> QED BY <1>1, <1>3, <4>1 DEF PieceOf, Unit
    <3> QED BY <1>1, <3>1, <3>2
  <2>3. ASSUME NEW i \in 1..Len(p)
        PROVE  /\ p[i].type \in {DATA, TCKL}
               /\ p[i].type = TCKL => p[i].part \in {"first", "more"} /\ p[i].len = 0
               /\ p[i].type = DATA => p[i].len \in Nat \ {0} /\ p[i].len <= PacketMax
    <3>1. type = TCKL => i = 1 \/ i = 2
      BY <1>1, <1>2, DATA # TCKL
    <3> QED BY <1>3, <3>1
  <2> QED BY <2>1, <2>2, <2>3 DEF Linked
<1>6. p[1].part = "first" /\ p[1].len = n /\ p[1].type = type
  BY <1>1 DEF Unit
<1> QED BY <1>1, <1>3, <1>4, <1>5, <1>6

-----------------------------------------------------------------------------
(* What a failure, and the return of net_tx, do to a call.                 *)
LEMMA FailureEnds ==
  ASSUME Control, todo # <<>>, EndsBadly
  PROVE  ~Good'
BY DEF Control, EndsBadly, Good

LEMMA SentGoesOn ==
  ASSUME Control, pc \in {"tx", "body"}, StepDone(Subject), Good'
  PROVE  pc' = "rx" /\ UNCHANGED <<op, call, outcome, clean, conn, command>>
<1>1. todo # <<>> /\ Len(todo) \in {2, 4}
  BY DEF Control
<1>2. ~EndsWell(Subject)
  <2>1. CASE todo = <<"rx">>
    <3>1. Len(todo) = 1
      BY <2>1
    <3> QED BY <1>1, <3>1
  <2> QED BY <2>1 DEF EndsWell
<1>3. GoesOnTo
  BY <1>1, <1>2, Outcomes, FailureEnds
<1> QED BY <1>1, <1>3 DEF GoesOnTo

LEMMA ClosesCounted ==
  ASSUME SentTypes, [Next]_vars, ~\E k \in Arrivals : Begin(k) \/ Close(k)
  PROVE  used'.closes = used.closes
<1>1. used \in [{"alarms", "tickles", "faults", "closes"} -> Nat]
  BY DEF SentTypes, UsedTypes
<1>2. CASE WriteFails \/ ReadFails \/ Tickle \/ DevTickles \/ DevCloses
  <2>1. \/ UNCHANGED used
        \/ \E what \in {"alarms", "tickles", "faults"}, limit \in {MaxAlarms, MaxTickles, MaxFaults} :
             Spend(what, limit)
    <3> HIDE DEF Spend
    <3> QED BY <1>2 DEF WriteFails, ReadFails, Tickle, DevTickles, DevCloses
  <2> QED BY <1>1, <2>1 DEF Spend
<1>3. CASE ~(WriteFails \/ ReadFails \/ Tickle \/ DevTickles \/ DevCloses)
  <2>1. UNCHANGED used
    BY <1>3 DEF Next, CloseBroken, Host, Device, Detect, Skip, NetTx, WriteChunk, NetRx,
         Reading, ReadFirst, ReadHeader, ReadPayload, ReadDone, ReadEof, ReadTimesOut,
         DevReads, DevReplies, Spin, Finished, vars
  <2> QED BY <2>1
<1> QED BY <1>2, <1>3

(* Good is the beginning of a call, or goes on.                            *)
LEMMA GoodBefore ==
  ASSUME Control, SentTypes, [Next]_vars, Good', ~\E k \in Arrivals : Begin(k) \/ Close(k)
  PROVE  Good /\ op' = op /\ call' = call /\ clean' = clean /\ goesOn' = goesOn
<1>0. used'.closes = used.closes
  BY ClosesCounted
<1>1. goesOn' = goesOn
  BY DEF Next, Close, CloseBroken, Host, Detect, Skip, NetTx, WriteChunk, WriteFails, NetRx,
         Reading, ReadFirst, ReadHeader, ReadPayload, ReadDone, ReadEof, ReadTimesOut, ReadFails,
         Tickle, Device, DevReads, DevReplies, DevTickles, DevCloses, Spin, Finished, vars, regime
<1>2. CASE UNCHANGED <<pc, op, todo, call, outcome, clean>>
  BY <1>0, <1>1, <1>2 DEF Good
<1>3. CASE NetTx \/ WriteChunk
  <2>1. pc \in {"tx", "body"} /\ todo # <<>>
    BY <1>3, Busy DEF NetTx, WriteChunk
  <2>2. UNCHANGED <<op, call, outcome, clean>>
    BY <1>3, <2>1, SentGoesOn DEF NetTx, WriteChunk, progress, results
  <2> QED BY <1>0, <1>1, <2>1, <2>2 DEF Good
<1>4. CASE WriteFails \/ ReadTimesOut \/ ReadFails \/ ReadEof
  <2>1. todo # <<>>
    BY <1>4 DEF WriteFails, ReadTimesOut, ReadFails, ReadEof, EofIn, Control
  <2>2. EndsBadly
    BY <1>4, FailsIs DEF WriteFails, ReadTimesOut, ReadFails, ReadEof
  <2> QED BY <2>1, <2>2, FailureEnds
<1>5. CASE ReadHeader
  <2>1. pc = "read" /\ todo # <<>>
    BY <1>5, Busy DEF ReadHeader, Arrived
  <2>2. PICK h : Payload(h) \/ PassOver(h) \/ BadHeader(h)
    BY <1>5 DEF ReadHeader
  <2>3. CASE Payload(h) \/ PassOver(h)
    BY <1>2, <2>3 DEF Payload, PassOver, progress, results
  <2>4. CASE BadHeader(h)
    <3>1. EndsBadly
      BY <2>4, FailsIs DEF BadHeader
    <3> QED BY <2>1, <3>1, FailureEnds
  <2> QED BY <2>2, <2>3, <2>4
<1>6. CASE ReadDone
  <2>1. pc = "read" /\ todo # <<>>
    BY <1>6 DEF ReadDone, Control
  <2>2. CASE EndsBadly
    BY <2>1, <2>2, FailureEnds
  <2>3. CASE GoesOnTo
    BY <1>0, <1>1, <2>1, <2>3 DEF GoesOnTo, Good
  <2>4. CASE EndsWell(Content(rx.got))
    <3>1. UNCHANGED <<op, call, clean>> /\ op # "close"
      BY <2>4 DEF EndsWell, Good
    <3>2. op = "handshake" => outcome = "none"
      BY DEF Control
    <3>3. op = "call" => outcome = "none"
      BY <2>1 DEF Control
    <3>4. ~goesOn
      BY <1>1, <2>4, <3>1 DEF EndsWell, Good
    <3>5. op \in {"handshake", "call", "close"}
      BY DEF Control
    <3> QED BY <1>1, <2>1, <3>1, <3>2, <3>3, <3>4, <3>5 DEF Good
  <2> QED BY <1>6, <2>2, <2>3, <2>4, Outcomes DEF ReadDone
<1>8. CASE Detect \/ NetRx \/ CloseBroken
  BY <1>0, <1>1, <1>8 DEF Detect, NetRx, CloseBroken, Good, results
<1>9. CASE Skip \/ ReadFirst \/ ReadPayload \/ Tickle \/ Device \/ UNCHANGED vars
  BY <1>2, <1>9 DEF Skip, ReadFirst, ReadPayload, Tickle, Device, DevReads, DevReplies, DevTickles,
                    DevCloses, vars, progress, results
<1> QED BY <1>3, <1>4, <1>5, <1>6, <1>8, <1>9 DEF Next, Host, Reading, Spin, Finished

-----------------------------------------------------------------------------
(* Turns.                                                                  *)
LEMMA HostsStep ==
  ASSUME OneTurn, Current1, UNCHANGED <<toDev, dev, devTask, execs, op, call>>,
         \A i \in 1..Len(toHost') : toHost'[i].type = DATA => OfLine(toHost'[i]),
         Receiving' => \/ Receiving /\ rx'.hdr.of = rx.hdr.of
                       \/ \E j \in 1..Len(toHost) : /\ toHost[j].type = DATA
                                                    /\ rx'.hdr.of = toHost[j].of,
         HostsTurn' => HostsTurn \/ ~(OnItsWay \/ BeingRead \/ Tasked \/ Answered' \/ Receiving')
  PROVE  OneTurn' /\ Current1'
<1>1. (OnItsWay' <=> OnItsWay) /\ (BeingRead' <=> BeingRead) /\ (Tasked' <=> Tasked)
  BY DEF OnItsWay, BeingRead, Tasked, Opening
<1>2. Answered' => Answered
  BY DEF Answered, OfLine
<1>3. Receiving' => Answered \/ Receiving
  BY DEF Answered
<1>4. \A i, j \in 1..Len(toDev) : Opening(toDev[i]) /\ Opening(toDev[j]) => i = j
  BY DEF OneTurn
<1>5. OneTurn'
  <2>1. /\ HostsTurn' => ~OnItsWay' /\ ~BeingRead' /\ ~Tasked' /\ ~Answered' /\ ~Receiving'
        /\ OnItsWay'  => ~BeingRead' /\ ~Tasked' /\ ~Answered' /\ ~Receiving'
        /\ BeingRead' => ~Tasked' /\ ~Answered' /\ ~Receiving'
        /\ Tasked'    => ~Answered' /\ ~Receiving'
    BY <1>1, <1>2, <1>3 DEF OneTurn
  <2> QED BY <1>4, <2>1 DEF OneTurn, Opening
<1>6. /\ \A i \in 1..Len(toHost') : toHost'[i].type = DATA => Fits(toHost'[i].of) /\ Executed
      /\ Receiving' => Fits(rx'.hdr.of) /\ Executed
  <2>1. /\ \A i \in 1..Len(toHost) : toHost[i].type = DATA => Fits(toHost[i].of) /\ Executed
        /\ Receiving => Fits(rx.hdr.of) /\ Executed
    BY DEF Current1
  <2>2. ASSUME NEW i \in 1..Len(toHost'), toHost'[i].type = DATA
        PROVE  Fits(toHost'[i].of) /\ Executed
    BY <2>1, <2>2 DEF OfLine
  <2>3. ASSUME Receiving' PROVE Fits(rx'.hdr.of) /\ Executed
    BY <2>1, <2>3
  <2> QED BY <2>2, <2>3
<1>7. Executed' <=> Executed
  BY DEF Executed
<1>8. \A of : Fits(of)' <=> Fits(of)
  BY DEF Fits, ThisCall
<1>9. Current1'
  <2>1. /\ \A i \in 1..Len(toDev') : Opening(toDev'[i]) => Fits(toDev'[i].of)
        /\ BeingRead' => Fits(dev'.hdr.of)
        /\ Tasked' => Fits(devTask') /\ Executed
    BY <1>1 DEF Current1
  <2> QED BY <1>6, <2>1 DEF Current1, Fits, ThisCall, Executed, Opening
<1> QED BY <1>5, <1>9

LEMMA InHeader1 ==
  ASSUME SentTypes, Aligned, NEW u \in Arrived
  PROVE  /\ rx.have = 0 => u.part = "first" /\ u.type \in {DATA, TCKL}
         /\ rx.have = 1 => Follows(rx.hdr, u) /\ Header(u) = {u}
<1>1. toHost # <<>> /\ u = toHost[1] /\ Len(toHost) \in Nat \ {0}
  BY ArrivedUnit DEF SentTypes
<1>2. 1 \in 1..Len(toHost)
  BY <1>1
<1>3. rx.have = 0 => u.part = "first" /\ u.type \in {DATA, TCKL}
  BY <1>1, <1>2 DEF Aligned, Linked
<1>4. rx.have = 1 => Follows(rx.hdr, u) /\ rx.hdr.part = "first"
  BY <1>1 DEF Aligned
<1> QED BY <1>3, <1>4 DEF Header, Follows

LEMMA HeadlessRead ==
  ASSUME Headless, NEW u \in Arrived
  PROVE  u = FirstPiece /\ (toHost = <<FirstPiece, FirstPiece>> \/ (eof /\ toHost = <<FirstPiece>>))
<1>1. pc = "read" /\ u = toHost[1] /\ DOMAIN toHost # {}
  BY DEF Arrived
<1>2. toHost # <<>>
  BY <1>1
<1>3. toHost = <<FirstPiece, FirstPiece>> \/ (eof /\ toHost = <<FirstPiece>>)
  BY <1>1, <1>2 DEF Headless
<1> QED BY <1>1, <1>3

LEMMA ReadIn ==
  ASSUME Control, SentTypes, Aligned \/ Headless, ReadDone
  PROVE  Aligned /\ Receiving /\ ~Answered /\ Len(rx.got) = rx.hdr.len /\ rx.have = 2
<1>1. rx.have = 2 /\ Len(rx.got) = rx.hdr.len
  BY DEF ReadDone, PayloadDone
<1>2. Aligned
  BY <1>1 DEF Headless, NothingRead
<1>3. rx.hdr.type = DATA /\ rx.hdr.len \in Nat
  BY <1>1, <1>2 DEF Aligned
<1>4. Expected = 0
  BY <1>1, <1>3 DEF Expected
<1>5. ASSUME NEW i \in 1..Len(toHost), toHost[i].type = DATA PROVE FALSE
  <2>1. i <= Expected
    BY <1>1, <1>2, <1>5 DEF Aligned
  <2> QED BY <1>4, <2>1
<1> QED BY <1>1, <1>2, <1>3, <1>5 DEF Receiving, Answered

LEMMA HostTurns ==
  ASSUME Control, SentTypes, Good', OneTurn, Current1, Aligned \/ Headless, [Next]_vars,
         ~(NetTx \/ WriteChunk \/ Tickle \/ DevReads \/ DevReplies),
         ~\E k \in Arrivals : Begin(k) \/ Close(k)
  PROVE  OneTurn' /\ Current1'
<1>0. Good /\ op' = op /\ call' = call
  BY GoodBefore
<1>2. ~CloseBroken
  BY DEF CloseBroken, Good
<1>3. ~(WriteFails \/ ReadTimesOut \/ ReadFails \/ ReadEof)
  <2> SUFFICES ASSUME WriteFails \/ ReadTimesOut \/ ReadFails \/ ReadEof PROVE FALSE
    OBVIOUS
  <2>1. todo # <<>>
    BY Busy DEF WriteFails, ReadTimesOut, ReadFails, ReadEof, EofIn
  <2>2. EndsBadly
    BY FailsIs DEF WriteFails, ReadTimesOut, ReadFails, ReadEof
  <2> QED BY <2>1, <2>2, FailureEnds
<1>4. CASE Detect \/ Skip \/ NetRx \/ ReadFirst \/ ReadHeader \/ ReadPayload \/ ReadDone \/ DevTickles
           \/ DevCloses \/ UNCHANGED vars
  <2>1. UNCHANGED <<toDev, dev, devTask, execs>>
    BY <1>4 DEF Detect, Skip, NetRx, ReadFirst, ReadHeader, ReadPayload, ReadDone, DevTickles,
                DevCloses, vars, devVars
  <2>2. ASSUME NEW i \in 1..Len(toHost'), toHost'[i].type = DATA PROVE OfLine(toHost'[i])
    <3>1. CASE DevTickles
      <4> DEFINE p == Packet(TCKL, TxidWrap, <<"tickle", 0>>, 0)
      <4>1. /\ p \in Seq(Units) /\ Len(p) = 2
            /\ p[1] = Unit("first", TCKL, TxidWrap, <<"tickle", 0>>, 0)
            /\ p[2] = Unit("more", TCKL, TxidWrap, <<"tickle", 0>>, 0)
        BY TicklePacket
      <4>2. toHost' = toHost \o p /\ toHost \in Seq(Units)
        BY <3>1 DEF DevTickles, SentTypes, HostTypes
      <4> HIDE DEF p
      <4>3. p \in Seq(Units) /\ toHost \in Seq(Units) /\ i \in 1..Len(toHost \o p)
        BY <4>1, <4>2
      <4>4. \/ i \in 1..Len(toHost) /\ (toHost \o p)[i] = toHost[i]
            \/ i - Len(toHost) \in 1..Len(p) /\ (toHost \o p)[i] = p[i - Len(toHost)]
        BY ONLY <4>3, Place
      <4>5. ASSUME NEW j \in 1..Len(p) PROVE p[j].type = TCKL
        <5>1. j = 1 \/ j = 2
          BY <4>1
        <5> QED BY <4>1, <5>1 DEF Unit
      <4>6. DATA # TCKL
        BY DEF DATA, TCKL
      <4> QED BY <2>2, <4>2, <4>4, <4>5, <4>6 DEF OfLine
    <3>2. CASE ~DevTickles
      BY <3>2, HostUnits
    <3> QED BY <3>1, <3>2
  <2>3. CASE Detect \/ Skip \/ DevTickles \/ DevCloses \/ UNCHANGED vars
    <3>1. UNCHANGED rx /\ (pc' = pc \/ pc' = "rx")
      BY <2>3 DEF Detect, Skip, DevTickles, DevCloses, vars, netVars, progress
    <3>2. Receiving' => Receiving /\ rx'.hdr.of = rx.hdr.of
      BY <3>1 DEF Receiving
    <3>3. HostsTurn' => HostsTurn
      BY <3>1 DEF HostsTurn
    <3> QED BY <1>0, <2>1, <2>2, <3>2, <3>3, HostsStep
  <2>4. CASE NetRx
    <3>1. rx' = NothingRead /\ pc' = "read"
      BY <2>4 DEF NetRx
    <3>2. ~Receiving' /\ ~HostsTurn'
      BY <3>1 DEF Receiving, HostsTurn, NothingRead
    <3> QED BY <1>0, <2>1, <2>2, <3>2, HostsStep
  <2>5. CASE ReadFirst
    <3>1. PICK u \in Arrived :
            /\ rx.have = 0
            /\ rx' = IF inst[cur].txid = 0 /\ IsSignature(u)
                THEN [rx EXCEPT !.have = 2, !.hdr = Unit("first", DATA, 1, Shake(1), 1)]
                ELSE [rx EXCEPT !.have = 1, !.hdr = u]
      BY <2>5 DEF ReadFirst
    <3>2. u = toHost[1] /\ 1 \in 1..Len(toHost) /\ rx \in Partly
      <4>1. u = toHost[1] /\ Len(toHost) \in Nat \ {0}
        BY ArrivedUnit DEF SentTypes
      <4> QED BY <4>1 DEF SentTypes, HostTypes
    <3>3. ~HostsTurn'
      BY <2>5 DEF ReadFirst, Arrived, progress, HostsTurn
    <3>4. Receiving' => toHost[1].type = DATA /\ rx'.hdr.of = toHost[1].of
      <4>1. CASE Headless
        <5>1. u = FirstPiece
          BY <4>1, HeadlessRead
        <5>2. inst[cur].txid = 0 /\ IsSignature(u)
          <6>1. cur = "cmd"
            BY <4>1, <3>1 DEF Headless, Arrived, Control, Plan
          <6> QED BY <4>1, <5>1, <6>1 DEF Headless, FirstPiece, Unit, IsSignature
        <5>3. rx'.hdr = Unit("first", DATA, 1, Shake(1), 1)
          BY <3>1, <3>2, <5>2 DEF Partly
        <5> QED BY <3>2, <5>1, <5>3 DEF FirstPiece, Unit
      <4>2. CASE Aligned
        <5>1. u.part = "first"
          BY <3>1, <4>2, InHeader1
        <5>2. rx' = [rx EXCEPT !.have = 1, !.hdr = u]
          BY <3>1, <5>1 DEF IsSignature
        <5>3. rx'.hdr = u
          BY <3>2, <5>2 DEF Partly
        <5> QED BY <3>2, <5>3 DEF Receiving
      <4> QED BY <4>1, <4>2
    <3> QED BY <1>0, <2>1, <2>2, <3>2, <3>3, <3>4, HostsStep
  <2>6. CASE ReadHeader
    <3>1. PICK u \in Arrived : \E h \in Header(u) : Payload(h) \/ PassOver(h) \/ BadHeader(h)
      BY <2>6 DEF ReadHeader
    <3>2. rx.have = 1 /\ pc = "read" /\ rx \in Partly
      BY <2>6 DEF ReadHeader, Arrived, SentTypes, HostTypes
    <3>3. Aligned
      BY <3>2 DEF Headless, NothingRead
    <3>4. Follows(rx.hdr, u) /\ Header(u) = {u}
      BY <3>2, <3>3, InHeader1
    <3>5. Payload(u) \/ PassOver(u)
      <4>1. Payload(u) \/ PassOver(u) \/ BadHeader(u)
        BY <3>1, <3>4
      <4>2. ~BadHeader(u)
        <5>1. ASSUME BadHeader(u) PROVE FALSE
          <6>1. EndsBadly /\ todo # <<>>
            BY <3>2, <5>1, FailsIs, Busy DEF BadHeader
          <6> QED BY <6>1, FailureEnds
        <5> QED BY <5>1
      <4> QED BY <4>1, <4>2
    <3>6. ~HostsTurn'
      BY <3>2, <3>5 DEF Payload, PassOver, progress, HostsTurn
    <3>7. Receiving' => Receiving /\ rx'.hdr.of = rx.hdr.of
      <4>1. CASE Payload(u)
        <5>1. rx'.hdr = u
          BY <3>2, <4>1 DEF Payload, Partly
        <5> QED BY <3>2, <3>4, <5>1 DEF Receiving, Follows
      <4>2. CASE PassOver(u)
        BY <4>2 DEF PassOver, AfterTickle, NothingRead, Receiving
      <4> QED BY <3>5, <4>1, <4>2
    <3> QED BY <1>0, <2>1, <2>2, <3>6, <3>7, HostsStep
  <2>7. CASE ReadPayload
    <3>1. PICK u \in Arrived : rx' = [rx EXCEPT !.got = Append(@, u)]
      BY <2>7 DEF ReadPayload
    <3>2. rx'.have = rx.have /\ rx'.hdr = rx.hdr
      BY <3>1 DEF SentTypes, HostTypes, Partly
    <3>3. ~HostsTurn'
      BY <2>7 DEF ReadPayload, Arrived, progress, HostsTurn
    <3>4. Receiving' => Receiving /\ rx'.hdr.of = rx.hdr.of
      BY <3>2 DEF Receiving
    <3> QED BY <1>0, <2>1, <2>2, <3>3, <3>4, HostsStep
  <2>8. CASE ReadDone
    <3>1. Receiving /\ ~Answered
      BY <2>8, ReadIn
    <3>2. rx' = NothingRead /\ toHost' = toHost
      BY <2>8 DEF ReadDone
    <3>3. ~Receiving' /\ ~Answered'
      BY <3>1, <3>2 DEF Receiving, NothingRead, Answered
    <3>4. ~OnItsWay /\ ~BeingRead /\ ~Tasked
      BY <3>1 DEF OneTurn
    <3> QED BY <1>0, <2>1, <2>2, <3>3, <3>4, HostsStep
  <2> QED BY <1>4, <2>3, <2>4, <2>5, <2>6, <2>7, <2>8
<1> QED BY <1>2, <1>3, <1>4 DEF Next, Host, Reading, Device, Spin, Finished

LEMMA NothingBegun ==
  ASSUME OneTurn, Current1, UNCHANGED <<dev, devTask, execs, op, call, toHost, rx>>,
         HostsTurn' => HostsTurn,
         \A i \in 1..Len(toDev') : Opening(toDev'[i]) => i \in 1..Len(toDev) /\ toDev'[i] = toDev[i]
  PROVE  OneTurn' /\ Current1'
<1>1. /\ BeingRead' <=> BeingRead
      /\ Tasked' <=> Tasked
      /\ Answered' <=> Answered
      /\ Receiving' <=> Receiving
  BY DEF BeingRead, Tasked, Answered, Receiving
<1>2. OnItsWay' => OnItsWay
  BY DEF OnItsWay, Opening
<1>3. ASSUME NEW i \in 1..Len(toDev'), NEW j \in 1..Len(toDev'), Opening(toDev'[i]), Opening(toDev'[j])
      PROVE  i = j
  BY <1>3 DEF OneTurn
<1>4. OneTurn'
  <2>1. /\ HostsTurn' => ~OnItsWay' /\ ~BeingRead' /\ ~Tasked' /\ ~Answered' /\ ~Receiving'
        /\ OnItsWay'  => ~BeingRead' /\ ~Tasked' /\ ~Answered' /\ ~Receiving'
        /\ BeingRead' => ~Tasked' /\ ~Answered' /\ ~Receiving'
        /\ Tasked'    => ~Answered' /\ ~Receiving'
    BY <1>1, <1>2 DEF OneTurn
  <2> QED BY <1>3, <2>1 DEF OneTurn, Opening
<1>5. ASSUME NEW i \in 1..Len(toDev'), Opening(toDev'[i])
      PROVE  Fits(toDev'[i].of)
  BY <1>5 DEF Current1
<1>6. Current1'
  BY <1>1, <1>5 DEF Current1, ThisCall, Opening, Fits, Executed
<1> QED BY <1>4, <1>6

LEMMA TxTurns ==
  ASSUME Control, SentTypes, Good', OneTurn, Current1, NetTx
  PROVE  OneTurn' /\ Current1'
<1>1. /\ Good /\ op' = op /\ call' = call /\ ~HostsTurn'
      /\ UNCHANGED <<dev, devTask, execs, toHost, rx>>
  <2>1. ~\E k \in Arrivals : Begin(k) \/ Close(k)
    BY DEF NetTx, Begin, Close
  <2>2. Good /\ op' = op /\ call' = call
    BY <2>1, GoodBefore DEF Next, Host
  <2>3. ~HostsTurn'
    BY SentGoesOn DEF NetTx, HostsTurn
  <2> QED BY <2>2, <2>3 DEF NetTx, devVars
<1>2. ~OnItsWay /\ ~BeingRead /\ ~Tasked /\ ~Answered /\ ~Receiving
  BY DEF OneTurn, HostsTurn, NetTx
<1>3. PICK n \in Lengths, h \in Nat :
           /\ n \in Nat \ {0} /\ h \in 2..(n + 2)
           /\ toDev' \in Seq(Units) /\ Len(toDev') = Len(toDev) + h
           /\ \A i \in 1..Len(toDev) : toDev'[i] = toDev[i]
           /\ toDev'[Len(toDev) + 1] = Tx("first", n) /\ toDev'[Len(toDev) + 2] = Tx("more", n)
           /\ \A i \in 3..h : toDev'[Len(toDev) + i] = Tx("piece", n)
  BY TxUnits
<1>4. Len(toDev) \in Nat
  BY LenProperties DEF SentTypes, DevTypes
<1>5. ASSUME NEW i \in 1..Len(toDev'), Opening(toDev'[i])
      PROVE  i = Len(toDev) + 1 /\ toDev'[i].of = Subject
  <2>1. CASE i <= Len(toDev)
    BY <1>2, <1>3, <1>4, <1>5, <2>1 DEF OnItsWay
  <2>2. CASE ~(i <= Len(toDev))
    <3>1. PICK j \in 1..h : i = Len(toDev) + j
      <4>1. i - Len(toDev) \in 1..h /\ i = Len(toDev) + (i - Len(toDev))
        BY <1>3, <1>4, <2>2
      <4> QED BY <4>1
    <3>2. j = 1 \/ j = 2 \/ j \in 3..h
      BY <3>1
    <3>3. j = 1
      BY <1>3, <1>5, <3>1, <3>2 DEF Tx, Unit, Opening
    <3> QED BY <1>3, <1>5, <3>1, <3>3 DEF Tx, Unit
  <2> QED BY <2>1, <2>2
<1>6. ~BeingRead' /\ ~Tasked' /\ ~Answered' /\ ~Receiving'
  BY <1>1, <1>2 DEF BeingRead, Tasked, Answered, Receiving
<1>7. ASSUME NEW i \in 1..Len(toDev'), NEW j \in 1..Len(toDev'), Opening(toDev'[i]), Opening(toDev'[j])
      PROVE  i = j
  BY <1>5, <1>7
<1>8. OneTurn'
  BY <1>1, <1>6, <1>7 DEF OneTurn, Opening
<1>9. ASSUME NEW i \in 1..Len(toDev'), Opening(toDev'[i])
      PROVE  Fits(toDev'[i].of)
  <2>1. Shake(6 - Len(todo))[1] = "handshake"
    BY DEF Shake
  <2> QED BY <1>5, <1>9, <2>1 DEF Subject, ThisCall, Fits
<1>10. \A i \in 1..Len(toHost') : toHost'[i].type # DATA
  BY <1>6 DEF Answered
<1>11. Current1'
  BY <1>1, <1>6, <1>9, <1>10 DEF Current1, ThisCall, Opening, Fits
<1> QED BY <1>8, <1>11

LEMMA ChunkTurns ==
  ASSUME Control, SentTypes, Once, Good', OneTurn, Current1, WriteChunk
  PROVE  OneTurn' /\ Current1'
<1>1. Good /\ op' = op /\ call' = call /\ ~HostsTurn'
  <2>1. ~\E k \in Arrivals : Begin(k) \/ Close(k)
    BY DEF WriteChunk, Begin, Close
  <2>2. Good /\ op' = op /\ call' = call
    BY <2>1, GoodBefore DEF Next, Host
  <2>3. ~HostsTurn'
    BY SentGoesOn DEF WriteChunk, HostsTurn, progress
  <2> QED BY <2>2, <2>3
<1>2. out \in Seq(Units) /\ out # <<>> /\ \A i \in 1..Len(out) : out[i].part = "piece"
  BY DEF WriteChunk, Control, SentTypes, HostTypes, Once
<1>3. Len(out) \in Nat \ {0} /\ Head(out) = out[1] /\ out[1] \in Units /\ out[1].part = "piece"
  <2>1. Len(out) \in Nat \ {0}
    BY <1>2, LenProperties, EmptySeq
  <2> QED BY <1>2, <2>1, LenProperties
<1>4. toDev' = Append(toDev, Head(out)) /\ UNCHANGED <<dev, devTask, execs, toHost, rx>>
  BY DEF WriteChunk, devVars
<1>5. /\ Len(toDev') = Len(toDev) + 1 /\ Len(toDev) \in Nat
      /\ \A i \in 1..Len(toDev) : toDev'[i] = toDev[i]
      /\ toDev'[Len(toDev) + 1] = out[1]
  <2>1. toDev \in Seq(Units) /\ Len(toDev) \in Nat
    BY LenProperties DEF SentTypes, DevTypes
  <2> QED BY <1>3, <1>4, <2>1, AppendProperties
<1>6. ASSUME NEW i \in 1..Len(toDev'), Opening(toDev'[i])
      PROVE  i \in 1..Len(toDev) /\ toDev'[i] = toDev[i]
  <2>1. i \in 1..Len(toDev) \/ i = Len(toDev) + 1
    BY <1>5
  <2> QED BY <1>3, <1>5, <1>6, <2>1 DEF Opening
<1> QED BY <1>1, <1>4, <1>6, NothingBegun

LEMMA TickleTurns ==
  ASSUME Control, SentTypes, OneTurn, Current1, Tickle
  PROVE  OneTurn' /\ Current1'
<1> DEFINE p == Packet(TCKL, TxidWrap, <<"tickle", 0>>, 0)
<1>1. /\ p \in Seq(Units) /\ Len(p) = 2
      /\ p[1] = Unit("first", TCKL, TxidWrap, <<"tickle", 0>>, 0)
      /\ p[2] = Unit("more", TCKL, TxidWrap, <<"tickle", 0>>, 0)
  BY TicklePacket
<1>2. /\ toDev' = toDev \o p /\ toDev \in Seq(Units)
      /\ UNCHANGED <<pc, op, call, dev, devTask, execs, toHost, rx>>
  BY DEF Tickle, SentTypes, DevTypes, devVars, progress, results
<1> HIDE DEF p
<1>3. ASSUME NEW i \in 1..Len(toDev'), Opening(toDev'[i])
      PROVE  i \in 1..Len(toDev) /\ toDev'[i] = toDev[i]
  <2>1. p \in Seq(Units) /\ toDev \in Seq(Units) /\ i \in 1..Len(toDev \o p)
    BY <1>1, <1>2
  <2>2. \/ i \in 1..Len(toDev) /\ (toDev \o p)[i] = toDev[i]
        \/ i - Len(toDev) \in 1..Len(p) /\ (toDev \o p)[i] = p[i - Len(toDev)]
    BY ONLY <2>1, Place
  <2>3. ASSUME NEW j \in 1..Len(p) PROVE ~Opening(p[j])
    <3>1. j = 1 \/ j = 2
      BY <1>1
    <3>2. DATA # TCKL
      BY DEF DATA, TCKL
    <3> QED BY <1>1, <3>1, <3>2 DEF Unit, Opening
  <2> QED BY <1>2, <1>3, <2>2, <2>3
<1>4. HostsTurn' => HostsTurn
  BY <1>2 DEF HostsTurn
<1> QED BY <1>2, <1>3, <1>4, NothingBegun

LEMMA ReplyTurns ==
  ASSUME Control, SentTypes, OneTurn, Current1, DevReplies
  PROVE  OneTurn' /\ Current1'
<1>1. UNCHANGED <<pc, op, call, toDev, dev, execs, rx>> /\ devTask' \in {Waiting, Ended} /\ Tasked
  BY DEF DevReplies, progress, results, netVars, Tasked
<1>2. ~HostsTurn /\ ~OnItsWay /\ ~BeingRead /\ ~Answered /\ ~Receiving
  BY <1>1 DEF OneTurn
<1>3. ~HostsTurn' /\ ~OnItsWay' /\ ~BeingRead' /\ ~Tasked' /\ ~Receiving'
  BY <1>1, <1>2 DEF HostsTurn, OnItsWay, BeingRead, Receiving, Tasked
<1>4. ASSUME NEW i \in 1..Len(toHost'), toHost'[i].type = DATA PROVE toHost'[i].of = Reply
  <2>1. ~OfLine(toHost'[i])
    BY <1>2, <1>4 DEF OfLine, Answered
  <2>2. ~DevTickles
    <3>1. ASSUME DevTickles PROVE FALSE
      <4>1. devTask' = devTask
        BY <3>1 DEF DevTickles, devVars
      <4> QED BY <1>1, <4>1 DEF Tasked
    <3> QED BY <3>1
  <2> QED BY <2>1, <2>2, DevAppends
<1>5. OneTurn'
  BY <1>1, <1>3 DEF OneTurn, Opening
<1>6. Fits(Reply) /\ Executed
  <2>1. Fits(devTask) /\ Executed
    BY <1>1 DEF Current1
  <2>2. Shake(devTask[2] + 1)[1] = "handshake"
    BY DEF Shake
  <2> QED BY <2>1, <2>2 DEF Fits, Reply, ThisCall
<1>7. \A i \in 1..Len(toDev') : ~Opening(toDev'[i])
  BY <1>1, <1>2 DEF OnItsWay
<1>8. Current1'
  BY <1>1, <1>3, <1>4, <1>6, <1>7 DEF Current1, ThisCall, Fits, Executed
<1> QED BY <1>5, <1>8

(* A packet of the device's side ends on its way, or is taken up.          *)
LEMMA DevReadsTurns ==
  ASSUME Control, SentTypes, Once, Headers, OneTurn, Current1, DevReads
  PROVE  OneTurn' /\ Current1'
<1>1. UNCHANGED <<pc, op, call, toHost, rx>> /\ devTask \in {Waiting, Lost} /\ ~Tasked
  BY DEF DevReads, progress, results, netVars, Tasked
<1>2. PICK u \in Units, d \in Partly :
           /\ Len(toDev) \in Nat \ {0} /\ u = toDev[1] /\ u.of \in Sent
           /\ toDev' \in Seq(Units) /\ Len(toDev') = Len(toDev) - 1
           /\ \A i \in 1..(Len(toDev) - 1) : toDev'[i] = toDev[i + 1]
           /\ d = DevTake(dev, u) /\ d.have > 0 /\ d.hdr.of \in Sent
           /\ dev.have = 0 => d.hdr = u
           /\ InPlace(dev, u) /\ dev.have # 0 => d.hdr.of = dev.hdr.of
           /\ DevMeets(u, d)
  BY DevTakes
<1>3. ASSUME NEW i \in 1..Len(toDev')
      PROVE  i + 1 \in 1..Len(toDev) /\ i + 1 # 1 /\ toDev'[i] = toDev[i + 1]
  <2>1. i + 1 \in 1..Len(toDev) /\ i + 1 # 1 /\ i \in 1..(Len(toDev) - 1)
    BY <1>2
  <2> QED BY <1>2, <2>1
<1>4. OnItsWay' => OnItsWay /\ ~Opening(u)
  <2>1. ASSUME NEW i \in 1..Len(toDev'), Opening(toDev'[i])
        PROVE  OnItsWay /\ ~Opening(u)
    <3>1. i + 1 \in 1..Len(toDev) /\ Opening(toDev[i + 1]) /\ i + 1 # 1 /\ 1 \in 1..Len(toDev)
      BY <1>2, <1>3, <2>1
    <3>2. Opening(toDev[1]) => i + 1 = 1
      BY <3>1 DEF OneTurn
    <3> QED BY <1>2, <3>1, <3>2 DEF OnItsWay
  <2> QED BY <2>1 DEF OnItsWay, Opening
<1>5. /\ HostsTurn' <=> HostsTurn
      /\ Answered' <=> Answered
      /\ Receiving' <=> Receiving
  BY <1>1 DEF HostsTurn, Answered, Receiving
<1>6. ASSUME NEW i \in 1..Len(toDev'), NEW j \in 1..Len(toDev'), Opening(toDev'[i]), Opening(toDev'[j])
      PROVE  i = j
  <2>1. i + 1 \in 1..Len(toDev) /\ j + 1 \in 1..Len(toDev) /\ Opening(toDev[i + 1]) /\ Opening(toDev[j + 1])
    BY <1>3, <1>6
  <2>2. i + 1 = j + 1
    BY <2>1 DEF OneTurn
  <2> QED BY <1>2, <2>2
(* What has been read so far is of the packet whose turn it is.            *)
<1>7. ASSUME InPlace(dev, u), d.hdr.type = DATA
      PROVE  BeingRead \/ Opening(u)
  <2>1. CASE dev.have = 0
    BY <1>2, <1>7, <2>1 DEF InPlace, Opening
  <2>2. CASE dev.have = 1
    <3>1. d.hdr = u
      BY <1>2, <2>2 DEF DevTake, SentTypes, DevTypes, Partly
    <3>2. u.type = dev.hdr.type
      BY <1>2, <2>2 DEF Headers
    <3> QED BY <1>7, <2>2, <3>1, <3>2 DEF BeingRead
  <2>3. CASE dev.have = 2
    <3>1. d.hdr = dev.hdr
      BY <1>2, <2>3 DEF DevTake, SentTypes, DevTypes, Partly
    <3> QED BY <1>7, <2>3, <3>1 DEF BeingRead
  <2>4. dev.have \in 0..2
    BY DEF SentTypes, DevTypes, Partly
  <2> QED BY <2>1, <2>2, <2>3, <2>4
<1>8. Opening(u) => OnItsWay
  BY <1>2 DEF OnItsWay
<1>9. ASSUME BeingRead \/ Opening(u)
      PROVE  ~HostsTurn /\ ~OnItsWay' /\ ~Answered /\ ~Receiving
  BY <1>4, <1>8, <1>9 DEF OneTurn
<1>10. InPlace(dev, u) /\ d.hdr.type = DATA => Fits(d.hdr.of)
  <2> SUFFICES ASSUME InPlace(dev, u), d.hdr.type = DATA PROVE Fits(d.hdr.of)
    OBVIOUS
  <2>1. CASE BeingRead
    <3>1. Fits(dev.hdr.of) /\ dev.have # 0
      BY <2>1 DEF Current1, BeingRead
    <3> QED BY <1>2, <3>1
  <2>2. CASE Opening(u) /\ ~BeingRead
    <3>1. Fits(u.of)
      BY <1>2, <2>2 DEF Current1
    <3>2. CASE dev.have = 0
      BY <1>2, <3>1, <3>2
    <3>3. CASE dev.have # 0
      BY <2>2, <3>3 DEF InPlace, Opening, SentTypes, DevTypes, Partly
    <3> QED BY <3>2, <3>3
  <2> QED BY <1>7, <2>1, <2>2
<1>11. BeingRead' => dev' = d /\ InPlace(dev, u) /\ d.hdr.type = DATA /\ UNCHANGED <<devTask, execs>>
  BY <1>2 DEF DevMeets, BeingRead, NothingRead
<1>12. Tasked' => InPlace(dev, u) /\ d.hdr.type = DATA /\ devTask' = d.hdr.of /\ dev' = NothingRead
  <2> SUFFICES ASSUME Tasked' PROVE InPlace(dev, u) /\ d.hdr.type = DATA /\ devTask' = d.hdr.of /\ dev' = NothingRead
    OBVIOUS
  <2>1. devTask' \notin {Waiting, Lost, Ended}
    BY DEF Tasked
  <2>2. InPlace(dev, u) /\ dev' = NothingRead /\ Receive(d.hdr.type, d.hdr.of)
    BY <1>1, <1>2, <2>1 DEF DevMeets
  <2>3. d.hdr.type = DATA
    BY <1>1, <2>1, <2>2 DEF Receive
  <2>4. DATA # TCKL
    BY DEF DATA, TCKL
  <2> QED BY <2>2, <2>3, <2>4 DEF Receive
<1>13. BeingRead' => ~Tasked'
  BY <1>1, <1>11 DEF Tasked
<1>14. OneTurn'
  <2>1. /\ HostsTurn' => ~OnItsWay' /\ ~BeingRead' /\ ~Tasked' /\ ~Answered' /\ ~Receiving'
        /\ OnItsWay'  => ~BeingRead' /\ ~Tasked' /\ ~Answered' /\ ~Receiving'
        /\ BeingRead' => ~Tasked' /\ ~Answered' /\ ~Receiving'
        /\ Tasked'    => ~Answered' /\ ~Receiving'
    BY <1>4, <1>5, <1>7, <1>9, <1>11, <1>12, <1>13 DEF OneTurn
  <2> QED BY <1>6, <2>1 DEF OneTurn, Opening
(* A call is carried out as it is received.                                *)
<1>15. ASSUME op = "call", Tasked' PROVE devTask' = ThisCall /\ execs'[call] = 1
  <2>1. InPlace(dev, u) /\ d.hdr.type = DATA /\ devTask' = ThisCall /\ d.hdr.of = ThisCall
    BY <1>10, <1>12, <1>15 DEF Fits
  <2>2. Receive(d.hdr.type, d.hdr.of)
    BY <1>1, <1>2, <1>15 DEF DevMeets, Tasked
  <2>3. execs' = [execs EXCEPT ![call] = @ + 1]
    <3>1. DATA # TCKL
      BY DEF DATA, TCKL
    <3> QED BY <2>1, <2>2, <3>1 DEF Receive, ThisCall
  <2>4. call \in 1..MaxCalls /\ execs \in [1..MaxCalls -> Nat]
    <3>1. <<"call", call>> \in Sent /\ <<"call", call>>[1] = "call" /\ <<"call", call>>[2] = call
      BY <1>2, <2>1 DEF ThisCall
    <3>2. call \in 1..MaxCalls
      BY <3>1, SentCall
    <3> QED BY <3>2 DEF SentTypes, DevTypes
  <2>5. execs[call] = 0
    <3>1. CASE BeingRead
      <4>1. dev.have > 0 /\ dev.hdr.of = ThisCall
        BY <1>15, <3>1 DEF Current1, BeingRead, Fits
      <4> QED BY <4>1 DEF Once, ThisCall
    <3>2. CASE Opening(u) /\ ~BeingRead
      <4>1. u.of = ThisCall /\ OfCall(toDev[1]) /\ 1 \in 1..Len(toDev)
        BY <1>2, <1>15, <3>2 DEF Current1, OfCall, Opening, ThisCall, Fits
      <4>2. execs[toDev[1].of[2]] = 0
        BY <4>1 DEF Once
      <4> QED BY <1>2, <4>1, <4>2 DEF ThisCall
    <3> QED BY <1>7, <2>1, <3>1, <3>2
  <2> QED BY <2>1, <2>3, <2>4, <2>5
<1>16. Answered \/ Receiving => execs' = execs
  <2>1. ASSUME Answered \/ Receiving PROVE execs' = execs
    <3>1. ~BeingRead /\ ~Opening(u)
      BY <1>9, <2>1
    <3>2. InPlace(dev, u) => d.hdr.type # DATA
      BY <1>7, <3>1
    <3> QED BY <1>2, <3>2 DEF DevMeets, Receive
  <2> QED BY <2>1
<1>17. ASSUME NEW i \in 1..Len(toDev'), Opening(toDev'[i]) PROVE Fits(toDev'[i].of)
  BY <1>3, <1>17 DEF Current1
<1>18. ASSUME NEW i \in 1..Len(toHost), toHost[i].type = DATA
       PROVE  Fits(toHost[i].of) /\ (op = "call" => execs'[call] = 1)
  <2>1. Fits(toHost[i].of) /\ Executed /\ Answered
    BY <1>18 DEF Current1, Answered
  <2> QED BY <1>16, <2>1 DEF Executed
<1>19. Receiving => Fits(rx.hdr.of) /\ (op = "call" => execs'[call] = 1)
  BY <1>16 DEF Current1, Executed
<1>20. BeingRead' => Fits(dev'.hdr.of)
  BY <1>10, <1>11
<1>21. Tasked' => Fits(devTask') /\ (op = "call" => execs'[call] = 1)
  BY <1>10, <1>12, <1>15
<1>22. Current1'
  BY <1>1, <1>5, <1>17, <1>18, <1>19, <1>20, <1>21 DEF Current1, ThisCall, Opening, Fits, Executed
<1> QED BY <1>14, <1>22

(* A call that begins when it is good to begin: nothing is under way.      *)
LEMMA NoTurns ==
  ASSUME ~OnItsWay', ~BeingRead', ~Tasked', ~Answered', ~Receiving'
  PROVE  OneTurn' /\ Current1'
<1>1. \A i \in 1..Len(toDev') : ~Opening(toDev'[i])
  BY DEF OnItsWay, Opening
<1>2. \A i \in 1..Len(toHost') : toHost'[i].type # DATA
  BY DEF Answered
<1>3. OneTurn'
  BY <1>1 DEF OneTurn, Opening
<1>4. Current1'
  BY <1>1, <1>2 DEF Current1, Opening
<1> QED BY <1>3, <1>4

LEMMA FlushedLine ==
  ASSUME HostTypes, NEW k \in Arrivals
  PROVE  /\ IsSuffix(Flushed(toHost, k), toHost, k) /\ Flushed(toHost, k) \in Seq(Units)
         /\ \A i \in 1..Len(Flushed(toHost, k)) : OfLine(Flushed(toHost, k)[i])
         /\ k \in 0..Len(toHost) /\ (k < Len(toHost) => toHost[k + 1].part # "more")
<1>1. k \in 0..Len(toHost) /\ (k < Len(toHost) => toHost[k + 1].part # "more")
  BY DEF Arrivals
<1>2. toHost \in Seq(Units) /\ Len(toHost) \in Nat
  BY LenProperties DEF HostTypes
<1>3. /\ SubSeq(toHost, k + 1, Len(toHost)) \in Seq(Units)
      /\ Len(SubSeq(toHost, k + 1, Len(toHost))) = Len(toHost) - k
      /\ \A n \in 1..(Len(toHost) - k) : SubSeq(toHost, k + 1, Len(toHost))[n] = toHost[n + k]
  BY ONLY <1>1, <1>2, Suffix
<1>4. \A i \in 1..Len(SubSeq(toHost, k + 1, Len(toHost))) : OfLine(SubSeq(toHost, k + 1, Len(toHost))[i])
  BY <1>1, SuffixOfLine
<1>5. k \in Nat /\ k <= Len(toHost)
  BY <1>1, <1>2
<1> QED BY <1>1, <1>2, <1>3, <1>4, <1>5 DEF Flushed, IsSuffix

LEMMA BeginsQuietly ==
  ASSUME Control, SentTypes, Closing, InTurn, InStep, NEW k \in Arrivals, Begin(k) \/ Close(k), Good'
  PROVE  /\ ~OnItsWay' /\ ~BeingRead' /\ ~Tasked' /\ ~Answered' /\ ~Receiving'
         /\ rx' = NothingRead /\ toHost' = Flushed(toHost, k) /\ eof' = eof
         /\ Aligned \/ Len(toHost') = 0
<1>1. /\ pc = "app" /\ todo = <<>> /\ rx = NothingRead /\ rx' = rx
      /\ toHost' = Flushed(toHost, k) /\ UNCHANGED <<toDev, dev, devTask, eof, goesOn>>
  BY DEF Begin, Close, Control, netVars, devVars, regime
<1>2. toHost \in Seq(Units) /\ Len(toHost) \in Nat
  BY LenProperties DEF SentTypes, HostTypes
<1>3. ~Receiving'
  BY <1>1 DEF Receiving, NothingRead
<1>4. CASE ~goesOn
  <2>1. Good
    <3>1. CASE Begin(k)
      BY <1>1, <1>4, <3>1 DEF Begin, Good
    <3>2. CASE Close(k)
      <4>1. /\ used' = [used EXCEPT !["closes"] = @ + 1] /\ op' = "close" /\ outcome' = outcome
            /\ used \in [{"alarms", "tickles", "faults", "closes"} -> Nat]
        BY <3>2 DEF Close, Spend, results, SentTypes, UsedTypes
      <4>2. used'.closes = 1 /\ outcome # "error"
        BY <4>1 DEF Good
      <4>3. used.closes = 0
        BY <4>1, <4>2
      <4>4. op # "close"
        BY <4>3 DEF Closing
      <4> QED BY <1>1, <1>4, <4>2, <4>4 DEF Good
    <3> QED BY <3>1, <3>2
  <2>2. OneTurn /\ (Aligned \/ Headless)
    BY <2>1 DEF InTurn, InStep
  <2>3. Aligned
    <3>1. Plan # <<>>
      BY DEF Plan
    <3> QED BY <1>1, <2>2, <3>1 DEF Headless
  <2>4. ~OnItsWay /\ ~BeingRead /\ ~Tasked /\ ~Answered
    BY <1>1, <2>2 DEF OneTurn, HostsTurn
  <2>5. ~OnItsWay' /\ ~BeingRead' /\ ~Tasked'
    BY <1>1, <2>4 DEF OnItsWay, BeingRead, Tasked, Opening
  <2>6. ASSUME NEW i \in 1..Len(toHost') PROVE toHost'[i].type # DATA
    <3>1. OfLine(toHost'[i])
      BY <1>1, FlushedLine DEF SentTypes
    <3> QED BY <2>4, <3>1 DEF OfLine, Answered
  <2>7. ~Answered'
    BY <2>6 DEF Answered
  <2> QED BY <1>1, <1>3, <2>3, <2>5, <2>7
<1>5. CASE Begin(k) /\ clean'
  <2>1. k = Len(toHost) /\ toDev = <<>> /\ devTask = Waiting /\ dev = NothingRead
    BY <1>5 DEF Begin
  <2>2. Len(toDev') = 0
    BY <1>1, <2>1
  <2>3. ~OnItsWay'
    BY <2>2 DEF OnItsWay
  <2>4. ~BeingRead' /\ ~Tasked'
    BY <1>1, <2>1 DEF BeingRead, Tasked, NothingRead
  <2>5. Len(toHost') = 0
    <3>1. Len(Flushed(toHost, k)) = Len(toHost) - k
      BY FlushedLine DEF SentTypes, IsSuffix
    <3> QED BY <1>1, <1>2, <2>1, <3>1
  <2>6. ~Answered'
    BY <2>5 DEF Answered
  <2> QED BY <1>1, <1>3, <2>3, <2>4, <2>5, <2>6
<1>6. ~goesOn \/ (Begin(k) /\ clean')
  BY <1>1 DEF Good, Close
<1> QED BY <1>4, <1>5, <1>6

LEMMA NextClosing ==
  ASSUME Control, SentTypes, Closing, [Next]_vars
  PROVE  Closing'
<1>1. ASSUME NEW k \in Arrivals, Begin(k) PROVE Closing'
  BY <1>1 DEF Begin, Closing, regime
<1>2. ASSUME NEW k \in Arrivals, Close(k) PROVE Closing'
  BY <1>2 DEF Close, Spend, Closing, SentTypes, UsedTypes
<1>3. CASE ~\E k \in Arrivals : Begin(k) \/ Close(k)
  <2>1. used'.closes = used.closes
    BY <1>3, ClosesCounted
  <2>2. ASSUME NEW of, StepDone(of) PROVE op' = op
    BY <2>2, Outcomes DEF GoesOnTo, EndsWell, EndsBadly
  <2>3. ASSUME NEW b, Fails(b) PROVE op' = op
    BY <2>3 DEF Fails
  <2>4. op' = op
    BY <1>3, <2>2, <2>3 DEF Next, CloseBroken, Host, Device, Detect, Skip, NetTx, WriteChunk, WriteFails,
         NetRx, Reading, ReadFirst, ReadHeader, Payload, PassOver, BadHeader, ReadPayload, ReadDone,
         ReadEof, ReadTimesOut, ReadFails, Tickle, DevReads, DevReplies, DevTickles, DevCloses, Spin,
         Finished, vars, progress
  <2>5. goesOn' = goesOn
    BY DEF Next, Begin, Close, CloseBroken, Host, Detect, Skip, NetTx, WriteChunk, WriteFails, NetRx,
           Reading, ReadFirst, ReadHeader, ReadPayload, ReadDone, ReadEof, ReadTimesOut, ReadFails,
           Tickle, Device, DevReads, DevReplies, DevTickles, DevCloses, Spin, Finished, vars, regime
  <2> QED BY <2>1, <2>4, <2>5 DEF Closing
<1> QED BY <1>1, <1>2, <1>3

LEMMA NextInTurn ==
  ASSUME Control, SentTypes, Closing, Once, Headers, InTurn, InStep, [Next]_vars
  PROVE  InTurn'
<1> SUFFICES ASSUME Good' PROVE OneTurn' /\ Current1'
  BY DEF InTurn
<1>1. CASE \E k \in Arrivals : Begin(k) \/ Close(k)
  BY <1>1, BeginsQuietly, NoTurns
<1>2. CASE ~\E k \in Arrivals : Begin(k) \/ Close(k)
  <2>1. Good
    BY <1>2, GoodBefore
  <2>2. OneTurn /\ Current1 /\ (Aligned \/ Headless)
    BY <2>1 DEF InTurn, InStep
  <2> QED BY <1>2, <2>2, HostTurns, TxTurns, ChunkTurns, TickleTurns, DevReadsTurns, ReplyTurns
<1> QED BY <1>1, <1>2

-----------------------------------------------------------------------------
(* The line stays in step with what net_rx has read.                       *)
LEMMA Aligned0 ==
  ASSUME NEW s, toHost' = s, rx'.have = 0, rx'.got = <<>>,
         Linked(s), ~eof' => Whole(s), OneAnswer(s), s # <<>> => s[1].part = "first"
  PROVE  Aligned'
BY DEF Aligned, Linked, Whole, OneAnswer, Opening, Follows, PieceOf

LEMMA Aligned1 ==
  ASSUME NEW s, NEW u, toHost' = s, rx'.have = 1, rx'.hdr = u, rx'.got = <<>>,
         Linked(s), ~eof' => Whole(s),
         u.part = "first" /\ u.type \in {DATA, TCKL},
         u.type = TCKL => u.len = 0 /\ OneAnswer(s),
         u.type = DATA => \A i \in 1..Len(s) : s[i].type = DATA => i <= 1 + u.len,
         s # <<>> => Follows(u, s[1]),
         ~eof' => s # <<>>
  PROVE  Aligned'
BY DEF Aligned, Linked, Whole, OneAnswer, Opening, Follows, PieceOf

LEMMA Aligned2 ==
  ASSUME NEW s, NEW h, NEW g, NEW m, toHost' = s, rx'.have = 2, rx'.hdr = h, rx'.got = g,
         Linked(s), ~eof' => Whole(s),
         h.type = DATA, h.len \in Nat \ {0}, Len(g) <= h.len, m = h.len - Len(g),
         \A i \in 1..Len(g) : PieceOf(h, g[i]),
         \A i \in 1..Len(s) : i <= m => PieceOf(h, s[i]),
         \A i \in 1..Len(s) : s[i].type = DATA => i <= m,
         m < Len(s) => s[m + 1].part = "first",
         ~eof' => m <= Len(s)
  PROVE  Aligned'
<1>1. Expected' = m
  BY DEF Expected
<1> QED BY <1>1 DEF Aligned, Linked, Whole, OneAnswer, Opening, Follows, PieceOf

LEMMA StaysAligned ==
  ASSUME Aligned, UNCHANGED <<toHost, rx, eof>>
  PROVE  Aligned'
BY DEF Aligned, Linked, Whole, OneAnswer, Opening, Follows, PieceOf, Expected

LEMMA NoAnswer ==
  ASSUME NEW s, \A i \in 1..Len(s) : s[i].type # DATA
  PROVE  OneAnswer(s)
BY DEF OneAnswer

LEMMA OneAnswerTail ==
  ASSUME NEW s, NEW t, IsSuffix(t, s, 1), Linked(s), OneAnswer(s), s[1].type # DATA
  PROVE  OneAnswer(t)
<1> USE DEF IsSuffix
<1>1. ASSUME NEW j \in 1..Len(t)
      PROVE  j + 1 \in 1..Len(s) /\ t[j] = s[j + 1] /\ s[j + 1].len \in Nat
  <2>1. j + 1 \in 1..Len(s)
    OBVIOUS
  <2> QED BY <2>1, LinkedLen
<1>2. ASSUME NEW j \in 1..Len(t), t[j].type = DATA
      PROVE  \E i \in 1..j : Opening(t[i]) /\ j <= i + 1 + t[i].len
                             /\ \A k \in 1..Len(t) : Opening(t[k]) => k = i
  <2>1. PICK i \in 1..(j + 1) : /\ Opening(s[i]) /\ j + 1 <= i + 1 + s[i].len
                                /\ \A k \in 1..Len(s) : Opening(s[k]) => k = i
    BY <1>1, <1>2 DEF OneAnswer
  <2>2. i # 1
    BY <2>1 DEF Opening
  <2>3. i - 1 \in 1..j /\ i - 1 \in 1..Len(t) /\ (i - 1) + 1 = i
    BY <2>1, <2>2
  <2>4. t[i - 1] = s[i] /\ s[i].len \in Nat
    BY <1>1, <2>3
  <2>5. j <= (i - 1) + 1 + t[i - 1].len
    BY <2>1, <2>4
  <2>6. ASSUME NEW k \in 1..Len(t), Opening(t[k]) PROVE k = i - 1
    <3>1. k + 1 = i
      BY <1>1, <2>1, <2>6
    <3> QED BY <2>1, <3>1
  <2> QED BY <2>1, <2>3, <2>4, <2>5, <2>6
<1> QED BY <1>2 DEF OneAnswer

LEMMA OneAnswerPrefix ==
  ASSUME NEW s, NEW t, IsPrefix(t, s), OneAnswer(s)
  PROVE  OneAnswer(t)
<1> USE DEF IsPrefix
<1>1. ASSUME NEW j \in 1..Len(t) PROVE j \in 1..Len(s) /\ t[j] = s[j]
  OBVIOUS
<1>2. ASSUME NEW j \in 1..Len(t), t[j].type = DATA
      PROVE  \E i \in 1..j : Opening(t[i]) /\ j <= i + 1 + t[i].len
                             /\ \A k \in 1..Len(t) : Opening(t[k]) => k = i
  <2>1. PICK i \in 1..j : /\ Opening(s[i]) /\ j <= i + 1 + s[i].len
                          /\ \A k \in 1..Len(s) : Opening(s[k]) => k = i
    BY <1>1, <1>2 DEF OneAnswer
  <2>2. i \in 1..Len(t) /\ t[i] = s[i]
    BY <2>1
  <2>3. \A k \in 1..Len(t) : Opening(t[k]) => k = i
    BY <1>1, <2>1
  <2> QED BY <2>1, <2>2, <2>3
<1> QED BY <1>2 DEF OneAnswer

(* A tickle changes no answer, and an answer is the only one.              *)
LEMMA OneAnswerTickled ==
  ASSUME NEW c, NEW s, NEW p, IsJoin(c, s, p), OneAnswer(s),
         \A i \in 1..Len(p) : p[i].type # DATA
  PROVE  OneAnswer(c)
<1>1. ASSUME NEW j \in 1..Len(c), c[j].type = DATA
      PROVE  \E i \in 1..j : Opening(c[i]) /\ j <= i + 1 + c[i].len
                             /\ \A k \in 1..Len(c) : Opening(c[k]) => k = i
  <2>1. j \in 1..Len(s) /\ c[j] = s[j]
    <3>1. IsJoin(c, s, p) /\ j \in 1..Len(c) /\ \A h \in 1..Len(p) : p[h].type # DATA
      BY <1>1
    <3>2. \/ j \in 1..Len(s) /\ c[j] = s[j]
          \/ \E m \in 1..Len(p) : j = Len(s) + m /\ c[j] = p[m]
      BY ONLY <3>1, InJoin
    <3> QED BY ONLY <1>1, <3>1, <3>2
  <2>2. PICK i \in 1..j : /\ Opening(s[i]) /\ j <= i + 1 + s[i].len
                          /\ \A k \in 1..Len(s) : Opening(s[k]) => k = i
    BY <1>1, <2>1 DEF OneAnswer
  <2>3. c[i] = s[i]
    BY <2>1, <2>2 DEF IsJoin
  <2>4. ASSUME NEW k \in 1..Len(c), Opening(c[k]) PROVE k = i
    <3>1. c[k].type = DATA
      BY <2>4 DEF Opening
    <3>2. k \in 1..Len(s) /\ c[k] = s[k]
      <4>1. IsJoin(c, s, p) /\ k \in 1..Len(c) /\ \A h \in 1..Len(p) : p[h].type # DATA
        BY <2>4
      <4>2. \/ k \in 1..Len(s) /\ c[k] = s[k]
            \/ \E m \in 1..Len(p) : k = Len(s) + m /\ c[k] = p[m]
        BY ONLY <4>1, InJoin
      <4> QED BY ONLY <3>1, <4>1, <4>2
    <3> QED BY <2>2, <2>4, <3>2
  <2> QED BY <2>2, <2>3, <2>4
<1> QED BY <1>1 DEF OneAnswer

LEMMA OneAnswerGiven ==
  ASSUME NEW c, NEW s, NEW p, IsJoin(c, s, p), \A i \in 1..Len(s) : s[i].type # DATA,
         Len(p) > 0, Opening(p[1]), p[1].len \in Nat, Len(p) = p[1].len + 2,
         \A i \in 1..Len(p) : p[i].part = "first" => i = 1
  PROVE  OneAnswer(c)
<1>0. Len(s) \in Nat /\ Len(p) \in Nat /\ 1 \in 1..Len(p) /\ c[Len(s) + 1] = p[1]
  BY DEF IsJoin
<1>1. ASSUME NEW k \in 1..Len(c), Opening(c[k]) PROVE k = Len(s) + 1
  <2>1. c[k].type = DATA /\ c[k].part = "first"
    BY <1>1 DEF Opening
  <2>2. \/ k \in 1..Len(s) /\ c[k] = s[k]
        \/ \E m \in 1..Len(p) : k = Len(s) + m /\ c[k] = p[m]
    <3>1. IsJoin(c, s, p) /\ k \in 1..Len(c)
      BY <1>1
    <3> QED BY ONLY <3>1, InJoin
  <2>3. PICK m \in 1..Len(p) : k = Len(s) + m /\ c[k] = p[m]
    BY <2>1, <2>2
  <2> QED BY <2>1, <2>3
<1>2. ASSUME NEW j \in 1..Len(c), c[j].type = DATA
      PROVE  \E i \in 1..j : Opening(c[i]) /\ j <= i + 1 + c[i].len
                             /\ \A k \in 1..Len(c) : Opening(c[k]) => k = i
  <2>1. PICK m \in 1..Len(p) : j = Len(s) + m /\ c[j] = p[m]
    <3>1. /\ IsJoin(c, s, p) /\ j \in 1..Len(c) /\ c[j].type = DATA
          /\ \A i \in 1..Len(s) : s[i].type # DATA
      BY <1>2
    <3>2. \/ j \in 1..Len(s) /\ c[j] = s[j]
          \/ \E m \in 1..Len(p) : j = Len(s) + m /\ c[j] = p[m]
      BY ONLY <3>1, InJoin
    <3> QED BY ONLY <3>1, <3>2
  <2>2. Len(s) + 1 \in 1..j /\ j <= (Len(s) + 1) + 1 + p[1].len
    <3>1. p[1].len \in Nat /\ Len(p) = p[1].len + 2 /\ m \in 1..Len(p) /\ j = Len(s) + m
      BY <2>1
    <3> QED BY ONLY <1>0, <3>1
  <2> QED BY <1>0, <1>1, <2>2
<1> QED BY <1>2 DEF OneAnswer

LEMMA StaysHeadless ==
  ASSUME Headless, pc # "detect",
         UNCHANGED <<op, todo, toHost, eof>>, inst' = inst, rx' = NothingRead
  PROVE  Headless'
BY DEF Headless, FirstPiece, FirstMore

(* The line changes in other ways only in these.                           *)
LEMMA QuietStep ==
  ASSUME Control, SentTypes, Greeting, Aligned \/ Headless, [Next]_vars,
         NetTx \/ WriteChunk \/ Tickle \/ DevReads \/ NetRx \/ UNCHANGED vars
  PROVE  Aligned' \/ Headless'
<1>1. UNCHANGED <<toHost, rx, eof>>
  BY DEF NetTx, WriteChunk, Tickle, DevReads, NetRx, vars, netVars, devVars, Control
<1>2. CASE Aligned
  BY <1>1, <1>2, StaysAligned
<1>3. CASE Headless
  <2>1. todo = Plan /\ Len(Plan) = 5 /\ rx = NothingRead
    BY <1>3 DEF Headless, Plan
  <2>2. toDev = <<>> /\ conn = "LISTEN"
    BY <2>1 DEF Greeting
  <2>3. ~(NetTx \/ WriteChunk)
    <3>1. pc \in {"tx", "body"} => Len(todo) \in {2, 4}
      BY DEF Control
    <3>2. pc \notin {"tx", "body"}
      <4> HIDE DEF Plan
      <4> QED BY <2>1, <3>1
    <3> QED BY <3>2 DEF NetTx, WriteChunk
  <2>4. ~(Tickle \/ DevReads)
    BY <2>2 DEF Tickle, DevReads
  <2>5. CASE NetRx
    BY <1>1, <1>3, <2>1, <2>5, StaysHeadless DEF NetRx
  <2>6. CASE UNCHANGED vars
    BY <1>3, <2>6 DEF vars, progress, netVars, devVars, Headless, FirstPiece, FirstMore
  <2> QED BY <2>3, <2>4, <2>5, <2>6
<1> QED BY <1>2, <1>3

(* The first packet is found.                                              *)
LEMMA FirstFound ==
  ASSUME Control, SentTypes, Greeting, Aligned \/ Headless, Detect \/ Skip
  PROVE  Aligned' \/ Headless'
<1>1. /\ pc = "detect" /\ op = "handshake" /\ todo = Plan /\ rx = NothingRead
      /\ UNCHANGED <<op, todo, rx, inst, eof>>
  BY DEF Detect, Skip, Control, netVars, devVars, progress
<1>2. ~eof /\ \A i \in 1..Len(toHost) : toHost[i].type = DATA
  BY <1>1 DEF Greeting
<1>3. CASE Aligned
  <2>1. ASSUME toHost # <<>> PROVE Detected
    <3>1. Linked(toHost) /\ Whole(toHost) /\ toHost[1].part = "first"
      BY <1>1, <1>2, <1>3, <2>1 DEF Aligned, NothingRead
    <3>2. Len(toHost) \in Nat \ {0}
      BY <2>1, LenProperties, EmptySeq DEF SentTypes, HostTypes
    <3>3. 1 \in 1..Len(toHost)
      BY <3>2
    <3>4. 1 < Len(toHost)
      BY <3>1, <3>3 DEF Whole
    <3>5. Follows(toHost[1], toHost[1 + 1]) /\ toHost[1].len \in Nat \ {0}
      BY <1>2, <3>1, <3>3, <3>4 DEF Linked
    <3>6. 2 \in 1..Len(toHost) /\ toHost[2].part = "more" /\ toHost[2].len \in Nat \ {0}
      BY <3>2, <3>4, <3>5 DEF Follows
    <3>7. 2 + toHost[2].len <= Len(toHost)
      BY <3>1, <3>6 DEF Whole
    <3> QED BY <3>1, <3>2, <3>6, <3>7 DEF Detected
  <2>2. Detect
    BY <2>1 DEF Skip
  <2> QED BY <1>1, <1>3, <2>2, StaysAligned DEF Detect
<1>4. CASE Headless
  <2>1. toHost = <<FirstMore, FirstPiece, FirstPiece>> \/ toHost = <<FirstPiece, FirstPiece>>
    BY <1>2, <1>4 DEF Headless
  <2>2. CASE toHost = <<FirstMore, FirstPiece, FirstPiece>>
    <3>1. toHost[1] = FirstMore /\ FirstMore.part = "more"
      BY <2>2 DEF FirstMore, Unit
    <3>2. ~Detected
      BY <3>1 DEF Detected, IsSignature
    <3>3. toHost' = <<FirstPiece, FirstPiece>>
      BY <2>2, <3>2 DEF Detect, Skip
    <3> QED BY <1>1, <1>4, <3>3 DEF Headless, FirstPiece, FirstMore
  <2>3. CASE toHost = <<FirstPiece, FirstPiece>>
    <3>1. toHost[1] = FirstPiece /\ Len(toHost) = 2 /\ FirstPiece.part = "piece" /\ FirstPiece.of = Shake(1)
      BY <2>3 DEF FirstPiece, Unit
    <3>2. Detected
      BY <3>1 DEF Detected, IsSignature
    <3>3. toHost' = toHost
      BY <3>2 DEF Detect, Skip
    <3> QED BY <1>1, <1>4, <2>3, <3>3 DEF Headless, FirstPiece, FirstMore
  <2> QED BY <2>1, <2>2, <2>3
<1> QED BY <1>3, <1>4

(* The device adds a packet, or closes the connection.                     *)
LEMMA DevAddsInStep ==
  ASSUME Control, SentTypes, Greeting, Aligned \/ Headless, OneTurn, DevReplies \/ DevTickles
  PROVE  Aligned'
<1>1. UNCHANGED <<rx, eof>> /\ ~eof /\ rx \in Partly
  BY DEF DevReplies, DevTickles, netVars, devVars, SentTypes, HostTypes
<1>2. Aligned
  <2>1. ASSUME Headless PROVE FALSE
    <3>1. devTask = Waiting /\ conn = "LISTEN"
      BY <2>1 DEF Headless, Greeting
    <3> QED BY <3>1 DEF DevReplies, DevTickles
  <2> QED BY <2>1
<1>3. PICK type \in {DATA, TCKL}, txid \in {1, TxidWrap}, of \in Items, n \in Nat :
           /\ txid \in 0..TxidWrap
           /\ toHost' = toHost \o Packet(type, txid, of, n)
           /\ DevReplies => type = DATA /\ n # 0 /\ n <= PacketMax
           /\ DevTickles /\ ~DevReplies => type = TCKL /\ n = 0
  BY DevPacket
<1> DEFINE p == Packet(type, txid, of, n)
           c == toHost \o p
<1>4. /\ type = TCKL => n = 0
      /\ type = DATA => n # 0 /\ n <= PacketMax
      /\ type = DATA => DevReplies
  <2>1. DATA # TCKL
    BY DEF DATA, TCKL
  <2> QED BY <1>3, <2>1
<1>5. /\ Linked(p) /\ Whole(p) /\ p \in Seq(Units) /\ Len(p) = n + 2
      /\ p[1].part = "first" /\ p[1].len = n /\ p[1].type = type
      /\ \A i \in 1..Len(p) : p[i].type = type /\ p[i].of = of /\ (p[i].part = "first" => i = 1)
  <2>1. p = Packet(type, txid, of, n)
    OBVIOUS
  <2> HIDE DEF p
  <2> QED BY ONLY <1>3, <1>4, <2>1, PacketLinked
<1> HIDE DEF p
<1>6. IsJoin(c, toHost, p)
  <2>1. toHost \in Seq(Units) /\ p \in Seq(Units)
    BY <1>5 DEF SentTypes, HostTypes
  <2>2. /\ toHost \o p \in Seq(Units) /\ Len(toHost \o p) = Len(toHost) + Len(p)
        /\ Len(toHost) \in Nat /\ Len(p) \in Nat
        /\ \A i \in 1..Len(toHost) : (toHost \o p)[i] = toHost[i]
        /\ \A i \in 1..Len(p) : (toHost \o p)[Len(toHost) + i] = p[i]
    BY ONLY <2>1, Joined
  <2> QED BY <2>2 DEF IsJoin
<1> DEFINE s == toHost
<1>7. toHost' = c
  BY <1>3 DEF p
<1> HIDE DEF c
<1>8. Linked(s) /\ Whole(s)
  BY <1>1, <1>2 DEF Aligned
<1> HIDE DEF s
<1>9. Linked(c) /\ Whole(c)
  <2>1. Len(p) > 0 /\ IsJoin(c, s, p)
    BY <1>5, <1>6 DEF s
  <2> QED BY <1>5, <1>8, <2>1, LinkedJoin
<1>10. Len(c) > 0 /\ Len(s) \in Nat /\ (s = <<>> => Len(s) = 0) /\ (c = <<>> => Len(c) = 0)
       /\ Len(c) = Len(s) + Len(p) /\ Len(p) > 0
  BY <1>5, <1>6 DEF IsJoin, s
<1>11. DevReplies => /\ \A i \in 1..Len(s) : s[i].type # DATA
                     /\ ~Receiving
  BY DEF OneTurn, Tasked, Answered, s, DevReplies
<1>12. ASSUME OneAnswer(s) PROVE OneAnswer(c)
  <2>1. IsJoin(c, s, p)
    BY <1>6 DEF s
  <2>2. CASE type = DATA
    <3>1. Opening(p[1])
      BY <1>5, <2>2 DEF Opening
    <3>2. p[1].len \in Nat /\ Len(p) = p[1].len + 2
      BY <1>5
    <3> QED BY <1>4, <1>5, <1>10, <1>11, <2>1, <2>2, <3>1, <3>2, OneAnswerGiven
  <2>3. CASE type # DATA
    BY <1>5, <1>12, <2>1, <2>3, OneAnswerTickled
  <2> QED BY <2>2, <2>3
<1>13. c[1] = IF s = <<>> THEN p[1] ELSE s[1]
  <2>1. IsJoin(c, s, p)
    BY <1>6 DEF s
  <2>2. CASE s = <<>>
    <3>1. 1 \in 1..Len(p) /\ Len(s) + 1 = 1
      BY <1>10, <2>2
    <3> QED BY <2>1, <2>2, <3>1 DEF IsJoin
  <2>3. CASE s # <<>>
    <3>1. s \in Seq(Units)
      BY DEF s, SentTypes, HostTypes
    <3>2. 1 \in 1..Len(s)
      BY <2>3, <3>1, EmptySeq, LenProperties
    <3> QED BY <2>1, <2>3, <3>2 DEF IsJoin
  <2> QED BY <2>2, <2>3
<1>14. CASE rx.have = 0
  <2>1. OneAnswer(s) /\ (s # <<>> => s[1].part = "first") /\ rx.got = <<>>
    BY <1>2, <1>14 DEF Aligned, s
  <2> QED BY <1>1, <1>5, <1>7, <1>9, <1>12, <1>13, <1>14, <2>1, Aligned0
<1>15. CASE rx.have = 1
  <2>1. /\ rx.hdr.part = "first" /\ rx.hdr.type \in {DATA, TCKL} /\ rx.got = <<>>
        /\ rx.hdr.type = TCKL => rx.hdr.len = 0 /\ OneAnswer(s)
        /\ rx.hdr.type = DATA => \A i \in 1..Len(s) : s[i].type = DATA => i <= 1 + rx.hdr.len
        /\ s # <<>> /\ Follows(rx.hdr, s[1])
    BY <1>1, <1>2, <1>15 DEF Aligned, s
  <2>2. ASSUME rx.hdr.type = DATA, NEW i \in 1..Len(c), c[i].type = DATA PROVE i <= 1 + rx.hdr.len
    <3>1. type # DATA
      BY <1>4, <1>11, <1>15, <2>2 DEF Receiving
    <3>2. IsJoin(c, s, p)
      BY <1>6 DEF s
    <3>3. \/ i \in 1..Len(s) /\ c[i] = s[i]
          \/ \E j \in 1..Len(p) : i = Len(s) + j /\ c[i] = p[j]
      BY <3>2, InJoin
    <3>4. i \in 1..Len(s) /\ c[i] = s[i]
      BY <1>5, <2>2, <3>1, <3>3
    <3> QED BY <2>1, <2>2, <3>4
  <2>3. c # <<>> /\ Follows(rx.hdr, c[1])
    BY <1>10, <1>13, <2>1
  <2> QED BY <1>1, <1>7, <1>9, <1>12, <1>15, <2>1, <2>2, <2>3, Aligned1
<1>16. CASE rx.have = 2
  <2> DEFINE m == rx.hdr.len - Len(rx.got)
  <2>1. m = Expected
    BY <1>16 DEF Expected
  <2>2. /\ rx.hdr.type = DATA /\ rx.hdr.len \in Nat \ {0} /\ Len(rx.got) <= rx.hdr.len
        /\ \A i \in 1..Len(rx.got) : PieceOf(rx.hdr, rx.got[i])
        /\ \A i \in 1..Len(s) : i <= m => PieceOf(rx.hdr, s[i])
        /\ \A i \in 1..Len(s) : s[i].type = DATA => i <= m
        /\ m < Len(s) => s[m + 1].part = "first"
        /\ m <= Len(s)
    BY <1>1, <1>2, <1>16, <2>1 DEF Aligned, s
  <2>3. type # DATA
    BY <1>4, <1>11, <1>16, <2>2 DEF Receiving
  <2>4. m \in Nat
    <3>1. Len(rx.got) \in Nat
      BY <1>1, LenProperties DEF Partly
    <3> QED BY <2>2, <3>1
  <2> HIDE DEF m
  <2>5. ASSUME NEW i \in 1..Len(c), i <= m PROVE PieceOf(rx.hdr, c[i])
    <3>1. i \in 1..Len(s)
      BY <1>10, <2>2, <2>4, <2>5
    <3>2. c[i] = s[i]
      BY <1>6, <3>1 DEF IsJoin, s
    <3> QED BY <2>2, <2>5, <3>1, <3>2
  <2>6. ASSUME NEW i \in 1..Len(c), c[i].type = DATA PROVE i <= m
    <3>1. IsJoin(c, s, p)
      BY <1>6 DEF s
    <3>2. \/ i \in 1..Len(s) /\ c[i] = s[i]
          \/ \E j \in 1..Len(p) : i = Len(s) + j /\ c[i] = p[j]
      BY <3>1, InJoin
    <3>3. i \in 1..Len(s) /\ c[i] = s[i]
      BY <1>5, <2>3, <2>6, <3>2
    <3> QED BY <2>2, <2>6, <3>3
  <2>7. c[m + 1].part = "first"
    <3>1. IsJoin(c, s, p)
      BY <1>6 DEF s
    <3>2. CASE m < Len(s)
      <4>1. m + 1 \in 1..Len(s)
        BY <1>10, <2>4, <3>2
      <4> QED BY <2>2, <3>1, <3>2, <4>1 DEF IsJoin
    <3>3. CASE m = Len(s)
      <4>1. 1 \in 1..Len(p)
        BY <1>5
      <4> QED BY <1>5, <3>1, <3>3, <4>1 DEF IsJoin
    <3> QED BY <1>10, <2>2, <2>4, <3>2, <3>3
  <2>8. m <= Len(c)
    BY <1>10, <2>2, <2>4
  <2>9. m = rx.hdr.len - Len(rx.got)
    BY DEF m
  <2> QED BY <1>1, <1>7, <1>9, <1>16, <2>2, <2>5, <2>6, <2>7, <2>8, <2>9, Aligned2
<1>17. rx.have \in 0..2
  BY <1>1 DEF Partly
<1> QED BY <1>14, <1>15, <1>16, <1>17

LEMMA DevClosesInStep ==
  ASSUME Control, SentTypes, Aligned \/ Headless, DevCloses
  PROVE  Aligned' \/ Headless'
<1>1. /\ UNCHANGED <<rx, pc, op, todo, inst>> /\ ~eof /\ eof' = TRUE /\ pc # "detect"
      /\ rx \in Partly
  BY DEF DevCloses, netVars, progress, SentTypes, HostTypes
<1>2. PICK k \in 0..Len(toHost) : toHost' = SubSeq(toHost, 1, k)
  BY DEF DevCloses
<1> DEFINE t == SubSeq(toHost, 1, k)
<1>3. IsPrefix(t, toHost) /\ t \in Seq(Units) /\ Len(t) = k
  <2>1. toHost \in Seq(Units) /\ Len(toHost) \in Nat
    BY LenProperties DEF SentTypes, HostTypes
  <2>2. /\ SubSeq(toHost, 1, k) \in Seq(Units) /\ Len(SubSeq(toHost, 1, k)) = k
        /\ \A i \in 1..k : SubSeq(toHost, 1, k)[i] = toHost[i]
    BY ONLY <1>2, <2>1, Prefix
  <2> QED BY <1>2, <2>1, <2>2 DEF IsPrefix
<1>4. CASE Headless
  <2>1. toHost = <<FirstPiece, FirstPiece>>
    BY <1>1, <1>4 DEF Headless
  <2>2. Len(toHost) = 2 /\ toHost[1] = FirstPiece
    BY <2>1
  <2>3. k \in {0, 1, 2}
    BY <1>2, <2>2
  <2>4. toHost' \in {<<>>, <<FirstPiece>>, <<FirstPiece, FirstPiece>>}
    <3>1. CASE k = 0
      <4>1. t = <<>>
        BY <1>3, <3>1, EmptySeq
      <4> QED BY <1>2, <4>1
    <3>0. /\ t \in Seq(Units) /\ Len(t) = k /\ FirstPiece \in Units
          /\ \A i \in 1..Len(t) : t[i] = FirstPiece
      <4>1. \A i \in 1..2 : toHost[i] = FirstPiece
        BY <2>1
      <4>2. toHost \in Seq(Units)
        BY DEF SentTypes, HostTypes
      <4>3. FirstPiece \in Units
        BY <2>2, <4>2, LenProperties
      <4> HIDE DEF t
      <4> QED BY <1>3, <2>2, <2>3, <4>1, <4>3 DEF IsPrefix
    <3> HIDE DEF t
    <3>2. CASE k = 1
      <4>1. <<FirstPiece>> \in Seq(Units) /\ Len(<<FirstPiece>>) = 1 /\ <<FirstPiece>>[1] = FirstPiece
        BY <3>0
      <4>2. \A i \in 1..Len(t) : t[i] = <<FirstPiece>>[i]
        BY <3>0, <3>2, <4>1
      <4>3. t = <<FirstPiece>>
        BY <3>0, <3>2, <4>1, <4>2, SeqEqual
      <4> QED BY <1>2, <4>3 DEF t
    <3>3. CASE k = 2
      <4>1. /\ <<FirstPiece, FirstPiece>> \in Seq(Units) /\ Len(<<FirstPiece, FirstPiece>>) = 2
            /\ \A i \in 1..2 : <<FirstPiece, FirstPiece>>[i] = FirstPiece
        BY <3>0
      <4>2. \A i \in 1..Len(t) : t[i] = <<FirstPiece, FirstPiece>>[i]
        BY <3>0, <3>3, <4>1
      <4>3. t = <<FirstPiece, FirstPiece>>
        BY <3>0, <3>3, <4>1, <4>2, SeqEqual
      <4> QED BY <1>2, <4>3 DEF t
    <3> QED BY <2>3, <3>1, <3>2, <3>3
  <2> QED BY <1>1, <1>4, <2>4 DEF Headless, FirstPiece, FirstMore
<1>5. CASE Aligned
  <2> DEFINE s == toHost
  <2>1. toHost' = t /\ IsPrefix(t, s) /\ Linked(s)
    BY <1>2, <1>3, <1>5 DEF Aligned
  <2> HIDE DEF t, s
  <2>2. Linked(t)
    BY <2>1, LinkedPrefix
  <2>3. \A i \in 1..Len(t) : i \in 1..Len(s) /\ t[i] = s[i]
    BY <2>1 DEF IsPrefix
  <2>4. t # <<>> => s # <<>> /\ t[1] = s[1]
    <3>1. ASSUME t # <<>> PROVE s # <<>> /\ t[1] = s[1]
      <4>1. 1 \in 1..Len(t)
        BY <1>3, <3>1, EmptySeq, LenProperties
      <4>2. 1 \in 1..Len(s) /\ t[1] = s[1]
        BY <2>3, <4>1
      <4>3. s # <<>>
        <5>1. CASE s = <<>>
          <6>1. Len(s) = 0
            BY <5>1
          <6> QED BY <4>2, <6>1
        <5> QED BY <5>1
      <4> QED BY <4>2, <4>3
    <3> QED BY <3>1
  <2>5. CASE rx.have = 0
    <3>1. OneAnswer(s) /\ (s # <<>> => s[1].part = "first") /\ rx.got = <<>>
      BY <1>5, <2>5 DEF Aligned, s
    <3>2. OneAnswer(t)
      BY <2>1, <3>1, OneAnswerPrefix
    <3> QED BY <1>1, <2>1, <2>2, <2>4, <2>5, <3>1, <3>2, Aligned0
  <2>6. CASE rx.have = 1
    <3>1. /\ rx.hdr.part = "first" /\ rx.hdr.type \in {DATA, TCKL} /\ rx.got = <<>>
          /\ rx.hdr.type = TCKL => rx.hdr.len = 0 /\ OneAnswer(s)
          /\ rx.hdr.type = DATA => \A i \in 1..Len(s) : s[i].type = DATA => i <= 1 + rx.hdr.len
          /\ s # <<>> => Follows(rx.hdr, s[1])
      BY <1>5, <2>6 DEF Aligned, s
    <3>2. OneAnswer(s) => OneAnswer(t)
      BY <2>1, OneAnswerPrefix
    <3>3. rx.hdr.type = DATA => \A i \in 1..Len(t) : t[i].type = DATA => i <= 1 + rx.hdr.len
      BY <2>3, <3>1
    <3> QED BY <1>1, <2>1, <2>2, <2>4, <2>6, <3>1, <3>2, <3>3, Aligned1
  <2>7. CASE rx.have = 2
    <3> DEFINE m == rx.hdr.len - Len(rx.got)
    <3>1. m = Expected
      BY <2>7 DEF Expected
    <3>2. /\ rx.hdr.type = DATA /\ rx.hdr.len \in Nat \ {0} /\ Len(rx.got) <= rx.hdr.len
          /\ \A i \in 1..Len(rx.got) : PieceOf(rx.hdr, rx.got[i])
          /\ \A i \in 1..Len(s) : i <= m => PieceOf(rx.hdr, s[i])
          /\ \A i \in 1..Len(s) : s[i].type = DATA => i <= m
          /\ m < Len(s) => s[m + 1].part = "first"
      BY <1>5, <2>7, <3>1 DEF Aligned, s
    <3>3. m \in Nat
      <4>1. Len(rx.got) \in Nat
        BY <1>1, LenProperties DEF Partly
      <4> QED BY <3>2, <4>1
    <3> HIDE DEF m
    <3>4. ASSUME m < Len(t) PROVE t[m + 1].part = "first"
      <4>1. m + 1 \in 1..Len(t) /\ m < Len(s)
        BY <2>1, <3>3, <3>4 DEF IsPrefix
      <4> QED BY <2>3, <3>2, <4>1
    <3>5. m = rx.hdr.len - Len(rx.got)
      BY DEF m
    <3>6. /\ \A i \in 1..Len(t) : i <= m => PieceOf(rx.hdr, t[i])
          /\ \A i \in 1..Len(t) : t[i].type = DATA => i <= m
      BY <2>3, <3>2
    <3> QED BY <1>1, <2>1, <2>2, <2>7, <3>2, <3>4, <3>5, <3>6, Aligned2
  <2>8. rx.have \in 0..2
    BY <1>1 DEF Partly
  <2> QED BY <2>5, <2>6, <2>7, <2>8
<1> QED BY <1>4, <1>5

(* The host takes a unit of the line.                                      *)
LEMMA TailLine ==
  ASSUME HostTypes, NEW u \in Arrived
  PROVE  /\ IsSuffix(Tail(toHost), toHost, 1) /\ Tail(toHost) \in Seq(Units)
         /\ u = toHost[1] /\ u \in Units /\ 1 \in 1..Len(toHost) /\ toHost # <<>>
         /\ Len(toHost) \in Nat /\ Len(Tail(toHost)) = Len(toHost) - 1
         /\ \A i \in 1..Len(Tail(toHost)) : i + 1 \in 1..Len(toHost) /\ Tail(toHost)[i] = toHost[i + 1]
         /\ Tail(toHost) # <<>> => /\ 1 < Len(toHost) /\ 1 + 1 \in 1..Len(toHost)
                                   /\ Tail(toHost)[1] = toHost[1 + 1]
         /\ Tail(toHost) = <<>> => Len(toHost) = 1
<1> DEFINE t == Tail(toHost)
<1>1. /\ toHost # <<>> /\ u = toHost[1] /\ u \in Units
      /\ Len(toHost) \in Nat \ {0}
      /\ t \in Seq(Units) /\ Len(t) = Len(toHost) - 1
      /\ \A i \in 1..(Len(toHost) - 1) : t[i] = toHost[i + 1]
  BY ArrivedUnit
<1> HIDE DEF t
<1>2. ASSUME NEW i \in 1..Len(t) PROVE i + 1 \in 1..Len(toHost) /\ t[i] = toHost[i + 1]
  <2>1. i + 1 \in 1..Len(toHost) /\ i \in 1..(Len(toHost) - 1)
    BY <1>1
  <2> QED BY <1>1, <2>1
<1>3. t # <<>> => 1 < Len(toHost) /\ 1 + 1 \in 1..Len(toHost) /\ t[1] = toHost[1 + 1]
  <2>1. ASSUME t # <<>> PROVE 1 \in 1..Len(t)
    BY <1>1, <2>1, EmptySeq, LenProperties
  <2> QED BY <1>1, <1>2, <2>1
<1>4. t = <<>> => Len(toHost) = 1
  <2>1. t = <<>> => Len(t) = 0
    OBVIOUS
  <2> QED BY <1>1, <2>1
<1>5. IsSuffix(t, toHost, 1)
  BY <1>1, <1>2 DEF IsSuffix
<1>6. t = Tail(toHost)
  BY DEF t
<1>7. 1 \in 1..Len(toHost) /\ Len(toHost) \in Nat
  BY <1>1
<1> QED BY <1>1, <1>2, <1>3, <1>4, <1>5, <1>6, <1>7

LEMMA ReadFirstInStep ==
  ASSUME Control, SentTypes, Aligned \/ Headless, ReadFirst
  PROVE  Aligned'
<1>1. rx \in Partly /\ UNCHANGED eof
  BY DEF ReadFirst, devVars, SentTypes, HostTypes
<1>2. PICK u \in Arrived :
        /\ rx.have = 0 /\ toHost' = Tail(toHost)
        /\ rx' = IF inst[cur].txid = 0 /\ IsSignature(u)
            THEN [rx EXCEPT !.have = 2, !.hdr = Unit("first", DATA, 1, Shake(1), 1)]
            ELSE [rx EXCEPT !.have = 1, !.hdr = u]
  BY DEF ReadFirst
<1> DEFINE s == toHost
           t == Tail(toHost)
<1>3. /\ IsSuffix(t, s, 1) /\ t \in Seq(Units)
      /\ u = s[1] /\ u \in Units /\ 1 \in 1..Len(s)
      /\ Len(s) \in Nat /\ Len(t) = Len(s) - 1
      /\ \A i \in 1..Len(t) : i + 1 \in 1..Len(s) /\ t[i] = s[i + 1]
      /\ t # <<>> => 1 < Len(s) /\ 1 + 1 \in 1..Len(s) /\ t[1] = s[1 + 1]
      /\ t = <<>> => Len(s) = 1
  BY TailLine DEF SentTypes
<1>4. CASE Headless
  <2>1. u = FirstPiece /\ (toHost = <<FirstPiece, FirstPiece>> \/ (eof /\ toHost = <<FirstPiece>>))
    BY <1>4, HeadlessRead
  <2>2. inst[cur].txid = 0 /\ rx = NothingRead
    <3>1. op = "handshake" /\ todo # <<>> /\ inst["cmd"].txid = 0 /\ rx = NothingRead
      BY <1>4 DEF Headless, Plan
    <3> QED BY <3>1 DEF Control
  <2>3. IsSignature(u)
    BY <2>1 DEF IsSignature, FirstPiece, Unit
  <2> DEFINE h == Unit("first", DATA, 1, Shake(1), 1)
  <2>4. rx' = [rx EXCEPT !.have = 2, !.hdr = h]
    BY <1>2, <2>2, <2>3
  <2>5. rx'.have = 2 /\ rx'.hdr = h /\ rx'.got = <<>>
    BY <1>1, <2>2, <2>4 DEF Partly, NothingRead
  <2>6. /\ Len(t) \in {0, 1} /\ (~eof => Len(t) = 1)
        /\ \A i \in 1..Len(t) : t[i] = FirstPiece /\ i = 1
    <3>1. Len(s) \in {1, 2} /\ (~eof => Len(s) = 2) /\ \A i \in 1..Len(s) : s[i] = FirstPiece
      BY <2>1
    <3>2. Len(t) \in {0, 1} /\ (~eof => Len(t) = 1)
      BY <1>3, <3>1
    <3> HIDE DEF s, t
    <3> QED BY <1>3, <3>1, <3>2
  <2>7. /\ FirstPiece.part = "piece" /\ FirstPiece.type = DATA /\ FirstPiece.of = Shake(1)
        /\ FirstPiece.len = 2 /\ h.type = DATA /\ h.of = Shake(1) /\ h.len = 1
    BY DEF FirstPiece, Unit
  <2>8. toHost' = t /\ 2 <= PacketMax /\ DATA # TCKL
    BY <1>2, NetAssumption DEF DATA, TCKL
  <2> HIDE DEF t, h
  <2>9. Linked(t)
    BY <2>6, <2>7, <2>8 DEF Linked
  <2>10. Whole(t)
    BY <2>6, <2>7 DEF Whole
  <2>11. PieceOf(h, FirstPiece)
    BY <2>7 DEF PieceOf
  <2>12. Len(<<>>) = 0 /\ h.len - 0 = 1 /\ h.len \in Nat \ {0} /\ 0 <= h.len
    BY <2>7
  <2>13. \A i \in 1..Len(<<>>) : PieceOf(h, <<>>[i])
    BY <2>12
  <2>14. /\ \A i \in 1..Len(t) : i <= 1 => PieceOf(h, t[i])
         /\ \A i \in 1..Len(t) : t[i].type = DATA => i <= 1
         /\ ~(1 < Len(t)) /\ (~eof' => 1 <= Len(t))
    BY <1>1, <2>6, <2>11
  <2> QED BY <2>5, <2>7, <2>8, <2>9, <2>10, <2>12, <2>13, <2>14, Aligned2
<1>5. CASE Aligned
  <2>1. u.part = "first" /\ u.type \in {DATA, TCKL}
    BY <1>2, <1>5, InHeader1
  <2>2. rx' = [rx EXCEPT !.have = 1, !.hdr = u]
    BY <1>2, <2>1 DEF IsSignature
  <2>3. Linked(s) /\ (~eof => Whole(s)) /\ OneAnswer(s) /\ rx.got = <<>>
    BY <1>2, <1>5 DEF Aligned
  <2>4. rx'.have = 1 /\ rx'.hdr = u /\ rx'.got = <<>>
    BY <1>1, <2>2, <2>3 DEF Partly
  <2>5. toHost' = t /\ eof' = eof
    BY <1>1, <1>2
  <2> HIDE DEF s, t
  <2>6. Linked(t) /\ (~eof => Whole(t))
    BY <1>3, <2>3, LinkedSuffix, WholeSuffix
  <2>7. u.type = TCKL => u.len = 0 /\ OneAnswer(t)
    <3>1. DATA # TCKL
      BY DEF DATA, TCKL
    <3> QED BY <1>3, <2>3, <3>1, OneAnswerTail DEF Linked
  <2>8. ASSUME u.type = DATA, NEW i \in 1..Len(t), t[i].type = DATA PROVE i <= 1 + u.len
    <3>1. i + 1 \in 1..Len(s) /\ s[i + 1].type = DATA /\ u.len \in Nat
      BY <1>3, <2>8 DEF Units
    <3>2. PICK j \in 1..(i + 1) : /\ Opening(s[j]) /\ i + 1 <= j + 1 + s[j].len
                                  /\ \A m \in 1..Len(s) : Opening(s[m]) => m = j
      BY <2>3, <3>1 DEF OneAnswer
    <3>3. j = 1
      BY <1>3, <2>1, <2>8, <3>2 DEF Opening
    <3> QED BY <1>3, <3>1, <3>2, <3>3
  <2>9. t # <<>> => Follows(u, t[1])
    BY <1>3, <2>1, <2>3 DEF Linked
  <2>10. ~eof => t # <<>>
    <3>1. ~eof => 1 < Len(s)
      BY <1>3, <2>1, <2>3 DEF Whole
    <3> QED BY <1>3, <3>1
  <2> QED BY <2>1, <2>4, <2>5, <2>6, <2>7, <2>8, <2>9, <2>10, Aligned1
<1> QED BY <1>4, <1>5

LEMMA ReadHeaderInStep ==
  ASSUME Control, SentTypes, Aligned \/ Headless, ReadHeader, Good'
  PROVE  Aligned'
<1>1. rx \in Partly /\ UNCHANGED eof /\ rx.have = 1
  BY DEF ReadHeader, devVars, SentTypes, HostTypes
<1>2. PICK u \in Arrived : \E h \in Header(u) : Payload(h) \/ PassOver(h) \/ BadHeader(h)
  BY DEF ReadHeader
<1>3. Aligned
  BY <1>1 DEF Headless, NothingRead
<1>4. Follows(rx.hdr, u) /\ Header(u) = {u}
  BY <1>1, <1>3, InHeader1
<1>5. Payload(u) \/ PassOver(u)
  <2>1. Payload(u) \/ PassOver(u) \/ BadHeader(u)
    BY <1>2, <1>4
  <2>2. ASSUME BadHeader(u) PROVE FALSE
    <3>1. EndsBadly /\ todo # <<>>
      BY <2>2, FailsIs, Busy DEF BadHeader, ReadHeader, Arrived
    <3> QED BY <3>1, FailureEnds
  <2> QED BY <2>1, <2>2
<1> DEFINE s == toHost
           t == Tail(toHost)
<1>6. /\ IsSuffix(t, s, 1) /\ t \in Seq(Units)
      /\ u = s[1] /\ u \in Units /\ 1 \in 1..Len(s)
      /\ Len(s) \in Nat /\ Len(t) = Len(s) - 1
      /\ \A i \in 1..Len(t) : i + 1 \in 1..Len(s) /\ t[i] = s[i + 1]
      /\ t # <<>> => 1 < Len(s) /\ 1 + 1 \in 1..Len(s) /\ t[1] = s[1 + 1]
      /\ t = <<>> => Len(s) = 1
  BY TailLine DEF SentTypes
<1>7. /\ Linked(s) /\ (~eof => Whole(s)) /\ rx.got = <<>>
      /\ rx.hdr.type = TCKL => OneAnswer(s)
      /\ rx.hdr.type = DATA => \A i \in 1..Len(s) : s[i].type = DATA => i <= 1 + rx.hdr.len
  BY <1>1, <1>3 DEF Aligned
<1>8. u.part = "more" /\ u.type = rx.hdr.type /\ u.len = rx.hdr.len
  BY <1>4 DEF Follows
<1>9. toHost' = t
  BY <1>5 DEF Payload, PassOver
<1> HIDE DEF s, t
<1>10. Linked(t) /\ (~eof => Whole(t))
  BY <1>6, <1>7, LinkedSuffix, WholeSuffix
<1>11. CASE Payload(u)
  <2>1. u.type = DATA /\ u.len \in Nat \ {0}
    BY <1>6, <1>7, <1>11 DEF Payload, Linked
  <2>2. rx'.have = 2 /\ rx'.hdr = u /\ rx'.got = <<>>
    BY <1>1, <1>7, <1>11 DEF Payload, Partly
  <2>3. ASSUME NEW i \in 1..Len(t), i <= u.len PROVE PieceOf(u, t[i])
    <3>1. 1 + i \in 1..Len(s) /\ i \in 1..u.len /\ 1 + i <= Len(s) /\ i + 1 = 1 + i
      BY <1>6, <2>1, <2>3
    <3>2. PieceOf(s[1], s[1 + i])
      BY <1>6, <1>7, <1>8, <3>1 DEF Linked
    <3> QED BY <1>6, <3>1, <3>2
  <2>4. ASSUME NEW i \in 1..Len(t), t[i].type = DATA PROVE i <= u.len
    <3>1. i + 1 <= 1 + u.len
      BY <1>6, <1>7, <1>8, <2>1, <2>4
    <3> QED BY <2>1, <3>1
  <2>5. ASSUME u.len < Len(t) PROVE t[u.len + 1].part = "first"
    <3>1. 1 + u.len < Len(s) /\ u.len + 1 \in 1..Len(t) /\ (u.len + 1) + 1 = 1 + u.len + 1
      BY <1>6, <2>1, <2>5
    <3>2. s[1 + u.len + 1].part = "first"
      BY <1>6, <1>7, <1>8, <3>1 DEF Linked
    <3> QED BY <1>6, <3>1, <3>2
  <2>6. ~eof => u.len <= Len(t)
    <3>1. ~eof => 1 + u.len <= Len(s)
      BY <1>6, <1>7, <1>8 DEF Whole
    <3> QED BY <1>6, <2>1, <3>1
  <2>7. Len(<<>>) = 0 /\ u.len = u.len - 0 /\ 0 <= u.len
    BY <2>1
  <2>8. \A i \in 1..Len(<<>>) : PieceOf(u, <<>>[i])
    BY <2>7
  <2> QED BY <1>1, <1>9, <1>10, <2>1, <2>2, <2>3, <2>4, <2>5, <2>6, <2>7, <2>8, Aligned2
<1>12. CASE PassOver(u)
  <2>1. u.type = TCKL /\ u.len = 0 /\ rx' = NothingRead
    BY <1>12 DEF PassOver, AfterTickle
  <2>2. rx'.have = 0 /\ rx'.got = <<>>
    BY <2>1 DEF NothingRead
  <2>3. OneAnswer(t)
    <3>1. DATA # TCKL
      BY DEF DATA, TCKL
    <3> QED BY <1>6, <1>7, <1>8, <2>1, <3>1, OneAnswerTail
  <2>4. ASSUME t # <<>> PROVE t[1].part = "first"
    <3>1. 1 + s[1].len < Len(s)
      BY <1>6, <2>1, <2>4
    <3>2. s[1 + s[1].len + 1].part = "first"
      BY <1>6, <1>7, <1>8, <3>1 DEF Linked
    <3>3. 1 + s[1].len + 1 = 1 + 1
      BY <1>6, <2>1
    <3> QED BY <1>6, <2>4, <3>2, <3>3
  <2> QED BY <1>1, <1>9, <1>10, <2>2, <2>3, <2>4, Aligned0
<1> QED BY <1>5, <1>11, <1>12

LEMMA ReadPayloadInStep ==
  ASSUME Control, SentTypes, Aligned \/ Headless, ReadPayload
  PROVE  Aligned'
<1>1. /\ rx \in Partly /\ UNCHANGED eof /\ rx.have = 2 /\ Len(rx.got) # rx.hdr.len
      /\ rx.got \in Seq(Units) /\ Len(rx.got) \in Nat
  BY LenProperties DEF ReadPayload, ReadsPayload, PayloadDone, devVars, SentTypes, HostTypes, Partly
<1>2. PICK u \in Arrived : toHost' = Tail(toHost) /\ rx' = [rx EXCEPT !.got = Append(@, u)]
  BY DEF ReadPayload
<1>3. Aligned
  BY <1>1 DEF Headless, NothingRead
<1> DEFINE s == toHost
           t == Tail(toHost)
           g == Append(rx.got, u)
           m == rx.hdr.len - Len(rx.got)
<1>4. /\ IsSuffix(t, s, 1) /\ t \in Seq(Units)
      /\ u = s[1] /\ u \in Units /\ 1 \in 1..Len(s)
      /\ Len(s) \in Nat /\ Len(t) = Len(s) - 1
      /\ \A i \in 1..Len(t) : i + 1 \in 1..Len(s) /\ t[i] = s[i + 1]
  BY TailLine DEF SentTypes
<1>5. m = Expected
  BY <1>1 DEF Expected
<1>6. /\ Linked(s) /\ (~eof => Whole(s))
      /\ rx.hdr.type = DATA /\ rx.hdr.len \in Nat \ {0} /\ Len(rx.got) <= rx.hdr.len
      /\ \A i \in 1..Len(rx.got) : PieceOf(rx.hdr, rx.got[i])
      /\ \A i \in 1..Len(s) : i <= m => PieceOf(rx.hdr, s[i])
      /\ \A i \in 1..Len(s) : s[i].type = DATA => i <= m
      /\ m < Len(s) => s[m + 1].part = "first"
      /\ ~eof => m <= Len(s)
  BY <1>1, <1>3, <1>5 DEF Aligned
<1>7. rx'.have = 2 /\ rx'.hdr = rx.hdr /\ rx'.got = g
  BY <1>1, <1>2 DEF Partly
<1>8. /\ Len(g) = Len(rx.got) + 1
      /\ \A i \in 1..Len(rx.got) : g[i] = rx.got[i]
      /\ g[Len(rx.got) + 1] = u
  BY <1>1, <1>4, AppendProperties
<1>9. m \in Nat \ {0} /\ m - 1 = rx.hdr.len - Len(g) /\ Len(g) <= rx.hdr.len
  <2> HIDE DEF g
  <2> QED BY <1>1, <1>6, <1>8
<1>10. toHost' = t
  BY <1>2
<1> HIDE DEF s, t, g, m
<1>11. Linked(t) /\ (~eof => Whole(t))
  BY <1>4, <1>6, LinkedSuffix, WholeSuffix
<1>12. ASSUME NEW i \in 1..Len(g) PROVE PieceOf(rx.hdr, g[i])
  <2>1. i \in 1..Len(rx.got) \/ i = Len(rx.got) + 1
    BY <1>1, <1>8
  <2>2. PieceOf(rx.hdr, u)
    BY <1>4, <1>6, <1>9
  <2> QED BY <1>6, <1>8, <2>1, <2>2
<1>13. ASSUME NEW i \in 1..Len(t), i <= m - 1 PROVE PieceOf(rx.hdr, t[i])
  <2>1. i + 1 <= m
    BY <1>9, <1>13
  <2> QED BY <1>4, <1>6, <2>1
<1>14. ASSUME NEW i \in 1..Len(t), t[i].type = DATA PROVE i <= m - 1
  <2>1. i + 1 <= m
    BY <1>4, <1>6, <1>14
  <2> QED BY <1>9, <2>1
<1>15. ASSUME m - 1 < Len(t) PROVE t[(m - 1) + 1].part = "first"
  <2>1. m < Len(s) /\ m \in 1..Len(t) /\ (m - 1) + 1 = m
    BY <1>4, <1>9, <1>15
  <2> QED BY <1>4, <1>6, <2>1
<1>16. ~eof => m - 1 <= Len(t)
  BY <1>4, <1>6, <1>9
<1> QED BY <1>1, <1>6, <1>7, <1>9, <1>10, <1>11, <1>12, <1>13, <1>14, <1>15, <1>16, Aligned2

LEMMA ReadDoneInStep ==
  ASSUME Control, SentTypes, Aligned \/ Headless, ReadDone
  PROVE  Aligned'
<1>1. Aligned /\ ~Answered /\ Len(rx.got) = rx.hdr.len /\ rx.have = 2
  BY ReadIn
<1>2. toHost' = toHost /\ rx' = NothingRead /\ UNCHANGED eof
  BY DEF ReadDone, devVars
<1>3. rx'.have = 0 /\ rx'.got = <<>>
  BY <1>2 DEF NothingRead
<1>4. /\ Linked(toHost) /\ (~eof => Whole(toHost))
      /\ Expected < Len(toHost) => toHost[Expected + 1].part = "first"
      /\ rx.hdr.len \in Nat
  BY <1>1 DEF Aligned
<1>5. Expected = 0 /\ Expected + 1 = 1
  BY <1>1, <1>4 DEF Expected
<1>6. toHost # <<>> => toHost[1].part = "first"
  <2>1. toHost # <<>> => 0 < Len(toHost)
    BY LenProperties, EmptySeq DEF SentTypes, HostTypes
  <2> QED BY <1>4, <1>5, <2>1
<1>7. OneAnswer(toHost)
  BY <1>1, NoAnswer DEF Answered
<1> QED BY <1>2, <1>3, <1>4, <1>6, <1>7, Aligned0

LEMMA NextInStep ==
  ASSUME Control, SentTypes, Closing, Greeting, InTurn, InStep, [Next]_vars
  PROVE  InStep'
<1> SUFFICES ASSUME Good' PROVE Aligned' \/ Headless'
  BY DEF InStep
<1>1. ASSUME NEW k \in Arrivals, Begin(k) \/ Close(k) PROVE Aligned'
  <2>1. /\ ~Answered' /\ rx' = NothingRead /\ toHost' = Flushed(toHost, k) /\ eof' = eof
        /\ Aligned \/ Len(toHost') = 0
    BY <1>1, BeginsQuietly
  <2> DEFINE t == Flushed(toHost, k)
  <2>2. /\ IsSuffix(t, toHost, k) /\ t \in Seq(Units)
        /\ k \in 0..Len(toHost) /\ (k < Len(toHost) => toHost[k + 1].part # "more")
    BY FlushedLine DEF SentTypes
  <2>3. rx'.have = 0 /\ rx'.got = <<>>
    BY <2>1 DEF NothingRead
  <2>4. toHost' = t
    BY <2>1
  <2> HIDE DEF t
  <2>5. \A i \in 1..Len(t) : t[i].type # DATA
    BY <2>1, <2>4 DEF Answered
  <2>6. OneAnswer(t)
    BY <2>5, NoAnswer
  <2>7. CASE Aligned
    <3>1. Linked(toHost) /\ (~eof => Whole(toHost))
      BY <2>7 DEF Aligned
    <3>2. Linked(t) /\ (~eof => Whole(t))
      BY <2>2, <3>1, LinkedSuffix, WholeSuffix
    <3>3. ASSUME t # <<>> PROVE t[1].part = "first"
      <4>1. 1 \in 1..Len(t)
        BY <2>2, <3>3, EmptySeq, LenProperties
      <4>2. t[1] = toHost[1 + k] /\ 1 + k = k + 1 /\ k < Len(toHost)
        BY <2>2, <4>1 DEF IsSuffix
      <4>3. t[1].part # "more"
        BY <2>2, <4>2
      <4>4. t[1].type = TCKL
        BY <2>5, <3>2, <4>1 DEF Linked
      <4>5. t[1].part \in {"first", "more"}
        BY <3>2, <4>1, <4>4 DEF Linked
      <4> QED BY <4>3, <4>5
    <3> QED BY <2>1, <2>3, <2>4, <2>6, <3>2, <3>3, Aligned0
  <2>8. CASE Len(t) = 0
    <3>1. Linked(t) /\ Whole(t)
      BY <2>8 DEF Linked, Whole
    <3>2. t = <<>>
      BY <2>2, <2>8, EmptySeq
    <3> QED BY <2>1, <2>3, <2>4, <2>6, <3>1, <3>2, Aligned0
  <2> QED BY <2>1, <2>4, <2>7, <2>8
<1>2. CASE ~\E k \in Arrivals : Begin(k) \/ Close(k)
  <2>1. Good
    BY <1>2, GoodBefore
  <2>2. OneTurn /\ (Aligned \/ Headless)
    BY <2>1 DEF InTurn, InStep
  <2>4. ~CloseBroken
    BY DEF CloseBroken, Good
  <2>5. ~(WriteFails \/ ReadTimesOut \/ ReadFails \/ ReadEof)
    <3> SUFFICES ASSUME WriteFails \/ ReadTimesOut \/ ReadFails \/ ReadEof PROVE FALSE
      OBVIOUS
    <3>1. todo # <<>>
      BY Busy DEF WriteFails, ReadTimesOut, ReadFails, ReadEof, EofIn
    <3>2. EndsBadly
      BY FailsIs DEF WriteFails, ReadTimesOut, ReadFails, ReadEof
    <3> QED BY <3>1, <3>2, FailureEnds
  <2>6. CASE NetTx \/ WriteChunk \/ Tickle \/ DevReads \/ NetRx \/ UNCHANGED vars
    BY <2>2, <2>6, QuietStep
  <2>7. CASE Detect \/ Skip
    BY <2>2, <2>7, FirstFound
  <2>8. CASE DevReplies \/ DevTickles
    BY <2>2, <2>8, DevAddsInStep
  <2>9. CASE DevCloses
    BY <2>2, <2>9, DevClosesInStep
  <2>10. CASE ReadFirst \/ ReadHeader \/ ReadPayload \/ ReadDone
    BY <2>2, <2>10, ReadFirstInStep, ReadHeaderInStep, ReadPayloadInStep, ReadDoneInStep
  <2> QED BY <1>2, <2>4, <2>5, <2>6, <2>7, <2>8, <2>9, <2>10
          DEF Next, Host, Reading, Device, Spin, Finished
<1> QED BY <1>1, <1>2

-----------------------------------------------------------------------------
(* What a call is given.                                                   *)
LEMMA CarriedOut ==
  ASSUME Control, SentTypes, Once, DevReads
  PROVE  \/ execs' = execs
         \/ \E c \in 1..MaxCalls : c <= call /\ execs[c] = 0 /\ execs' = [execs EXCEPT ![c] = 1]
<1>1. PICK u \in Units, d \in Partly :
           /\ Len(toDev) \in Nat \ {0} /\ u = toDev[1]
           /\ d.have > 0 /\ d.hdr.of \in Sent
           /\ dev.have = 0 => d.hdr = u
           /\ InPlace(dev, u) /\ dev.have # 0 => d.hdr.of = dev.hdr.of
           /\ DevMeets(u, d)
  BY DevTakes
<1> SUFFICES ASSUME execs' # execs
             PROVE  \E c \in 1..MaxCalls : c <= call /\ execs[c] = 0 /\ execs' = [execs EXCEPT ![c] = 1]
  OBVIOUS
<1> DEFINE c == d.hdr.of[2]
<1>2. InPlace(dev, u) /\ d.hdr.of[1] = "call" /\ execs' = [execs EXCEPT ![c] = @ + 1]
  BY <1>1 DEF DevMeets, Receive
<1>3. c \in 1..MaxCalls
  BY <1>1, <1>2, SentCall
<1>4. c <= Top /\ execs[c] = 0
  <2>1. CASE dev.have = 0
    <3>1. OfCall(toDev[1]) /\ d.hdr.of = toDev[1].of /\ 1 \in 1..Len(toDev)
      BY <1>1, <1>2, <2>1 DEF InPlace, OfCall
    <3> QED BY <3>1 DEF Once
  <2>2. CASE dev.have # 0
    <3>1. dev.have > 0 /\ dev.hdr.of = d.hdr.of
      BY <1>1, <1>2, <2>2 DEF SentTypes, DevTypes, Partly
    <3> QED BY <1>2, <3>1 DEF Once
  <2> QED BY <2>1, <2>2
<1> HIDE DEF c
<1>5. Top <= call /\ call \in Nat /\ Top \in Int
  BY NetAssumption DEF Top, SentTypes, ResultTypes
<1>6. c <= call
  BY <1>3, <1>4, <1>5
<1>7. execs[c] + 1 = 1
  BY <1>4
<1> QED BY <1>2, <1>3, <1>4, <1>6, <1>7

(* The response net_rx has read to its end while all is good.              *)
LEMMA ReadResponse ==
  ASSUME Control, SentTypes, InTurn, InStep, ReadDone, Good
  PROVE  Fits(Content(rx.got)) /\ Executed
<1>1. Current1 /\ (Aligned \/ Headless)
  BY DEF InTurn, InStep
<1>2. Aligned /\ Receiving /\ Len(rx.got) = rx.hdr.len /\ rx.have = 2
  BY <1>1, ReadIn
<1>3. Fits(rx.hdr.of) /\ Executed
  BY <1>1, <1>2 DEF Current1
<1>4. rx.hdr.len \in Nat \ {0} /\ \A i \in 1..Len(rx.got) : PieceOf(rx.hdr, rx.got[i])
  BY <1>2 DEF Aligned
<1>5. rx.got # <<>>
  <2>1. rx.got = <<>> => Len(rx.got) = 0
    OBVIOUS
  <2> QED BY <1>2, <1>4, <2>1
<1>6. 1 \in 1..Len(rx.got)
  BY <1>2, <1>4
<1>7. \A i \in 1..Len(rx.got) : rx.got[i].part = "piece" /\ rx.got[i].of = rx.hdr.of
  BY <1>4 DEF PieceOf
<1>8. Content(rx.got) = rx.hdr.of
  BY <1>5, <1>6, <1>7 DEF Content
<1> QED BY <1>3, <1>8

(* How a call may end.                                                     *)
LEMMA CallEnds ==
  ASSUME Control, SentTypes, [Next]_vars, ~\E k \in Arrivals : Begin(k)
  PROVE  \/ UNCHANGED <<call, outcome, answer, clean>>
            /\ (op = "call" /\ todo # <<>> <=> op' = "call" /\ todo' # <<>>)
         \/ UNCHANGED execs /\ EndsBadly /\ todo # <<>>
         \/ ReadDone /\ UNCHANGED execs /\ EndsWell(Content(rx.got))
<1>1. CASE NetTx \/ WriteChunk
  <2>1. pc \in {"tx", "body"} /\ todo # <<>> /\ UNCHANGED execs
    BY <1>1, Busy DEF NetTx, WriteChunk, devVars
  <2>2. CASE UNCHANGED <<op, todo, results>>
    BY <2>2 DEF results
  <2>3. CASE StepDone(Subject)
    <3>1. ~EndsWell(Subject)
      <4>1. Len(todo) \in {2, 4}
        BY <2>1 DEF Control
      <4>2. todo = <<"rx">> => Len(todo) = 1
        OBVIOUS
      <4> QED BY <4>1, <4>2 DEF EndsWell
    <3>2. GoesOnTo \/ EndsBadly
      BY <2>3, <3>1, Outcomes
    <3>3. GoesOnTo => todo' # <<>>
      BY TodoFacts DEF GoesOnTo, Control
    <3> QED BY <2>1, <3>2, <3>3 DEF GoesOnTo
  <2> QED BY <1>1, <2>2, <2>3 DEF NetTx, WriteChunk, progress
<1>2. CASE WriteFails \/ ReadTimesOut \/ ReadFails \/ ReadEof
  <2>1. todo # <<>> /\ UNCHANGED execs
    BY <1>2, Busy DEF WriteFails, ReadTimesOut, ReadFails, ReadEof, EofIn, devVars
  <2>2. EndsBadly
    BY <1>2, FailsIs DEF WriteFails, ReadTimesOut, ReadFails, ReadEof
  <2> QED BY <2>1, <2>2
<1>3. CASE ReadHeader
  <2>1. pc = "read" /\ todo # <<>> /\ UNCHANGED execs
    BY <1>3, Busy DEF ReadHeader, Arrived, devVars
  <2>2. PICK h : Payload(h) \/ PassOver(h) \/ BadHeader(h)
    BY <1>3 DEF ReadHeader
  <2>3. BadHeader(h) => EndsBadly
    BY FailsIs DEF BadHeader
  <2> QED BY <2>1, <2>2, <2>3 DEF Payload, PassOver, progress, results
<1>4. CASE ReadDone
  <2>1. pc = "read" /\ todo # <<>> /\ UNCHANGED execs
    BY <1>4, Busy DEF ReadDone, devVars
  <2>2. GoesOnTo \/ EndsBadly \/ EndsWell(Content(rx.got))
    BY <1>4, Outcomes DEF ReadDone
  <2>3. GoesOnTo => todo' # <<>>
    BY TodoFacts DEF GoesOnTo, Control
  <2> QED BY <1>4, <2>1, <2>2, <2>3 DEF GoesOnTo
<1>5. ASSUME NEW k \in Arrivals, Close(k)
      PROVE  UNCHANGED <<call, outcome, answer, clean>> /\ op' = "close" /\ todo = <<>>
  BY <1>5 DEF Close, results, Control
<1>6. CASE \/ CloseBroken \/ Detect \/ Skip \/ NetRx \/ ReadFirst \/ ReadPayload \/ Tickle \/ Device
           \/ UNCHANGED vars
  <2>1. UNCHANGED <<op, todo, call, outcome, answer, clean>>
    BY <1>6 DEF CloseBroken, Detect, Skip, NetRx, ReadFirst, ReadPayload, Tickle,
           Device, DevReads, DevReplies, DevTickles, DevCloses, vars, progress, results
  <2> QED BY <2>1
<1> QED BY <1>1, <1>2, <1>3, <1>4, <1>5, <1>6 DEF Next, Host, Reading, Spin, Finished

LEMMA NextOwnAnswer ==
  ASSUME Control, SentTypes, Once, InTurn, InStep, OwnAnswer, [Next]_vars
  PROVE  OwnAnswer'
<1> SUFFICES ASSUME outcome' = "ok", clean' \/ ~goesOn'
             PROVE  answer' = ThisCall' /\ (call' \in 1..MaxCalls => execs'[call'] = 1)
  BY DEF OwnAnswer
<1>0. goesOn' = goesOn
  BY DEF Next, Begin, Close, CloseBroken, Host, Detect, Skip, NetTx, WriteChunk, WriteFails, NetRx,
         Reading, ReadFirst, ReadHeader, ReadPayload, ReadDone, ReadEof, ReadTimesOut, ReadFails,
         Tickle, Device, DevReads, DevReplies, DevTickles, DevCloses, Spin, Finished, vars, regime
<1>1. ~\E k \in Arrivals : Begin(k)
  BY DEF Begin
<1>2. CASE UNCHANGED <<call, outcome, answer, clean>>
  <2>1. answer = ThisCall /\ (call \in 1..MaxCalls => execs[call] = 1)
    BY <1>0, <1>2 DEF OwnAnswer
  <2>2. ASSUME call \in 1..MaxCalls PROVE execs'[call] = 1
    <3>1. CASE DevReads
      <4>1. CASE execs' = execs
        BY <2>1, <2>2, <4>1
      <4>2. ASSUME NEW c \in 1..MaxCalls, execs[c] = 0, execs' = [execs EXCEPT ![c] = 1]
            PROVE  execs'[call] = 1
        BY <2>1, <2>2, <4>2 DEF SentTypes, DevTypes
      <4> QED BY <3>1, <4>1, <4>2, CarriedOut
    <3>2. CASE ~DevReads
      <4>1. execs' = execs
        BY <3>2 DEF Next, Begin, Close, CloseBroken, Host, Detect, Skip, NetTx, WriteChunk, WriteFails,
           NetRx, Reading, ReadFirst, ReadHeader, ReadPayload, ReadDone, ReadEof, ReadTimesOut,
           ReadFails, Tickle, Device, DevReplies, DevTickles, DevCloses, Spin, Finished, vars, devVars
      <4> QED BY <2>1, <2>2, <4>1
    <3> QED BY <3>1, <3>2
  <2> QED BY <1>2, <2>1, <2>2 DEF ThisCall
<1>3. CASE EndsBadly /\ UNCHANGED execs
  <2>1. op # "call" /\ UNCHANGED <<call, outcome, answer, clean>>
    BY <1>3 DEF EndsBadly
  <2> QED BY <1>2, <2>1
<1>4. CASE ReadDone /\ EndsWell(Content(rx.got)) /\ UNCHANGED execs
  <2>1. CASE op # "call"
    <3>1. UNCHANGED <<call, outcome, answer, clean>>
      BY <1>4, <2>1 DEF EndsWell
    <3> QED BY <1>2, <3>1
  <2>2. CASE op = "call"
    <3>1. /\ answer' = Content(rx.got) /\ UNCHANGED <<op, call, clean>> /\ outcome = "none"
          /\ pc = "read" /\ todo # <<>>
      BY <1>4, <2>2, Busy DEF EndsWell, Control, ReadDone
    <3>2. Good
      BY <1>0, <2>2, <3>1 DEF Good
    <3>3. Content(rx.got) = ThisCall /\ execs[call] = 1
      BY <1>4, <2>2, <3>2, ReadResponse DEF Fits, Executed
    <3> QED BY <1>4, <3>1, <3>3 DEF ThisCall
  <2> QED BY <2>1, <2>2
<1> QED BY <1>1, <1>2, <1>3, <1>4, CallEnds

-----------------------------------------------------------------------------
(* The beginning, where the first packet may have lost units.              *)
FirstPacket == Packet(DATA, 1, Shake(1), 2)

LEMMA FirstIs ==
  /\ Linked(FirstPacket) /\ Whole(FirstPacket) /\ FirstPacket \in Seq(Units)
  /\ Len(FirstPacket) = 4 /\ Opening(FirstPacket[1]) /\ FirstPacket[1].len = 2
  /\ FirstPacket[2] = FirstMore /\ FirstPacket[3] = FirstPiece /\ FirstPacket[4] = FirstPiece
  /\ \A i \in 1..Len(FirstPacket) :
       /\ FirstPacket[i].type = DATA /\ FirstPacket[i].of = Shake(1)
       /\ FirstPacket[i].part = "first" => i = 1
<1>1. /\ DATA \in {DATA, TCKL} /\ DATA \in Types /\ 1 \in 0..TxidWrap /\ Shake(1) \in Items /\ 2 \in Nat
      /\ DATA # TCKL /\ 2 # 0 /\ 2 <= PacketMax
  BY NetAssumption DEF Types, Items, DATA, TCKL
<1>2. /\ Linked(FirstPacket) /\ Whole(FirstPacket) /\ FirstPacket \in Seq(Units)
      /\ Len(FirstPacket) = 2 + 2
      /\ FirstPacket[1].part = "first" /\ FirstPacket[1].len = 2 /\ FirstPacket[1].type = DATA
      /\ \A i \in 1..Len(FirstPacket) :
           /\ FirstPacket[i].type = DATA /\ FirstPacket[i].of = Shake(1)
           /\ FirstPacket[i].part = "first" => i = 1
  <2>1. FirstPacket = Packet(DATA, 1, Shake(1), 2)
    BY DEF FirstPacket
  <2> DEFINE n == 2
             of == Shake(1)
  <2>2. /\ DATA \in {DATA, TCKL} /\ 1 \in 0..TxidWrap /\ of \in Items /\ n \in Nat
        /\ DATA = TCKL => n = 0
        /\ DATA = DATA => n # 0 /\ n <= PacketMax
        /\ FirstPacket = Packet(DATA, 1, of, n)
    BY ONLY <1>1, <2>1
  <2> HIDE DEF n, of
  <2>3. /\ Linked(FirstPacket) /\ Whole(FirstPacket) /\ FirstPacket \in Seq(Units)
        /\ Len(FirstPacket) = n + 2
        /\ FirstPacket[1].part = "first" /\ FirstPacket[1].len = n /\ FirstPacket[1].type = DATA
        /\ \A i \in 1..Len(FirstPacket) :
             FirstPacket[i].type = DATA /\ FirstPacket[i].of = of /\ (FirstPacket[i].part = "first" => i = 1)
    BY ONLY <2>2, PacketLinked
  <2> QED BY <2>3 DEF n, of
<1>3. /\ FirstPacket[2] = Unit("more", DATA, 1, Shake(1), 2)
      /\ \A i \in 3..(2 + 2) : FirstPacket[i] = Unit("piece", DATA, 1, Shake(1), 2)
  BY ONLY <1>1, PacketIs DEF FirstPacket
<1>4. 3 \in 3..(2 + 2) /\ 4 \in 3..(2 + 2)
  OBVIOUS
<1>5. FirstPacket[2] = FirstMore /\ FirstPacket[3] = FirstPiece /\ FirstPacket[4] = FirstPiece
  BY <1>3, <1>4 DEF FirstMore, FirstPiece
<1> QED BY <1>2, <1>5 DEF Opening

LEMMA InitLine ==
  ASSUME Init
  PROVE  \/ toHost = FirstPacket
         \/ toHost = <<FirstMore, FirstPiece, FirstPiece>>
         \/ toHost = <<FirstPiece, FirstPiece>>
<1>1. PICK k \in 0..2 : toHost = SubSeq(FirstPacket, k + 1, 4)
  BY DEF Init, FirstPacket
<1>2. /\ FirstPacket \in Seq(Units) /\ Len(FirstPacket) = 4
      /\ FirstPacket[2] = FirstMore /\ FirstPacket[3] = FirstPiece /\ FirstPacket[4] = FirstPiece
  BY FirstIs
<1>3. FirstMore \in Units /\ FirstPiece \in Units
  <2>1. \A i \in 1..4 : FirstPacket[i] \in Units
    BY <1>2, LenProperties
  <2>2. 2 \in 1..4 /\ 3 \in 1..4
    OBVIOUS
  <2> QED BY <1>2, <2>1, <2>2
<1>4. /\ SubSeq(FirstPacket, k + 1, Len(FirstPacket)) \in Seq(Units)
      /\ Len(SubSeq(FirstPacket, k + 1, Len(FirstPacket))) = Len(FirstPacket) - k
      /\ \A i \in 1..(Len(FirstPacket) - k) :
           SubSeq(FirstPacket, k + 1, Len(FirstPacket))[i] = FirstPacket[i + k]
  <2>1. k \in 0..Len(FirstPacket)
    BY <1>1, <1>2
  <2> QED BY ONLY <1>2, <2>1, Suffix
<1>5. /\ toHost \in Seq(Units) /\ Len(toHost) = 4 - k
      /\ \A i \in 1..(4 - k) : toHost[i] = FirstPacket[i + k]
  BY <1>1, <1>2, <1>4
<1>6. CASE k = 0
  <2>1. Len(toHost) = Len(FirstPacket) /\ \A i \in 1..Len(toHost) : toHost[i] = FirstPacket[i]
    BY <1>2, <1>5, <1>6
  <2>2. toHost = FirstPacket
    BY <1>2, <1>5, <2>1, SeqEqual
  <2> QED BY <2>2
<1>7. CASE k = 1
  <2> DEFINE q == <<FirstMore, FirstPiece, FirstPiece>>
  <2>1. q \in Seq(Units) /\ Len(q) = 3 /\ q[1] = FirstMore /\ q[2] = FirstPiece /\ q[3] = FirstPiece
    BY <1>3
  <2> HIDE DEF q
  <2>2. Len(toHost) = 3 /\ toHost[1] = q[1] /\ toHost[2] = q[2] /\ toHost[3] = q[3]
    BY <1>2, <1>5, <1>7, <2>1
  <2>3. ASSUME NEW i \in 1..Len(toHost) PROVE toHost[i] = q[i]
    <3>1. i = 1 \/ i = 2 \/ i = 3
      BY <2>2
    <3> QED BY <2>2, <3>1
  <2>4. toHost = q
    BY <1>5, <2>1, <2>2, <2>3, SeqEqual
  <2> QED BY <2>4 DEF q
<1>8. CASE k = 2
  <2> DEFINE q == <<FirstPiece, FirstPiece>>
  <2>1. q \in Seq(Units) /\ Len(q) = 2 /\ q[1] = FirstPiece /\ q[2] = FirstPiece
    BY <1>3
  <2> HIDE DEF q
  <2>2. Len(toHost) = 2 /\ toHost[1] = q[1] /\ toHost[2] = q[2]
    BY <1>2, <1>5, <1>8, <2>1
  <2>3. ASSUME NEW i \in 1..Len(toHost) PROVE toHost[i] = q[i]
    <3>1. i = 1 \/ i = 2
      BY <2>2
    <3> QED BY <2>2, <3>1
  <2>4. toHost = q
    BY <1>5, <2>1, <2>2, <2>3, SeqEqual
  <2> QED BY <2>4 DEF q
<1> QED BY <1>1, <1>6, <1>7, <1>8

LEMMA InitData ==
  ASSUME Init, NEW i \in 1..Len(toHost)
  PROVE  toHost[i].type = DATA /\ toHost[i].of = Shake(1)
<1>1. FirstMore.type = DATA /\ FirstMore.of = Shake(1) /\ FirstPiece.type = DATA /\ FirstPiece.of = Shake(1)
  BY DEF FirstMore, FirstPiece, Unit
<1>2. CASE toHost = FirstPacket
  BY <1>2, FirstIs
<1>3. CASE toHost = <<FirstMore, FirstPiece, FirstPiece>>
  <2>1. toHost[i] \in {FirstMore, FirstPiece}
    BY <1>3
  <2> QED BY <1>1, <2>1
<1>4. CASE toHost = <<FirstPiece, FirstPiece>>
  <2>1. toHost[i] = FirstPiece
    BY <1>4
  <2> QED BY <1>1, <2>1
<1> QED BY <1>2, <1>3, <1>4, InitLine

IInv ==
  /\ Control /\ SentTypes /\ Closing /\ CloseSeen /\ Once /\ Headers /\ Greeting
  /\ InTurn /\ InStep /\ OwnAnswer

LEMMA InitIInv ==
  ASSUME Init
  PROVE  IInv
<1>1. Control /\ SentTypes
  BY InitTypes
<1>2. /\ pc = "detect" /\ op = "handshake" /\ todo = Plan /\ conn = "LISTEN"
      /\ toDev = <<>> /\ out = <<>> /\ rx = NothingRead /\ dev = NothingRead /\ devTask = Waiting
      /\ eof = FALSE /\ outcome = "none" /\ call = 0 /\ execs = [k \in 1..MaxCalls |-> 0]
      /\ inst["cmd"].txid = 0
  BY DEF Init, Plan
<1>3. /\ Len(toDev) = 0 /\ Len(out) = 0 /\ Len(rx.got) = 0 /\ rx.have = 0 /\ rx.got = <<>> /\ dev.have = 0
  <2>1. rx.got = <<>> /\ rx.have = 0 /\ dev.have = 0
    BY <1>2 DEF NothingRead
  <2>2. Len(<<>>) = 0
    OBVIOUS
  <2> QED BY <1>2, <2>1, <2>2
<1>4. \A i \in 1..Len(toHost) : toHost[i].type = DATA /\ toHost[i].of = Shake(1)
  BY InitData
<1>5. CloseSeen
  <2>1. Shake(1)[1] # "close"
    BY DEF Shake
  <2> QED BY <1>2, <1>3, <1>4, <2>1 DEF CloseSeen
<1>6. Once
  BY <1>2, <1>3 DEF Once
<1>7. Headers
  BY <1>3 DEF Headers
<1>8. Greeting
  BY <1>2, <1>4 DEF Greeting
<1>9. InTurn
  <2>1. ~HostsTurn /\ ~OnItsWay /\ ~BeingRead /\ ~Tasked /\ ~Receiving
    BY <1>2, <1>3 DEF HostsTurn, OnItsWay, BeingRead, Tasked, Receiving
  <2>2. Shake(1)[1] = "handshake"
    BY DEF Shake
  <2>3. Fits(Shake(1)) /\ Executed
    BY <1>2, <2>2 DEF Fits, Executed
  <2>4. Current1
    BY <1>3, <1>4, <2>1, <2>3 DEF Current1
  <2> QED BY <1>3, <2>1, <2>4 DEF InTurn, OneTurn
<1>10. InStep
  <2>1. CASE toHost = FirstPacket
    <3>1. OneAnswer(FirstPacket)
      <4>1. ASSUME NEW j \in 1..Len(FirstPacket)
            PROVE  \E i \in 1..j : Opening(FirstPacket[i]) /\ j <= i + 1 + FirstPacket[i].len
                                   /\ \A k \in 1..Len(FirstPacket) : Opening(FirstPacket[k]) => k = i
        <5>1. 1 \in 1..j /\ j <= 1 + 1 + FirstPacket[1].len /\ Opening(FirstPacket[1])
          BY FirstIs
        <5>2. \A k \in 1..Len(FirstPacket) : Opening(FirstPacket[k]) => k = 1
          BY FirstIs DEF Opening
        <5> QED BY <5>1, <5>2
      <4> QED BY <4>1 DEF OneAnswer
    <3>2. Aligned
      BY <1>3, <2>1, <3>1, FirstIs DEF Aligned, Opening
    <3> QED BY <3>2 DEF InStep
  <2>2. CASE toHost \in {<<FirstMore, FirstPiece, FirstPiece>>, <<FirstPiece, FirstPiece>>}
    BY <1>2, <2>2 DEF InStep, Headless
  <2> QED BY <2>1, <2>2, InitLine
<1>11. OwnAnswer /\ Closing
  <2>1. op = "handshake" /\ outcome = "none" /\ used.closes = 0
    BY DEF Init
  <2> QED BY <2>1 DEF OwnAnswer, Closing
<1> QED BY <1>1, <1>5, <1>6, <1>7, <1>8, <1>9, <1>10, <1>11 DEF IInv

LEMMA Inductive == Spec => []IInv
<1>1. Init => IInv
  BY InitIInv
<1>2. IInv /\ [Next]_vars => IInv'
  <2> SUFFICES ASSUME Control, SentTypes, Closing, CloseSeen, Once, Headers, Greeting, InTurn,
                      InStep, OwnAnswer, [Next]_vars
               PROVE  IInv'
    BY DEF IInv
  <2>1. TypeOK /\ UsedTypes
    BY Typed DEF SentTypes
  <2>2. Control' /\ SentTypes'
    BY <2>1, NextControl, NextUsed, NextResults, NextInst, NextHostTypes, NextDevTypes DEF SentTypes
  <2>3. Closing' /\ CloseSeen' /\ Once' /\ Headers' /\ Greeting'
    BY NextClosing, NextCloseSeen, NextOnce, NextHeaders, NextGreeting
  <2>4. InTurn' /\ InStep' /\ OwnAnswer'
    BY NextInTurn, NextInStep, NextOwnAnswer
  <2> QED BY <2>2, <2>3, <2>4 DEF IInv
<1> QED BY <1>1, <1>2, PTL DEF Spec

-----------------------------------------------------------------------------
(* Every variable keeps its type, and the instance of NET that serves the  *)
(* calls never holds the id 0xff: net_rx, which counts it up after each    *)
(* response, wraps before it.                                              *)
THEOREM TypeCorrect == Spec => []TypeOK
<1>1. IInv => TypeOK
  BY Typed DEF IInv
<1> QED BY <1>1, Inductive, PTL

(* pi_close succeeds only when the device has ended the synchronization:   *)
(* what net_rx takes for the response to EndOfSync cannot be older bytes   *)
(* or another packet, unless dlp_exec refuses it.                          *)
THEOREM CloseHonestCorrect == Spec => []CloseHonest
<1>1. IInv => CloseHonest
  BY DEF IInv, CloseSeen, CloseHonest
<1> QED BY <1>1, Inductive, PTL

(* A call that begins with nothing under way, and succeeds, was given its  *)
(* own response by net_rx, which compares no transaction ids: the flush of *)
(* dlp_request_write leaves nothing of earlier packets on the line.        *)
THEOREM OwnResponseCorrect == Spec => []OwnResponse
<1>1. IInv => OwnResponse
  BY DEF IInv, OwnAnswer, OwnResponse, ThisCall
<1> QED BY <1>1, Inductive, PTL

-----------------------------------------------------------------------------
(* Calls over NET as calls of Rpc.                                         *)
LEMMA Unseen ==
  ASSUME UNCHANGED <<call, outcome, execs>>,
         op = "call" /\ todo # <<>> <=> op' = "call" /\ todo' # <<>>
  PROVE  UNCHANGED Abstract!vars
BY DEF Abstract!vars

LEMMA BeginAbstract ==
  ASSUME Control, SentTypes, ~goesOn, NEW k \in Arrivals, Begin(k)
  PROVE  Abstract!Begin
<1>1. /\ todo = <<>> /\ todo' # <<>> /\ op' = "call" /\ call < MaxCalls /\ outcome # "error"
      /\ call' = call + 1 /\ outcome' = "none" /\ UNCHANGED execs
  BY DEF Begin, Control, Enter, devVars
<1> QED BY <1>1 DEF Abstract!Begin

LEMMA NextAbstract ==
  ASSUME IInv, [Next]_vars
  PROVE  [goesOn \/ Abstract!Next]_(Abstract!vars)
<1> SUFFICES ASSUME ~goesOn
             PROVE  Abstract!Next \/ UNCHANGED Abstract!vars
  OBVIOUS
<1>0. Control /\ SentTypes /\ Once /\ InTurn /\ InStep
  BY DEF IInv
<1>1. CASE \E k \in Arrivals : Begin(k)
  BY <1>0, <1>1, BeginAbstract DEF Abstract!Next
<1>2. CASE DevReads
  <2>1. UNCHANGED <<op, todo, call, outcome>>
    BY <1>2 DEF DevReads, progress, results
  <2>2. CASE execs' = execs
    BY <2>1, <2>2, Unseen
  <2>3. ASSUME NEW c \in 1..MaxCalls, c <= call, execs[c] = 0, execs' = [execs EXCEPT ![c] = 1]
        PROVE  Abstract!Next
    <3>1. Abstract!Execute(c)
      BY <2>1, <2>3 DEF Abstract!Execute
    <3> QED BY <3>1 DEF Abstract!Next
  <2> QED BY <1>0, <1>2, <2>2, <2>3, CarriedOut
<1>3. CASE ~(DevReads \/ \E k \in Arrivals : Begin(k))
  <2>1. UNCHANGED execs
    BY <1>3 DEF Next, Close, CloseBroken, Host, Detect, Skip, NetTx, WriteChunk, WriteFails,
       NetRx, Reading, ReadFirst, ReadHeader, ReadPayload, ReadDone, ReadEof, ReadTimesOut,
       ReadFails, Tickle, Device, DevReplies, DevTickles, DevCloses, Spin, Finished, vars, devVars
  <2>2. CASE /\ UNCHANGED <<call, outcome>>
             /\ op = "call" /\ todo # <<>> <=> op' = "call" /\ todo' # <<>>
    BY <2>1, <2>2, Unseen
  <2>3. CASE EndsBadly /\ todo # <<>>
    <3>1. CASE op = "call"
      <4>1. Abstract!Fail
        BY <2>1, <2>3, <3>1 DEF EndsBadly, Abstract!Fail
      <4> QED BY <4>1 DEF Abstract!Next
    <3>2. CASE op # "call"
      BY <2>1, <2>3, <3>2, Unseen DEF EndsBadly
    <3> QED BY <3>1, <3>2
  <2>4. CASE ReadDone /\ EndsWell(Content(rx.got))
    <3>1. CASE op = "call"
      <4>1. pc = "read" /\ todo # <<>> /\ outcome = "none"
        BY <1>0, <2>4, <3>1, Busy DEF ReadDone, Control
      <4>2. Good
        BY <3>1, <4>1 DEF Good
      <4>3. execs[call] = 1
        BY <1>0, <2>4, <3>1, <4>2, ReadResponse DEF Fits, Executed
      <4>4. Abstract!Succeed
        BY <2>1, <2>4, <3>1, <4>1, <4>3 DEF EndsWell, Abstract!Succeed
      <4> QED BY <4>4 DEF Abstract!Next
    <3>2. CASE op # "call"
      BY <2>1, <2>4, <3>2, Unseen DEF EndsWell
    <3> QED BY <3>1, <3>2
  <2> QED BY <1>0, <1>3, <2>2, <2>3, <2>4, CallEnds
<1> QED BY <1>1, <1>2, <1>3

(* When the application stops at the first call that fails, DLP over NET   *)
(* is a call that is carried out at most once and, when it succeeds, was   *)
(* carried out: net_tx sends a request once, and what net_rx returns can   *)
(* only be of the call under way.                                          *)
THEOREM PacketsImplementCalls == Spec => ImplementsRpc
<1>1. Init => Abstract!Init
  BY DEF Init, Abstract!Init
<1>2. IInv /\ [Next]_vars => [goesOn \/ Abstract!Next]_(Abstract!vars)
  BY NextAbstract
<1> QED BY <1>1, <1>2, Inductive, PTL DEF Spec, ImplementsRpc

-----------------------------------------------------------------------------
(* That calls succeed.  While nothing fails and no read gives up, what the *)
(* device has yet to read stays whole, and the one packet that is no       *)
(* tickle is always somewhere.                                             *)

(* What is spent, and what has become of the connection.                   *)
Books ==
  /\ conn = "LISTEN" => used.alarms = 0
  /\ eof \/ conn = "BREAK" => used.faults > 0
  /\ pc = "body" => split
  /\ pc # "body" => out = <<>>
  /\ command => op # "call" /\ pc # "app"

(* What each step spends.                                                  *)
LEMMA Spent ==
  ASSUME SentTypes, [Next]_vars
  PROVE  /\ used' \in [{"alarms", "tickles", "faults", "closes"} -> Nat]
         /\ used'.alarms >= used.alarms /\ used'.faults >= used.faults
         /\ used'.alarms = used.alarms \/ Tickle
         /\ UNCHANGED regime
<1>1. used \in [{"alarms", "tickles", "faults", "closes"} -> Nat]
  BY DEF SentTypes, UsedTypes
<1>2. UNCHANGED regime
  BY DEF Next, Begin, Close, CloseBroken, Host, Detect, Skip, NetTx, WriteChunk, WriteFails, NetRx,
         Reading, ReadFirst, ReadHeader, ReadPayload, ReadDone, ReadEof, ReadTimesOut, ReadFails,
         Tickle, Device, DevReads, DevReplies, DevTickles, DevCloses, Spin, Finished, vars
<1>3. \/ UNCHANGED used \/ (Tickle /\ Spend("alarms", MaxAlarms))
      \/ \E what \in {"tickles", "faults", "closes"}, limit \in {MaxTickles, MaxFaults, MaxCloses} :
           Spend(what, limit)
  <2>1. CASE \/ CloseBroken \/ Detect \/ Skip \/ NetTx \/ WriteChunk \/ NetRx \/ Reading
             \/ ReadTimesOut \/ DevReads \/ DevReplies \/ Spin \/ Finished \/ UNCHANGED vars
             \/ \E k \in Arrivals : Begin(k)
    BY <2>1 DEF Begin, CloseBroken, Detect, Skip, NetTx, WriteChunk, NetRx,
         Reading, ReadFirst, ReadHeader, ReadPayload, ReadDone, ReadEof, ReadTimesOut,
         DevReads, DevReplies, Spin, Finished, vars
  <2>2. CASE \/ WriteFails \/ ReadFails \/ DevTickles \/ DevCloses
             \/ \E k \in Arrivals : Close(k)
    <3> HIDE DEF Spend
    <3> QED BY <2>2 DEF WriteFails, ReadFails, DevTickles, DevCloses, Close
  <2>3. CASE Tickle
    BY <2>3 DEF Tickle
  <2> QED BY <2>1, <2>2, <2>3 DEF Next, Host, Device
<1>4. CASE UNCHANGED used
  BY <1>1, <1>2, <1>4
<1>5. CASE Tickle /\ Spend("alarms", MaxAlarms)
  BY <1>1, <1>2, <1>5 DEF Spend
<1>6. CASE \E what \in {"tickles", "faults", "closes"}, limit \in {MaxTickles, MaxFaults, MaxCloses} :
           Spend(what, limit)
  BY <1>1, <1>2, <1>6 DEF Spend
<1> QED BY <1>3, <1>4, <1>5, <1>6

(* A step that fails for want of a connection is a fault.                  *)
LEMMA Broken ==
  ASSUME SentTypes, Books, [Next]_vars, eof' \/ conn' = "BREAK"
  PROVE  used'.faults > 0
<1>0. used \in [{"alarms", "tickles", "faults", "closes"} -> Nat] /\ used'.faults >= used.faults
      /\ used' \in [{"alarms", "tickles", "faults", "closes"} -> Nat]
  BY Spent DEF SentTypes, UsedTypes
<1>1. CASE eof \/ conn = "BREAK"
  BY <1>0, <1>1 DEF Books
<1>2. ASSUME Spend("faults", MaxFaults) PROVE used'.faults > 0
  BY <1>0, <1>2 DEF Spend
<1>3. CASE WriteFails \/ ReadFails \/ DevCloses
  <2>1. eof \/ Spend("faults", MaxFaults)
    <3> HIDE DEF Spend
    <3> QED BY <1>3 DEF WriteFails, ReadFails, DevCloses
  <2> QED BY <1>1, <1>2, <2>1
<1>4. CASE ~(WriteFails \/ ReadFails \/ DevCloses) /\ ~eof /\ conn # "BREAK"
  <2>1. ASSUME NEW of, StepDone(of) PROVE conn' # "BREAK"
    BY <1>4, <2>1 DEF StepDone, Succeeds, Fails
  <2>2. ASSUME Fails(conn) PROVE conn' # "BREAK"
    BY <1>4, <2>2 DEF Fails
  <2>3. eof' = eof
    BY <1>4 DEF Next, Begin, Close, CloseBroken, Host, Detect, Skip, NetTx, WriteChunk, NetRx,
         Reading, ReadFirst, ReadHeader, ReadPayload, ReadDone, ReadEof, ReadTimesOut,
         Tickle, Device, DevReads, DevReplies, DevTickles, Spin, Finished, vars, devVars
  <2>4. conn' # "BREAK"
    <3> HIDE DEF StepDone, Fails
    <3> QED BY <1>4, <2>1, <2>2 DEF Next, Begin, Close, CloseBroken, Host, Detect, Skip, NetTx, WriteChunk, NetRx,
         Reading, ReadFirst, ReadHeader, Payload, PassOver, BadHeader, ReadPayload, ReadDone, ReadEof, ReadTimesOut,
         Tickle, Device, DevReads, DevReplies, DevTickles, Spin, Finished, vars, netVars
  <2> QED BY <1>4, <2>3, <2>4
<1> QED BY <1>1, <1>3, <1>4

(* The packet net_tx makes.                                                *)
LEMMA TxPacket ==
  ASSUME SentTypes, Control, NetTx, NEW n \in Lengths
  PROVE  LET d == inst[Current]
             p == Packet(d.type, Txid(d), Subject, n)
         IN /\ p \in Seq(Units) /\ n \in Nat \ {0} /\ n <= PacketMax
            /\ d.type \in Types /\ Txid(d) \in 0..TxidWrap /\ Subject \in Items
<1> DEFINE d == inst[Current]
<1>1. d \in [type : Types, txid : 0..TxidWrap]
  BY DEF SentTypes, InstTypes, Current
<1>2. Subject \in Items
  BY SubjectSent, SentItems DEF NetTx, SentTypes
<1>3. n \in Nat \ {0} /\ n <= PacketMax
  BY NetAssumption DEF Lengths
<1>4. d.type \in Types /\ Txid(d) \in 0..TxidWrap
  BY <1>1, NetAssumption DEF Txid
<1> QED BY <1>2, <1>3, <1>4, PacketIs

LEMMA NextBooks ==
  ASSUME Control, SentTypes, Books, [Next]_vars
  PROVE  Books'
<1>1. eof' \/ conn' = "BREAK" => used'.faults > 0
  BY Broken
<1>2. conn' = "LISTEN" => used'.alarms = 0
  <2>1. ASSUME NEW of, StepDone(of) PROVE conn' \in {conn, "END", "ACCEPT"}
    BY <2>1 DEF StepDone, Succeeds, Fails
  <2>2. ASSUME NEW b, Fails(b) PROVE conn' = b
    BY <2>2 DEF Fails
  <2>3. conn' \in {conn, "END", "ACCEPT", "BREAK"}
    <3> HIDE DEF StepDone, Fails
    <3> QED BY <2>1, <2>2 DEF Next, Begin, Close, CloseBroken, Host, Detect, Skip, NetTx, WriteChunk, NetRx,
         WriteFails, ReadFails, Reading, ReadFirst, ReadHeader, Payload, PassOver, BadHeader, ReadPayload,
         ReadDone, ReadEof, ReadTimesOut,
         Tickle, Device, DevReads, DevReplies, DevTickles, DevCloses, Spin, Finished, vars, netVars
  <2>4. Tickle => conn' # "LISTEN"
    BY DEF Tickle
  <2> QED BY <2>3, <2>4, Spent DEF Books
<1>3. /\ pc' = "body" => split'
      /\ pc' # "body" => out' = <<>>
  <2>0. split' = split
    BY Spent DEF regime
  <2>1. CASE NetTx
    <3>1. ASSUME ~split PROVE pc' # "body" /\ out' = <<>>
      <4>1. StepDone(Subject)
        BY <2>1, <3>1 DEF NetTx
      <4>2. pc' # "body"
        BY <4>1, Outcomes DEF GoesOnTo, EndsWell, EndsBadly
      <4>3. PICK n \in Lengths :
              out' = SubSeq(Packet(inst[Current].type, Txid(inst[Current]), Subject, n),
                            Len(Packet(inst[Current].type, Txid(inst[Current]), Subject, n)) + 1,
                            Len(Packet(inst[Current].type, Txid(inst[Current]), Subject, n)))
        BY <2>1, <3>1 DEF NetTx
      <4> DEFINE p == Packet(inst[Current].type, Txid(inst[Current]), Subject, n)
      <4>4. p \in Seq(Units)
        BY <2>1, TxPacket
      <4> HIDE DEF p
      <4>5. Len(p) \in Nat /\ Len(p) \in 0..Len(p)
        BY <4>4, LenProperties
      <4>6. SubSeq(p, Len(p) + 1, Len(p)) \in Seq(Units) /\ Len(SubSeq(p, Len(p) + 1, Len(p))) = Len(p) - Len(p)
        BY ONLY <4>4, <4>5, Suffix
      <4>7. SubSeq(p, Len(p) + 1, Len(p)) = <<>>
        BY <4>5, <4>6, EmptySeq
      <4> QED BY <4>2, <4>3, <4>7 DEF p
    <3>2. split => pc' = "body"
      BY <2>1 DEF NetTx
    <3> QED BY <2>0, <3>1, <3>2
  <2>2. CASE WriteChunk
    <3>1. pc = "body" /\ split /\ out \in Seq(Units)
      BY <2>2 DEF WriteChunk, Books, SentTypes, HostTypes
    <3>2. CASE Len(out) = 1 /\ StepDone(Subject)
      <4>1. Len(Tail(out)) = 0 /\ Tail(out) \in Seq(Units)
        <5>1. out # <<>>
          BY <3>2
        <5> QED BY <3>1, <3>2, <5>1, HeadTailProperties
      <4>2. out' = <<>>
        BY <2>2, <4>1, EmptySeq DEF WriteChunk
      <4> QED BY <2>0, <3>1, <4>2
    <3>3. CASE UNCHANGED progress
      BY <2>0, <3>1, <3>3 DEF progress
    <3> QED BY <2>2, <3>2, <3>3 DEF WriteChunk
  <2>3. CASE ~NetTx /\ ~WriteChunk
    <3>1. ASSUME NEW of, StepDone(of) PROVE pc' # "body"
      BY <3>1, Outcomes DEF GoesOnTo, EndsWell, EndsBadly
    <3>2. ASSUME NEW b, Fails(b) PROVE pc' # "body"
      BY <3>2 DEF Fails
    <3>3. pc' = "body" => pc = "body" /\ out' = out
      <4>1. ASSUME NEW k, Begin(k) \/ Close(k) PROVE pc' # "body"
        BY <4>1 DEF Begin, Close, Enter
      <4>2. CASE Host
        <5> HIDE DEF StepDone, Fails
        <5> QED BY <2>3, <3>1, <3>2, <4>2 DEF Host, Detect, Skip, NetRx,
         WriteFails, ReadFails, Reading, ReadFirst, ReadHeader, Payload, PassOver, BadHeader, ReadPayload,
         ReadDone, ReadEof, ReadTimesOut, netVars, progress
      <4>3. CASE ~Host /\ ~\E k \in Arrivals : Begin(k) \/ Close(k)
        BY <4>3 DEF Next, CloseBroken, Tickle, Device, DevReads, DevReplies, DevTickles, DevCloses,
                    Spin, Finished, vars, netVars, progress
      <4> QED BY <4>1, <4>2, <4>3
    <3>4. out' = out \/ out' = <<>>
      BY <2>3 DEF Next, Begin, Close, CloseBroken, Host, Detect, Skip, NetRx,
         WriteFails, ReadFails, Reading, ReadFirst, ReadHeader, ReadPayload, ReadDone, ReadEof, ReadTimesOut,
         Tickle, Device, DevReads, DevReplies, DevTickles, DevCloses, Spin, Finished, vars, netVars
    <3>5. pc = "body" /\ pc' # "body" => out' = <<>>
      <4>1. CASE WriteFails
        BY <4>1 DEF WriteFails
      <4>2. CASE ~WriteFails
        BY <2>3, <4>2 DEF Next, Begin, Close, CloseBroken, Host, Detect, Skip, NetRx,
         ReadFails, Reading, ReadFirst, ReadHeader, ReadPayload, ReadDone, ReadEof, EofIn, ReadTimesOut, Arrived,
         Tickle, Device, DevReads, DevReplies, DevTickles, DevCloses, Spin, Finished, vars, progress
      <4> QED BY <4>1, <4>2
    <3> QED BY <2>0, <3>3, <3>4, <3>5 DEF Books
  <2> QED BY <2>1, <2>2, <2>3
<1>4. command' => op' # "call" /\ pc' # "app"
  <2>1. ASSUME NEW of, StepDone(of) PROVE command' => op' # "call" /\ pc' # "app"
    BY <2>1, Outcomes DEF GoesOnTo, EndsWell, EndsBadly, Books, Control
  <2>2. ASSUME NEW b, Fails(b) PROVE command' => op' # "call" /\ pc' # "app"
    BY <2>2 DEF Fails, Books, Control
  <2>3. ASSUME NEW k, Begin(k) \/ Close(k) PROVE command' => op' # "call" /\ pc' # "app"
    <3>1. pc = "app" /\ pc' = "tx"
      BY <2>3 DEF Begin, Close, Enter
    <3>2. Begin(k) => command' = command
      BY DEF Begin, netVars
    <3>3. Close(k) => op' = "close"
      BY DEF Close
    <3> QED BY <2>3, <3>1, <3>2, <3>3 DEF Books
  <2>4. CASE UNCHANGED <<command, op>> /\ (pc' = pc \/ pc' # "app")
    BY <2>4 DEF Books
  <2>5. CASE Tickle
    BY <2>5 DEF Tickle
  <2>6. CASE ~Tickle /\ ~\E k \in Arrivals : Begin(k) \/ Close(k)
    <3> HIDE DEF StepDone, Fails
    <3> QED BY <2>1, <2>2, <2>4, <2>6 DEF Next, CloseBroken, Host, Detect, Skip, NetTx, WriteChunk, NetRx,
         WriteFails, ReadFails, Reading, ReadFirst, ReadHeader, Payload, PassOver, BadHeader, ReadPayload,
         ReadDone, ReadEof, ReadTimesOut,
         Device, DevReads, DevReplies, DevTickles, DevCloses, Spin, Finished, vars, netVars, progress
  <2> QED BY <2>3, <2>5, <2>6
<1> QED BY <1>1, <1>2, <1>3, <1>4 DEF Books
-----------------------------------------------------------------------------
(* A connection that works, and an operation that goes well on it.         *)
Calm ==
  /\ Good /\ ~goesOn /\ patient /\ used.faults = 0
  /\ split \/ op = "close" => used.alarms = 0

(* What the device has read, and what it has yet to read of s, are whole   *)
(* packets.                                                                *)
Missing(d) == d.hdr.len - Len(d.got)
DevLine(d, s) ==
  /\ Linked(s) /\ Whole(s)
  /\ d.have < 2 => d.got = <<>>
  /\ d.have = 0 => (Len(s) > 0 => s[1].part = "first")
  /\ d.have = 1 =>
       /\ d.hdr.part = "first" /\ d.hdr.type \in {DATA, TCKL}
       /\ Len(s) > 0 /\ Follows(d.hdr, s[1])
  /\ d.have = 2 =>
       /\ d.hdr.type = DATA /\ d.hdr.len \in Nat /\ Missing(d) \in 1..Len(s)
       /\ \A i \in 1..Missing(d) : PieceOf(d.hdr, s[i])
       /\ Missing(d) < Len(s) => s[Missing(d) + 1].part = "first"

LEMMA LineJoined ==
  ASSUME NEW d, NEW c, NEW s, NEW p, IsJoin(c, s, p), DevLine(d, s), Linked(p), Whole(p),
         Len(p) > 0, p[1].part = "first"
  PROVE  DevLine(d, c)
<1>1. Linked(c) /\ Whole(c)
  BY LinkedJoin DEF DevLine
<1>2. /\ Len(s) \in Nat /\ Len(p) \in Nat /\ Len(c) = Len(s) + Len(p)
      /\ \A i \in 1..Len(s) : c[i] = s[i]
      /\ c[Len(s) + 1] = p[1]
  <2>1. 1 \in 1..Len(p)
    BY DEF IsJoin
  <2> QED BY <2>1 DEF IsJoin
<1>3. CASE d.have = 0
  <2>1. c[1].part = "first"
    <3>1. CASE Len(s) = 0
      BY <1>2, <3>1
    <3>2. CASE Len(s) > 0
      <4>1. 1 \in 1..Len(s) /\ s[1].part = "first"
        BY <1>2, <1>3, <3>2 DEF DevLine
      <4> QED BY <1>2, <4>1
    <3> QED BY <1>2, <3>1, <3>2
  <2> QED BY <1>1, <1>3, <2>1 DEF DevLine
<1>4. CASE d.have = 1
  <2>1. Len(s) > 0 /\ 1 \in 1..Len(s)
    BY <1>2, <1>4 DEF DevLine
  <2>2. Len(c) > 0 /\ c[1] = s[1]
    BY <1>2, <2>1
  <2> QED BY <1>1, <1>4, <2>2 DEF DevLine
<1>5. CASE d.have = 2
  <2>1. /\ d.hdr.type = DATA /\ d.hdr.len \in Nat /\ Missing(d) \in 1..Len(s)
        /\ \A i \in 1..Missing(d) : PieceOf(d.hdr, s[i])
        /\ Missing(d) < Len(s) => s[Missing(d) + 1].part = "first"
    BY <1>5 DEF DevLine
  <2>2. Missing(d) \in 1..Len(c)
    BY <1>2, <2>1
  <2>3. ASSUME NEW i \in 1..Missing(d) PROVE PieceOf(d.hdr, c[i])
    <3>1. i \in 1..Len(s)
      BY <1>2, <2>1
    <3> QED BY <1>2, <2>1, <3>1
  <2>4. c[Missing(d) + 1].part = "first"
    <3>1. CASE Missing(d) < Len(s)
      <4>1. Missing(d) + 1 \in 1..Len(s)
        BY <1>2, <2>1, <3>1
      <4> QED BY <1>2, <2>1, <3>1, <4>1
    <3>2. CASE Missing(d) = Len(s)
      BY <1>2, <3>2
    <3> QED BY <1>2, <2>1, <3>1, <3>2
  <2> QED BY <1>1, <1>5, <2>1, <2>2, <2>3, <2>4 DEF DevLine
<1>6. CASE d.have \notin {0, 1, 2}
  BY <1>1, <1>6 DEF DevLine
<1> QED BY <1>3, <1>4, <1>5, <1>6

(* The device reads a unit of it.                                          *)
LEMMA LineRead ==
  ASSUME NEW s, NEW t, IsSuffix(t, s, 1), NEW d \in Partly, DevLine(d, s), NEW e, e = DevTake(d, s[1])
  PROVE  /\ InPlace(d, s[1])
         /\ Complete(e) => DevLine(NothingRead, t)
         /\ ~Complete(e) => DevLine(e, t)
         /\ d.have > 0 => e.hdr.type = d.hdr.type
         /\ e.hdr.type \in {DATA, TCKL}
<1>1. /\ Len(s) \in Nat /\ Len(s) > 0 /\ Len(t) = Len(s) - 1
      /\ \A i \in 1..Len(t) : t[i] = s[i + 1]
  BY DEF IsSuffix
<1>2. Linked(t) /\ Whole(t)
  BY LinkedSuffix, WholeSuffix DEF DevLine
<1>3. 1 \in 1..Len(s) /\ Linked(s) /\ Whole(s)
  BY <1>1 DEF DevLine
<1>4. /\ s[1].type \in {DATA, TCKL} /\ s[1].len \in Nat
      /\ s[1].type = TCKL => s[1].len = 0
      /\ s[1].type = DATA => s[1].len # 0
      /\ s[1].part = "first" => 1 < Len(s) /\ Follows(s[1], s[2])
      /\ s[1].part = "more" =>
           /\ 1 + s[1].len <= Len(s)
           /\ \A j \in 1..s[1].len : PieceOf(s[1], s[1 + j])
           /\ 1 + s[1].len < Len(s) => s[1 + s[1].len + 1].part = "first"
  <2>1. 1 < Len(s) => (s[1].part = "first" => Follows(s[1], s[2]))
    <3>1. 1 + 1 = 2
      OBVIOUS
    <3> QED BY <1>3, <3>1 DEF Linked
  <2>2. s[1].len \in Nat
    BY <1>3, LinkedLen
  <2>3. s[1].part = "more" => 1 + s[1].len <= Len(s)
    BY <1>3 DEF Whole
  <2>4. ASSUME s[1].part = "more"
        PROVE  /\ \A j \in 1..s[1].len : PieceOf(s[1], s[1 + j])
               /\ 1 + s[1].len < Len(s) => s[1 + s[1].len + 1].part = "first"
    <3>1. ASSUME NEW j \in 1..s[1].len PROVE 1 + j <= Len(s)
      BY <1>1, <2>2, <2>3, <2>4
    <3> QED BY <1>3, <2>4, <3>1 DEF Linked
  <2> QED BY <1>3, <2>1, <2>2, <2>3, <2>4 DEF Linked, Whole
<1>5. d.have \in 0..2 /\ d.hdr \in Units /\ d.got \in Seq(Units) /\ Len(d.got) \in Nat
  BY LenProperties DEF Partly
<1>6. NothingRead.have = 0 /\ NothingRead.got = <<>>
  BY DEF NothingRead
<1>7. CASE d.have = 0
  <2>1. s[1].part = "first" /\ e = [d EXCEPT !.have = 1, !.hdr = s[1]]
    BY <1>1, <1>7 DEF DevLine, DevTake
  <2>2. e.have = 1 /\ e.hdr = s[1] /\ e.got = d.got
    BY <2>1, <1>5 DEF Partly
  <2>3. InPlace(d, s[1]) /\ ~Complete(e)
    BY <1>7, <2>1, <2>2 DEF InPlace, Complete
  <2>4. Len(t) > 0 /\ t[1] = s[2]
    <3>1. 1 \in 1..Len(t) /\ 1 + 1 = 2
      BY <1>1, <1>4, <2>1
    <3> QED BY <1>1, <3>1
  <2>5. DevLine(e, t)
    BY <1>2, <1>4, <1>7, <2>1, <2>2, <2>4 DEF DevLine
  <2> QED BY <1>4, <1>7, <2>2, <2>3, <2>5
<1>8. CASE d.have = 1
  <2>1. /\ d.hdr.part = "first" /\ Follows(d.hdr, s[1]) /\ d.got = <<>>
        /\ e = [d EXCEPT !.have = 2, !.hdr = s[1]]
    BY <1>8 DEF DevLine, DevTake
  <2>2. e.have = 2 /\ e.hdr = s[1] /\ e.got = <<>> /\ Len(e.got) = 0
    BY <2>1, <1>5 DEF Partly
  <2>3. InPlace(d, s[1]) /\ s[1].part = "more" /\ s[1].type = d.hdr.type
    BY <1>8, <2>1 DEF InPlace, Follows
  <2>4. CASE s[1].len = 0
    <3>1. Complete(e)
      BY <2>2, <2>4 DEF Complete
    <3>2. ASSUME Len(t) > 0 PROVE t[1].part = "first"
      <4>1. 1 + s[1].len < Len(s) /\ 1 + s[1].len + 1 = 2 /\ 1 \in 1..Len(t) /\ 1 + 1 = 2
        BY <1>1, <2>4, <3>2
      <4>2. s[2].part = "first"
        BY <1>4, <2>3, <4>1
      <4> QED BY <1>1, <4>1, <4>2
    <3>3. DevLine(NothingRead, t)
      BY <1>2, <1>6, <3>2 DEF DevLine
    <3> QED BY <1>4, <2>2, <2>3, <3>1, <3>3
  <2>5. CASE s[1].len # 0
    <3>1. ~Complete(e) /\ s[1].type = DATA
      BY <1>4, <2>2, <2>5 DEF Complete
    <3>2. Missing(e) = s[1].len
      BY <1>4, <2>2 DEF Missing
    <3>3. Missing(e) \in 1..Len(t)
      BY <1>1, <1>4, <2>3, <2>5, <3>2
    <3>4. ASSUME NEW i \in 1..Missing(e) PROVE PieceOf(e.hdr, t[i])
      <4>1. i \in 1..Len(t) /\ i + 1 = 1 + i
        BY <1>1, <3>3
      <4> QED BY <1>1, <1>4, <2>2, <2>3, <3>2, <4>1
    <3>5. ASSUME Missing(e) < Len(t) PROVE t[Missing(e) + 1].part = "first"
      <4>1. /\ Missing(e) + 1 \in 1..Len(t) /\ (Missing(e) + 1) + 1 = 1 + s[1].len + 1
            /\ 1 + s[1].len < Len(s)
        BY <1>1, <1>4, <3>2, <3>3, <3>5
      <4> QED BY <1>1, <1>4, <2>3, <4>1
    <3>6. DevLine(e, t)
      BY <1>2, <1>4, <2>2, <3>1, <3>3, <3>4, <3>5 DEF DevLine
    <3> QED BY <1>4, <2>2, <2>3, <3>1, <3>6
  <2> QED BY <2>4, <2>5
<1>9. CASE d.have = 2
  <2>1. /\ d.hdr.type = DATA /\ d.hdr.len \in Nat /\ Missing(d) \in 1..Len(s)
        /\ \A i \in 1..Missing(d) : PieceOf(d.hdr, s[i])
        /\ Missing(d) < Len(s) => s[Missing(d) + 1].part = "first"
        /\ e = [d EXCEPT !.got = Append(@, s[1])]
    BY <1>9 DEF DevLine, DevTake
  <2>2. e.have = 2 /\ e.hdr = d.hdr /\ Len(e.got) = Len(d.got) + 1
    <3>1. e.have = 2 /\ e.hdr = d.hdr /\ e.got = Append(d.got, s[1])
      BY <1>5, <1>9, <2>1 DEF Partly
    <3>2. Len(Append(d.got, s[1])) = Len(d.got) + 1
      BY <1>5
    <3> QED BY <3>1, <3>2
  <2>3. PieceOf(d.hdr, s[1])
    BY <1>3, <2>1
  <2>4. InPlace(d, s[1])
    BY <1>9, <2>3 DEF InPlace, PieceOf
  <2>5. Missing(e) = Missing(d) - 1 /\ Missing(d) \in Nat
    BY <1>1, <1>5, <2>1, <2>2 DEF Missing
  <2>6. CASE Missing(d) = 1
    <3>1. Complete(e)
      BY <1>5, <2>1, <2>2, <2>6 DEF Complete, Missing
    <3>2. ASSUME Len(t) > 0 PROVE t[1].part = "first"
      <4>1. 1 \in 1..Len(t) /\ 1 < Len(s) /\ 1 + 1 = 2
        BY <1>1, <3>2
      <4> QED BY <1>1, <2>1, <2>6, <4>1
    <3>3. DevLine(NothingRead, t)
      BY <1>2, <1>6, <3>2 DEF DevLine
    <3> QED BY <2>1, <2>2, <2>4, <3>1, <3>3
  <2>7. CASE Missing(d) > 1
    <3>1. ~Complete(e)
      BY <1>5, <2>1, <2>2, <2>7 DEF Complete, Missing
    <3>2. Missing(e) \in 1..Len(t)
      BY <1>1, <2>1, <2>5, <2>7
    <3>3. ASSUME NEW i \in 1..Missing(e) PROVE PieceOf(e.hdr, t[i])
      <4>1. i \in 1..Len(t) /\ i + 1 \in 1..Missing(d)
        BY <1>1, <2>1, <2>5, <3>2
      <4> QED BY <1>1, <2>1, <2>2, <4>1
    <3>4. ASSUME Missing(e) < Len(t) PROVE t[Missing(e) + 1].part = "first"
      <4>1. Missing(e) + 1 \in 1..Len(t) /\ (Missing(e) + 1) + 1 = Missing(d) + 1 /\ Missing(d) < Len(s)
        BY <1>1, <2>5, <3>2, <3>4
      <4> QED BY <1>1, <2>1, <4>1
    <3>5. DevLine(e, t)
      BY <1>2, <2>1, <2>2, <3>2, <3>3, <3>4 DEF DevLine
    <3> QED BY <2>1, <2>2, <2>4, <3>1, <3>5
  <2> QED BY <2>1, <2>5, <2>6, <2>7
<1> QED BY <1>5, <1>7, <1>8, <1>9

-----------------------------------------------------------------------------
(* Calm is the beginning of a call, or goes on.                            *)
LEMMA CalmBefore ==
  ASSUME Control, SentTypes, Closing, [Next]_vars, Calm'
  PROVE  /\ Calm /\ used'.faults = 0 /\ (split => used'.alarms = 0)
         /\ (\A k \in Arrivals : ~Begin(k) /\ ~Close(k)) => op' = op
<1>1. /\ used' \in [{"alarms", "tickles", "faults", "closes"} -> Nat]
      /\ used \in [{"alarms", "tickles", "faults", "closes"} -> Nat]
      /\ used'.alarms >= used.alarms /\ used'.faults >= used.faults
      /\ UNCHANGED regime
  BY Spent DEF SentTypes, UsedTypes
<1>2. /\ ~goesOn /\ patient /\ used'.faults = 0 /\ used.faults = 0
      /\ split => used'.alarms = 0 /\ used.alarms = 0
      /\ op' = "close" => used.alarms = 0
  BY <1>1 DEF Calm, regime
<1>3. CASE ~\E k \in Arrivals : Begin(k) \/ Close(k)
  <2>1. Good /\ op' = op
    BY <1>3, GoodBefore DEF Calm
  <2> QED BY <1>2, <2>1 DEF Calm
<1>4. ASSUME NEW k \in Arrivals, Begin(k) PROVE Calm
  <2>1. pc = "app" /\ outcome # "error" /\ op # "close"
    BY <1>2, <1>4 DEF Begin
  <2> QED BY <1>2, <2>1 DEF Calm, Good
<1>5. ASSUME NEW k \in Arrivals, Close(k) PROVE Calm
  <2>1. /\ used' = [used EXCEPT !["closes"] = @ + 1] /\ op' = "close" /\ outcome' = outcome
        /\ pc = "app"
    BY <1>5 DEF Close, Spend, results
  <2>2. used'.closes = 1 /\ outcome # "error"
    BY <1>2, <2>1 DEF Calm, Good, regime
  <2>3. used.closes = 0
    BY <1>1, <2>1, <2>2
  <2>4. op # "close"
    BY <2>3 DEF Closing
  <2> QED BY <1>2, <2>1, <2>2, <2>4 DEF Calm, Good
<1> QED BY <1>2, <1>3, <1>4, <1>5

(* The steps of an operation that goes well.                               *)
LEMMA CalmSteps ==
  ASSUME Control, SentTypes, Books, [Next]_vars, Calm',
         ~\E k \in Arrivals : Begin(k) \/ Close(k)
  PROVE  \/ Detect \/ Skip \/ NetTx \/ WriteChunk \/ NetRx \/ ReadFirst \/ ReadHeader \/ ReadPayload
         \/ ReadDone \/ Tickle \/ DevReads \/ DevReplies \/ DevTickles \/ UNCHANGED vars
<1>1. ~(WriteFails \/ ReadTimesOut \/ ReadFails \/ ReadEof)
  <2> SUFFICES ASSUME WriteFails \/ ReadTimesOut \/ ReadFails \/ ReadEof PROVE FALSE
    OBVIOUS
  <2>1. todo # <<>>
    BY Busy DEF WriteFails, ReadTimesOut, ReadFails, ReadEof, EofIn
  <2>2. EndsBadly
    BY FailsIs DEF WriteFails, ReadTimesOut, ReadFails, ReadEof
  <2> QED BY <2>1, <2>2, FailureEnds DEF Calm
<1>2. ~CloseBroken
  BY DEF CloseBroken, Good, Calm
<1>3. ~DevCloses
  <2> SUFFICES ASSUME DevCloses PROVE FALSE
    OBVIOUS
  <2>1. used \in [{"alarms", "tickles", "faults", "closes"} -> Nat]
    BY DEF SentTypes, UsedTypes
  <2>2. used'.faults = used.faults + 1
    BY <2>1 DEF DevCloses, Spend
  <2> QED BY <2>1, <2>2 DEF Calm
<1> QED BY <1>1, <1>2, <1>3 DEF Next, Host, Reading, Device, Spin, Finished

(* A header is read where one is.                                          *)
LEMMA HeaderRead ==
  ASSUME Control, SentTypes, Aligned \/ Headless, ReadHeader, Good'
  PROVE  /\ Aligned /\ rx.have = 1 /\ pc = "read"
         /\ \E u \in Arrived : /\ Follows(rx.hdr, u) /\ inst' = [inst EXCEPT ![cur].type = u.type]
                               /\ Payload(u) \/ PassOver(u)
<1>1. rx.have = 1 /\ pc = "read" /\ todo # <<>>
  BY Busy DEF ReadHeader, Arrived
<1>2. Aligned
  BY <1>1 DEF Headless, NothingRead
<1>3. PICK u \in Arrived : \E h \in Header(u) : /\ inst' = [inst EXCEPT ![cur].type = h.type]
                                                /\ Payload(h) \/ PassOver(h) \/ BadHeader(h)
  BY DEF ReadHeader
<1>4. Follows(rx.hdr, u) /\ Header(u) = {u}
  BY <1>1, <1>2, InHeader1
<1>5. ~BadHeader(u)
  <2> SUFFICES ASSUME BadHeader(u) PROVE FALSE
    OBVIOUS
  <2>1. EndsBadly
    BY FailsIs DEF BadHeader
  <2> QED BY <1>1, <2>1, FailureEnds
<1> QED BY <1>1, <1>2, <1>3, <1>4, <1>5

-----------------------------------------------------------------------------
(* What the device has yet to read.                                        *)
Line == toDev \o out

InHdr(q) == pc = "read" /\ cur = q /\ rx.have < 2

(* The types the instances hold, but for one that reads a header.          *)
InstOk ==
  /\ ~InHdr("dlp") => inst["dlp"].type = DATA
  /\ ~InHdr("cmd") /\ used.alarms = 0 => inst["cmd"].type = DATA
  /\ todo = Plan => inst["cmd"].type = DATA

(* A request has the type of one.                                          *)
LEMMA TxData ==
  ASSUME Control, SentTypes, Books, Calm, InstOk, pc = "tx"
  PROVE  inst[Current].type = DATA /\ Txid(inst[Current]) = inst[Current].txid /\ out = <<>>
<1>1. todo # <<>> /\ op \in {"handshake", "call", "close"}
  BY Busy DEF Control
<1>2. command \in BOOLEAN
  BY DEF SentTypes, ResultTypes
<1>3. command => used.alarms = 0
  BY <1>1 DEF Control, Books, Calm
<1>4. inst["dlp"].type = DATA /\ (command => inst["cmd"].type = DATA)
  BY <1>3 DEF InstOk, InHdr
<1>5. DATA # TCKL
  BY DEF DATA, TCKL
<1> QED BY <1>2, <1>4, <1>5 DEF Current, Txid, Books

LEMMA LineTypes ==
  ASSUME SentTypes
  PROVE  /\ toDev \in Seq(Units) /\ out \in Seq(Units) /\ Line \in Seq(Units)
         /\ Len(toDev) \in Nat /\ Len(out) \in Nat /\ Len(Line) = Len(toDev) + Len(out)
         /\ \A i \in 1..Len(toDev) : Line[i] = toDev[i]
         /\ \A i \in 1..Len(out) : Line[Len(toDev) + i] = out[i]
         /\ out = <<>> => Line = toDev
<1>1. toDev \in Seq(Units) /\ out \in Seq(Units)
  BY DEF SentTypes, DevTypes, HostTypes
<1>2. out = <<>> => toDev \o out = toDev
  BY ONLY <1>1, ConcatEmptySeq
<1>3. /\ toDev \o out \in Seq(Units) /\ Len(toDev \o out) = Len(toDev) + Len(out)
      /\ Len(toDev) \in Nat /\ Len(out) \in Nat
      /\ \A i \in 1..Len(toDev) : (toDev \o out)[i] = toDev[i]
      /\ \A i \in 1..Len(out) : (toDev \o out)[Len(toDev) + i] = out[i]
  BY ONLY <1>1, Joined
<1> QED BY <1>1, <1>2, <1>3 DEF Line

LEMMA JoinIs ==
  ASSUME NEW S, NEW s \in Seq(S), NEW p \in Seq(S)
  PROVE  IsJoin(s \o p, s, p)
BY Joined DEF IsJoin

(* A packet is cut where its payload begins, and comes together again.     *)
LEMMA CutPacket ==
  ASSUME NEW S, NEW s \in Seq(S), NEW p \in Seq(S), NEW h \in 0..Len(p)
  PROVE  (s \o SubSeq(p, 1, h)) \o SubSeq(p, h + 1, Len(p)) = s \o p
<1>1. Len(p) \in Nat
  BY LenProperties
<1>2. SubSeq(p, 1, h) \in Seq(S)
  BY Prefix
<1>3. SubSeq(p, h + 1, Len(p)) \in Seq(S)
  BY Suffix
<1>4. SubSeq(p, 1, Len(p)) = p
  <2>1. /\ SubSeq(p, 1, Len(p)) \in Seq(S) /\ Len(SubSeq(p, 1, Len(p))) = Len(p)
        /\ \A i \in 1..Len(p) : SubSeq(p, 1, Len(p))[i] = p[i]
    <3>1. Len(p) \in 0..Len(p)
      BY <1>1
    <3> QED BY <3>1, Prefix
  <2> QED BY <2>1, SeqEqual
<1>5. SubSeq(p, 1, h) \o SubSeq(p, h + 1, Len(p)) = SubSeq(p, 1, Len(p))
  <2>1. 1 \in 1..Len(p) + 1 /\ h \in 1 - 1 .. Len(p) /\ Len(p) \in h..Len(p)
    BY <1>1
  <2> QED BY <2>1, ConcatAdjacentSubSeq
<1> DEFINE a == SubSeq(p, 1, h)
           b == SubSeq(p, h + 1, Len(p))
<1>6. a \in Seq(S) /\ b \in Seq(S)
  BY <1>2, <1>3
<1>9. a \o b = p
  BY <1>4, <1>5
<1> HIDE DEF a, b
<1>7. (s \o a) \o b = s \o (a \o b)
  BY <1>6, ConcatAssociative
<1>8. (s \o a) \o b = s \o p
  BY <1>7, <1>9
<1> QED BY <1>8 DEF a, b

-----------------------------------------------------------------------------
(* What the device has yet to read stays whole.                            *)
LEMMA SentPacket ==
  ASSUME Control, SentTypes, Books, Calm, InstOk, NetTx
  PROVE  \E p \in Seq(Units) : /\ IsJoin(Line', Line, p) /\ Linked(p) /\ Whole(p)
                               /\ Len(p) > 0 /\ Opening(p[1])
                               /\ \E i \in 1..Len(toDev') : Opening(toDev'[i])
<1>1. PICK n \in Lengths :
        LET d == inst[Current]
            p == Packet(d.type, Txid(d), Subject, n)
            h == IF split THEN 2 ELSE Len(p)
        IN toDev' = toDev \o SubSeq(p, 1, h) /\ out' = SubSeq(p, h + 1, Len(p))
  BY DEF NetTx
<1> DEFINE d == inst[Current]
           p == Packet(d.type, Txid(d), Subject, n)
           h == IF split THEN 2 ELSE Len(p)
<1>2. d.type = DATA /\ out = <<>>
  BY TxData DEF NetTx
<1>3. /\ p \in Seq(Units) /\ n \in Nat \ {0} /\ n <= PacketMax
      /\ Txid(d) \in 0..TxidWrap /\ Subject \in Items
  BY TxPacket
<1>4. DATA # TCKL /\ DATA \in {DATA, TCKL}
  BY DEF DATA, TCKL
<1>5. /\ Linked(p) /\ Whole(p) /\ Len(p) = n + 2
      /\ p[1].part = "first" /\ p[1].type = DATA
  BY <1>2, <1>3, <1>4, PacketLinked
<1>6. toDev' = toDev \o SubSeq(p, 1, h) /\ out' = SubSeq(p, h + 1, Len(p))
  BY <1>1
<1>7. Len(p) \in Nat /\ h \in 0..Len(p) /\ 1 \in 1..h
  BY <1>3, <1>5
<1> HIDE DEF p, h
<1>8. toDev \in Seq(Units) /\ Line = toDev /\ Len(toDev) \in Nat
  BY <1>2, LineTypes
<1>9. Line' = toDev \o p
  <2>1. (toDev \o SubSeq(p, 1, h)) \o SubSeq(p, h + 1, Len(p)) = toDev \o p
    BY <1>3, <1>7, <1>8, CutPacket
  <2> QED BY <1>6, <2>1 DEF Line
<1>10. IsJoin(Line', Line, p)
  BY <1>3, <1>8, <1>9, JoinIs
<1>11. \E i \in 1..Len(toDev') : Opening(toDev'[i])
  <2>1. SubSeq(p, 1, h) \in Seq(Units) /\ Len(SubSeq(p, 1, h)) = h /\ SubSeq(p, 1, h)[1] = p[1]
    BY <1>3, <1>7, Prefix
  <2> DEFINE q == SubSeq(p, 1, h)
  <2> HIDE DEF q
  <2>2. q \in Seq(Units) /\ Len(q) = h /\ q[1] = p[1] /\ toDev' = toDev \o q
    BY <1>6, <2>1 DEF q
  <2>3. Len(toDev \o q) = Len(toDev) + Len(q) /\ \A i \in 1..Len(q) : (toDev \o q)[Len(toDev) + i] = q[i]
    <3>1. toDev \in Seq(Units) /\ q \in Seq(Units)
      BY <1>8, <2>2
    <3> QED BY ONLY <3>1, Joined
  <2>4. Len(toDev) + 1 \in 1..Len(toDev') /\ toDev'[Len(toDev) + 1] = p[1]
    BY <1>7, <1>8, <2>2, <2>3
  <2> QED BY <1>5, <2>4 DEF Opening
<1> QED BY <1>3, <1>5, <1>7, <1>10, <1>11 DEF Opening

LEMMA ChunkKeeps ==
  ASSUME Control, SentTypes, WriteChunk
  PROVE  Line' = Line /\ \A i \in 1..Len(toDev) : i \in 1..Len(toDev') /\ toDev'[i] = toDev[i]
<1>1. /\ out \in Seq(Units) /\ out # <<>> /\ toDev \in Seq(Units)
      /\ toDev' = Append(toDev, Head(out)) /\ out' = Tail(out)
  BY DEF WriteChunk, Control, SentTypes, HostTypes, DevTypes
<1>2. /\ Head(out) \in Units /\ Tail(out) \in Seq(Units) /\ Len(Tail(out)) = Len(out) - 1
      /\ \A i \in 1..Len(Tail(out)) : Tail(out)[i] = out[i + 1]
      /\ Len(out) \in Nat \ {0} /\ Head(out) = out[1] /\ Len(toDev) \in Nat
  BY <1>1, HeadTailProperties, EmptySeq, LenProperties
<1>3. /\ toDev' \in Seq(Units) /\ Len(toDev') = Len(toDev) + 1
      /\ \A i \in 1..Len(toDev) : toDev'[i] = toDev[i]
      /\ toDev'[Len(toDev) + 1] = out[1]
  BY <1>1, <1>2, AppendProperties
<1> DEFINE T == Tail(out)
<1> HIDE DEF T
<1>4. /\ T \in Seq(Units) /\ Len(T) = Len(out) - 1 /\ \A i \in 1..Len(T) : T[i] = out[i + 1]
      /\ Line' = toDev' \o T
  BY <1>1, <1>2 DEF T, Line
<1>5. /\ Line' \in Seq(Units) /\ Len(Line') = Len(toDev') + Len(T)
      /\ \A i \in 1..Len(toDev') : Line'[i] = toDev'[i]
      /\ \A i \in 1..Len(T) : Line'[Len(toDev') + i] = T[i]
  <2>1. /\ toDev' \o T \in Seq(Units) /\ Len(toDev' \o T) = Len(toDev') + Len(T)
        /\ \A i \in 1..Len(toDev') : (toDev' \o T)[i] = toDev'[i]
        /\ \A i \in 1..Len(T) : (toDev' \o T)[Len(toDev') + i] = T[i]
    <3>1. toDev' \in Seq(Units) /\ T \in Seq(Units)
      BY <1>3, <1>4
    <3> QED BY ONLY <3>1, Joined
  <2> QED BY <1>4, <2>1
<1>6. /\ Line \in Seq(Units) /\ Len(Line) = Len(toDev) + Len(out)
      /\ \A i \in 1..Len(toDev) : Line[i] = toDev[i]
      /\ \A i \in 1..Len(out) : Line[Len(toDev) + i] = out[i]
  BY LineTypes
<1>7. Len(Line') = Len(Line)
  BY <1>2, <1>3, <1>4, <1>5, <1>6
<1>8. ASSUME NEW i \in 1..Len(Line') PROVE Line'[i] = Line[i]
  <2>1. CASE i \in 1..Len(toDev)
    <3>1. i \in 1..Len(toDev')
      BY <1>2, <1>3, <2>1
    <3> QED BY <1>3, <1>5, <1>6, <2>1, <3>1
  <2>2. CASE i = Len(toDev) + 1
    <3>1. i \in 1..Len(toDev') /\ 1 \in 1..Len(out)
      BY <1>2, <1>3, <2>2
    <3> QED BY <1>3, <1>5, <1>6, <2>2, <3>1
  <2>3. CASE i > Len(toDev) + 1
    <3>1. /\ i - Len(toDev') \in 1..Len(T) /\ i = Len(toDev') + (i - Len(toDev'))
          /\ i - Len(toDev) \in 1..Len(out) /\ i = Len(toDev) + (i - Len(toDev))
          /\ (i - Len(toDev')) + 1 = i - Len(toDev)
      BY <1>2, <1>3, <1>4, <1>5, <2>3
    <3>2. Line'[i] = T[i - Len(toDev')] /\ T[i - Len(toDev')] = out[(i - Len(toDev')) + 1]
      BY <1>4, <1>5, <3>1
    <3>3. Line[i] = out[i - Len(toDev)]
      BY <1>6, <3>1
    <3> QED BY <3>1, <3>2, <3>3
  <2> QED BY <1>2, <1>5, <2>1, <2>2, <2>3
<1>9. Line' = Line
  <2> HIDE DEF Line
  <2> QED BY <1>5, <1>6, <1>7, <1>8, SeqEqual
<1>10. ASSUME NEW i \in 1..Len(toDev) PROVE i \in 1..Len(toDev') /\ toDev'[i] = toDev[i]
  BY <1>2, <1>3, <1>10
<1> QED BY <1>9, <1>10

LEMMA TickleJoins ==
  ASSUME SentTypes, Tickle, out = <<>>
  PROVE  \E p \in Seq(Units) : /\ IsJoin(Line', Line, p) /\ Linked(p) /\ Whole(p)
                               /\ Len(p) > 0 /\ p[1].part = "first"
<1> DEFINE p == Packet(TCKL, TxidWrap, <<"tickle", 0>>, 0)
<1>1. TxidWrap \in 0..TxidWrap /\ <<"tickle", 0>> \in Items /\ DATA # TCKL /\ TCKL \in {DATA, TCKL}
  BY NetAssumption DEF Items, DATA, TCKL
<1>2. Linked(p) /\ Whole(p) /\ p \in Seq(Units) /\ Len(p) = 0 + 2 /\ p[1].part = "first"
  BY <1>1, PacketLinked
<1>3. toDev' = toDev \o p /\ out' = out
  BY DEF Tickle
<1> HIDE DEF p
<1>4. toDev \in Seq(Units) /\ Line = toDev
  BY LineTypes
<1>5. toDev \o p \in Seq(Units)
  BY <1>2, <1>4, Joined
<1>6. (toDev \o p) \o <<>> = toDev \o p
  BY <1>5, ConcatEmptySeq
<1>7. Line' = toDev \o p
  BY <1>3, <1>6 DEF Line
<1>8. IsJoin(Line', Line, p)
  BY <1>2, <1>4, <1>7, JoinIs
<1>9. Len(p) > 0
  BY <1>2
<1> QED BY <1>2, <1>8, <1>9

LEMMA DevReadsLine ==
  ASSUME SentTypes, DevReads
  PROVE  IsSuffix(Line', Line, 1) /\ Line[1] = toDev[1] /\ Head(toDev) = toDev[1]
<1>1. toDev \in Seq(Units) /\ toDev # <<>> /\ toDev' = Tail(toDev) /\ out' = out
  BY DEF DevReads, netVars, SentTypes, DevTypes
<1>2. /\ Tail(toDev) \in Seq(Units) /\ Len(Tail(toDev)) = Len(toDev) - 1
      /\ \A i \in 1..Len(Tail(toDev)) : Tail(toDev)[i] = toDev[i + 1]
      /\ Len(toDev) \in Nat \ {0} /\ Head(toDev) = toDev[1]
  BY <1>1, HeadTailProperties, EmptySeq, LenProperties
<1> DEFINE T == Tail(toDev)
<1> HIDE DEF T
<1>3. /\ T \in Seq(Units) /\ Len(T) = Len(toDev) - 1 /\ \A i \in 1..Len(T) : T[i] = toDev[i + 1]
      /\ Line' = T \o out
  BY <1>1, <1>2 DEF T, Line
<1>4. /\ out \in Seq(Units) /\ Len(out) \in Nat /\ Len(Line) = Len(toDev) + Len(out)
      /\ \A i \in 1..Len(toDev) : Line[i] = toDev[i]
      /\ \A i \in 1..Len(out) : Line[Len(toDev) + i] = out[i]
  BY LineTypes
<1>5. /\ Len(T \o out) = Len(T) + Len(out)
      /\ \A i \in 1..Len(T) : (T \o out)[i] = T[i]
      /\ \A i \in 1..Len(out) : (T \o out)[Len(T) + i] = out[i]
  <2>1. T \in Seq(Units) /\ out \in Seq(Units)
    BY <1>3, <1>4
  <2> QED BY ONLY <2>1, Joined
<1>6. ASSUME NEW i \in 1..Len(Line') PROVE Line'[i] = Line[i + 1]
  <2>1. CASE i \in 1..Len(T)
    <3>1. i + 1 \in 1..Len(toDev)
      BY <1>2, <1>3, <2>1
    <3> QED BY <1>3, <1>4, <1>5, <2>1, <3>1
  <2>2. CASE i > Len(T)
    <3>1. /\ i - Len(T) \in 1..Len(out) /\ i = Len(T) + (i - Len(T))
          /\ i + 1 = Len(toDev) + (i - Len(T))
      BY <1>2, <1>3, <1>4, <1>5, <2>2
    <3>2. Line'[i] = out[i - Len(T)]
      BY <1>3, <1>5, <3>1
    <3>3. Line[i + 1] = out[i - Len(T)]
      BY <1>4, <3>1
    <3> QED BY <3>2, <3>3
  <2> QED BY <1>2, <1>3, <2>1, <2>2
<1>7. /\ Len(Line) \in Nat /\ 1 <= Len(Line) /\ Len(Line') = Len(Line) - 1 /\ 1 \in 1..Len(toDev)
  BY <1>2, <1>3, <1>4, <1>5
<1> HIDE DEF Line
<1> QED BY <1>2, <1>4, <1>6, <1>7 DEF IsSuffix

(* What the device makes of a unit that is in its place.                   *)
LEMMA DevReadsWhole ==
  ASSUME SentTypes, DevReads, DevLine(dev, Line), devTask # Lost
  PROVE  \E e : /\ e = DevTake(dev, toDev[1]) /\ InPlace(dev, toDev[1]) /\ devTask = Waiting
                /\ e.hdr.type \in {DATA, TCKL} /\ (dev.have > 0 => e.hdr.type = dev.hdr.type)
                /\ \/ dev' = e /\ ~Complete(e) /\ DevLine(e, Line') /\ UNCHANGED <<devTask, execs>>
                   \/ /\ dev' = NothingRead /\ Complete(e) /\ DevLine(NothingRead, Line')
                      /\ Receive(e.hdr.type, e.hdr.of)
<1> DEFINE e == DevTake(dev, toDev[1])
<1>1. IsSuffix(Line', Line, 1) /\ Line[1] = toDev[1] /\ Head(toDev) = toDev[1]
  BY DevReadsLine
<1>2. dev \in Partly
  BY DEF SentTypes, DevTypes
<1>3. /\ InPlace(dev, toDev[1])
      /\ Complete(e) => DevLine(NothingRead, Line')
      /\ ~Complete(e) => DevLine(e, Line')
      /\ dev.have > 0 => e.hdr.type = dev.hdr.type
      /\ e.hdr.type \in {DATA, TCKL}
  <2>1. e = DevTake(dev, Line[1])
    BY <1>1
  <2> HIDE DEF e, Line
  <2> QED BY <1>1, <1>2, <2>1, LineRead
<1>4. devTask = Waiting
  BY DEF DevReads
<1>5. \/ dev' = e /\ ~Complete(e) /\ UNCHANGED <<devTask, execs>>
      \/ dev' = NothingRead /\ Complete(e) /\ Receive(e.hdr.type, e.hdr.of)
  BY <1>1, <1>3, <1>4 DEF DevReads
<1> QED BY <1>3, <1>4, <1>5

LEMMA NextLine ==
  ASSUME Control, SentTypes, Closing, Books, [Next]_vars, Calm', Calm,
         DevLine(dev, Line), InstOk, devTask # Lost
  PROVE  DevLine(dev', Line')
<1>1. CASE UNCHANGED <<toDev, out, dev>>
  BY <1>1 DEF Line
<1>2. CASE \E k \in Arrivals : Begin(k) \/ Close(k)
  BY <1>1, <1>2 DEF Begin, Close, netVars, devVars
<1>3. CASE NetTx
  <2>1. dev' = dev
    BY <1>3 DEF NetTx, devVars
  <2>2. PICK p \in Seq(Units) : /\ IsJoin(Line', Line, p) /\ Linked(p) /\ Whole(p)
                                /\ Len(p) > 0 /\ Opening(p[1])
    BY <1>3, SentPacket
  <2>3. p[1].part = "first"
    BY <2>2 DEF Opening
  <2> HIDE DEF Line
  <2> QED BY <2>1, <2>2, <2>3, LineJoined
<1>4. CASE WriteChunk
  <2>1. dev' = dev /\ Line' = Line
    BY <1>4, ChunkKeeps DEF WriteChunk, devVars
  <2> QED BY <2>1
<1>5. CASE Tickle
  <2>1. dev' = dev /\ used' = [used EXCEPT !["alarms"] = @ + 1]
    BY <1>5 DEF Tickle, Spend, devVars
  <2>2. used'.alarms # 0
    BY <2>1 DEF SentTypes, UsedTypes
  <2>3. ~split
    BY <2>2, CalmBefore, Spent DEF regime, Calm
  <2>4. out = <<>>
    BY <2>3 DEF Books
  <2>5. PICK p \in Seq(Units) : /\ IsJoin(Line', Line, p) /\ Linked(p) /\ Whole(p)
                                /\ Len(p) > 0 /\ p[1].part = "first"
    BY <1>5, <2>4, TickleJoins
  <2> HIDE DEF Line
  <2> QED BY <2>1, <2>5, LineJoined
<1>6. CASE DevReads
  BY <1>6, DevReadsWhole
<1>7. CASE Detect \/ Skip \/ NetRx \/ ReadFirst \/ ReadHeader \/ ReadPayload \/ ReadDone
           \/ DevReplies \/ DevTickles \/ UNCHANGED vars
  <2>1. UNCHANGED <<toDev, out, dev>>
    BY <1>7 DEF Detect, Skip, NetRx, ReadFirst, ReadHeader, ReadPayload, ReadDone,
           DevReplies, DevTickles, vars, netVars, devVars
  <2> QED BY <1>1, <2>1
<1> QED BY <1>2, <1>3, <1>4, <1>5, <1>6, <1>7, CalmSteps

-----------------------------------------------------------------------------
(* The types the instances hold.                                           *)
LEMMA SameInst ==
  ASSUME Control, SentTypes, [Next]_vars, InstOk, inst' = inst,
         \A q \in {"cmd", "dlp"} : InHdr(q) => InHdr(q)'
  PROVE  InstOk'
<1>1. used'.alarms = 0 => used.alarms = 0
  BY Spent DEF SentTypes, UsedTypes
<1>2. todo' = Plan => todo = Plan
  BY PlanBefore
<1>3. InHdr("cmd") => InHdr("cmd")'
  OBVIOUS
<1>4. InHdr("dlp") => InHdr("dlp")'
  OBVIOUS
<1> HIDE DEF InHdr, Plan
<1>5. ~InHdr("dlp")' => inst'["dlp"].type = DATA
  BY <1>4 DEF InstOk
<1>6. ~InHdr("cmd")' /\ used'.alarms = 0 => inst'["cmd"].type = DATA
  BY <1>1, <1>3 DEF InstOk
<1>7. todo' = Plan => inst'["cmd"].type = DATA
  BY <1>2 DEF InstOk
<1>8. Plan' = Plan
  BY DEF Plan
<1> QED BY <1>5, <1>6, <1>7, <1>8 DEF InstOk

LEMMA NextInstOk ==
  ASSUME Control, SentTypes, Closing, Greeting, Books, InStep, [Next]_vars, Calm', Calm, InstOk
  PROVE  InstOk'
<1>0. /\ Aligned \/ Headless
      /\ inst \in [{"cmd", "dlp"} -> [type : Types, txid : 0..TxidWrap]] /\ cur \in {"cmd", "dlp"}
      /\ rx \in Partly
  BY DEF Calm, InStep, SentTypes, InstTypes, ResultTypes, HostTypes
<1>1. CASE inst' = inst /\ pc # "read"
  BY <1>1, SameInst DEF InHdr
<1>2. CASE UNCHANGED <<inst, pc, cur, rx>>
  BY <1>2, SameInst DEF InHdr
<1>3. CASE \E k \in Arrivals : Begin(k) \/ Close(k)
  BY <1>1, <1>3 DEF Begin, Close, netVars
<1>4. CASE Detect \/ Skip \/ NetTx \/ WriteChunk \/ NetRx
  BY <1>1, <1>4 DEF Detect, Skip, NetTx, WriteChunk, NetRx, netVars
<1>5. CASE DevReads \/ DevReplies \/ DevTickles \/ UNCHANGED vars
  BY <1>2, <1>5 DEF DevReads, DevReplies, DevTickles, vars, netVars, progress
<1>6. CASE ReadFirst
  <2>1. /\ inst' = inst /\ pc' = pc /\ cur' = cur /\ pc = "read" /\ rx.have = 0
        /\ \E u \in Arrived :
             rx' = IF inst[cur].txid = 0 /\ IsSignature(u)
                   THEN [rx EXCEPT !.have = 2, !.hdr = Unit("first", DATA, 1, Shake(1), 1)]
                   ELSE [rx EXCEPT !.have = 1, !.hdr = u]
    BY <1>6 DEF ReadFirst, progress, Arrived
  <2>2. CASE Headless
    <3>1. op = "handshake" /\ todo = Plan /\ todo # <<>>
      BY <2>2 DEF Headless, Plan
    <3>2. cur = "cmd"
      BY <3>1 DEF Control
    <3>3. inst["cmd"].type = DATA
      BY <3>1 DEF InstOk
    <3>4. inst["dlp"].type = DATA
      BY <3>2 DEF InstOk, InHdr
    <3> QED BY <2>1, <3>3, <3>4 DEF InstOk
  <2>3. CASE Aligned
    <3>1. PICK u \in Arrived :
             rx' = IF inst[cur].txid = 0 /\ IsSignature(u)
                   THEN [rx EXCEPT !.have = 2, !.hdr = Unit("first", DATA, 1, Shake(1), 1)]
                   ELSE [rx EXCEPT !.have = 1, !.hdr = u]
      BY <2>1
    <3>2. u.part = "first"
      BY <2>1, <2>3, InHeader1
    <3>3. rx' = [rx EXCEPT !.have = 1, !.hdr = u]
      BY <3>1, <3>2 DEF IsSignature
    <3>4. rx'.have = 1
      BY <1>0, <3>3 DEF Partly
    <3>5. \A q \in {"cmd", "dlp"} : InHdr(q) => InHdr(q)'
      BY <2>1, <3>4 DEF InHdr
    <3> QED BY <2>1, <3>5, SameInst
  <2> QED BY <1>0, <2>2, <2>3
<1>7. CASE ReadHeader
  <2>1. /\ Aligned /\ rx.have = 1 /\ pc = "read"
        /\ \E u \in Arrived : /\ Follows(rx.hdr, u) /\ inst' = [inst EXCEPT ![cur].type = u.type]
                              /\ Payload(u) \/ PassOver(u)
    BY <1>0, <1>7, HeaderRead DEF Calm
  <2>2. PICK u \in Arrived : /\ inst' = [inst EXCEPT ![cur].type = u.type]
                             /\ Payload(u) \/ PassOver(u)
    BY <2>1
  <2>3. cur' = cur /\ pc' = "read"
    BY <1>7, <2>1, <2>2 DEF ReadHeader, Payload, PassOver, progress
  <2>4. inst'[cur].type = u.type /\ \A q \in {"cmd", "dlp"} : q # cur => inst'[q] = inst[q]
    BY <1>0, <2>2
  <2>5. InHdr(cur)' \/ inst'[cur].type = DATA
    <3>1. Payload(u) => u.type = DATA
      BY DEF Payload
    <3>2. PassOver(u) => rx'.have = 0
      BY DEF PassOver, AfterTickle, NothingRead
    <3> QED BY <2>2, <2>3, <2>4, <3>1, <3>2 DEF InHdr
  <2>6. /\ cur = "cmd" => inst["dlp"].type = DATA
        /\ cur = "dlp" /\ used.alarms = 0 => inst["cmd"].type = DATA
    BY DEF InstOk, InHdr
  <2>7. used'.alarms = 0 => used.alarms = 0
    BY Spent DEF SentTypes, UsedTypes
  <2>8. ~InHdr("dlp")' => inst'["dlp"].type = DATA
    BY <1>0, <2>3, <2>4, <2>5, <2>6 DEF InHdr
  <2>9. ~InHdr("cmd")' /\ used'.alarms = 0 => inst'["cmd"].type = DATA
    BY <1>0, <2>3, <2>4, <2>5, <2>6, <2>7 DEF InHdr
  <2>10. todo' = Plan' => inst'["cmd"].type = DATA
    <3> SUFFICES ASSUME todo' = Plan PROVE inst'["cmd"].type = DATA
      BY DEF Plan
    <3>1. todo = Plan
      BY PlanBefore
    <3>2. u = toHost[1] /\ 1 \in 1..Len(toHost)
      BY TailLine DEF SentTypes
    <3>3. u.type = DATA
      BY <3>1, <3>2 DEF Greeting
    <3>4. CASE cur = "cmd"
      BY <2>4, <3>3, <3>4
    <3>5. CASE cur = "dlp"
      BY <2>4, <3>1, <3>5 DEF InstOk
    <3> QED BY <1>0, <3>4, <3>5
  <2> QED BY <2>8, <2>9, <2>10 DEF InstOk
<1>8. CASE ReadPayload
  <2>1. rx.have = 2 /\ inst' = inst
    BY <1>8 DEF ReadPayload, ReadsPayload
  <2>2. \A q \in {"cmd", "dlp"} : InHdr(q) => InHdr(q)'
    BY <2>1 DEF InHdr
  <2> QED BY <2>1, <2>2, SameInst
<1>9. CASE ReadDone
  <2>1. /\ rx.have = 2 /\ UNCHANGED used
        /\ inst' = [inst EXCEPT ![cur].txid = IF command THEN rx.hdr.txid ELSE TxidAfter(inst[cur].txid)]
    BY <1>9 DEF ReadDone, PayloadDone
  <2>2. \A q \in {"cmd", "dlp"} : inst'[q].type = inst[q].type
    BY <1>0, <2>1
  <2>3. inst'["cmd"].type = inst["cmd"].type /\ inst'["dlp"].type = inst["dlp"].type
    BY <2>2
  <2>4. inst["dlp"].type = DATA /\ (used.alarms = 0 => inst["cmd"].type = DATA)
    BY <2>1 DEF InstOk, InHdr
  <2>5. todo' = Plan' => inst["cmd"].type = DATA
    <3>1. Plan' = Plan
      BY DEF Plan
    <3> QED BY <3>1, PlanBefore DEF InstOk
  <2> QED BY <2>1, <2>3, <2>4, <2>5 DEF InstOk
<1>10. CASE Tickle
  <2>1. /\ inst' = [inst EXCEPT !["cmd"].type = TCKL] /\ UNCHANGED <<pc, cur, rx, todo>>
        /\ used' = [used EXCEPT !["alarms"] = @ + 1] /\ conn = "ACCEPT"
    BY <1>10 DEF Tickle, Spend, TickleOf, progress
  <2>2. used'.alarms # 0
    BY <2>1 DEF SentTypes, UsedTypes
  <2>3. todo' # Plan'
    <3>1. Plan' = Plan /\ todo # Plan
      BY <2>1 DEF Plan, Greeting
    <3> QED BY <2>1, <3>1
  <2>4. inst'["dlp"] = inst["dlp"]
    BY <1>0, <2>1
  <2>5. InHdr("dlp")' <=> InHdr("dlp")
    BY <2>1 DEF InHdr
  <2> QED BY <2>2, <2>3, <2>4, <2>5 DEF InstOk
<1> QED BY <1>3, <1>4, <1>5, <1>6, <1>7, <1>8, <1>9, <1>10, CalmSteps

-----------------------------------------------------------------------------
(* The packet that is no tickle is somewhere, unless the host has yet to   *)
(* send it, and the device has lost nothing.                               *)
Somewhere == OnItsWay \/ BeingRead \/ Tasked \/ Answered \/ Receiving

Token ==
  /\ ~HostsTurn => Somewhere
  /\ devTask # Lost
  /\ devTask = Ended => op = "close" /\ (Answered \/ Receiving)

(* What has arrived for the host is read, or stays.                        *)
LEMMA StaysThere ==
  ASSUME Token, UNCHANGED <<op, toDev, dev, devTask>>, HostsTurn => HostsTurn',
         Answered \/ Receiving => Answered' \/ Receiving'
  PROVE  Token'
<1>1. (OnItsWay \/ BeingRead \/ Tasked) => (OnItsWay' \/ BeingRead' \/ Tasked')
  BY DEF OnItsWay, BeingRead, Tasked, Opening
<1> QED BY <1>1 DEF Token, Somewhere

LEMMA UnitRead ==
  ASSUME HostTypes, NEW u \in Arrived, Answered, toHost' = Tail(toHost), u.type # DATA
  PROVE  Answered'
<1>1. /\ u = toHost[1] /\ Len(toHost) \in Nat /\ Len(Tail(toHost)) = Len(toHost) - 1
      /\ \A i \in 1..Len(Tail(toHost)) : Tail(toHost)[i] = toHost[i + 1]
  BY TailLine
<1>2. PICK i \in 1..Len(toHost) : toHost[i].type = DATA
  BY DEF Answered
<1>3. i # 1
  BY <1>1, <1>2
<1>4. i - 1 \in 1..Len(Tail(toHost)) /\ (i - 1) + 1 = i
  BY <1>1, <1>3
<1>5. Tail(toHost)[i - 1].type = DATA
  BY <1>1, <1>2, <1>4
<1> QED BY <1>4, <1>5 DEF Answered

LEMMA ReadingKeepsToken ==
  ASSUME Control, SentTypes, Aligned \/ Headless, Good', Token,
         ReadFirst \/ ReadHeader \/ ReadPayload
  PROVE  Token'
<1>0. rx \in Partly /\ HostTypes
  BY DEF SentTypes, HostTypes
<1>1. CASE ReadFirst
  <2>1. PICK u \in Arrived :
          /\ rx.have = 0 /\ toHost' = Tail(toHost)
          /\ rx' = IF inst[cur].txid = 0 /\ IsSignature(u)
                   THEN [rx EXCEPT !.have = 2, !.hdr = Unit("first", DATA, 1, Shake(1), 1)]
                   ELSE [rx EXCEPT !.have = 1, !.hdr = u]
    BY <1>1 DEF ReadFirst
  <2>2. UNCHANGED <<op, pc, toDev, dev, devTask>>
    BY <1>1 DEF ReadFirst, progress, devVars
  <2>3. u.type = DATA => Receiving'
    <3>1. rx'.have > 0 /\ (rx'.hdr = u \/ rx'.hdr = Unit("first", DATA, 1, Shake(1), 1))
      BY <1>0, <2>1 DEF Partly
    <3> QED BY <3>1 DEF Receiving, Unit
  <2>4. Answered \/ Receiving => Answered' \/ Receiving'
    <3>1. ~Receiving
      BY <2>1 DEF Receiving
    <3>2. Answered /\ u.type # DATA => Answered'
      BY <1>0, <2>1, UnitRead
    <3> QED BY <2>3, <3>1, <3>2
  <2> QED BY <2>2, <2>4, StaysThere DEF HostsTurn
<1>2. CASE ReadHeader
  <2>1. PICK u \in Arrived : Follows(rx.hdr, u) /\ (Payload(u) \/ PassOver(u))
    BY <1>2, HeaderRead
  <2>2. /\ UNCHANGED <<op, pc, toDev, dev, devTask>> /\ toHost' = Tail(toHost)
    BY <1>2, <2>1 DEF ReadHeader, Payload, PassOver, progress, devVars
  <2>3. u.type = DATA => Receiving'
    <3>1. u.type = DATA => Payload(u)
      BY <2>1 DEF PassOver, DATA, TCKL
    <3>2. Payload(u) => rx'.have > 0 /\ rx'.hdr = u
      BY <1>0 DEF Payload, Partly
    <3> QED BY <3>1, <3>2 DEF Receiving
  <2>4. Answered \/ Receiving => Answered' \/ Receiving'
    <3>1. Receiving => u.type = DATA
      BY <2>1 DEF Receiving, Follows
    <3>2. Answered /\ u.type # DATA => Answered'
      BY <1>0, <2>2, UnitRead
    <3> QED BY <2>3, <3>1, <3>2
  <2> QED BY <2>2, <2>4, StaysThere DEF HostsTurn
<1>3. CASE ReadPayload
  <2>1. rx.have = 2 /\ \E u \in Arrived : rx' = [rx EXCEPT !.got = Append(@, u)]
    BY <1>3 DEF ReadPayload, ReadsPayload
  <2>2. UNCHANGED <<op, pc, toDev, dev, devTask>>
    BY <1>3 DEF ReadPayload, progress, devVars
  <2>3. Aligned
    BY <2>1 DEF Headless, NothingRead
  <2>4. rx'.have = 2 /\ rx'.hdr = rx.hdr
    BY <1>0, <2>1 DEF Partly
  <2>5. Receiving'
    BY <2>1, <2>3, <2>4 DEF Receiving, Aligned
  <2> QED BY <2>2, <2>5, StaysThere DEF HostsTurn
<1> QED BY <1>1, <1>2, <1>3

LEMMA DevReadsKeepsToken ==
  ASSUME Control, SentTypes, DevLine(dev, Line), Token, DevReads
  PROVE  Token'
<1>1. PICK e : /\ e = DevTake(dev, toDev[1]) /\ InPlace(dev, toDev[1]) /\ devTask = Waiting
               /\ e.hdr.type \in {DATA, TCKL} /\ (dev.have > 0 => e.hdr.type = dev.hdr.type)
               /\ \/ dev' = e /\ ~Complete(e) /\ UNCHANGED <<devTask, execs>>
                  \/ dev' = NothingRead /\ Complete(e) /\ Receive(e.hdr.type, e.hdr.of)
  BY DevReadsWhole DEF Token
<1>2. UNCHANGED <<op, pc, toHost, rx>> /\ toDev' = Tail(toDev)
  BY DEF DevReads, progress, netVars
<1>3. /\ e.have > 0 /\ e.hdr.of \in Sent
      /\ dev.have = 0 => e.hdr = toDev[1] /\ e.have = 1
      /\ Len(toDev) \in Nat \ {0} /\ Len(toDev') = Len(toDev) - 1
      /\ \A i \in 1..(Len(toDev) - 1) : toDev'[i] = toDev[i + 1]
  <2>1. PICK u \in Units, d \in Partly :
           /\ Len(toDev) \in Nat \ {0} /\ u = toDev[1]
           /\ Len(toDev') = Len(toDev) - 1
           /\ \A i \in 1..(Len(toDev) - 1) : toDev'[i] = toDev[i + 1]
           /\ d = DevTake(dev, u) /\ d.have > 0 /\ d.hdr.of \in Sent
           /\ dev.have = 0 => d.hdr = u
    BY DevTakes
  <2>2. dev.have = 0 => e.have = 1
    BY <1>1 DEF DevTake, SentTypes, DevTypes, Partly
  <2> QED BY <1>1, <2>1, <2>2
<1>4. dev.have \in 0..2 /\ DATA # TCKL
  BY DEF SentTypes, DevTypes, Partly, DATA, TCKL
(* The unit belongs to that packet.                                        *)
<1>5. ASSUME e.hdr.type = DATA PROVE BeingRead' \/ Tasked'
  <2>1. CASE dev' = e
    BY <1>3, <1>5, <2>1 DEF BeingRead
  <2>2. CASE Receive(e.hdr.type, e.hdr.of)
    <3>1. devTask' = e.hdr.of
      BY <1>4, <1>5, <2>2 DEF Receive
    <3>2. e.hdr.of \notin {Waiting, Lost, Ended}
      BY <1>3 DEF Sent, Waiting, Lost, Ended, Shake
    <3> QED BY <3>1, <3>2 DEF Tasked
  <2> QED BY <1>1, <2>1, <2>2
<1>6. OnItsWay \/ BeingRead => OnItsWay' \/ BeingRead' \/ Tasked'
  <2>1. CASE BeingRead
    BY <1>1, <1>5, <2>1 DEF BeingRead
  <2>2. ASSUME NEW i \in 1..Len(toDev), Opening(toDev[i]) PROVE OnItsWay' \/ BeingRead' \/ Tasked'
    <3>1. CASE i = 1
      <4>1. dev.have = 0
        BY <1>1, <1>4, <2>2, <3>1 DEF InPlace, Opening
      <4>2. e.hdr.type = DATA
        BY <1>3, <2>2, <3>1, <4>1 DEF Opening
      <4> QED BY <1>5, <4>2
    <3>2. CASE i # 1
      <4>1. i - 1 \in 1..(Len(toDev) - 1) /\ (i - 1) + 1 = i /\ i - 1 \in 1..Len(toDev')
        BY <1>3, <3>2
      <4>2. Opening(toDev'[i - 1])
        BY <1>3, <2>2, <4>1
      <4> QED BY <4>1, <4>2 DEF OnItsWay, Opening
    <3> QED BY <3>1, <3>2
  <2> QED BY <2>1, <2>2 DEF OnItsWay
<1>7. ~Tasked /\ (Answered' <=> Answered) /\ (Receiving' <=> Receiving) /\ (HostsTurn' <=> HostsTurn)
  BY <1>1, <1>2 DEF Tasked, Answered, Receiving, HostsTurn
<1>8. devTask' \notin {Lost, Ended}
  <2>1. Waiting \notin {Lost, Ended} /\ \A of \in Sent : of \notin {Lost, Ended}
    BY DEF Sent, Waiting, Lost, Ended, Shake
  <2>2. devTask' \in {Waiting, e.hdr.of}
    BY <1>1, <1>4 DEF Receive
  <2> QED BY <1>3, <2>1, <2>2
<1> QED BY <1>6, <1>7, <1>8 DEF Token, Somewhere

LEMMA NextToken ==
  ASSUME Control, SentTypes, Closing, Greeting, Books, InTurn, InStep, [Next]_vars, Calm', Calm,
         DevLine(dev, Line), InstOk, Token
  PROVE  Token'
<1>0. (Aligned \/ Headless) /\ OneTurn /\ Current1 /\ Good'
  BY DEF Calm, InStep, InTurn
<1>1. HostsTurn => devTask \notin {Lost, Ended}
  BY <1>0 DEF OneTurn, Token
<1>2. ASSUME HostsTurn', devTask' \notin {Lost, Ended} PROVE Token'
  BY <1>2 DEF Token
<1>3. CASE \E k \in Arrivals : Begin(k) \/ Close(k)
  <2>1. HostsTurn /\ HostsTurn' /\ devTask' = devTask
    BY <1>3 DEF Begin, Close, Enter, HostsTurn, devVars
  <2> QED BY <1>1, <1>2, <2>1
<1>4. CASE NetTx
  <2>1. HostsTurn /\ devTask' = devTask /\ devTask' \notin {Lost, Ended}
    BY <1>1, <1>4 DEF NetTx, HostsTurn, devVars
  <2>2. OnItsWay'
    BY <1>4, SentPacket DEF OnItsWay, Opening
  <2> QED BY <2>1, <2>2 DEF Token, Somewhere
<1>5. CASE WriteChunk
  <2>1. /\ pc = "body" /\ UNCHANGED <<dev, devTask, toHost, rx>>
        /\ \A i \in 1..Len(toDev) : i \in 1..Len(toDev') /\ toDev'[i] = toDev[i]
    BY <1>5, ChunkKeeps DEF WriteChunk, devVars
  <2>2. op' = op
    BY <1>0, <1>5, SentGoesOn DEF WriteChunk, progress
  <2>3. OnItsWay => OnItsWay'
    BY <2>1 DEF OnItsWay, Opening
  <2>4. Somewhere /\ (BeingRead' <=> BeingRead) /\ (Tasked' <=> Tasked)
        /\ (Answered' <=> Answered) /\ (Receiving' <=> Receiving)
    BY <2>1 DEF Token, HostsTurn, BeingRead, Tasked, Answered, Receiving
  <2> QED BY <2>1, <2>2, <2>3, <2>4 DEF Token, Somewhere
<1>6. CASE Detect \/ Skip
  <2>1. UNCHANGED <<op, toDev, dev, devTask, rx>> /\ pc = "detect" /\ todo = Plan
    BY <1>6 DEF Detect, Skip, Control, progress, netVars, devVars
  <2>2. devTask = Waiting
    BY <2>1 DEF Greeting
  <2>3. ~HostsTurn
    BY <2>1 DEF HostsTurn
  <2>4. Answered \/ Receiving => Answered' \/ Receiving'
    <3>1. CASE toHost' = toHost
      BY <2>1, <3>1 DEF Answered, Receiving
    <3>2. CASE toHost' # toHost
      <4>1. Skip /\ ~Detected /\ toHost' = Tail(toHost)
        BY <1>6, <3>2 DEF Detect, Skip
      <4>2. ~eof /\ \A i \in 1..Len(toHost) : toHost[i].type = DATA
        BY <2>1 DEF Greeting
      <4>3. Len(toHost) \in Nat /\ toHost \in Seq(Units)
        BY LenProperties DEF SentTypes, HostTypes
      <4>4. ~(toHost = <<FirstPiece, FirstPiece>>)
        <5>1. ASSUME toHost = <<FirstPiece, FirstPiece>> PROVE Detected
          <6>1. toHost[1] = FirstPiece /\ Len(toHost) = 2 /\ FirstPiece.part = "piece" /\ FirstPiece.of = Shake(1)
            BY <5>1 DEF FirstPiece, Unit
          <6> QED BY <6>1 DEF Detected, IsSignature
        <5> QED BY <4>1, <5>1
      <4>5. Answered'
        <5>1. CASE Headless
          <6>1. toHost = <<FirstMore, FirstPiece, FirstPiece>>
            BY <4>2, <4>4, <5>1 DEF Headless
          <6>2. toHost' = <<FirstPiece, FirstPiece>>
            BY <4>1, <6>1
          <6>3. 1 \in 1..Len(toHost') /\ toHost'[1].type = DATA
            BY <6>2 DEF FirstPiece, Unit
          <6> QED BY <6>3 DEF Answered
        <5>2. CASE Aligned
          <6>1. Linked(toHost) /\ Whole(toHost) /\ toHost[1].part = "first"
            BY <2>1, <4>1, <4>2, <5>2 DEF Aligned, NothingRead, Control, Skip
          <6>2. 1 \in 1..Len(toHost)
            BY <4>1, <4>3, EmptySeq DEF Skip
          <6>3. 1 < Len(toHost)
            BY <6>1, <6>2 DEF Whole
          <6>4. 1 \in 1..(Len(toHost) - 1) /\ 1 + 1 \in 1..Len(toHost)
            BY <4>3, <6>3
          <6>5. Tail(toHost)[1] = toHost[1 + 1] /\ Len(Tail(toHost)) = Len(toHost) - 1
            BY <4>1, <4>3, <6>4, HeadTailProperties DEF Skip
          <6>6. 1 \in 1..Len(toHost') /\ toHost'[1].type = DATA
            BY <4>1, <4>2, <6>4, <6>5
          <6> QED BY <6>6 DEF Answered
        <5> QED BY <1>0, <5>1, <5>2
      <4> QED BY <4>5
    <3> QED BY <3>1, <3>2
  <2> QED BY <2>1, <2>3, <2>4, StaysThere
<1>7. CASE NetRx
  <2>1. UNCHANGED <<op, toDev, dev, devTask, toHost, rx>> /\ pc = "rx"
    BY <1>7 DEF NetRx, devVars, Control
  <2> QED BY <2>1, StaysThere DEF HostsTurn, Answered, Receiving
<1>8. CASE ReadFirst \/ ReadHeader \/ ReadPayload
  BY <1>0, <1>8, ReadingKeepsToken
<1>9. CASE ReadDone
  <2>1. pc = "read" /\ todo # <<>> /\ devTask' = devTask /\ Len(todo) \in {1, 3, 5}
    BY <1>9, Busy DEF ReadDone, devVars, Control
  <2>2. GoesOnTo \/ EndsWell(Content(rx.got))
    BY <1>0, <1>9, <2>1, Outcomes, FailureEnds DEF ReadDone
  <2>3. op' = op
    BY <2>2 DEF GoesOnTo, EndsWell
  <2>4. op # "close"
    <3>1. ASSUME op = "close", GoesOnTo PROVE FALSE
      <4>1. todo \in {<<>>, <<"rx">>, <<"tx", "rx">>}
        BY <3>1 DEF Control
      <4>2. Len(<<"tx", "rx">>) = 2 /\ Len(<<"rx">>) = 1
        OBVIOUS
      <4> QED BY <2>1, <3>1, <4>1, <4>2 DEF GoesOnTo
    <3>2. ASSUME op = "close", EndsWell(Content(rx.got)) PROVE FALSE
      BY <1>0, <3>2 DEF EndsWell, Good
    <3> QED BY <2>2, <3>1, <3>2
  <2>5. HostsTurn'
    <3>1. Len(todo) \notin {2, 4}
      BY <2>1
    <3>2. GoesOnTo => pc' = "tx"
      BY <3>1 DEF GoesOnTo
    <3>3. EndsWell(Content(rx.got)) => pc' = "app"
      BY <2>4 DEF EndsWell
    <3> QED BY <2>2, <3>2, <3>3 DEF HostsTurn
  <2> QED BY <1>2, <2>1, <2>4, <2>5 DEF Token
<1>10. CASE Tickle
  <2>1. /\ UNCHANGED <<op, pc, dev, devTask, toHost, rx>>
        /\ toDev' = toDev \o Packet(TCKL, TxidWrap, <<"tickle", 0>>, 0)
    BY <1>10 DEF Tickle, progress, devVars
  <2>2. \A i \in 1..Len(toDev) : i \in 1..Len(toDev') /\ toDev'[i] = toDev[i]
    <3> DEFINE p == Packet(TCKL, TxidWrap, <<"tickle", 0>>, 0)
    <3>1. p \in Seq(Units) /\ toDev \in Seq(Units)
      BY TicklePacket DEF SentTypes, DevTypes
    <3> HIDE DEF p
    <3>2. /\ Len(toDev \o p) = Len(toDev) + Len(p) /\ Len(toDev) \in Nat /\ Len(p) \in Nat
          /\ \A i \in 1..Len(toDev) : (toDev \o p)[i] = toDev[i]
      BY <3>1, Joined
    <3>3. toDev' = toDev \o p
      BY <2>1 DEF p
    <3> QED BY <3>2, <3>3
  <2>3. OnItsWay => OnItsWay'
    BY <2>2 DEF OnItsWay, Opening
  <2>4. /\ BeingRead' <=> BeingRead
        /\ Tasked' <=> Tasked
        /\ Answered' <=> Answered
        /\ Receiving' <=> Receiving
        /\ HostsTurn' <=> HostsTurn
    BY <2>1 DEF HostsTurn, BeingRead, Tasked, Answered, Receiving
  <2> QED BY <2>1, <2>3, <2>4 DEF Token, Somewhere
<1>11. CASE DevReads
  BY <1>11, DevReadsKeepsToken
<1>12. CASE DevReplies
  <2>1. /\ Tasked /\ UNCHANGED <<op, pc>> /\ ~HostsTurn
        /\ devTask' = IF devTask[1] = "close" THEN Ended ELSE Waiting
    BY <1>0, <1>12 DEF DevReplies, progress, Tasked, OneTurn
  <2>2. devTask[1] = "close" => op = "close"
    BY <1>0, <2>1 DEF Current1, Fits, ThisCall, Control
  <2>3. PICK type \in {DATA, TCKL}, txid \in {1, TxidWrap}, of \in Items, n \in Nat :
           /\ type \in Types /\ txid \in 0..TxidWrap
           /\ toHost' = toHost \o Packet(type, txid, of, n)
           /\ type = DATA
    BY <1>12, DevPacket
  <2>4. Answered'
    <3> DEFINE p == Packet(type, txid, of, n)
    <3>1. p \in Seq(Units) /\ Len(p) = n + 2 /\ p[1] = Unit("first", type, txid, of, n)
      BY <2>3, PacketIs
    <3>2. toHost \in Seq(Units) /\ toHost' = toHost \o p
      BY <2>3 DEF SentTypes, HostTypes
    <3> HIDE DEF p
    <3>3. /\ Len(toHost \o p) = Len(toHost) + Len(p) /\ Len(toHost) \in Nat
          /\ \A i \in 1..Len(p) : (toHost \o p)[Len(toHost) + i] = p[i]
      <4>1. toHost \in Seq(Units) /\ p \in Seq(Units)
        BY <3>1, <3>2
      <4> QED BY ONLY <4>1, Joined
    <3>4. Len(toHost) + 1 \in 1..Len(toHost') /\ toHost'[Len(toHost) + 1].type = DATA
      BY <2>3, <3>1, <3>2, <3>3 DEF Unit
    <3> QED BY <3>4 DEF Answered
  <2>5. Ended # Lost /\ Waiting # Lost /\ Waiting # Ended
    BY DEF Ended, Lost, Waiting
  <2> QED BY <2>1, <2>2, <2>4, <2>5 DEF Token, Somewhere
<1>13. CASE DevTickles
  <2>1. UNCHANGED <<op, pc, toDev, dev, devTask, rx>>
    BY <1>13 DEF DevTickles, progress, netVars, devVars
  <2>2. Answered => Answered'
    <3>1. PICK type \in {DATA, TCKL}, txid \in {1, TxidWrap}, of \in Items, n \in Nat :
           /\ type \in Types /\ txid \in 0..TxidWrap
           /\ toHost' = toHost \o Packet(type, txid, of, n)
      BY <1>13, DevPacket
    <3> DEFINE p == Packet(type, txid, of, n)
    <3>2. p \in Seq(Units)
      BY <3>1, PacketIs
    <3>3. toHost \in Seq(Units) /\ toHost' = toHost \o p
      BY <3>1 DEF SentTypes, HostTypes
    <3> HIDE DEF p
    <3>4. /\ Len(toHost \o p) = Len(toHost) + Len(p) /\ Len(toHost) \in Nat /\ Len(p) \in Nat
          /\ \A i \in 1..Len(toHost) : (toHost \o p)[i] = toHost[i]
      BY <3>2, <3>3, Joined
    <3>5. \A i \in 1..Len(toHost) : i \in 1..Len(toHost') /\ toHost'[i] = toHost[i]
      BY <3>3, <3>4
    <3> QED BY <3>5 DEF Answered
  <2> QED BY <2>1, <2>2, StaysThere DEF HostsTurn, Receiving
<1>14. CASE UNCHANGED vars
  <2>1. UNCHANGED <<op, pc, toDev, dev, devTask, toHost, rx>>
    BY <1>14 DEF vars, progress, netVars, devVars
  <2> QED BY <2>1, StaysThere DEF HostsTurn, Answered, Receiving
<1> QED BY <1>3, <1>4, <1>5, <1>6, <1>7, <1>8, <1>9, <1>10, <1>11, <1>12, <1>13, <1>14, CalmSteps

-----------------------------------------------------------------------------
(* An operation that goes well does not fail.                              *)
Failing ==
  \/ WriteFails \/ ReadFails \/ ReadEof \/ ReadTimesOut
  \/ ReadHeader /\ \E u \in Arrived : \E h \in Header(u) : BadHeader(h)
  \/ ReadDone /\ op # "handshake" /\ ~RightCommand(Content(rx.got))

LEMMA Endings ==
  ASSUME Control, SentTypes, [Next]_vars, ~\E k \in Arrivals : Begin(k) \/ Close(k)
  PROVE  \/ /\ UNCHANGED <<op, outcome, conn>> /\ (pc' = "closed" <=> pc = "closed")
            /\ todo' = <<>> <=> todo = <<>>
         \/ CloseBroken
         \/ Failing /\ EndsBadly /\ todo # <<>>
         \/ EndsWell(Content(rx.got))
<1>0. GoesOnTo => /\ UNCHANGED <<op, outcome, conn>> /\ pc' # "closed" /\ todo # <<>> /\ todo' # <<>>
  BY TodoFacts DEF GoesOnTo, Control
<1>1. CASE NetTx \/ WriteChunk
  <2>1. pc \in {"tx", "body"} /\ Len(todo) \in {2, 4} /\ todo # <<>>
    BY <1>1, Busy DEF NetTx, WriteChunk, Control
  <2>2. StepDone(Subject) => GoesOnTo
    <3> SUFFICES ASSUME StepDone(Subject) PROVE GoesOnTo
      OBVIOUS
    <3>1. todo \in Todos
      BY DEF Control
    <3>2. Len(todo) > 1 /\ Enter(Tail(todo)) /\ UNCHANGED <<op, conn, command, results>>
      BY <2>1 DEF StepDone
    <3> QED BY <3>1, <3>2, TodoFacts DEF Enter, GoesOnTo, results
  <2>3. ~StepDone(Subject) => UNCHANGED <<op, outcome, conn, todo>> /\ pc' # "closed"
    <3> HIDE DEF StepDone
    <3> QED BY <1>1, <2>1 DEF NetTx, WriteChunk, results, progress
  <2> QED BY <1>0, <2>1, <2>2, <2>3
<1>2. CASE WriteFails \/ ReadTimesOut \/ ReadFails \/ ReadEof
  <2>1. todo # <<>>
    BY <1>2, Busy DEF WriteFails, ReadTimesOut, ReadFails, ReadEof, EofIn
  <2>2. EndsBadly
    BY <1>2, FailsIs DEF WriteFails, ReadTimesOut, ReadFails, ReadEof
  <2> QED BY <1>2, <2>1, <2>2 DEF Failing
<1>3. CASE ReadHeader
  <2>2. PICK u \in Arrived : \E h \in Header(u) : Payload(h) \/ PassOver(h) \/ BadHeader(h)
    BY <1>3 DEF ReadHeader
  <2>3. PICK h \in Header(u) : Payload(h) \/ PassOver(h) \/ BadHeader(h)
    BY <2>2
  <2>4. pc = "read" /\ todo # <<>>
    BY <1>3, Busy DEF ReadHeader, Arrived
  <2>5. CASE BadHeader(h)
    <3>1. EndsBadly
      BY <2>5, FailsIs DEF BadHeader
    <3>2. Failing
      BY <1>3, <2>5 DEF Failing
    <3> QED BY <2>4, <3>1, <3>2
  <2>6. CASE Payload(h) \/ PassOver(h)
    BY <2>4, <2>6 DEF Payload, PassOver, progress, results
  <2> QED BY <2>3, <2>5, <2>6
<1>4. CASE ReadDone
  <2>1. pc = "read" /\ todo # <<>> /\ StepDone(Content(rx.got))
    BY <1>4, Busy DEF ReadDone
  <2>2. GoesOnTo \/ EndsWell(Content(rx.got)) \/ EndsBadly
    BY <2>1, Outcomes
  <2>3. CASE op # "handshake" /\ ~RightCommand(Content(rx.got))
    BY <1>0, <1>4, <2>1, <2>2, <2>3 DEF Failing
  <2>4. CASE op = "handshake" \/ RightCommand(Content(rx.got))
    <3>1. \/ Len(todo) > 1 /\ Enter(Tail(todo)) /\ UNCHANGED <<op, conn, command, results>>
          \/ Len(todo) = 1 /\ Succeeds(Content(rx.got))
      BY <2>1, <2>4 DEF StepDone
    <3>2. CASE Len(todo) = 1 /\ Succeeds(Content(rx.got))
      <4>1. todo = <<"rx">>
        BY <3>2, TodoFacts DEF Control
      <4>2. EndsWell(Content(rx.got))
        BY <2>4, <3>2, <4>1 DEF Succeeds, EndsWell
      <4> QED BY <4>2
    <3>3. CASE Len(todo) > 1 /\ Enter(Tail(todo)) /\ UNCHANGED <<op, conn, command, results>>
      <4>1. /\ Tail(todo) # <<>> /\ Head(Tail(todo)) \in {"tx", "rx"}
        BY <3>3, TodoFacts DEF Control
      <4>2. todo' # <<>> /\ pc' # "closed"
        BY <3>3, <4>1 DEF Enter
      <4> QED BY <2>1, <3>3, <4>2 DEF results
    <3> QED BY <3>1, <3>2, <3>3
  <2> QED BY <2>3, <2>4
<1>5. CASE \/ Detect \/ Skip \/ NetRx \/ ReadFirst \/ ReadPayload \/ Tickle \/ Device
           \/ UNCHANGED vars
  <2>1. UNCHANGED <<op, todo, outcome, conn>>
    BY <1>5 DEF Detect, Skip, NetRx, ReadFirst, ReadPayload, Tickle,
           Device, DevReads, DevReplies, DevTickles, DevCloses, vars, progress, results, netVars
  <2>2. pc' = "closed" <=> pc = "closed"
    BY <1>5 DEF Detect, Skip, NetRx, ReadFirst, ReadPayload, Tickle,
           Device, DevReads, DevReplies, DevTickles, DevCloses, vars, progress
  <2> QED BY <2>1, <2>2
<1> QED BY <1>1, <1>2, <1>3, <1>4, <1>5 DEF Next, Host, Reading, Spin, Finished

Live == Calm => DevLine(dev, Line) /\ InstOk /\ Token

(* A read does not wait in vain.                                           *)
LEMMA NoTimeout ==
  ASSUME Control, SentTypes, Books, InStep, Calm, DevLine(dev, Line), Token, ReadTimesOut
  PROVE  FALSE
<1>1. /\ pc = "read" /\ toHost = <<>> /\ ~eof /\ ~PayloadDone
      /\ devTask \in {Lost, Ended} \/ (devTask = Waiting /\ toDev = <<>>)
  BY DEF ReadTimesOut, Calm
<1>2. Aligned
  BY <1>1 DEF Calm, InStep, Headless
<1>3. Len(toHost) = 0
  BY <1>1
<1>4. rx.have # 1
  BY <1>1, <1>2 DEF Aligned
<1>5. rx.have # 2
  <2> SUFFICES ASSUME rx.have = 2 PROVE FALSE
    OBVIOUS
  <2>1. /\ rx.hdr.len \in Nat /\ Len(rx.got) <= rx.hdr.len /\ rx.hdr.len - Len(rx.got) <= 0
    BY <1>1, <1>2, <1>3 DEF Aligned, Expected
  <2>2. Len(rx.got) \in Nat
    BY LenProperties DEF SentTypes, HostTypes, Partly
  <2>3. Len(rx.got) = rx.hdr.len
    BY <2>1, <2>2
  <2> QED BY <1>1, <2>3 DEF PayloadDone
<1>6. ~Receiving /\ ~Answered
  <2>1. rx.have \in 0..2
    BY DEF SentTypes, HostTypes, Partly
  <2>2. rx.have = 0
    BY <1>4, <1>5, <2>1
  <2> QED BY <1>3, <2>2 DEF Receiving, Answered
<1>7. devTask = Waiting /\ toDev = <<>>
  BY <1>1, <1>6 DEF Token
<1>8. ~OnItsWay /\ ~Tasked
  <2>1. Len(toDev) = 0
    BY <1>7
  <2> QED BY <1>7, <2>1 DEF OnItsWay, Tasked
<1>9. ~BeingRead
  <2>1. out = <<>>
    BY <1>1 DEF Books
  <2>2. Len(Line) = 0
    BY <1>7, <2>1, LineTypes
  <2>3. dev.have \in 0..2
    BY DEF SentTypes, DevTypes, Partly
  <2> HIDE DEF Line
  <2>4. dev.have # 1
    BY <2>2 DEF DevLine
  <2>5. dev.have # 2
    BY <2>2 DEF DevLine
  <2>6. dev.have = 0
    BY <2>3, <2>4, <2>5
  <2> QED BY <2>6 DEF BeingRead
<1>10. ~HostsTurn
  BY <1>1 DEF HostsTurn
<1> QED BY <1>6, <1>8, <1>9, <1>10 DEF Token, Somewhere

LEMMA NoFailure ==
  ASSUME Control, SentTypes, Books, InTurn, InStep, Calm, DevLine(dev, Line), Token,
         used'.faults = 0
  PROVE  ~Failing
<1>0. used \in [{"alarms", "tickles", "faults", "closes"} -> Nat] /\ used.faults = 0 /\ ~eof
  BY DEF SentTypes, UsedTypes, Calm, Books
<1>1. ~Spend("faults", MaxFaults)
  BY <1>0 DEF Spend
<1>2. ~WriteFails /\ ~ReadFails
  <2> HIDE DEF Spend
  <2> QED BY <1>0, <1>1 DEF WriteFails, ReadFails
<1>3. ~ReadEof
  BY <1>0 DEF ReadEof, EofIn
<1>4. ~ReadTimesOut
  BY NoTimeout
<1>5. ASSUME ReadHeader, NEW u \in Arrived, NEW h \in Header(u), BadHeader(h) PROVE FALSE
  <2>1. rx.have = 1
    BY <1>5 DEF ReadHeader
  <2>2. Aligned
    BY <2>1 DEF Calm, InStep, Headless, NothingRead
  <2>3. h = u
    BY <1>5, <2>1, <2>2, InHeader1
  <2>4. u = toHost[1] /\ 1 \in 1..Len(toHost)
    BY TailLine DEF SentTypes
  <2>5. /\ u.type \in {DATA, TCKL}
        /\ u.type = TCKL => u.len = 0
        /\ u.type = DATA => u.len \in Nat /\ u.len <= PacketMax
    BY <2>2, <2>4 DEF Aligned, Linked
  <2>6. \/ u.type = DATA /\ u.len > PacketMax
        \/ u.type = TCKL /\ u.len # 0
        \/ u.type = "unknown"
    BY <1>5, <2>3 DEF BadHeader
  <2>7. DATA # "unknown" /\ TCKL # "unknown" /\ PacketMax \in Nat
    BY NetAssumption DEF DATA, TCKL
  <2> QED BY <2>5, <2>6, <2>7
<1>6. ASSUME ReadDone, op # "handshake", ~RightCommand(Content(rx.got)) PROVE FALSE
  <2>1. Fits(Content(rx.got))
    BY <1>6, ReadResponse DEF Calm
  <2>2. op \in {"call", "close"}
    BY <1>6 DEF Control
  <2>3. Content(rx.got)[1] = op
    BY <2>1, <2>2 DEF Fits, ThisCall
  <2> QED BY <1>6, <2>3 DEF RightCommand
<1> QED BY <1>2, <1>3, <1>4, <1>5, <1>6 DEF Failing

LEMMA NextLive ==
  ASSUME Control, SentTypes, Closing, Greeting, Books, InTurn, InStep, Live, [Next]_vars
  PROVE  Live'
<1> SUFFICES ASSUME Calm' PROVE DevLine(dev', Line') /\ InstOk' /\ Token'
  BY DEF Live, DevLine, Linked, Whole, Follows, PieceOf, Missing
<1>1. Calm
  BY CalmBefore
<1>2. DevLine(dev, Line) /\ InstOk /\ Token
  BY <1>1 DEF Live
<1>3. devTask # Lost
  BY <1>2 DEF Token
<1> QED BY <1>1, <1>2, <1>3, NextLine, NextInstOk, NextToken

-----------------------------------------------------------------------------
(* When the application stops at the first failure there is none, but of   *)
(* pi_close after a tickle.                                                *)
Stops ==
  ~goesOn /\ Undisturbed =>
    /\ outcome # "error"
    /\ pc = "closed" => conn = "END" /\ op = "close"
    /\ op = "close" /\ used.alarms = 0 /\ pc # "closed" => used.closes = 1 /\ todo # <<>>

LEMMA NextStops ==
  ASSUME Control, SentTypes, Closing, Books, InTurn, InStep, Live, Stops, [Next]_vars
  PROVE  Stops'
<1> SUFFICES ASSUME ~goesOn', Undisturbed'
             PROVE  /\ outcome' # "error"
                    /\ pc' = "closed" => conn' = "END" /\ op' = "close"
                    /\ op' = "close" /\ used'.alarms = 0 /\ pc' # "closed" => used'.closes = 1 /\ todo' # <<>>
  BY DEF Stops
<1>1. /\ used' \in [{"alarms", "tickles", "faults", "closes"} -> Nat]
      /\ used \in [{"alarms", "tickles", "faults", "closes"} -> Nat]
      /\ used'.alarms >= used.alarms /\ used'.faults >= used.faults
      /\ UNCHANGED regime
  BY Spent DEF SentTypes, UsedTypes
<1>2. /\ ~goesOn /\ patient /\ used'.faults = 0 /\ used.faults = 0
      /\ split => used.alarms = 0
      /\ used'.alarms = 0 => used.alarms = 0
  BY <1>1 DEF Undisturbed, regime
<1>3. /\ outcome # "error"
      /\ pc = "closed" => conn = "END" /\ op = "close"
      /\ op = "close" /\ used.alarms = 0 /\ pc # "closed" => used.closes = 1 /\ todo # <<>>
  BY <1>2 DEF Stops, Undisturbed
<1>4. ASSUME NEW k \in Arrivals, Begin(k)
      PROVE  outcome' = "none" /\ pc' = "tx" /\ op' = "call"
  BY <1>4 DEF Begin, Enter
<1>5. ASSUME NEW k \in Arrivals, Close(k)
      PROVE  /\ outcome' = outcome /\ pc' = "tx" /\ todo' # <<>>
             /\ used'.alarms = 0 => used'.closes = 1
  <2>1. /\ outcome' = outcome /\ pc' = "tx" /\ todo' # <<>> /\ pc = "app" /\ todo = <<>>
        /\ used' = [used EXCEPT !["closes"] = @ + 1]
    BY <1>5 DEF Close, Spend, Enter, results, Control
  <2>2. ASSUME used'.alarms = 0 PROVE used'.closes = 1
    <3>1. used.alarms = 0
      BY <1>2, <2>2
    <3>2. op # "close"
      BY <1>3, <2>1, <3>1
    <3>3. used.closes = 0
      BY <1>2, <3>2 DEF Closing
    <3> QED BY <1>1, <2>1, <3>3
  <2> QED BY <2>1, <2>2
<1>6. CASE ~\E k \in Arrivals : Begin(k) \/ Close(k)
  <2>0. used'.closes = used.closes
    BY <1>6, ClosesCounted
  <2>1. CASE /\ UNCHANGED <<op, outcome, conn>> /\ (pc' = "closed" <=> pc = "closed")
             /\ todo' = <<>> <=> todo = <<>>
    BY <1>2, <1>3, <2>0, <2>1
  <2>2. ~CloseBroken
    BY <1>2 DEF CloseBroken, Books
  <2>3. CASE Failing /\ EndsBadly /\ todo # <<>>
    <3>1. pc # "closed"
      BY <2>3 DEF Control
    <3>2. ~Calm
      BY <1>2, <2>3, NoFailure DEF Live
    <3>3. op = "close" /\ used.alarms # 0
      <4>1. CASE op # "close"
        <5>1. Good
          BY <1>2, <1>3, <3>1, <4>1 DEF Good
        <5> QED BY <1>2, <3>2, <4>1, <5>1 DEF Calm
      <4>2. CASE op = "close" /\ used.alarms = 0
        <5>1. Good
          BY <1>2, <1>3, <3>1, <4>2 DEF Good
        <5> QED BY <1>2, <3>2, <4>2, <5>1 DEF Calm
      <4> QED BY <4>1, <4>2
    <3>4. outcome' = outcome /\ op' = op /\ pc' = "app" /\ used'.alarms # 0
      BY <1>2, <2>3, <3>3 DEF EndsBadly
    <3> QED BY <1>3, <3>4
  <2>4. CASE EndsWell(Content(rx.got))
    <3>1. outcome' # "error" /\ op' = op
      BY <1>3, <2>4 DEF EndsWell
    <3>2. op = "close" => pc' = "closed" /\ conn' = "END"
      BY <2>4 DEF EndsWell
    <3>3. op # "close" => pc' = "app"
      BY <2>4 DEF EndsWell
    <3> QED BY <3>1, <3>2, <3>3
  <2> QED BY <1>6, <2>1, <2>2, <2>3, <2>4, Endings
<1> QED BY <1>3, <1>4, <1>5, <1>6

LInv == IInv /\ Books /\ Live /\ Stops

LEMMA InitLInv ==
  ASSUME Init
  PROVE  LInv
<1>1. IInv
  BY InitIInv
<1>2. /\ pc = "detect" /\ op = "handshake" /\ conn = "LISTEN" /\ command = TRUE
      /\ toDev = <<>> /\ out = <<>> /\ dev = NothingRead /\ devTask = Waiting
      /\ eof = FALSE /\ outcome = "none" /\ used.alarms = 0
      /\ inst["cmd"].type = DATA /\ inst["dlp"].type = DATA
  BY DEF Init
<1>3. Books
  BY <1>2 DEF Books
<1>4. Line = <<>> /\ Len(Line) = 0
  <2>1. <<>> \o <<>> = <<>>
    BY ONLY EmptySeq, ConcatEmptySeq
  <2>2. Line = <<>>
    BY <1>2, <2>1 DEF Line
  <2>3. Len(<<>>) = 0
    OBVIOUS
  <2> QED BY <2>2, <2>3
<1>5. DevLine(dev, Line)
  <2>1. dev.have = 0 /\ dev.got = <<>>
    BY <1>2 DEF NothingRead
  <2> HIDE DEF Line
  <2> QED BY <1>4, <2>1 DEF DevLine, Linked, Whole
<1>6. InstOk
  BY <1>2 DEF InstOk
<1>7. Token
  <2>1. 1 \in 1..Len(toHost)
    <3>1. CASE toHost = FirstPacket
      BY <3>1, FirstIs
    <3>2. CASE toHost = <<FirstMore, FirstPiece, FirstPiece>>
      BY <3>2
    <3>3. CASE toHost = <<FirstPiece, FirstPiece>>
      BY <3>3
    <3> QED BY <3>1, <3>2, <3>3, InitLine
  <2>2. Answered
    BY <2>1, InitData DEF Answered
  <2>3. Waiting # Lost /\ Waiting # Ended
    BY DEF Waiting, Lost, Ended
  <2> QED BY <1>2, <2>2, <2>3 DEF Token, Somewhere
<1>8. Stops
  BY <1>2 DEF Stops
<1> QED BY <1>1, <1>3, <1>5, <1>6, <1>7, <1>8 DEF LInv, Live

LEMMA Succeeding == Spec => []LInv
<1>1. Init => LInv
  BY InitLInv
<1>2. IInv /\ LInv /\ [Next]_vars => (Books /\ Live /\ Stops)'
  <2> SUFFICES ASSUME Control, SentTypes, Closing, Greeting, InTurn, InStep, Books, Live, Stops,
                      [Next]_vars
               PROVE  Books' /\ Live' /\ Stops'
    BY DEF IInv, LInv
  <2> QED BY NextBooks, NextLive, NextStops
<1>3. IInv' /\ (Books /\ Live /\ Stops)' => LInv'
  BY DEF LInv
<1>4. Spec => []IInv
  BY Inductive
<1> QED BY <1>1, <1>2, <1>3, <1>4, PTL DEF Spec

(* On a connection that works, and whose reads outlast the device, nothing *)
(* fails an application that stops at the first failure: net_rx passes     *)
(* over the tickles of the device and finds the first packet without its   *)
(* header, no tickle of the host cuts a request in two or gives it its     *)
(* type, and whoever waits has something to wait for.  Only pi_close may   *)
(* fail, and only after a tickle of the host.                              *)
THEOREM CallsSucceedCorrect == Spec => [](~goesOn => CallsSucceed)
<1>1. LInv => (~goesOn => CallsSucceed)
  <2> SUFFICES ASSUME LInv, ~goesOn, Undisturbed
               PROVE  /\ outcome # "error" /\ (pc = "closed" => conn = "END")
                      /\ CloseFailed => used.alarms > 0
    BY DEF CallsSucceed
  <2>1. /\ outcome # "error" /\ (pc = "closed" => conn = "END")
        /\ op = "close" /\ used.alarms = 0 /\ pc # "closed" => todo # <<>>
    BY DEF LInv, Stops
  <2>2. used.alarms \in Nat /\ (pc = "app" => todo = <<>>)
    BY DEF LInv, IInv, Control, SentTypes, UsedTypes
  <2> QED BY <2>1, <2>2 DEF CloseFailed
<1> QED BY <1>1, Succeeding, PTL
=============================================================================
