------------------------------ MODULE UsbProofs ------------------------------
(***************************************************************************)
(* Theorems about Usb, for any number of connections, data and operations, *)
(* when a connection after the first begins only once the one before has   *)
(* come to rest (LoudConns <= 1).                                          *)
(***************************************************************************)
EXTENDS Usb, SequenceTheorems, TLAPS

(* Only the reader of the connection runs, and it holds something only     *)
(* between its read and its append.                                        *)
Quiet ==
  /\ \A c \in Conns : c # conn => readers[c] = "none" /\ hand[c] = <<>>
  /\ \A c \in Conns : readers[c] \notin {"locks", "appends"} => hand[c] = <<>>

(* While the socket is closed nothing is left of the connection before,    *)
(* unless it was stained; then no other begins.                            *)
Down ==
  /\ pc = "down" => thread = 0 /\ ~running
  /\ pc # "down" => thread = conn /\ conn \in Conns
  /\ plugged => conn \in Conns
  /\ conn = 0 => pc = "down" /\ ~stained /\ \A c \in Conns : readers[c] = "none"
  /\ pc = "down" /\ ~stained =>
       buffer = <<>> /\ \A c \in Conns : readers[c] \notin {"locks", "appends"}
  /\ pc = "down" /\ plugged =>
       taken = <<>> /\ ~stained /\ \A c \in Conns : readers[c] = "none"

(* The reader appends under the mutex; when it starts, and empties the     *)
(* buffer without the mutex, the buffer is empty.                          *)
Exclusive ==
  pc # "down" => /\ readers[conn] = "appends" => mutex = "reader"
                 /\ readers[conn] = "starts" => buffer = <<>>

Measured ==
  /\ pc = "take" => task.len <= Len(buffer)
  /\ Reading => task.by \in {"kludge", "accept", "app"}
  /\ pc # "crashed"

IInv == TypeOK /\ Quiet /\ Down /\ Exclusive /\ Measured /\ NoLostWakeup

LEMMA Datum == ASSUME NEW c \in Conns, NEW n \in 1..MaxItems PROVE <<c, n>> \in Data
  BY DEF Data

LEMMA Empty == <<>> \in Seq(Data)
  BY EmptySeq

LEMMA NotZero == ASSUME NEW c \in Conns PROVE c # 0
  BY UsbAssumption DEF Conns

LEMMA NewTask ==
  ASSUME NEW by \in {"none", "kludge", "accept", "app"}, NEW n \in Nat,
         NEW peek \in BOOLEAN, NEW timed \in BOOLEAN
  PROVE  [by |-> by, len |-> n, peek |-> peek, timed |-> timed, over |-> FALSE] \in Tasks
  BY DEF Tasks

LEMMA TaskChanged ==
  ASSUME NEW t \in Tasks
  PROVE  /\ t.len \in Nat
         /\ LET u == [t EXCEPT !.over = TRUE]
            IN  u \in Tasks /\ u.by = t.by /\ u.len = t.len
         /\ \A n \in Nat : LET u == [t EXCEPT !.len = n]
                          IN  u \in Tasks /\ u.by = t.by /\ u.len = n
  BY DEF Tasks

LEMMA InitInv == ASSUME Init PROVE IInv
<1>1. TypeOK
  <2>1. NoTask \in Tasks
    BY NewTask DEF NoTask
  <2>2. readers \in [Conns -> {"none", "starts", "tests", "reads", "locks", "appends"}]
        /\ hand \in [Conns -> Seq(Data)]
    BY Empty DEF Init
  <2>3. /\ pc \in {"down", "enter", "lock", "wait", "locked", "take", "up", "flush",
                   "failed", "crashed"}
        /\ result \in {"none", "data", "timeout", "gone"}
        /\ accept_to \in BOOLEAN /\ running \in BOOLEAN
    BY DEF Init
  <2>4. /\ mutex \in {"free", "host", "reader"}
        /\ (mutex = "host") = (pc \in {"locked", "take"})
    BY DEF Init
  <2>5. /\ buffer \in Seq(Data) /\ wire \in Seq(Data) /\ taken \in Seq(Data)
    BY Empty DEF Init
  <2>6. /\ thread \in 0..MaxConns /\ conn \in 0..MaxConns /\ sent \in 0..MaxItems
        /\ ops \in 0..MaxOps
    BY UsbAssumption DEF Init
  <2>7. task = NoTask /\ plugged \in BOOLEAN /\ stained \in BOOLEAN
    BY DEF Init
  <2> QED BY <2>1, <2>2, <2>3, <2>4, <2>5, <2>6, <2>7 DEF TypeOK
<1>2. Quiet /\ Down
  BY DEF Init, Quiet, Down, Conns
<1>3. Exclusive /\ Measured /\ NoLostWakeup
  BY DEF Init, Exclusive, Measured, Reading, NoLostWakeup
<1> QED BY <1>1, <1>2, <1>3 DEF IInv

-----------------------------------------------------------------------------
(* The device.                                                             *)
LEMMA DeviceInv == ASSUME LoudConns <= 1, IInv, Device PROVE IInv'
<1> USE UsbAssumption
    DEF IInv, TypeOK, Quiet, Down, Exclusive, Measured, Reading, NoLostWakeup,
        app, rd, shared, ghost, Conns
<1>1. CASE PlugIn
  BY <1>1, Empty DEF PlugIn
<1>2. CASE DevSends
  <2>1. Append(wire, <<conn, sent + 1>>) \in Seq(Data)
    <3>1. conn \in Conns /\ sent + 1 \in 1..MaxItems
      BY <1>2 DEF DevSends
    <3> QED BY <3>1, Datum, AppendProperties
  <2> QED BY <1>2, <2>1 DEF DevSends
<1>3. CASE Unplug
  <2>1. TypeOK'
    BY <1>3, Empty DEF Unplug
  <2>2. Quiet' /\ Down'
    BY <1>3, Empty DEF Unplug
  <2>3. Exclusive' /\ Measured' /\ NoLostWakeup'
    BY <1>3, Empty DEF Unplug
  <2> QED BY <2>1, <2>2, <2>3
<1> QED BY <1>1, <1>2, <1>3 DEF Device

-----------------------------------------------------------------------------
(* The reader.                                                             *)
LEMMA ReaderInv == ASSUME IInv, NEW c \in Conns, Reader(c) PROVE IInv'
<1> USE UsbAssumption
    DEF IInv, TypeOK, Quiet, Down, Exclusive, Measured, Reading, NoLostWakeup,
        app, rd, shared, ghost, dev, Goes
<1>0. c = conn
  BY DEF Reader, Reset, TestRunning, BulkRead, DeviceGone, ReaderLocks, Appends, Dies
<1>1. CASE Reset(c)
  BY <1>0, <1>1, Empty DEF Reset
<1>2. CASE TestRunning(c)
  BY <1>0, <1>2 DEF TestRunning
<1>3. CASE BulkRead(c)
  <2>1. PICK k \in 1..Len(wire) :
           /\ hand' = [hand EXCEPT ![c] = SubSeq(wire, 1, k)]
           /\ wire' = SubSeq(wire, k + 1, Len(wire))
    BY <1>3 DEF BulkRead
  <2>2. SubSeq(wire, 1, k) \in Seq(Data)
        /\ SubSeq(wire, k + 1, Len(wire)) \in Seq(Data)
    BY LenProperties, SubSeqProperties
  <2> QED BY <1>0, <1>3, <2>1, <2>2 DEF BulkRead
<1>4. CASE DeviceGone(c)
  <2>1. TypeOK'
    BY <1>0, <1>4 DEF DeviceGone
  <2>2. Quiet' /\ Down'
    BY <1>0, <1>4 DEF DeviceGone
  <2>3. Exclusive' /\ Measured' /\ NoLostWakeup'
    BY <1>0, <1>4 DEF DeviceGone
  <2> QED BY <2>1, <2>2, <2>3
<1>5. CASE ReaderLocks(c)
  BY <1>0, <1>5 DEF ReaderLocks
<1>6. CASE Appends(c)
  <2>1. buffer \o hand[c] \in Seq(Data)
    BY ConcatProperties
  <2> QED BY <1>0, <1>6, <2>1, Empty DEF Appends, Notify
<1>7. CASE Dies(c)
  BY <1>0, <1>7, Empty DEF Dies
<1> QED BY <1>1, <1>2, <1>3, <1>4, <1>5, <1>6, <1>7 DEF Reader

-----------------------------------------------------------------------------
(* u_read_i.                                                               *)
LEMMA ReturnStep ==
  ASSUME TypeOK, NEW what \in {"data", "timeout", "gone"}, Return(what),
         task.by \in {"kludge", "accept", "app"}
  PROVE  /\ result' = what
         /\ task' \in Tasks
         /\ \/ pc' = "enter" /\ task'.by = "accept"
            \/ pc' \in {"up", "failed"}
<1>1. CASE task.by = "kludge"
  <2>1. /\ pc' = "enter" /\ result' = what
        /\ task' = [by |-> "accept", len |-> 1, peek |-> TRUE, timed |-> accept_to,
                    over |-> FALSE]
    BY <1>1 DEF Return, Call
  <2>2. task' \in Tasks
    BY <2>1, NewTask DEF TypeOK
  <2> QED BY <2>1, <2>2
<1>2. CASE task.by \in {"accept", "app"}
  BY <1>2 DEF Return, TypeOK
<1> QED BY <1>1, <1>2

LEMMA ReadInv == ASSUME IInv, InRead PROVE IInv'
<1> USE UsbAssumption
    DEF IInv, TypeOK, Quiet, Down, Exclusive, Measured, Reading, NoLostWakeup,
        rd, shared, ghost, dev
<1>1. CASE Enter
  BY <1>1, ReturnStep DEF Enter
<1>2. CASE HostLocks
  BY <1>2 DEF HostLocks
<1>3. CASE Waits
  <2>1. ~(Len(buffer) >= task.len) /\ Len(buffer) \in Nat /\ task.len \in Nat
    BY <1>3, LenProperties, TaskChanged DEF Waits, Enough
  <2> QED BY <1>3, <2>1 DEF Waits
<1>4. CASE TimesOut
  <2>1. task' \in Tasks /\ task'.by = task.by /\ task'.len = task.len
    BY <1>4, TaskChanged DEF TimesOut
  <2> QED BY <1>4, <2>1 DEF TimesOut
<1>5. CASE EndsWait
  <2>1. CASE running
    <3>1. Clamped(task.len) \in Nat /\ Clamped(task.len) <= Len(buffer)
      <4>1. Len(buffer) \in Nat /\ task.len \in Nat
        BY TaskChanged, LenProperties
      <4> QED BY <4>1 DEF Clamped
    <3>a. task \in Tasks
      OBVIOUS
    <3>2. /\ pc = "locked" /\ pc' = "take"
          /\ task' = [task EXCEPT !.len = Clamped(task.len)]
          /\ UNCHANGED <<accept_to, rd, buffer, dev, ghost, result, mutex>>
      BY <1>5, <2>1 DEF EndsWait
    <3>3. task' \in Tasks /\ task'.by = task.by /\ task'.len = Clamped(task.len)
      <4> HIDE DEF IInv, TypeOK
      <4> QED BY <3>1, <3>2, <3>a, TaskChanged
    <3> QED BY <3>1, <3>2, <3>3
  <2>2. CASE ~running
    BY <1>5, <2>2, ReturnStep DEF EndsWait, Unlocked
  <2> QED BY <2>1, <2>2
<1>6. CASE Take
  <2>1. /\ pc = "take" /\ task.len <= Len(buffer) /\ Len(buffer) \in Nat /\ task.len \in Nat
    BY <1>6, TaskChanged, LenProperties DEF Take
  <2>2. /\ Rest(task.len) \in Seq(Data)
        /\ SubSeq(buffer, 1, task.len) \in Seq(Data)
    BY <2>1, LenProperties, SubSeqProperties DEF Rest
  <2>3. taken \o SubSeq(buffer, 1, task.len) \in Seq(Data)
    BY <2>2, ConcatProperties
  <2>4. /\ Return(IF task.len = 0 THEN "timeout" ELSE "data") /\ mutex' = "free"
        /\ UNCHANGED <<accept_to, rd, dev, stained, ops>>
        /\ \/ UNCHANGED <<buffer, taken>>
           \/ /\ buffer' = Rest(task.len)
              /\ taken' = taken \o SubSeq(buffer, 1, task.len)
    BY <1>6, <2>1 DEF Take, Unlocked
  <2>5. /\ readers[conn] # "appends"
        /\ readers[conn] = "starts" => buffer' = <<>>
    BY <2>1, <2>4, Empty DEF Rest
  <2>6. /\ result' \in {"data", "timeout"} /\ task' \in Tasks
        /\ \/ pc' = "enter" /\ task'.by = "accept"
           \/ pc' \in {"up", "failed"}
    BY <2>1, <2>4, ReturnStep
  <2>7. buffer' \in Seq(Data) /\ taken' \in Seq(Data)
    BY <2>2, <2>3, <2>4
  <2>8. TypeOK'
    BY <2>1, <2>4, <2>6, <2>7
  <2>9. Quiet' /\ Down'
    BY <2>1, <2>4, <2>6
  <2>10. Exclusive' /\ Measured' /\ NoLostWakeup'
    BY <2>1, <2>4, <2>5, <2>6
  <2> QED BY <2>8, <2>9, <2>10
<1> QED BY <1>1, <1>2, <1>3, <1>4, <1>5, <1>6 DEF InRead

-----------------------------------------------------------------------------
(* The calls of the application.                                           *)
LEMMA AppInv == ASSUME IInv, AppCalls \/ Flushes PROVE IInv'
<1> USE UsbAssumption
    DEF IInv, TypeOK, Quiet, Down, Exclusive, Measured, Reading, NoLostWakeup,
        rd, shared, ghost, dev
<1>1. CASE Accept
  <2>1. /\ pc = "down" /\ plugged /\ pc' = "enter" /\ thread' = conn /\ running' = TRUE
        /\ readers' = [readers EXCEPT ![conn] = "starts"]
        /\ task' = [by |-> "kludge", len |-> 1, peek |-> TRUE, timed |-> TRUE, over |-> FALSE]
        /\ UNCHANGED <<result, accept_to, hand, shared, dev, ghost>>
    BY <1>1 DEF Accept, Goes, Call
  <2>2. task' \in Tasks /\ task'.by = "kludge"
    BY <2>1, NewTask
  <2>3. TypeOK'
    BY <2>1, <2>2 DEF Conns
  <2>4. Quiet' /\ Down'
    BY <2>1 DEF Conns
  <2>5. Exclusive' /\ Measured' /\ NoLostWakeup'
    BY <2>1, <2>2
  <2> QED BY <2>3, <2>4, <2>5
<1>2. CASE Flush
  BY <1>2 DEF Flush, Operates
<1>3. CASE Close
  <2>1. stained' \in BOOLEAN
    BY <1>3, Zenon DEF Close
  <2>2. /\ pc \in {"up", "failed"} /\ pc' = "down" /\ wire' = <<>>
        /\ running' = FALSE /\ thread' = 0 /\ plugged' = FALSE
        /\ UNCHANGED <<task, result, accept_to, readers, hand, shared, conn, sent, taken, ops>>
    BY <1>3 DEF Close
  <2>3. TypeOK'
    <3>1. /\ pc' \in {"down", "enter", "lock", "wait", "locked", "take", "up", "flush",
                     "failed", "crashed"}
          /\ task' \in Tasks /\ result' \in {"none", "data", "timeout", "gone"}
          /\ accept_to' \in BOOLEAN
          /\ ops' \in 0..MaxOps
      BY <2>2
    <3>2. running' \in BOOLEAN
      BY <2>2
    <3>3. /\ thread' \in 0..MaxConns
          /\ readers' \in [Conns -> {"none", "starts", "tests", "reads", "locks", "appends"}]
          /\ hand' \in [Conns -> Seq(Data)]
      BY <2>2
    <3>4. /\ mutex' \in {"free", "host", "reader"}
          /\ (mutex' = "host") = (pc' \in {"locked", "take"})
      BY <2>2
    <3>5. /\ buffer' \in Seq(Data) /\ wire' \in Seq(Data) /\ taken' \in Seq(Data)
          /\ conn' \in 0..MaxConns /\ sent' \in 0..MaxItems /\ plugged' \in BOOLEAN
      BY <2>2, Empty
    <3> QED BY <2>1, <3>1, <3>2, <3>3, <3>4, <3>5
  <2>4. Quiet' /\ Down'
    BY <1>3, Empty DEF Close, Conns
  <2>5. Exclusive' /\ Measured' /\ NoLostWakeup'
    BY <1>3, Empty DEF Close, Conns
  <2> QED BY <2>3, <2>4, <2>5
<1>4. ASSUME NEW n \in ReadLens, NEW peek \in BOOLEAN, NEW timed \in BOOLEAN,
             Read(n, peek, timed)
      PROVE  IInv'
  <2>1. task' \in Tasks /\ task'.by = "app"
    BY <1>4, NewTask DEF Read, Call
  <2> QED BY <1>4, <2>1 DEF Read, Operates, Call
<1>5. CASE Flushes
  <2>1. taken \o buffer \in Seq(Data)
    BY ConcatProperties
  <2> QED BY <1>5, <2>1, Empty DEF Flushes
<1> QED BY <1>1, <1>2, <1>3, <1>4, <1>5 DEF AppCalls

(* Every step keeps the invariant.                                         *)
LEMMA NextInv == ASSUME LoudConns <= 1, IInv, [Next]_vars PROVE IInv'
<1>1. CASE UNCHANGED vars
  BY <1>1 DEF vars, app, rd, shared, dev, ghost, IInv, TypeOK, Quiet, Down, Exclusive,
              Measured, Reading, NoLostWakeup
<1>2. CASE Next
  BY <1>1, <1>2, DeviceInv, ReaderInv, ReadInv, AppInv DEF Next, WaitsOn, Done
<1> QED BY <1>1, <1>2

-----------------------------------------------------------------------------
(* The stream: what was taken, the buffer, what the reader holds, and what *)
(* is on the wire are what the device has sent, from its first datum on.   *)
Ordered ==
  pc # "down" \/ plugged =>
     /\ \A i \in 1..Len(Stream) : Stream[i] = <<conn, i>>
     /\ plugged => Len(Stream) = sent

LEMMA AppendAfter ==
  ASSUME NEW s \in Seq(Data), NEW t \in Seq(Data), NEW e \in Data
  PROVE  s \o Append(t, e) = Append(s \o t, e)
<1>1. <<e>> \in Seq(Data) /\ s \o t \in Seq(Data)
  BY ConcatProperties
<1>2. Append(t, e) = t \o <<e>> /\ Append(s \o t, e) = (s \o t) \o <<e>>
  BY <1>1, AppendIsConcat
<1>3. (s \o t) \o <<e>> = s \o (t \o <<e>>)
  BY <1>1, ConcatAssociative
<1> QED BY <1>2, <1>3

LEMMA Prefix ==
  ASSUME NEW s \in Seq(Data), NEW t \in Seq(Data)
  PROVE  /\ Len(s) \in Nat /\ Len(s \o t) \in Nat /\ Len(s) <= Len(s \o t)
         /\ \A i \in 1..Len(s) : (s \o t)[i] = s[i]
<1>1. Len(s) \in Nat /\ Len(t) \in Nat
  BY LenProperties
<1>2. /\ Len(s \o t) = Len(s) + Len(t)
      /\ \A i \in 1 .. Len(s) + Len(t) :
           (s \o t)[i] = IF i <= Len(s) THEN s[i] ELSE t[i - Len(s)]
  BY ConcatProperties
<1> QED BY <1>1, <1>2

LEMMA Resplit ==
  ASSUME NEW s \in Seq(Data), NEW t \in Seq(Data), NEW k \in 0..Len(t)
  PROVE  (s \o SubSeq(t, 1, k)) \o SubSeq(t, k + 1, Len(t)) = s \o t
<1>1. Len(t) \in Nat
  BY LenProperties
<1>2. SubSeq(t, 1, k) \in Seq(Data) /\ SubSeq(t, k + 1, Len(t)) \in Seq(Data)
  BY <1>1, LenProperties, SubSeqProperties
<1>3. 1 \in 1..Len(t)+1 /\ k \in 1-1..Len(t) /\ Len(t) \in k..Len(t)
  BY <1>1
<1>4. SubSeq(t, 1, k) \o SubSeq(t, k + 1, Len(t)) = SubSeq(t, 1, Len(t))
  BY <1>3, ConcatAdjacentSubSeq
<1>5. SubSeq(t, 1, Len(t)) = t
  BY SubSeqFull
<1>6. (s \o SubSeq(t, 1, k)) \o SubSeq(t, k + 1, Len(t))
        = s \o (SubSeq(t, 1, k) \o SubSeq(t, k + 1, Len(t)))
  <2> DEFINE a == SubSeq(t, 1, k)
             b == SubSeq(t, k + 1, Len(t))
  <2>1. a \in Seq(Data) /\ b \in Seq(Data)
    BY <1>2
  <2> HIDE DEF a, b
  <2>2. (s \o a) \o b = s \o (a \o b)
    BY <2>1, ConcatAssociative
  <2> QED BY <2>2 DEF a, b
<1> QED BY <1>4, <1>5, <1>6

LEMMA StreamIs ==
  ASSUME conn \in Conns PROVE Stream = ((taken \o buffer) \o hand[conn]) \o wire
  BY NotZero DEF Stream

LEMMA StreamType ==
  ASSUME TypeOK, conn \in Conns
  PROVE  /\ taken \in Seq(Data) /\ buffer \in Seq(Data) /\ hand[conn] \in Seq(Data)
         /\ wire \in Seq(Data)
         /\ taken \o buffer \in Seq(Data)
         /\ (taken \o buffer) \o hand[conn] \in Seq(Data)
         /\ Stream \in Seq(Data)
<1>1. /\ taken \in Seq(Data) /\ buffer \in Seq(Data) /\ hand[conn] \in Seq(Data)
      /\ wire \in Seq(Data)
  BY DEF TypeOK
<1>2. taken \o buffer \in Seq(Data)
  BY <1>1, ConcatProperties
<1>3. (taken \o buffer) \o hand[conn] \in Seq(Data)
  BY <1>1, <1>2, ConcatProperties
<1>4. Stream \in Seq(Data)
  <2>1. ((taken \o buffer) \o hand[conn]) \o wire \in Seq(Data)
    BY <1>1, <1>3, ConcatProperties
  <2> QED BY <2>1, StreamIs
<1> QED BY <1>1, <1>2, <1>3, <1>4

(* Where data only move, or are not touched, nothing is to be shown.       *)
LEMMA Moved ==
  ASSUME Ordered, Stream' = Stream, UNCHANGED <<conn, sent, plugged>>,
         pc # "down" \/ plugged
  PROVE  Ordered'
  BY DEF Ordered

LEMMA DeviceOrdered ==
  ASSUME LoudConns <= 1, IInv, IInv', Ordered, Device
  PROVE  Ordered'
<1> USE UsbAssumption
<1>1. CASE PlugIn
  <2>1. conn' = conn + 1 /\ conn' \in Conns /\ conn \in Nat
    BY <1>1 DEF PlugIn, IInv, TypeOK, Conns
  <2>2. ~stained /\ \A c \in Conns : readers[c] = "none"
    BY <1>1, <2>1 DEF PlugIn, IInv, Down
  <2>3. buffer' = <<>> /\ hand'[conn'] = <<>> /\ taken' = <<>> /\ wire' = <<>>
    BY <1>1, <2>1, <2>2 DEF PlugIn, IInv, Down, Quiet, shared, rd
  <2>4. conn' # 0
    BY <2>1, NotZero
  <2>5. <<>> \o <<>> = <<>>
    BY Empty, ConcatEmptySeq
  <2>6. Stream' = ((taken' \o buffer') \o hand'[conn']) \o wire'
    BY <2>4 DEF Stream
  <2>7. Stream' = <<>>
    BY <2>3, <2>5, <2>6
  <2>8. sent' = 0
    BY <1>1 DEF PlugIn
  <2> QED BY <2>7, <2>8 DEF Ordered
<1>2. CASE DevSends
  <2> DEFINE e == <<conn, sent + 1>>
  <2>1. /\ plugged /\ conn \in Conns /\ sent \in Nat /\ sent + 1 \in 1..MaxItems
        /\ sent' = sent + 1 /\ wire' = Append(wire, e)
        /\ UNCHANGED <<taken, buffer, hand, conn, plugged>>
    BY <1>2 DEF DevSends, IInv, Down, TypeOK, ghost, shared, rd
  <2>2. e \in Data
    BY <2>1, Datum
  <2>3. Stream' = ((taken \o buffer) \o hand[conn]) \o Append(wire, e)
    BY <2>1, NotZero DEF Stream
  <2>4. /\ (taken \o buffer) \o hand[conn] \in Seq(Data) /\ wire \in Seq(Data)
        /\ Stream \in Seq(Data)
    BY <2>1, StreamType DEF IInv
  <2>5. Stream = ((taken \o buffer) \o hand[conn]) \o wire
    BY <2>1, StreamIs
  <2>6. Stream' = Append(Stream, e)
    BY <2>2, <2>3, <2>4, <2>5, AppendAfter
  <2>7. /\ Len(Stream') = Len(Stream) + 1 /\ Len(Stream) \in Nat
        /\ \A i \in 1..Len(Stream) : Stream'[i] = Stream[i]
        /\ Stream'[Len(Stream) + 1] = e
    BY <2>2, <2>4, <2>6, AppendProperties, LenProperties
  <2>8. Len(Stream) = sent /\ \A i \in 1..Len(Stream) : Stream[i] = <<conn, i>>
    BY <2>1 DEF Ordered
  <2>9. ASSUME NEW i \in 1..Len(Stream') PROVE Stream'[i] = <<conn, i>>
    <3>1. CASE i = Len(Stream) + 1
      BY <3>1, <2>7, <2>8
    <3>2. CASE i # Len(Stream) + 1
      <4>1. i \in 1..Len(Stream)
        BY <3>2, <2>7
      <4> QED BY <4>1, <2>7, <2>8
    <3> QED BY <3>1, <3>2
  <2> QED BY <2>1, <2>7, <2>8, <2>9 DEF Ordered
<1>3. CASE Unplug
  <2> DEFINE X == (taken \o buffer) \o hand[conn]
  <2>1. /\ conn \in Conns /\ plugged /\ ~plugged' /\ wire' = <<>>
        /\ UNCHANGED <<taken, buffer, hand, conn>>
    BY <1>3 DEF Unplug, IInv, Down, ghost, shared, rd
  <2>2. X \in Seq(Data) /\ wire \in Seq(Data)
    BY <2>1, StreamType DEF IInv
  <2>3. Stream = X \o wire
    BY <2>1, StreamIs
  <2>4. Stream' = X \o <<>>
    BY <2>1, NotZero DEF Stream
  <2>5. Stream' = X
    BY <2>2, <2>4, ConcatEmptySeq
  <2>6. /\ Len(X) \in Nat /\ Len(Stream) \in Nat /\ Len(X) <= Len(Stream)
        /\ \A i \in 1..Len(X) : Stream[i] = X[i]
    <3> HIDE DEF X
    <3> QED BY <2>2, <2>3, Prefix
  <2>7. \A i \in 1..Len(Stream) : Stream[i] = <<conn, i>>
    BY <2>1 DEF Ordered
  <2>8. \A i \in 1..Len(Stream') : Stream'[i] = <<conn, i>>
    <3> HIDE DEF X
    <3> QED BY <2>5, <2>6, <2>7
  <2> QED BY <2>1, <2>8 DEF Ordered
<1> QED BY <1>1, <1>2, <1>3 DEF Device

LEMMA ReaderOrdered ==
  ASSUME IInv, Ordered, NEW c \in Conns, Reader(c)
  PROVE  Ordered'
<1>1. readers[c] # "none" /\ c = conn /\ UNCHANGED <<conn, sent, plugged, taken>>
  BY DEF Reader, Reset, TestRunning, BulkRead, DeviceGone, ReaderLocks, Appends, Dies,
         IInv, Quiet, dev, ghost
<1>2. CASE pc = "down"
  <2>1. ~plugged /\ pc' = "down"
    BY <1>1, <1>2
    DEF IInv, Down, Reader, Reset, TestRunning, BulkRead, DeviceGone, ReaderLocks,
        Appends, Notify, Dies, app
  <2> QED BY <1>1, <2>1 DEF Ordered
<1>3. CASE pc # "down"
  <2>0. SUFFICES Stream' = Stream
    BY <1>1, <1>3, Moved
  <2>1. /\ Stream = ((taken \o buffer) \o hand[c]) \o wire
        /\ Stream' = ((taken \o buffer') \o hand'[c]) \o wire'
    BY <1>1, NotZero DEF Stream
  <2>2. /\ taken \in Seq(Data) /\ buffer \in Seq(Data) /\ hand[c] \in Seq(Data)
        /\ wire \in Seq(Data) /\ taken \o buffer \in Seq(Data)
        /\ hand \in [Conns -> Seq(Data)]
    BY <1>1, StreamType DEF IInv, TypeOK
  <2>3. CASE Reset(c)
    BY <1>1, <1>3, <2>1, <2>3 DEF Reset, IInv, Exclusive, dev
  <2>4. CASE TestRunning(c) \/ DeviceGone(c) \/ ReaderLocks(c)
    BY <2>1, <2>4 DEF TestRunning, DeviceGone, ReaderLocks, shared, dev
  <2>5. CASE BulkRead(c)
    <3>1. PICK k \in 1..Len(wire) :
             /\ hand' = [hand EXCEPT ![c] = SubSeq(wire, 1, k)]
             /\ wire' = SubSeq(wire, k + 1, Len(wire))
      BY <2>5 DEF BulkRead
    <3>2. /\ buffer' = buffer /\ hand[c] = <<>> /\ hand'[c] = SubSeq(wire, 1, k)
          /\ Len(wire) \in Nat
      BY <2>2, <2>5, <3>1, LenProperties DEF BulkRead, IInv, Quiet, shared
    <3>3. Stream = (taken \o buffer) \o wire
      BY <2>1, <2>2, <3>2, ConcatEmptySeq
    <3>4. Stream' = ((taken \o buffer) \o SubSeq(wire, 1, k)) \o SubSeq(wire, k + 1, Len(wire))
      BY <2>1, <3>1, <3>2
    <3>5. k \in 0..Len(wire)
      BY <3>2
    <3> QED BY <2>2, <3>3, <3>4, <3>5, Resplit
  <2>6. CASE Appends(c)
    <3>1. buffer' = buffer \o hand[c] /\ hand'[c] = <<>> /\ wire' = wire
      BY <2>2, <2>6 DEF Appends, dev
    <3>2. taken \o (buffer \o hand[c]) = (taken \o buffer) \o hand[c]
      BY <2>2, ConcatAssociative
    <3>3. (taken \o buffer) \o hand[c] \in Seq(Data)
      BY <2>2, ConcatProperties
    <3>4. (taken \o buffer') \o hand'[c] = (taken \o buffer) \o hand[c]
      BY <3>1, <3>2, <3>3, ConcatEmptySeq
    <3> QED BY <2>1, <3>1, <3>4
  <2>7. ~Dies(c)
    BY <1>1, <1>3 DEF Dies, IInv, Down
  <2> QED BY <2>3, <2>4, <2>5, <2>6, <2>7 DEF Reader
<1> QED BY <1>2, <1>3

LEMMA HostOrdered ==
  ASSUME IInv, Ordered, InRead \/ AppCalls \/ Flushes
  PROVE  Ordered'
<1>1. CASE Close
  BY <1>1 DEF Close, Ordered
<1>2. CASE \/ Accept \/ Flush
           \/ \E n \in ReadLens, peek, timed \in BOOLEAN : Read(n, peek, timed)
           \/ Enter \/ HostLocks \/ Waits \/ TimesOut \/ EndsWait
  <2>1. /\ UNCHANGED <<taken, buffer, hand, wire, conn, sent, plugged>>
        /\ pc # "down" \/ plugged
    BY <1>2 DEF Accept, Flush, Operates, Read, Enter, HostLocks, Waits, TimesOut, EndsWait,
                rd, shared, dev, ghost
  <2>2. Stream' = Stream
    BY <2>1 DEF Stream
  <2> QED BY <2>1, <2>2, Moved
<1>3. CASE Take
  <2>1. /\ pc = "take" /\ conn \in Conns /\ task.len \in Nat
        /\ task.len <= Len(buffer)
    BY <1>3, TaskChanged DEF Take, IInv, Measured, Down, TypeOK
  <2>2. /\ UNCHANGED <<hand, wire, conn, sent, plugged>>
        /\ \/ UNCHANGED <<buffer, taken>>
           \/ /\ buffer' = Rest(task.len)
              /\ taken' = taken \o SubSeq(buffer, 1, task.len)
    BY <1>3, <2>1, StreamType, LenProperties DEF Take, IInv, rd, dev
  <2>3. /\ Stream = ((taken \o buffer) \o hand[conn]) \o wire
        /\ Stream' = ((taken' \o buffer') \o hand[conn]) \o wire
    BY <2>1, <2>2, NotZero DEF Stream
  <2>4. taken' \o buffer' = taken \o buffer
    <3>1. CASE UNCHANGED <<buffer, taken>>
      BY <3>1
    <3>2. CASE /\ buffer' = Rest(task.len)
               /\ taken' = taken \o SubSeq(buffer, 1, task.len)
      <4>1. taken \in Seq(Data) /\ buffer \in Seq(Data) /\ Len(buffer) \in Nat
        BY <2>1, StreamType, LenProperties DEF IInv
      <4>2. task.len \in 0..Len(buffer)
        BY <2>1, <4>1
      <4> QED BY <3>2, <4>1, <4>2, Resplit DEF Rest
    <3> QED BY <2>2, <3>1, <3>2
  <2> QED BY <2>1, <2>2, <2>3, <2>4, Moved
<1>4. CASE Flushes
  <2>1. /\ pc = "flush" /\ conn \in Conns
        /\ UNCHANGED <<hand, wire, conn, sent, plugged>>
        /\ buffer' = <<>> /\ taken' = taken \o buffer
    BY <1>4 DEF Flushes, IInv, Down, rd, dev
  <2>2. taken' \o buffer' = taken \o buffer
    BY <2>1, StreamType, ConcatEmptySeq DEF IInv
  <2>3. Stream' = Stream
    BY <2>1, <2>2 DEF Stream
  <2> QED BY <2>1, <2>3, Moved
<1> QED BY <1>1, <1>2, <1>3, <1>4 DEF InRead, AppCalls

LEMMA NextOrdered ==
  ASSUME LoudConns <= 1, IInv, Ordered, [Next]_vars PROVE Ordered'
<1>1. CASE UNCHANGED vars
  BY <1>1 DEF vars, app, rd, shared, dev, ghost, Ordered, Stream
<1>2. CASE Device
  BY <1>2, DeviceOrdered, NextInv DEF Next
<1>3. CASE InRead \/ AppCalls \/ Flushes \/ (\E c \in Conns : Reader(c))
  BY <1>3, ReaderOrdered, HostOrdered
<1> QED BY <1>1, <1>2, <1>3 DEF Next, WaitsOn, Done

-----------------------------------------------------------------------------
(* The variables stay in their types, and the mutex of the buffer is the   *)
(* host's exactly between its lock and its unlock in u_read_i.             *)
THEOREM TypeCorrect == ASSUME LoudConns <= 1 PROVE Spec => []TypeOK
<1>1. IInv => TypeOK
  BY DEF IInv
<1> QED BY <1>1, InitInv, NextInv, PTL DEF Spec

(* u_read_i never sleeps while the buffer holds what it waits for: the     *)
(* test and the wait are one step under the mutex, and the reader that     *)
(* appends wakes it.                                                       *)
THEOREM NoLostWakeupCorrect == ASSUME LoudConns <= 1 PROVE Spec => []NoLostWakeup
<1>1. IInv => NoLostWakeup
  BY DEF IInv
<1> QED BY <1>1, InitInv, NextInv, PTL DEF Spec

(* The thread that appends, the reads, the peeks and the flushes neither   *)
(* lose, repeat nor reorder what the device sends, nothing of an earlier   *)
(* connection is taken for data of this one, and no read takes more than   *)
(* there is, although RD_main empties the buffer without the mutex.        *)
THEOREM InOrderCorrect == ASSUME LoudConns <= 1 PROVE Spec => []InOrder
<1>1. Init => Ordered
  BY DEF Init, Ordered
<1>2. IInv /\ Ordered => InOrder
  BY DEF IInv, Measured, Ordered, InOrder
<1> QED BY <1>1, <1>2, InitInv, NextInv, NextOrdered, PTL DEF Spec
=============================================================================
