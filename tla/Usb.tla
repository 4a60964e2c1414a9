--------------------------------- MODULE Usb ---------------------------------
(***************************************************************************)
(* The libusb device of libpisock/libusb.c under pi_usb_accept: a reader   *)
(* thread (RD_main) appends what the device sends to RD_buffer, the thread *)
(* of the application takes it from there (u_read_i), and closing cancels  *)
(* the reader (RD_stop).  Both lock RD_buffer_mutex; RD_running, RD_thread *)
(* and the reset of the buffer by a new reader are not under it.  Data are *)
(* numbered, per connection.                                               *)
(***************************************************************************)
EXTENDS Naturals, Sequences

CONSTANTS
  MaxConns,   \* bound: connections one after the other
  LoudConns,  \* of these, the first ones that may follow any close
  MaxItems,   \* bound: data the device sends on a connection
  MaxOps,     \* bound: reads and flushes on a connection
  ReadLens    \* lengths the layers above ask for

ASSUME UsbAssumption ==
  /\ MaxConns \in Nat /\ LoudConns \in Nat
  /\ MaxItems \in Nat /\ MaxOps \in Nat /\ ReadLens \subseteq Nat \ {0}

VARIABLES
  pc,         \* of the application: "down", "enter", "lock", "wait",
              \* "locked", "take", "up", "flush", "failed" or "crashed"
  task,       \* what u_read_i is called for, and whether its time is over
  result,     \* of the last u_read_i: "none", "data", "timeout" or "gone"
  accept_to,  \* does pi_accept have a timeout?
  running,    \* RD_running
  thread,     \* RD_thread: the connection it was started for, or 0
  readers,    \* readers[c]: where the reader started for connection c is
  hand,       \* hand[c]: what it has read and not yet appended
  mutex,      \* RD_buffer_mutex: "free", "host", or the reader that holds it
  buffer,     \* RD_buffer
  conn,       \* number of the connection
  wire,       \* what the device has sent on it and nobody has read
  sent,       \* how much it has sent
  plugged,    \* is the device there?
  taken,      \* what was read or flushed on the connection
  stained,    \* was a close in the middle of a transfer?
  ops         \* reads and flushes on the connection

app    == <<pc, task, result, accept_to>>
rd     == <<running, thread, readers, hand>>
shared == <<mutex, buffer>>
dev    == <<conn, wire, sent, plugged>>
ghost  == <<taken, stained, ops>>
vars   == <<app, rd, shared, dev, ghost>>

Conns  == 1..MaxConns
NoTask == [by |-> "none", len |-> 0, peek |-> FALSE, timed |-> FALSE, over |-> FALSE]

Init ==
  /\ pc = "down" /\ task = NoTask /\ result = "none" /\ accept_to \in BOOLEAN
  /\ running = FALSE /\ thread = 0
  /\ readers = [c \in Conns |-> "none"] /\ hand = [c \in Conns |-> <<>>]
  /\ mutex = "free" /\ buffer = <<>>
  /\ conn = 0 /\ wire = <<>> /\ sent = 0 /\ plugged = FALSE
  /\ taken = <<>> /\ stained = FALSE /\ ops = 0

-----------------------------------------------------------------------------
(* The device.  A connection after the first LoudConns begins only when    *)
(* no transfer was cut short and all readers have ended.                   *)
PlugIn ==
  /\ pc = "down" /\ ~plugged /\ conn < MaxConns
  /\ conn >= LoudConns => ~stained /\ \A c \in Conns : readers[c] = "none"
  /\ plugged' = TRUE /\ conn' = conn + 1 /\ wire' = <<>> /\ sent' = 0
  /\ taken' = <<>> /\ ops' = 0
  /\ UNCHANGED <<app, rd, shared, stained>>

DevSends ==
  /\ plugged /\ sent < MaxItems
  /\ sent' = sent + 1 /\ wire' = Append(wire, <<conn, sent + 1>>)
  /\ UNCHANGED <<app, rd, shared, conn, plugged, ghost>>

Unplug ==
  /\ plugged /\ pc # "down"
  /\ plugged' = FALSE /\ wire' = <<>>
  /\ UNCHANGED <<app, rd, shared, conn, sent, ghost>>

-----------------------------------------------------------------------------
(* The reader of connection c: RD_main and RD_do_read.                     *)

Goes(c, there) == readers' = [readers EXCEPT ![c] = there]

Reset(c) ==
  /\ readers[c] = "starts" /\ Goes(c, "tests")
  /\ buffer' = <<>>
  /\ UNCHANGED <<app, running, thread, hand, mutex, dev, ghost>>

TestRunning(c) ==
  /\ readers[c] = "tests"
  /\ IF running THEN Goes(c, "reads") ELSE Goes(c, "none")
  /\ UNCHANGED <<app, running, thread, hand, shared, dev, ghost>>

BulkRead(c) ==
  /\ readers[c] = "reads" /\ c = conn /\ plugged
  /\ \E k \in 1..Len(wire) :
       /\ hand' = [hand EXCEPT ![c] = SubSeq(wire, 1, k)]
       /\ wire' = SubSeq(wire, k + 1, Len(wire))
  /\ Goes(c, "locks")
  /\ UNCHANGED <<app, running, thread, shared, conn, sent, plugged, ghost>>

(* ENODEV; nobody is told. *)
DeviceGone(c) ==
  /\ readers[c] = "reads" /\ (c # conn \/ ~plugged)
  /\ running' = FALSE /\ Goes(c, "tests")
  /\ UNCHANGED <<app, thread, hand, shared, dev, ghost>>

ReaderLocks(c) ==
  /\ readers[c] = "locks" /\ mutex = "free"
  /\ mutex' = "reader" /\ Goes(c, "appends")
  /\ UNCHANGED <<app, running, thread, hand, buffer, dev, ghost>>

NotifyNobody(where) == where
Notify(where) == IF where = "wait" THEN "lock" ELSE where

Appends(c) ==
  /\ readers[c] = "appends" /\ Goes(c, "tests")
  /\ buffer' = buffer \o hand[c] /\ hand' = [hand EXCEPT ![c] = <<>>]
  /\ pc' = Notify(pc) /\ mutex' = "free"
  /\ UNCHANGED <<task, result, accept_to, running, thread, dev, ghost>>

(* A thread cancelled asynchronously ends where it is, with what it holds. *)
Dies(c) ==
  /\ readers[c] # "none" /\ thread # c
  /\ Goes(c, "none") /\ hand' = [hand EXCEPT ![c] = <<>>]
  /\ UNCHANGED <<app, running, thread, shared, dev, ghost>>

Reader(c) ==
  \/ Reset(c) \/ TestRunning(c) \/ BulkRead(c) \/ DeviceGone(c)
  \/ ReaderLocks(c) \/ Appends(c) \/ Dies(c)

-----------------------------------------------------------------------------
(* u_read_i.                                                               *)

Call(by, n, peek, timed) ==
  /\ pc' = "enter"
  /\ task' = [by |-> by, len |-> n, peek |-> peek, timed |-> timed, over |-> FALSE]

(* pi_usb_accept polls for a second, then as long as it may, and fails if  *)
(* nothing has come; pi_accept_to then closes the socket.                  *)
Return(what) ==
  /\ result' = what
  /\ CASE task.by = "kludge" -> Call("accept", 1, TRUE, accept_to)
       [] task.by = "accept" ->
            pc' = (IF what = "data" THEN "up" ELSE "failed") /\ UNCHANGED task
       [] task.by = "app"    -> pc' = "up" /\ UNCHANGED task

Enter ==
  /\ pc = "enter"
  /\ IF running THEN pc' = "lock" /\ UNCHANGED <<task, result>> ELSE Return("gone")
  /\ UNCHANGED <<accept_to, rd, shared, dev, ghost>>

HostLocks ==
  /\ pc = "lock" /\ mutex = "free"
  /\ pc' = "locked" /\ mutex' = "host"
  /\ UNCHANGED <<task, result, accept_to, rd, buffer, dev, ghost>>

EnoughOnly == Len(buffer) >= task.len
Enough == Len(buffer) >= task.len \/ task.over

Waits ==
  /\ pc = "locked" /\ ~Enough
  /\ pc' = "wait" /\ mutex' = "free"
  /\ UNCHANGED <<task, result, accept_to, rd, buffer, dev, ghost>>

TimesOut ==
  /\ pc = "wait" /\ task.timed
  /\ pc' = "lock" /\ task' = [task EXCEPT !.over = TRUE]
  /\ UNCHANGED <<result, accept_to, rd, shared, dev, ghost>>

(* At most what is there is taken. *)
ClampForgotten(n) == n
Clamped(n) == IF Len(buffer) < n THEN Len(buffer) ELSE n

(* Every way out of u_read_i unlocks. *)
StillLocked == mutex
Unlocked == "free"

EndsWait ==
  /\ pc = "locked" /\ Enough
  /\ IF running
     THEN /\ pc' = "take" /\ task' = [task EXCEPT !.len = Clamped(@)]
          /\ UNCHANGED <<result, mutex>>
     ELSE Return("gone") /\ mutex' = Unlocked
  /\ UNCHANGED <<accept_to, rd, buffer, dev, ghost>>

Rest(n) == SubSeq(buffer, n + 1, Len(buffer))

(* A reader that starts may have emptied the buffer since it was measured: *)
(* then the bytes are taken from nowhere, and the count underflows.        *)
Take ==
  /\ pc = "take"
  /\ IF Len(buffer) < task.len
     THEN pc' = "crashed" /\ UNCHANGED <<task, result, shared, taken>>
     ELSE /\ Return(IF task.len = 0 THEN "timeout" ELSE "data")
          /\ mutex' = Unlocked
          /\ IF task.peek THEN UNCHANGED <<buffer, taken>>
             ELSE /\ buffer' = Rest(task.len)
                  /\ taken' = taken \o SubSeq(buffer, 1, task.len)
  /\ UNCHANGED <<accept_to, rd, dev, stained, ops>>

-----------------------------------------------------------------------------
(* pi_usb_accept: u_wait_for_device finds the device and starts a reader.  *)
Accept ==
  /\ pc = "down" /\ plugged
  /\ IF thread # 0 \/ running
     THEN pc' = "failed" /\ UNCHANGED <<task, running, thread, readers>>
     ELSE /\ running' = TRUE /\ thread' = conn /\ Goes(conn, "starts")
          /\ Call("kludge", 1, TRUE, TRUE)
  /\ UNCHANGED <<result, accept_to, hand, shared, dev, ghost>>

Operates == pc = "up" /\ ops < MaxOps /\ ops' = ops + 1

Read(n, peek, timed) ==
  /\ Operates /\ Call("app", n, peek, timed)
  /\ UNCHANGED <<result, accept_to, rd, shared, dev, taken, stained>>

Flush ==
  /\ Operates /\ pc' = "flush"
  /\ UNCHANGED <<task, result, accept_to, rd, shared, dev, taken, stained>>

(* u_flush, which has to lock the mutex. *)
Flushes ==
  /\ pc = "flush" /\ mutex = "free"
  /\ buffer' = <<>> /\ taken' = taken \o buffer /\ pc' = "up"
  /\ UNCHANGED <<task, result, accept_to, rd, mutex, dev, stained, ops>>

(* u_close: RD_stop, which does not wait for the reader, and USB_close.    *)
Close ==
  /\ pc \in {"up", "failed"} /\ pc' = "down"
  /\ running' = FALSE /\ thread' = 0
  /\ plugged' = FALSE /\ wire' = <<>>
  /\ stained' = (stained \/ buffer # <<>>
                  \/ \E c \in Conns : readers[c] \in {"locks", "appends"})
  /\ UNCHANGED <<task, result, accept_to, readers, hand, shared, conn, sent, taken, ops>>

(* Without a timeout a read may wait for ever. *)
WaitsOn == pc = "wait" /\ ~task.timed /\ UNCHANGED vars
Done    == pc = "down" /\ ~plugged /\ UNCHANGED vars

-----------------------------------------------------------------------------
InRead   == Enter \/ HostLocks \/ Waits \/ TimesOut \/ EndsWait \/ Take
AppCalls == \/ Accept \/ Flush \/ Close
            \/ \E n \in ReadLens, peek, timed \in BOOLEAN : Read(n, peek, timed)
Device   == PlugIn \/ DevSends \/ Unplug

Next ==
  \/ InRead \/ AppCalls \/ Flushes \/ Device
  \/ \E c \in Conns : Reader(c)
  \/ WaitsOn \/ Done

(* Both threads are scheduled, and a cancellation takes effect.            *)
Fairness ==
  /\ WF_vars(InRead) /\ WF_vars(Flushes)
  /\ \A c \in Conns : WF_vars(Reader(c)) /\ WF_vars(Dies(c))

Spec == Init /\ [][Next]_vars /\ Fairness

-----------------------------------------------------------------------------
Data    == Conns \X (1..MaxItems)
Tasks   == [by : {"none", "kludge", "accept", "app"}, len : Nat,
            peek : BOOLEAN, timed : BOOLEAN, over : BOOLEAN]
Reading == pc \in {"enter", "lock", "wait", "locked", "take"}

(* The state has its types, and the mutex is held by who is between its    *)
(* lock and its unlock.                                                    *)
TypeOK ==
  /\ pc \in {"down", "enter", "lock", "wait", "locked", "take", "up", "flush",
             "failed", "crashed"}
  /\ task \in Tasks
  /\ result \in {"none", "data", "timeout", "gone"} /\ accept_to \in BOOLEAN
  /\ running \in BOOLEAN /\ thread \in 0..MaxConns
  /\ readers \in [Conns -> {"none", "starts", "tests", "reads", "locks", "appends"}]
  /\ hand \in [Conns -> Seq(Data)]
  /\ mutex \in {"free", "host", "reader"}
  /\ (mutex = "host") = (pc \in {"locked", "take"})
  /\ buffer \in Seq(Data) /\ wire \in Seq(Data)
  /\ taken \in Seq(Data)
  /\ conn \in 0..MaxConns /\ sent \in 0..MaxItems /\ plugged \in BOOLEAN
  /\ stained \in BOOLEAN /\ ops \in 0..MaxOps

(* Reading, peeking and flushing while the reader appends neither loses,   *)
(* repeats nor reorders anything, and what was left of an earlier          *)
(* connection is never taken for data of this one.  Nor does a read take   *)
(* more than there is (RD_main empties the buffer without the mutex).      *)
Stream == taken \o buffer \o (IF conn = 0 THEN <<>> ELSE hand[conn]) \o wire
InOrder ==
  pc # "down" => /\ pc # "crashed"
                 /\ \A i \in 1..Len(Stream) : Stream[i] = <<conn, i>>
                 /\ plugged => Len(Stream) = sent

(* Nobody waits for data that are there: the reader wakes u_read_i, whose  *)
(* condition cannot become true while it goes to sleep.                    *)
NoLostWakeup == pc = "wait" => Len(buffer) < task.len

(* A read with a timeout returns, whatever the device and the reader do;   *)
(* so pi_accept_to with a timeout returns too, once the device is found.   *)
TimedReadsReturn == (Reading /\ task.timed) ~> (~Reading \/ ~task.timed)

(* The same for pi_accept_to alone: "@param timeout Number of seconds to   *)
(* wait" (pi-socket.h).                                                    *)
Accepting == Reading /\ task.by \in {"kludge", "accept"}
AcceptReturns == (Accepting /\ accept_to) ~> ~Accepting
=============================================================================
