# pilot-link: specifications

TLA+ specifications of [pilot-link](../src), the library and tools that
synchronize Palm OS devices with a desktop.  The modules are translated from
the C sources, are model-checked with TLC on small instances, and the theorems
about them are checked by TLAPS.

Paths below are relative to the repository (`libpisock/padp.c` is
`src/libpisock/padp.c`).  `PROJECT.json` holds the same information for tools:
the lines each definition translates, the runs, the faulty variants each
property was shown to reject, and the hazards.

- [What the system is](#what-the-system-is)
- [The modules](#the-modules)
- [The runs](#the-runs)
- [What is proved](#what-is-proved)
- [What was found](#what-was-found)
- [What is not modelled](#what-is-not-modelled)
- [Plan](#plan)

## What the system is

A conduit or tool calls **DLP** functions (`dlp_ReadRecordById`, ...).  A DLP
call is a request and a response.  Below it lie layers chosen for the device
when the socket is connected, each a pair of `read` and `write` functions that
calls the next:

    tools, conduits, libpisync          pilot-xfer, sync_Synchronize, ...
    DLP                                 dlp_exec: request, response
    PADP                 NET            fragments and acks | length prefix
    SLP                  |              checksummed frames |
    serial               USB, TCP       the device, as a byte stream

CMP and NET each add a handshake at the start of a connection.  A socket may be
watched: a `SIGALRM` handler then sends *tickles* through the same layers, in
the middle of whatever the process is doing.  That handler, the application's
threads, the reader thread of `libusb.c` and the device itself are what runs
concurrently.  Nothing is persistent in the library but database files and, on
the device, databases and their dirty and deleted flags.

| component | state | operations | interacts with | hard to get right | what makes it correct |
|---|---|---|---|---|---|
| **PADP** (`padp.c`) | transaction ids, freeze, header of the last ack, retries; `ps->state` | `padp_tx`, `padp_rx`, `padp_sendack`, freeze and unfreeze of the id | called by DLP and `pi_tickle`, calls SLP | loss, duplicates, late frames and acks, retransmission, timers, tickles of either side, wrap of the id, leftovers of an earlier call | a response is the whole response of its own call; a request is carried out once; calls return; lost frames are made up for |
| **Sockets, watchdog** (`socket.c`) | list `psl`, `watch_list`, two mutexes, `ps->state`, alarm | `pi_socket`, `pi_bind`, `pi_listen`, `pi_accept_to`, `pi_connect`, `pi_send`, `pi_tickle`, `pi_watchdog`, `pi_close`, `onalarm` | everything above; the kernel's signals | threads and a signal handler on shared lists, self-deadlock, freed sockets, a stopped alarm | no freed socket in a list, mutexes come free, a watched socket is tickled |
| **libpisync** (`sync.c`) | records on both sides with flags, a queue of records to write, a loop index | copy to and from the device, merge either way, synchronize | DLP record calls; a `SyncHandler` of the application | 18-row decision table over flags of both sides, a call that fails anywhere, iteration over records that are being removed | both sides agree, no edit lost, ids unambiguous, result tells the truth |
| **SLP** (`slp.c`) | parse state of a frame, checksums | `slp_tx`, `slp_rx` | PADP above, device below | resynchronization on a damaged stream | only undamaged frames pass, once and in order; the next start is found |
| **NET** (`net.c`) | type and `txid` of each instance, `split_writes`, handshake | `net_tx`, `net_rx`, handshakes | DLP, device, `pi_tickle`, `pi_close` | packets cut anywhere, tickles of both sides in between, a first packet without header, a peer that goes away | a call has its own response; on a working connection calls succeed; `pi_close` tells the truth |
| **CMP** (`cmp.c`) | version, baud rate, flags | `cmp_wakeup`, `cmp_init`, `cmp_abort` | PADP below | wakeups repeated while the host answers | both ends agree on version and speed |
| **Protocol queues** (`socket.c`) | list of protocols per socket, `command` | `protocol_queue_build`, autodetection | all layers | peeking at bytes of a device that is still sending | the layers fit the device, and what was peeked at is not lost |
| **DLP** (`dlp.c`) | `dlprequest`, `dlpresponse`, last error | `dlp_exec`, some 100 calls over it | PADP or NET | short and late responses, frozen transaction ids, multi-part calls | a result belongs to its command |
| **Serial** (`serial.c`, `unixserial.c`) | peek buffer, speed, timeouts | `open`, `read`, `write`, `poll`, `flush` | SLP, CMP | partial writes, interrupted `select` | bytes once, in order; timeouts hold |
| **USB** (`libusb.c`, ...) | a buffer shared with a reader thread, mutex, condition | `RD_main`, `u_read`, `u_poll`, `u_flush`, `u_close` | NET | wakeups, a reader that is cancelled, a device unplugged, a buffer used again | nothing lost, doubled or of an earlier connection; no read waits for ever |
| **Files** (`pi-file.c`) | entries, resources, a temporary image | open, read, append, close, install, retrieve, merge | DLP | failure half way, on device or disk; a lost connection | a file or database is old, new or absent, not half |
| **pilot-xfer** | directory of backups, list of files not yet seen | backup, update, sync, restore, install, merge | files, DLP | databases that fail in between, clean-up of others, modification times as the sign of "nothing to do" | nothing is removed that was not seen deleted; what counts as unchanged is complete |

Record codecs, buffers, headers and character sets are sequential code without
state; tools other than `pilot-xfer` are loops over library calls.

## The modules

| module | what it is | translates |
|---|---|---|
| `Rpc` | what the packet layers promise a DLP call | - (abstract) |
| `Padp` | PADP under a sequence of calls, over a lossy line, with a device | `padp.c`, `dlp_exec` as far as it calls `pi_write` and `pi_read` |
| `PadpWatchdog` | `Padp` with tickles between or in the middle of calls | `pi_tickle`, `padp_tx` for `padTickle` |
| `PadpProofs` | theorems about `Padp` | - |
| `PadpLineProofs` | theorems about the line: `Padp` and `PadpWatchdog` until a frame is lost, and `Padp` with losses | - |
| `Net` | detection, handshake, DLP calls, tickles and the end of a synchronization over NET | `net.c`, `dlp_exec`, `pi_tickle`, `pi_close`, part of `protocol_queue_build` |
| `NetProofs` | theorems about `Net` | - |
| `Serial` | SLP frames over a tty, and the detection before them | `slp.c`, reading and writing of `unixserial.c`, part of `protocol_queue_build` |
| `SerialProofs` | theorems about `Serial` | - |
| `Usb` | the reader thread, its buffer, and the calls that use it | `libusb.c` |
| `UsbProofs` | theorems about `Usb` | - |
| `Sockets` | socket lists, mutexes, threads and the watchdog | `socket.c` |
| `SocketsProofs` | theorems about `Sockets` | - |
| `SyncRecord` | one decision of `sync_record`, as the sequence of calls it makes | `sync.c`, `sync_record` and the macros around it |
| `Sync` | the five operations over the records of a database, every call a step | `sync.c`, the rest |
| `SyncProofs` | theorems about `Sync` | - |
| `Transfer` | retrieve, install and merge of a database, call by call | `pi-file.c` |
| `Xfer` | commands of pilot-xfer over a directory and a device | `pilot-xfer.c`, `pi_file_close` |
| `XferProofs` | theorems about `Xfer` | - |
| `MCPadp`, `MCNet`, `MCSerial`, `MCUsb`, `MCSockets`, `MCSync`, `MCXfer` | instances for TLC | - |

`Padp` and `Net` INSTANCE `Rpc` as their abstraction: the two packet layers are
shown to make the same promise.  `PadpWatchdog` EXTENDS `Padp`, `Sync` EXTENDS
`SyncRecord`, `Xfer` EXTENDS `Transfer`.  `Sockets` sees `pi_tickle` as one
exchange that may fail; what a tickle does to a call under way on the same socket
is the subject of `PadpWatchdog` and `Net`.  `Serial` is the line below `Padp`:
what its `InOrder` and `LossBounded` say is what `Padp` assumes of a line, whole
frames in order, some of them lost.

In each module, *faulty variants* of some definitions stand before their
originals (`ResentWithNewId` before `Resent`, `ConflictKeepsId` before `Conflict`).
They are not used: each is a plausible mistake, and putting it in place of the
original makes TLC find a named property violated.  They show what the
properties are sensitive to.

### Padp

The host's variables are those of `padp_tx` and `padp_rx`: `txid`, `nextTxid`,
`lastAck` are fields of `struct pi_padp_data`; `retries` and `sent` (`count`)
locals of `padp_tx`; `rxbuf` what `padp_rx` has appended; `conn` is `ps->state`.
`pc` says which read the caller is blocked in: for an ack (`txWait`), the
first (`rxFirst`) or a later fragment of the response (`rxNext`).  One action
is one packet read, or one timer, and all that the code does until it blocks
again: `TxAck` counts the fragment, and sends the next one or ends `padp_tx`
and enters `padp_rx`; `RxAccept` acks, appends if the offset is that expected,
and goes on or returns.  A packet is classified by the code's own conditions,
in their order: `TxTickle`, `TxMissingAck` (the response stands for the last
ack), `TxAck`, `TxFail`, `TxRepeat`; `RxAccept`, `RxMemErr`, `RxWrong`.

Details the code has and the model keeps:

- a tickle that `padp_tx` waits past stays at the front of `padp_buf`
  (`stuck`), and hides the packets behind it until the fragment is sent again;
- `last_ack_txid` and `last_ack_padp` are compared before they are set
  (`lastAck` starts with either of two values);
- `padp_rx` acks every fragment of the right id, in order or not, and ends at
  any that is marked last;
- time is looked at in `padp_rx` only after a wrong packet (`RxWrong`); silence
  is the error of the device below, and leaves `ps->state` alone;
- ids run 1..0xfe and are 0xff at the start; `TxidWrap` stands for 0xfe and is 6
  in the instances, so that three calls, or two calls and two tickles, come
  close to it; the proofs leave it open.

The device is external: its acks echo the header, it repeats an ack for a
fragment it has, it retransmits a response fragment `DevTries` times, and it
carries out a request when its last fragment is in.  Frames carry the number
of the call they were sent for; no action of the host looks at it.

Left out: the freeze of the id (`dlp_VFSFileRead` reads the parts of a file under
one id; every way out of it unfreezes), the long header format, and the connecting end (`CONN_INIT`), whose ids count the other
way.

### SyncRecord and Sync

`Decisions` lists the rows of `sync_record` in the order of the code, each with
the steps it takes; `Taken` are the macros `DesktopCheck` and `PilotCheck`, that
leave out steps on a side the operation does not write.

`Sync` has the loops and the calls.  A pass of a loop reads a record and its
counterpart and ends by setting `rec`: the two records `sync_record` is called for and
the steps it has still to take.  While there are some (`Running`) every call that
changes something is an action of its own (`AddRecord`, `ReplaceRecord`, `WriteNew`,
`DeleteOnDevice`, ...), `NotTaken` passes over a step the macros leave out, and
`StepFails` is a call that fails.  Any call to the device or the `SyncHandler` can
fail (`Fault`), up to `MaxFails` of them, and the code's reaction is kept: `Abort`
where it goes to `cleanup`, `LeavesLoop` where `sync_MergeToPilot` drops the result,
nothing where `store_record_on_pilot` is called for its effect, and the end of the loop
where an error of a read is taken for the end of the records.

External, and modelled from what `sync.c` and `pi-sync.h`, `pi-dlp.h` say:
the `SyncHandler` (`SetStatusCleared` clears flags, `ArchiveRecord` moves a
record, `ForEach` passes over deleted records and long archived ones,
`ForEachModified` returns the flagged), and the device
(`dlp_ReadNextModifiedRec` returns a modified record once; a deleted record
stays as a record of size 0 at the end of the database; `CleanUpDatabase` and
`ResetSyncFlags`).  A record's contents is who edited it: original, edited on
one side, or the same edit on both; a record deleted on the device has lost its
contents, one deleted on the desktop keeps what it was or was edited to.

### Sockets

`psl` is the list of all sockets, `watch_list` a sequence of those to be kept
alive, `mutex` the two mutexes.  Each thread makes calls on the sockets it owns;
a call is a `find` under `psl_mutex` and then its own steps: `send` (which
restarts the alarm), an exchange with the `device`, `unlist`, `unwatch`, `free`
for `pi_close`, `watch` and `arm` for `pi_watchdog`.  Between two steps any
thread may run and the alarm may fire on any thread, on which the handler then
runs (`Scan`, `HandlerFind`, `HandlerTickle`) while that thread's call is
suspended.  `Connected` stands for `CONN_INIT` and `CONN_ACCEPT`.

Assumed of the application: a socket is used by one thread; it is connected
once, and watched while it is connected (`pi-socket.h:565`, "still connected"),
not twice.  Left out: `onexit`, failures of `malloc`, datagram sockets,
the protocol queues, and numbers of descriptors that are used again.

### Net

A connection is two streams of *units*: the first byte of a header, the rest of
it, and the pieces of a payload.  Packets exist only in the readers' heads, as in
the code, so that a reader can be in the middle of one (`rx`, `dev`), out of step,
or take a payload for a header.  `inst` holds the two instances of the layer, that
of the command queue and that of DLP, with their `txid`; `command` selects one, and
`cur` is the one a call works with.  An operation is a list of `net_tx` and
`net_rx` (`todo`): the handshake, a DLP call, or the `EndOfSync` of `pi_close`.

Details kept: `net_rx` reads the first byte alone when its `txid` is 0, and
recognizes a first packet whose header was lost; it never compares ids; the id
wraps past 0xff (`ReadDone`); a payload too long is flushed; after the device has closed
the connection a header ends with an error, while a payload is read again and
again (`Spin`); `dlp_request_write` flushes what has arrived, which may cut a packet;
`dlp_exec` lets a response of another command pass for four commands
(`Lenient`); a `pi_close` that fails leaves the socket as it was; a tickle of the
host sets the type of its instance and never sets it back.

The device is external: it answers what it understands and is `Lost` once it reads
something out of place.  `patient` says whether reads outlast the device; it is
chosen once, as are `split` writes and whether the application `goesOn` after an
error.

### Serial

A byte is what it is a byte of.  `slp_tx` hands a packet to `s_write`, whose writes
may be cut; `Write` repeats the *whole* buffer after a short write, as the code does.
The reader is `slp_rx` over `s_read` over `read`: `state`, `frame` and `expect` are
those of `slp_rx`, `readAhead` the peek buffer.  Before that the reader of
`protocol_queue_build` peeks at a header and drops a byte until it fits.  A *harm* is a
byte lost, damaged or added, a write cut short or a pause longer than the timeout;
checksums are taken to detect damage.  A signal in `select` makes the following
`read` block without a timeout (`blocked`); after a hangup `read` returns 0 at once,
again and again.

### Usb

The two threads step by step: the reader's `RD_main` (reset of the buffer, test of
`RD_running`, bulk read, lock, append and notify) and the application's `u_read_i`
(test, lock, wait, check, take), with `u_flush`, `u_close` and the two reads of
`pi_usb_accept` before a connection is handed out.  `RD_stop` cancels a reader without
waiting, so the reader of an earlier connection may go on (`readers[c]`) until it
`Dies`, also between lock and unlock.  Data are numbered per connection; `taken` is
what the application has read or flushed.  `LoudConns` is the number of connections
that may begin while an earlier one still has something in flight.  With more than one
both the violation below and data of an earlier connection are found; `InOrder` and
`TimedReadsReturn` hold with one.

### Transfer and Xfer

A database is its records, its application block and the time of its last change.
`Transfer` makes one DLP call per action (`Call`): it succeeds, is refused, or the
connection breaks before or after the device has carried it out.  `task` holds the
locals of the function under way, `pf` the file's contents, `open` whether a handle has
to be closed.

`Xfer` runs commands over a directory (`files`) in which a file has the time
`utime` gave it.  `orig` is `orig_files`, from which `palm_backup` takes what it
has seen; `Tidy` unlinks the rest.  The disk may be full, and the program may be killed
at any step, in both cases with the loss of a file that was being replaced, since
`pi_file_close` unlinks it first.  Between commands the user edits, loses databases (one,
or all by a reset) or downloads files.  `spoiled` are databases whose file was written without
all it should hold: because `pi_file_retrieve` takes an application block that
cannot be read for none, or because the disk was full while `pi_file_close` still
ends with the result of the last step.

## The runs

Deadlock is checked for `Padp`, `Net`, `Usb`, `Serial` and `Xfer`, where `Finished`,
`WaitsOn`, `Done`, `Idle` or `Failed` says when nothing is left to do or
a read without a timeout may wait.  It is not checked for `Sync`, which ends, for `Sockets`, whose
application may stop calling (there `Returns` and `MutexesReleased` say that nobody
waits for ever), nor for `usb_reopen`, which is about a wait without end.

| run | instance | what it checks and shows |
|---|---|---|
| `padp_safe` | 3 calls, requests and responses of 1 or 2 fragments, 2 tries, a line of 3 frames, 2 losses, 1 tickle and 1 memory error of the device; timers may expire at any time, a flush may discard anything | `OwnResponse`, `WholeResponse`: a call that succeeds has the whole response, and nothing of another call's; `AtMostOnce`: no request is carried out twice; `ImplementsRpc`; `CallReturns`: `padp_tx` and `padp_rx` come back, whatever device and line do |
| `padp_recovers` | 3 calls, requests of 1 fragment, responses of 1 or 3, 4 tries (`PI_PADP_TX_RETRIES` is 10), 3 losses, 2 tickles of the application between calls; timers expire only on a silent line | `LossesMadeUpFor`: the device is never presumed dead, and the one loss that is not made up for is that of the ack of the first of several fragments; `NoNeedlessRetry`, `TicklesHarmless`: without a loss nothing is sent twice, and tickles between calls disturb none |
| `net_calls` | handshake, 2 calls of 2 pieces each way, one of them `Lenient`, 1 tickle of each side at any step, 1 fault, 1 `pi_close`; split writes or not, patient reads or not | `OwnResponse`; `CloseHonest`: `pi_close` frees the socket only when the device has ended; `CallsSucceed`: on a working connection tickles and a lost first header do no harm, with three exceptions (see below); `ImplementsRpc`; `CallReturns` |
| `serial_stream` | 3 packets, plain or with a signature in their data, the next written when all is read, 1 harm, 1 signal or hangup | `InOrder`: what `slp_rx` returns was sent, complete, in order and once; `LossBounded`: damage costs two packets, and one more for each that holds something like a signature; `TimedReadsReturn` |
| `usb_read` | 2 connections, 3 data and 3 operations each, reads of 1 or 2; the second begins when the first is quiet | `InOrder`: reading, peeking and flushing against the reader thread loses, repeats and reorders nothing, and never takes what is not there; `NoLostWakeup`; `TimedReadsReturn` |
| `usb_reopen` | 2 connections in a row | *violation* of `AcceptReturns` |
| `sockets_watch` | two threads with a socket each, an interval of 2 ticks; the alarm arrives outside the critical sections | `NoUseAfterFree`: no freed socket is on a list or before a handler on any thread; `KeptAlive`: while a connected socket is watched an alarm is set or about to be; `WatchedAreTickled`, `MutexesReleased` |
| `sockets_alarm` | one thread with two sockets; the alarm arrives anywhere | *violation* of `WatchedAreTickled` |
| `sync_all` | all five operations, fast and slow; one record known to both sides in every combination of edited, the same edit, deleted, archived; a new record on either side or none; up to 2 failing calls | `EditsSurvive`: whatever fails, an edit is on one side at least at every moment; `NoTwins`: ids on the desktop are unambiguous; `OneWay`: merges do not alter the other side; `Delivered`: without failures the fast synchronization converges, and after a copy or merge one side has what the other had; `Returns` |
| `sync_slow` | slow `sync_Synchronize` | *violation* of `Converged` |
| `xfer_commands` | 2 databases, one left out by default and one excluded by `-e`, 2 records, 3 changes, 2 commands, 2 failures, an old device | `UnchangedIsStored`: a file that counts as unchanged holds all of its database; `Complete`: what a backup, sync or restore without failures leaves on both sides; `RemovedAreGone`; `InstallAllOrNothing`; `MergeAdds` |
| `xfer_sync` | the same, with no database left out by default | *violation* of `SyncRemovesDeleted` |

Every instance also has its module's `TypeOK`, where it is not a single
property that is refuted.

### Why the bounds are enough

**Padp.** What can be confused are frames of neighbouring calls and of
neighbouring fragments, so two fragments and three calls: the third call meets
leftovers of the second while the ids of the first come back (`TxidWrap = 6`
makes the wrap happen).  Two losses lose both a frame and the answer to its
repeat.  `padp_recovers` has responses of three fragments, since the middle one
is neither first nor last, and fewer losses than tries.  For the safety
properties the theorems below need no bounds.

**Sync.** A record interacts with others in two ways only: its id (a conflict
gives the desktop record a new one) and its place in a list that is read by
index while it changes.  A known record, a new one on each side and those that
the operation itself adds show both; with two known records, no new ones and
one failing call nothing is violated either (2,159,584 states).  Two
failures reach a failure while another is being cleaned up after.

**Net.** What can be confused are a packet and its neighbour, or a header and a
payload: two calls, payloads of two pieces, one tickle of either side at any
of the steps.  `TxidWrap = 3` brings the wrap within the handshake and two calls.  A
fault and a tickle in the same behaviour are included (993,511 states).

**Serial.** A damaged packet, the one the search runs into, and the one after it:
three.  The rest of a header has 3 bytes instead of 7, of which the last is the
checksum; what counts is that a false start may swallow a whole packet or not.  With
`Room = 2`, so that some packets are too long, nothing is violated either
(1,694,551 states).  Noise without end is left out.

**Usb.** The stale state is that of the connection before: two.  Three data let the
reader append one part while another is on the wire and a third was peeked at
(106,204 states).

**Xfer.** Databases interact through the directory listing, so two; a command can
be misled by what an earlier one left, so two commands and two failures, which is a
failure during the first or while another is cleaned up after (7,513,620 states).

**Sockets.** A race needs a handler that walks the list and a thread that closes
a socket, or two threads: two of each.  Two sockets make the walk go on past one
that is not connected.  The interval only has to be longer than a step.

### Fairness

- *Padp*: `WF` of `HostReads`, `TxTimeout` and `RxSilence`: the kernel wakes a
  reader for a frame and at the end of its wait.  Nothing is assumed of the
  device or the line.  That the caller comes back even though every tickle
  extends its wait is due to the device's `MaxTickles`: one that tickles for
  ever holds it for ever (`padp.c:527`), which is what tickles are for.
- *Net*: `WF` of `Host`, that reads and writes go on or time out; nothing of the device, the
  application or the watchdog.  `CallReturns` is claimed where reads time out, and
  excepts a payload cut by the end of the connection.
- *Serial*: `WF` of the reader, which runs when there is something to read or its
  time is over.
- *Usb*: `WF` of both threads, and of a cancellation taking effect; nothing of the
  device and the application.
- *Sync*: `WF` of the next call, which may fail.
- *Sockets*: `WF` of the clock and of a thread or a handler that can go on; `SF`
  of the delivery of a pending signal, for which some thread is runnable outside
  of a handler again and again, and of a handler's lock, which gets a mutex that
  is free again and again.  Nothing is assumed of the application (`Begin`), of
  its threads' locks, nor of the device (`Answer`), which may keep a call
  waiting for ever.  `WatchedAreTickled` excepts `Postponing`, because `pi_send`
  starts the alarm anew.
- *Xfer*: none; it has no liveness property.

## What is proved

### PADP

`PadpProofs` proves, for all bounds, lengths, retry counts and capacities
(`PadpAssumption`, of which `TxidWrap >= 4` is what the argument needs):

| theorem | states |
|---|---|
| `TypeCorrect` | `Spec => []TypeOK` |
| `OrderCorrect` | if `~GoesOn`, `Spec => []OrderInv` |
| `CarriedOutOnce` | if `~GoesOn`, `Spec => []AtMostOnce` |
| `ResponsesNotMixed` | if `~GoesOn`, `Spec => []OwnResponse` |
| `PacketsImplementCalls` | if `~GoesOn`, `Spec => ImplementsRpc` |
| `WholeResponseCorrect` | if `~GoesOn` and `DevStrictAcks`, `Spec => []WholeResponse` |

and `PadpLineProofs`, of a line that has lost nothing, and of one that loses frames:

| theorem | states |
|---|---|
| `NoRetryWithoutLoss` | if `Undisturbed(0)`, `Spec => []NoNeedlessRetry` |
| `TicklesDisturbNoCall` | if `~InHandler` and `Undisturbed(MaxAlarms)`, `WSpec => [](TicklesHarmless /\ NoNeedlessRetry)` |
| `LossesRecovered` | if `Recoverable`, `Spec => []LossesMadeUpFor` |

`~GoesOn`: the application makes no further call after one that failed.  That
is needed.  A failed call leaves frames behind, and when ids come round before
these are read they pass for frames of a new call: with `GoesOn`, four ids and
eight calls TLC finds `OwnResponse` violated.  (With the 254 ids of the code that
takes as many failed calls.)

*The argument.*  None of the safety properties is inductive.  That a response
fragment is of the current call follows from its id only if no older frame with
that id is left, and that a repeated request is recognized by the device only if
no newer one is in between.  `OrderInv` says why this is so: every frame to the
device belongs to a call between the one the device has and the current one;
every frame to the host belongs to the current or the previous call (`IdsInv`:
their ids differ); both lines are in the order of calls; and once a call has
succeeded nothing of an earlier one remains.  One exception has to be allowed: a memory error, which the device may report for
a request whose earlier copy is still being answered.  A new call may begin only
when the last has succeeded, which is when the device has carried it out: this
is `devCall = call`, from which everything to the device is a repeat
(`Settled`).  Loss and flush only shorten the lines, a full line drops what is
put last; all keep the order (`TailIndex`, `SuffixIndex`, `PutIndex`).

`TypeOK`, `OrderInv`, the step lemmas (`HostReadsOrder`, `DevReadsOrder`,
`BeginOrder`, ...: one per group of actions, with a step per action) and
`NextOrder` give `OrderCorrect`; the other three follow from `OrderInv`.  For the
refinement every step of `Padp` is a `Begin`, `Execute`, `Succeed` or `Fail` of
`Rpc`, or changes nothing there (`NextAbstract`).

*Whole responses.*  `padp_rx` appends what has the offset it expects, so a response
can be wrong in length only if the device ends it early or runs ahead.  `WholeInv` says
it does neither: the device is at the fragment the host reads next or, while an ack
is under way, one before it (`InStep`); and the host has acknowledged nothing of the current
call that it has not appended (`AcksOk`), for which the request must have been complete
(`RequestSent`, `BufferOk`).  `DevStrictAcks`, that the device looks at the offset of
an ack, is needed: a device as lenient as `padp_tx` itself takes a duplicate ack for that of the
next fragment (finding 5, seen from the other side).

*Undisturbed exchanges.*  `Undisturbed(m)`: both sides wait long enough, the device
sends no tickles and no memory errors of its own, and there is room on the line and in the space
of ids for the `m` tickles of the watchdog.  Losses are not excluded by
hypothesis; the properties say that without one nothing is sent again.
`LosslessInv` lists where a call can be (`Asking`, `Sending`, `Taken`, `Replying`): in each,
exactly one frame of the exchange is under way, in the one line, perhaps behind
tickles, and the other line is empty.  So every read finds the frame waited for, and
a timer has nothing to do.

The bound on ids is sharp.  A tickle takes an id, and the device compares the id of
a request with that of the last one only.  After `TxidWrap - 2` tickles
between two calls, 252 with the ids of the code (or that and any number of rounds more), the second gets the id of the first, and the device
takes it for a repetition: it acks and never answers.  TLC finds this with
`MaxAlarms = 2` and `TxidWrap = 4`.  With any other number nothing is wrong.

*Losses.*  `LossesRecovered` bounds the retries of both sides by the frames lost in
the whole session.  `Recoverable` is what `padp_recovers` runs with: both sides wait
longer than the other takes (`Patient`), no tickles, no memory errors, a device that looks at
offsets, requests of one fragment, `MaxLosses < TxRetries`, `MaxLosses <= DevTries`, and
a line that drops nothing for want of room.  What the invariant `Recover` counts is
frames, by kind and by the call they are of (`N`):

1. A response fragment or its ack is under way at most once (`OneToken`), and all that is
   under way is at most three frames while `padp_tx` waits, two while `padp_rx` does
   (`Room`): no frame is answered twice.
2. While `padp_tx` waits, the retries made so far, the repeats of the last response still
   to be read (each makes it send again, `padp.c:348`), and one more if nothing of the
   fragment or its ack is left, are not more than the frames lost (`Requesting`).
   Hence `retries` does not come to 0.
3. The same for the transmissions of a fragment of the response by the device
   (`Answering`), with one exception (`FirstUnacked`): the ack `padp_rx` sends for
   the first of several fragments.  When that is lost the repeat of the fragment
   has an offset the loop no longer expects, and is not acked again (`padp.c:530`).
4. If the ack of the last response is gone between two calls and the device still
   waits for it, it was lost (`Resting`); the next call begins with that loss spent.

That `Cardinality` of these sets of positions changes by one when a frame is put or taken
is proved once (`CountPut`, `CountTail`), and every action has a lemma of its own.

The hypotheses are needed.  With `MaxLosses = TxRetries` TLC lets `padp_tx` give up; with
requests of two fragments it finds finding 5; and the exception is real, as the run
reaches it.

### NET

`NetProofs` proves, for any number of calls, tickles, failures and attempts to close,
any lengths of requests and responses up to the longest packet, and any set of lenient
commands (`NetAssumption`; a payload holds at least 2 pieces, since the first packet
of the device has 2):

| theorem | states |
|---|---|
| `TypeCorrect` | `Spec => []TypeOK` |
| `CloseHonestCorrect` | `Spec => []CloseHonest` |
| `OwnResponseCorrect` | `Spec => []OwnResponse` |
| `PacketsImplementCalls` | `Spec => ImplementsRpc` |
| `CallsSucceedCorrect` | `Spec => [](~goesOn => CallsSucceed)` |

*The argument.*  `IInv` is inductive and has two halves.  The first holds whatever goes
wrong:

1. `Control` and `SentTypes`: where an operation can be, given what it still has to
   do, and what can be on its way; `CloseSeen`, which gives `CloseHonest`: an answer to
   `EndOfSync` exists only when the device has ended.
2. `Once`: the beginnings of requests that the device has not read, and that of the one
   it is reading, are of different calls, none of them carried out.

The second holds while nothing has gone wrong (`Good`: an application that
stops at errors and has met none, its first `pi_close` included, or a call that began when
nothing was under way).
`OwnResponse` needs all of it:

3. `InTurn`: apart from tickles there is one packet in the system, or none while it is
   the host's turn.  It is on its way to the device, being read there, being answered, on
   its way back, or being read by `net_rx` (`OneTurn`), and during a call it is of
   this call (`Current1`).  `Headers` and `Greeting` are what this needs of the device's
   reading and of the handshake.
4. `InStep`: what `net_rx` takes for a header is one.  The stream begins with a header
   or with exactly what is missing of the packet it is reading, and is made of whole packets
   unless the device has closed it (`Aligned`).  The exception is the first packet
   after the detection, whose beginning is lost (`Headless`): `net_rx` then has
   the id 0 and may read it.

Hence a payload that ends a read is all of the answer to this call (`OwnAnswer`).  For
the refinement, the answer was sent after the device carried the call out, and by `Once`
it does so once.

`CallsSucceed` needs the converse: not that at most one packet is in the system, but that
it is there.  `LInv` adds to `IInv`

5. `Books`: a connection that is broken or at its end has cost a failure, and nothing
   tickles before the connection is accepted.
6. `Live`, while the application stops at errors, nothing has failed, reads are patient,
   and no tickle came where it does harm (`Calm`: into a split write, or before
   `pi_close`).  What the device has still to read is made of whole packets, across what
   it is reading, has in its buffer and the host has yet to write (`DevLine`), so that it
   loses nothing; the instance the next request uses has the type of a request
   (`InstOk`); and unless it is the host's turn to send, its packet is on the way, read,
   worked on or answered (`Token`).
7. `Stops`: no call has failed, the socket is closed only as `END`, and a `pi_close`
   without a tickle before it is the only one.

A patient read that times out would have nothing to wait for, against `Token`
(`NoTimeout`); a bad header or an answer of the wrong command, against `InStep` and
`InTurn` (`NoFailure`).  `Endings` says that an operation ends in no other way.  For an application that calls
again after a failure (`goesOn`) the property stays with TLC: `Good`
ends with a `pi_close` that failed, and the argument by turns with it.

### Serial

`SerialProofs` proves, for any number of packets, data of any length, and any numbers of
harms and signals (`SerialAssumption`):

| theorem | states |
|---|---|
| `TypeCorrect` | `Spec => []TypeOK` |
| `InOrderCorrect` | `Spec => []InOrder` |

*The argument.*  `IInv` follows the last byte of each frame, the only one of which
there is at most one on the way per packet: `s_write` repeats the beginning of a buffer
but stops once it has written its end (`WriteCut` takes less than all of it).  In what
was peeked at, followed by the line (`Ahead`), last bytes come in the order of their
packets, are of packets after those returned, and before the one `s_write` has still
to write (`Delivers`, `Ordered`).  A packet is returned when the byte just read is the last
of a frame and its checksums fit, hence whole, later than those before, and never
again.  `SendTypes`, `LineTypes` and `RxTypes` are the types these need, with how many
bytes `slp_rx` still expects in each of its states.

### pilot-xfer

`XferProofs` proves, for all sets of databases, any number of records, commands,
changes and failures (`XferAssumption`, `TransferAssumption`):

| theorem | states |
|---|---|
| `TypeCorrect` | `Spec => []TypeOK` |
| `RemovedAreGoneCorrect` | `Spec => []RemovedAreGone` |
| `InstallAllOrNothingCorrect` | `Spec => []InstallAllOrNothing` |
| `MergeAddsCorrect` | `Spec => []MergeAdds` |
| `UnchangedIsStoredCorrect` | `Spec => []UnchangedIsStored` |
| `CompleteCorrect` | `Spec => []Complete` |

*The argument*, in six layers, each using those before it:

1. `IInv`, for the removal.  A file still in `orig` is of a database that is gone,
   not yet listed, at hand, or left out (`Accounted`); `todo` is empty when the list
   ended (`ListedAll`).  `Tidy` then removes only what `RemovedAreGone` allows.  That
   the device does not change meanwhile is `TransferStep`: a retrieve writes nothing.
2. `TypeInv`, the types of the records in play and which fields `task` has at which
   step.
3. `InstallInv` and its counterpart for merges: what the device holds *during* an install or a merge,
   as a function of the step and of `j`, while the connection stands and at
   most one call has failed (`Progress`): before, the old database or none; in between,
   the first `j - 1` records of the file; at a failure, whatever the cleanup will
   delete.  A merge has added to what was there (`Grown`).
4. `TimeInv`, for the times.  A database changes only at a new `clock` (`Times`,
   `BeforeWriting`, `JustCreated`), a retrieve has read a beginning of what is on the
   device (`StillThere`, `ReadSoFar`), and what is about to be touched holds all or is
   `spoiled` (`ToBeTouched`); hence equal times mean equal contents.
5. `HandleInv`, for the rest of `TypeOK`: the bounds, and the handle that a function has
   exactly while it has to close one (`Handle`).
6. For `Complete`, what holds as long as no call has failed: the connection stands
   (`Unbroken`); what a backup has listed is stored, left out or `spoiled`, but for the
   database at hand, and for a sync what is no longer in `orig` is on the device
   (`BackSoFar`); a restore has put on the device what is not in `todo`, and the
   install at hand is at what it has to do next, with nothing of it wrong so far
   (`RestoredSoFar`, `Flawless`).  A retrieve of a database that is there then only
   goes on (`RetrieveGoesOn`), and an install only forward (`FlawlessStep`).

### USB

`UsbProofs` proves, for any number of connections, data and operations
(`UsbAssumption`), if `LoudConns <= 1`, which is needed:

| theorem | states |
|---|---|
| `TypeCorrect` | `Spec => []TypeOK` |
| `NoLostWakeupCorrect` | `Spec => []NoLostWakeup` |
| `InOrderCorrect` | `Spec => []InOrder` |

*The argument.*  `IInv` says who can be where: only the reader of the current
connection runs, and it holds data only between its read and its append
(`Quiet`); a closed socket that is not stained has left neither data nor a reader that
holds some, and a stained one is not followed by another (`Down`); the reader appends under the
mutex, and when it empties the buffer, which it does without the mutex, the buffer is empty
(`Exclusive`); hence what `u_read_i` has measured is still there when it takes it
(`Measured`).  `Ordered` then follows the stream: every action moves data from one of its
four parts to the next (`Resplit`, `AppendAfter`), or cuts off its end (`Prefix`).

### Sockets

`SocketsProofs` proves, for all sets of threads and sockets, all intervals, and
signals that arrive anywhere, also within a lock (`SocketsAssumption`), if
`MaxWatch <= 1`: `pi_watchdog` is not called for a socket that `watch_list` holds.
With 2 `NoUseAfterFree` is false (see below).

| theorem | states |
|---|---|
| `TypeCorrect` | `Spec => []TypeOK` |
| `NoUseAfterFreeCorrect` | `Spec => []NoUseAfterFree` |
| `KeptAliveCorrect` | `Spec => []KeptAlive` |

*The argument.*  `AllInv` is inductive.  A handler that walks holds the mutex of
`watch_list`, and has nothing before it otherwise (`Holding`); threads that call
have different sockets (`Calling`, `Alone`); a socket is on `watch_list` once
(`OnceWatched`), so that the one removal of `pi_close` removes it
(`RemoveFirstOnce`).  Hence when `pi_close` comes to the `free`, no list and no handler
has the socket (`Removed`), and what gets on a list is not freed (`Registered`).  For the
alarm: a watched socket was connected and is never connected again (`ConnectedOnce`),
so it does not become connected while no alarm is set; while a socket is watched
the interval is set, or `pi_watchdog` is about to set it (`Armed`), so a tickle leaves a
timer that runs; and a socket the handler passes over is not connected
(`ArmingStep`).

### Record synchronization

`SyncProofs` proves, for any number of records known to both sides, any operations, any
number of failing calls and whatever `store_record_on_pilot` finds in an id it never set
(`SyncAssumption`):

| theorem | states |
|---|---|
| `TypeCorrect` | `Spec => []TypeOK` |
| `NoTwinsCorrect` | `Spec => []NoTwins` |
| `OneWayCorrect` | `Spec => OneWay` |
| `EditsSurviveCorrect` | `Spec => []EditsSurvive` |

*The argument.*  What remains of a decision of `sync_record` is the end of one of its
rows (`Plans`, `Turn`), for records that satisfy the condition of that row
(`DecisionRule`, `Rule`).

1. `Inv`, for the types.  Ids on the desktop are below `fresh`, those on the device
   as well and distinct (`Ids`).  A desktop record is queued at most once although
   two loops and four rows queue records (`Queueing`): the first loop queues what has the
   id of the device record it has just taken from `Remaining`, so that the queue
   holds records with ids already passed (`Past`); the second queues in the order of
   its index, all others are at or before `pos`.
2. `TwinInv`, for the ids.  No two records have the same id (`Different`), except between
   the `add` and the `forget` of a conflict.  A record is added only if none has its id
   (`AddsOwn`), or if the one in conflict is the only one that does (`AddsBeside`),
   which then loses it; what is archived or taken back from the archive has not been
   removed in between (`Places`), so no id comes back; and storing a queued record
   gives it the id it has or a fresh one.
3. `OneWay`, from the types.  A merge from the device takes no decision that
   changes the device (`DecisionRule`), stores no queued record and closes it as it was
   opened; a purge (`Cleaned`, `Reset`) removes nothing that is live (`DeviceStays`).
   A merge to the device takes no decision that changes the contents of the desktop: it
   may remove the record it adds, queue what it has and move flags
   (`DesktopStays`).
4. `MergeInv`, for the edits, of operations that merge records none of which is
   archived (`Plain`).  Every edit is on the device in a record still flagged, or on the
   desktop in a record that no decision is about to overwrite or delete (`Safe`); a desktop
   record the pull may still come across is safe only while it is flagged, since only
   then does `sync_record` find a conflict (`Early`).  A device record that a decision
   deletes was not edited, or the desktop has the same contents (`Deletes`); what is
   written to the device for a queued record replaces none that was edited
   (`Overwrites`), as a record that lost its id in a conflict gets a fresh one.  `Survives`
   says what a step must do to keep this, and there is a lemma for each action.  After
   `close_db` the flags are gone, but nothing is written any more (`CloseKeeps`).

### Only model-checked

`TicklesHarmless` where the tickles come from the signal
handler, which is violated (finding 7); `CallsSucceed` of `Net` for an application that goes
on after a failure; liveness, which is out of the
prover's reach as is ENABLED; `LossBounded` of `Serial`, which counts packets over
whole behaviours; of `Sync`, `Delivered` and `Returns`.

## What was found

The first four each have a run that finds it.

1. **The watchdog may wait for the thread it suspended** (`sockets_alarm`,
   `socket.c:822`).  `onalarm` locks the mutexes the interrupted function may hold.
2. **A slow synchronization misses records** (`sync_slow`, `sync.c:772`).  The
   loop goes on to the next index after `sync_record` deleted a record, although
   the others have moved.  A new record on the device is then not copied, and its
   dirty flag is reset.
3. **A cancelled reader leaves its mutex locked** (`usb_reopen`, `libusb.c:355`).
   When the reader is cancelled between lock and unlock, the next connection's
   reader and `u_read_i` wait for it for ever, timeout or not.
4. **A failed listing counts as a complete one** (`xfer_sync`,
   `pilot-xfer.c:413`).  `palm_backup` leaves its loop on any error of
   `dlp_ReadDBList`; a sync then removes the backups of all databases that it
   has not met.

The next five are found by changing an instance as said.

5. **A duplicate ack stands for another fragment's** (`padp.c:312`).  `padp_tx`
   compares the id, not the offset of an ack.  When the first of two fragments is
   sent twice, the second ack is taken for that of the second fragment; if that one
   was lost, `padp_tx` reports success for a request the device does not have.
   (`padp_recovers` with `ReqFrags = {2}` and the invariant
   `Receiving /\ toDev = <<>> => execs[call] >= 1`.)
6. **A tickle hides what follows it** (`padp.c:311`).  `keepwaiting` reads behind
   the tickle in `padp_buf` and looks at the front.  The ack behind it is
   swallowed, and the fragment sent again after a timeout.  (`NoNeedlessRetry` with
   `MaxTickles = 1`.)
7. **The watchdog spoils the call it interrupts** (`socket.c:818`).  `onalarm`
   sends a tickle through `padp_tx`, which advances the id the interrupted call
   waits for.  (`TicklesHarmless` with `InHandler = TRUE`.)
8. **`sync_MergeToPilot` returns 0 after a failure** (`sync.c:982`).  The results of
   the loops it compares are never assigned.  (`Delivered` without `slow \/`, in a slow merge.)
9. **After a tickle `pi_close` fails over NET** (`socket.c:1401`).  `pi_tickle` never
   sets the type of its instance back, so that `EndOfSync` goes out as a tickle and
   is not answered.  (`CallsSucceed` without the exception of `CloseFailed`.)  With one more
   tickle it fails a call as well (`net.c:489`): a tickle of the host while that `pi_close`
   reads makes `net_rx` work with the instance of the calls, and a tickle of the device leaves its type
   there, so that the next call goes out as a tickle.  (`net_calls` with `MaxAlarms = 2`
   and the invariant `Undisturbed => outcome # "error"`.)

Seen while modelling, without a run of their own:

- PADP: silence fails a call with `PI_ERR_SOCK_TIMEOUT` without `CONN_BREAK`, in
  contrast to a timeout noticed after a packet (`padp.c:477`); an out-of-order fragment
  is acknowledged though it is discarded (`padp.c:549`); a late duplicate ack
  fails the next call (`padp.c:343`).
- NET: ids are not compared; at the end of the connection within a payload
  `net_rx` reads 0 bytes without end (`net.c:535`); with split writes a handler may
  put its tickle between the header and the payload of a request; the flush before a
  request may cut a packet that is still arriving.
- Serial: `s_write` sends the whole buffer again after a short write
  (`unixserial.c:349`); a signal in `select` makes the read block without a timeout
  (`unixserial.c:449`); after a hangup `slp_rx` reads 0 bytes without end (`slp.c:415`);
  `s_flush` calls `recv` on a tty, which fails, so what the kernel holds is never flushed
  (`unixserial.c:507`).  The factor 2 of `LossBounded` is needed.
- USB: data that a reader appends after a close, and a buffer that the next reader
  empties without the mutex, are why `usb_read` lets the second connection begin only when
  the first is quiet.
- `libpisync`: `close_db` removes deleted and archived records and resets dirty
  flags also after an error (`sync.c:352`); the result of
  `store_record_on_pilot` is ignored in the queue (`sync.c:647`); an error while
  reading ends a loop like the end of the records (`sync.c:685`, `732`); a merge
  from the device passes an id that was never set to `SetPilotID` (`sync.c:313`);
  a merge to the device does not carry over deletions (`sync.c:510`); an
  archived record edited on the device is archived with its old contents
  (`sync.c:414`), and of two edits of a record archived on one side one is given up
  (`sync.c:451`, `465`); hence `NoneArchived` in the properties.  A slow merge to
  the device fails for good when the device has purged a record.
- Sockets: `pi_watchdog` called twice for a socket puts it on `watch_list` twice and
  `pi_close` removes one (`socket.c:1602`, `1437`); with `MaxWatch = 2` TLC finds
  `NoUseAfterFree` violated.  `pi_send` on any socket starts the one alarm anew
  (`socket.c:1271`), so a busy socket keeps an idle one from being tickled.  In a build without pthreads `ps_list_remove` frees a node
  before `watch_list` is assigned (`socket.c:1444`).
- Files: when the check before an install fails, the database on the device is deleted,
  although `pi-file.c:882` says it is there "to avoid messing the device up if we have to
  fail"; a merge that cannot open the database installs over it (`pi-file.c:1131`); an
  application block that cannot be read is left out without an error; sort blocks are
  never retrieved; `pi_file_close` overwrites `pf->err` and unlinks the old file before it
  writes the new one.
- pilot-xfer: a full disk leaves a truncated file with the time of its database, so that
  an update takes it for complete (`spoiled`); a retrieve that fails removes the
  backup there was; a restore installs only the files before the first that cannot be
  opened (`pilot-xfer.c:1022`); a sync removes the backups of databases it leaves out.

## What is not modelled

| part | why |
|---|---|
| CMP, the connecting end of PADP and NET (`net_tx_handshake`), building and destroying protocol queues without detection, `inet.c` | planned, see below |
| `dlp_exec` beyond a request and its response; marshalling of the single DLP calls | the former planned; the latter data only, a few lines each for some 100 calls (`dlp.c`) |
| of `slp.c` and `unixserial.c`: loopback packets, speed changes, `s_poll`, opening a tty | configuration of the kernel's tty |
| of `libusb.c`: finding and configuring a device, writing | requests to an external library, in sequence |
| of `pi-file.c`: the layout of a file, sort blocks, progress functions, the retry for Graffiti shortcuts, the reset after an install, devices before OS 3 | data, or decided by its user |
| of `pilot-xfer`: `archive_dir`, the check for space, fetch, delete, purge, list, everything on VFS cards | loops over library calls like those that are modelled |
| record codecs; buffers, headers, character sets, MD5 | data only, no state between calls |
| `darwinusb.c`, `bluetooth.c`, ioctls of `linuxusb.c` and `freebsdusb.c` | decided by other systems' libraries |
| `libpisync/util.c` | memory management |
| conduits and small tools | a loop over library calls each |
| `pilot-debug`, system packets | driven by a person, no state between commands |
| bindings, popt, date parser | generated or third-party |

By lines most of the repository is of these kinds: generated bindings, record codecs,
marshalling, the date parser, the other systems' USB code and the tools.  The modules
cover the code that has state, concurrency or failures to deal with, which is
a small part by lines.

## Plan

In this order; the modules named are to be written.

1. Theorems: `Net`, `CallsSucceed` with `goesOn`.
2. `Connect` (`cmp.c`, `socket.c`, `net_tx_handshake`, `inet.c`): both ends of a
   handshake, repeated wakeups, the choice of layers; both ends agree.
3. `DlpExec` (`dlp.c`): argument lists, the commands that accept another's response,
   `dlp_VFSFileRead` under a frozen id (extends `Padp` by freeze and unfreeze).
4. `Serial` shown to implement the line of `Padp` by a refinement mapping, instead of by
   its two properties.
5. `Xfer` extended by VFS cards and by fetch, delete and purge.

Runs: one safety and, where something must happen, one liveness property each, of two
or three packets, records or files, one or two losses or failures.
