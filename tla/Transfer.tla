------------------------------- MODULE Transfer -------------------------------
(***************************************************************************)
(* pi_file_retrieve, pi_file_install and pi_file_merge (pi-file.c): a      *)
(* database goes from the device or to it, one DLP call per step.  Any     *)
(* call may be refused, and with any call the connection may be lost,      *)
(* before or after the device has carried it out.                          *)
(*                                                                         *)
(* A record or resource is <<version, index>>; the application block is    *)
(* the version it belongs to, 0 if there is none.                          *)
(***************************************************************************)
EXTENDS Naturals, Sequences, Functions

CONSTANTS
  DBs,         \* databases, by name
  OldDevice,   \* has the device DLP before 1.4, and no records of more than 64K?
  MaxFailures  \* bound: calls of an operation that fail although they could succeed

ASSUME TransferAssumption == OldDevice \in BOOLEAN /\ MaxFailures \in Nat

VARIABLES
  device,     \* device[d]: the database, or None
  clock,      \* when the user or an operation last began to change something
  connected,  \* pi_socket_connected
  failed,     \* calls of the operation that failed so
  task        \* the function under way: its arguments, locals and step

dlp       == <<device, connected, failed>>
transfers == <<device, clock, connected, failed, task>>

None == [there |-> FALSE]
Database(recs, app, when) ==
  [there |-> TRUE, recs |-> recs, app |-> app, modified |-> when]
Content(x) == [recs |-> x.recs, app |-> x.app]

NoTask == [step |-> "none"]
Task(what, d, first, content) ==
  [what |-> what, db |-> d, step |-> first, pf |-> content, j |-> 1,
   open |-> FALSE, result |-> "none"]

-----------------------------------------------------------------------------
(* A call that makes the device dev.                                       *)

Called(dev, ok) == connected /\ device' = dev /\ ok /\ UNCHANGED <<connected, failed>>
Refused(fail)   == fail /\ UNCHANGED dlp
Breaks(dev, fail) ==
  /\ connected /\ failed < MaxFailures /\ failed' = failed + 1 /\ fail
  /\ \/ UNCHANGED <<device, connected>>
     \/ connected' = FALSE /\ device' \in {device, dev}

Call(dev, ok, fail) ==
  Called(dev, ok) \/ (~connected /\ Refused(fail)) \/ Breaks(dev, fail)

(* One that the device can carry out only if possible.                     *)
CallIf(possible, dev, ok, fail) ==
  IF possible THEN Call(dev, ok, fail) ELSE Refused(fail)

At(what, step) == task.step = step /\ task.what = what
Db             == device[task.db]
With(db)       == [device EXCEPT ![task.db] = db]
Go(step)       == task' = [task EXCEPT !.step = step]
OpenForgotten(step) == task' = [task EXCEPT !.step = step]
Opened(step)   == task' = [task EXCEPT !.step = step, !.open = TRUE]
Finish(result) == task' = [task EXCEPT !.step = "done", !.result = result]
Fail           == task' = [task EXCEPT !.step = "fail"]

-----------------------------------------------------------------------------
(* pi_file_retrieve.                                                       *)

FindDB ==
  /\ At("retrieve", "find")
  /\ CallIf(Db.there, device, Go("open"), Fail)

OpenToRead ==
  /\ At("retrieve", "open")
  /\ CallIf(Db.there, device, Opened("app"), Fail)

(* That there is no block, and that it cannot be read, are the same to it. *)
ReadAppBlock ==
  /\ At("retrieve", "app")
  /\ CallIf(Db.app # 0, device,
            task' = [task EXCEPT !.step = "recs", !.pf.app = Db.app], Go("recs"))

ReadRecord ==
  /\ At("retrieve", "recs") /\ task.j <= Len(Db.recs)
  /\ Call(device, task' = [task EXCEPT !.j = @ + 1, !.pf.recs = Append(@, Db.recs[task.j])],
          Fail)

CloseRead ==
  /\ At("retrieve", "recs") /\ task.j > Len(Db.recs)
  /\ Call(device, Finish("ok"), Finish("failed"))

-----------------------------------------------------------------------------
(* pi_file_install.                                                        *)

TooLarge == OldDevice /\ task.pf.large

Precheck ==
  /\ At("install", "check")
  /\ IF TooLarge THEN Fail ELSE Go("delete")
  /\ UNCHANGED dlp

DeleteOld ==
  /\ At("install", "delete")
  /\ CallIf(Db.there, With(None), Go("create"), Go("create"))

CreateDB ==
  /\ At("install", "create")
  /\ CallIf(~Db.there, With(Database(<<>>, 0, clock)), Opened("app"), Finish("failed"))

WriteAppBlock ==
  /\ At("install", "app")
  /\ IF task.pf.app = 0 THEN Go("recs") /\ UNCHANGED dlp
     ELSE Call(With([Db EXCEPT !.app = task.pf.app]), Go("recs"), Fail)

(* pi_file_merge, whose first step decides whether it merges at all.       *)
MergeOpen ==
  /\ At("merge", "open")
  /\ CallIf(Db.there, device,
            task' = [task EXCEPT !.step = IF TooLarge THEN "fail" ELSE "recs",
                                 !.open = TRUE],
            task' = Task("install", task.db, "check", task.pf))

WriteRecord ==
  /\ task.step = "recs" /\ task.what \in {"install", "merge"}
  /\ task.j <= Len(task.pf.recs)
  /\ Call(With([Db EXCEPT !.recs = Append(@, task.pf.recs[task.j]), !.modified = clock]),
          task' = [task EXCEPT !.j = @ + 1], Fail)

CloseWritten ==
  /\ task.step = "recs" /\ task.what \in {"install", "merge"}
  /\ task.j > Len(task.pf.recs)
  /\ Call(device, Finish("ok"), Finish("failed"))

-----------------------------------------------------------------------------
(* Where they fail: the database is closed; install deletes it, too.       *)
FailClose ==
  /\ task.step = "fail" /\ task.open
  /\ LET closed == task' = [task EXCEPT !.open = FALSE] IN Call(device, closed, closed)

MergeDeletes == task.what # "retrieve"
NeverDeletes == FALSE
Deletes      == task.what = "install"

FailDelete ==
  /\ task.step = "fail" /\ ~task.open
  /\ IF Deletes
     THEN CallIf(Db.there, With(None), Finish("failed"), Finish("failed"))
     ELSE Finish("failed") /\ UNCHANGED dlp

Transferring ==
  /\ \/ FindDB \/ OpenToRead \/ ReadAppBlock \/ ReadRecord \/ CloseRead
     \/ Precheck \/ DeleteOld \/ CreateDB \/ WriteAppBlock
     \/ MergeOpen \/ WriteRecord \/ CloseWritten
     \/ FailClose \/ FailDelete
  /\ UNCHANGED clock
=============================================================================
