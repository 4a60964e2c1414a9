--------------------------------- MODULE Xfer ---------------------------------
(***************************************************************************)
(* pilot-xfer (pilot-xfer.c): backup, update and sync of a directory with  *)
(* the device, restore, install and merge, one command after another on a  *)
(* device that its user changes in between.  Calls fail as in Transfer,    *)
(* the disk may be full, and the program may be killed.                    *)
(***************************************************************************)
EXTENDS Transfer

CONSTANTS
  Unsaved,   \* databases a backup leaves out unless told otherwise
  Excluded,  \* databases that -e names when it is given
  NRecs,     \* records of a database
  MaxClock,  \* bound: changes by the user and commands that write to the device
  MaxOps     \* bound: commands

ASSUME XferAssumption ==
  /\ Unsaved \subseteq DBs /\ Excluded \subseteq DBs
  /\ NRecs \in Nat /\ MaxClock \in Nat /\ MaxOps \in Nat

VARIABLES
  files,    \* the directory: files[d], or None
  spoiled,  \* databases whose file was last written without all it should hold
  pc,       \* "menu", or where the command is
  op,       \* the command, and what its properties refer to
  current,  \* info: the database palm_backup is at
  todo,     \* databases not yet listed, or files not yet restored
  orig,     \* orig_files, without those that list_remove took out
  ops       \* commands so far

command == <<pc, op, current, todo, orig, ops>>
dir     == <<files, spoiled>>
vars    == <<transfers, command, dir>>

File(content, readable) ==
  [there |-> TRUE, recs |-> content.recs, app |-> content.app,
   large |-> content.large, mtime |-> 0, readable |-> readable]
Stored   == {d \in DBs : files[d].there}
OnDevice == {d \in DBs : device[d].there}
Readable(d) == files[d].there /\ files[d].readable

Version(v) == [i \in 1..NRecs |-> <<v, i>>]
Nothing    == [recs |-> <<>>, app |-> 0, large |-> FALSE]
NoOp       == [kind |-> "none"]
AnyDb      == CHOOSE d \in DBs : TRUE

Op(kind, unsaved, exclude) ==
  [kind |-> kind, unsaved |-> unsaved, exclude |-> exclude, before |-> device,
   listing |-> "on", exit |-> "none", removed |-> {}]

Init ==
  /\ device = [d \in DBs |-> None] /\ files = [d \in DBs |-> None]
  /\ clock = 0 /\ connected = TRUE /\ failed = 0 /\ task = NoTask
  /\ spoiled = {} /\ pc = "menu" /\ op = NoOp
  /\ current = AnyDb /\ todo = {} /\ orig = {} /\ ops = 0

-----------------------------------------------------------------------------
(* The user.                                                               *)

FileOf(d, f) == files' = [files EXCEPT ![d] = f]

Ticks == pc = "menu" /\ clock < MaxClock /\ clock' = clock + 1

Edit(d) ==
  /\ Ticks
  /\ \E app \in {0, clock'} :
       device' = [device EXCEPT ![d] = Database(Version(clock'), app, clock')]
  /\ UNCHANGED <<connected, failed, task, command, dir>>

Loses(some) ==
  /\ Ticks /\ device' = [d \in DBs |-> IF d \in some THEN None ELSE device[d]]
  /\ UNCHANGED <<connected, failed, task, command, dir>>

Download(d) ==
  /\ Ticks
  /\ \E large \in BOOLEAN :
       FileOf(d, File([recs |-> Version(clock'), app |-> clock', large |-> large], TRUE))
  /\ spoiled' = spoiled \ {d}
  /\ UNCHANGED <<dlp, task, command>>

-----------------------------------------------------------------------------
Starts(kind, unsaved, exclude) ==
  /\ pc = "menu" /\ ops < MaxOps /\ ops' = ops + 1
  /\ op' = Op(kind, unsaved, exclude)
  /\ UNCHANGED <<device, connected, failed, current, dir>>

Exits(how) == pc' = "ended" /\ op' = [op EXCEPT !.exit = how]
Ends == Exits("normal")

(* palm_backup.  An update, and a sync, reads the directory first.         *)
StartBackup(kind, unsaved, exclude) ==
  /\ Starts(kind, unsaved, exclude) /\ pc' = "list"
  /\ todo' = OnDevice /\ orig' = (IF kind = "backup" THEN {} ELSE Stored)
  /\ UNCHANGED <<clock, task>>

ListNext ==
  /\ pc = "list" /\ connected
  /\ \E d \in todo :
       Call(device,
            pc' = "conduit" /\ current' = d /\ todo' = todo \ {d} /\ UNCHANGED op,
            pc' = "tidy" /\ op' = [op EXCEPT !.listing = "broken"]
              /\ UNCHANGED <<current, todo>>)
  /\ UNCHANGED <<clock, task, orig, ops, dir>>

ListEnd ==
  /\ pc = "list" /\ connected /\ todo = {}
  /\ pc' = "tidy" /\ op' = [op EXCEPT !.listing = "end"]
  /\ UNCHANGED <<transfers, current, todo, orig, ops, dir>>

ListUnconnected ==
  /\ pc = "list" /\ ~connected /\ Exits("failure")
  /\ UNCHANGED <<transfers, current, todo, orig, ops, dir>>

OpenConduit ==
  /\ pc = "conduit"
  /\ Call(device, pc' = (IF op.kind = "install" THEN "transfer" ELSE "examine") /\ UNCHANGED op,
          Exits("failure"))
  /\ UNCHANGED <<clock, task, current, todo, orig, ops, dir>>

LeftOut(d) == d \in Unsaved /\ ~op.unsaved
SameTime(d) == files[d].there /\ files[d].mtime = device[d].modified
ExistsAlready(d) == op.kind # "backup" /\ files[d].there
Unchanged(d) == op.kind # "backup" /\ SameTime(d)

(* list_remove, when it is reached.                                        *)
NotRemoved(d) == orig
Kept(d) == orig \ {d}

Skip ==
  /\ pc = "examine" /\ pc' = "list"
  /\ \/ current \in op.exclude /\ orig' = Kept(current)
     \/ current \notin op.exclude /\ LeftOut(current) /\ UNCHANGED orig
     \/ /\ current \notin op.exclude /\ ~LeftOut(current) /\ Unchanged(current)
        /\ orig' = Kept(current)
  /\ UNCHANGED <<transfers, op, current, todo, ops, dir>>

Retrieve ==
  /\ pc = "examine" /\ current \notin op.exclude
  /\ ~LeftOut(current) /\ ~Unchanged(current)
  /\ pc' = "transfer" /\ orig' = Kept(current)
  /\ task' = Task("retrieve", current, "find", Nothing)
  /\ UNCHANGED <<device, clock, connected, failed, op, current, todo, ops, dir>>

-----------------------------------------------------------------------------
Transfers ==
  /\ pc = "transfer" /\ Transferring
  /\ UNCHANGED <<command, dir>>

Done(what, result) ==
  pc = "transfer" /\ task.step = "done" /\ task.what = what /\ task.result = result

FileIs(f) == FileOf(current, f)

(* pi_file_close writes what was retrieved in place of the old file.       *)
CloseFile ==
  /\ Done("retrieve", "ok") /\ pc' = "touch"
  /\ \/ /\ FileIs(File(task.pf, TRUE)) /\ UNCHANGED failed
        /\ spoiled' = (IF task.pf.app = device[current].app THEN spoiled \ {current}
                       ELSE spoiled \cup {current})
     \/ /\ failed < MaxFailures /\ failed' = failed + 1
        /\ FileIs(File(task.pf, FALSE)) \/ FileIs(None)
        /\ spoiled' = spoiled \cup {current}
  /\ task' = NoTask
  /\ UNCHANGED <<device, clock, connected, op, current, todo, orig, ops>>

(* It writes what there is, which is then removed.                         *)
Truncated == File(task.pf, TRUE)
Unlinked  == None

UnlinkFailed ==
  /\ Done("retrieve", "failed") /\ pc' = "touch"
  /\ FileIs(Unlinked) /\ task' = NoTask
  /\ UNCHANGED <<device, clock, connected, failed, spoiled, op, current, todo, orig, ops>>

(* utime.                                                                  *)
Touch ==
  /\ pc = "touch" /\ pc' = "list"
  /\ IF files[current].there
     THEN FileIs([files[current] EXCEPT !.mtime = device[current].modified])
     ELSE UNCHANGED files
  /\ UNCHANGED <<transfers, spoiled, op, current, todo, orig, ops>>

(* What was not listed any more is taken for deleted.                      *)
Tidy ==
  /\ pc = "tidy" /\ pc' = "ended"
  /\ LET gone == IF op.kind = "sync" THEN orig ELSE {} IN
       /\ files' = [d \in DBs |-> IF d \in gone THEN None ELSE files[d]]
       /\ op' = [op EXCEPT !.removed = gone, !.exit = "normal"]
       /\ spoiled' = spoiled \ gone
  /\ UNCHANGED <<transfers, current, todo, orig, ops>>

-----------------------------------------------------------------------------
(* palm_restore opens the files in the order of the directory, up to one   *)
(* that it cannot open; then it installs those.                            *)
StartRestore ==
  /\ Starts("restore", FALSE, {}) /\ clock < MaxClock /\ clock' = clock + 1
  /\ pc' = "restore"
  /\ IF \A d \in Stored : Readable(d) THEN todo' = Stored
     ELSE todo' \in SUBSET {d \in Stored : Readable(d)}
  /\ UNCHANGED <<task, orig>>

Loaded(d) == [recs |-> files[d].recs, app |-> files[d].app, large |-> files[d].large]

RestoreNext ==
  /\ pc = "restore"
  /\ \E d \in todo :
       /\ pc' = "transfer" /\ todo' = todo \ {d}
       /\ task' = Task("install", d, "check", Loaded(d))
  /\ UNCHANGED <<device, clock, connected, failed, op, current, orig, ops, dir>>

RestoreEnd ==
  /\ pc = "restore" /\ todo = {} /\ Ends
  /\ UNCHANGED <<transfers, current, todo, orig, ops, dir>>

(* palm_install_internal, which asks the device first, and palm_merge.     *)
StartInstall(d) ==
  /\ Readable(d) /\ Starts("install", FALSE, {}) /\ clock < MaxClock /\ clock' = clock + 1
  /\ pc' = "conduit" /\ task' = Task("install", d, "check", Loaded(d))
  /\ UNCHANGED <<todo, orig>>

StartMerge(d) ==
  /\ Readable(d) /\ Starts("merge", FALSE, {}) /\ clock < MaxClock /\ clock' = clock + 1
  /\ pc' = "transfer" /\ task' = Task("merge", d, "open", Loaded(d))
  /\ UNCHANGED <<todo, orig>>

Installed ==
  /\ pc = "transfer" /\ task.step = "done" /\ task.what \in {"install", "merge"}
  /\ IF op.kind = "restore" THEN pc' = "restore" /\ UNCHANGED op ELSE Ends
  /\ UNCHANGED <<transfers, current, todo, orig, ops, dir>>

-----------------------------------------------------------------------------
(* The program is killed, perhaps while it writes a file.                  *)
Killed ==
  /\ pc \notin {"menu", "ended"} /\ failed < MaxFailures /\ failed' = failed + 1
  /\ IF Done("retrieve", "ok")
     THEN /\ FileIs(File(task.pf, FALSE)) \/ FileIs(None)
          /\ spoiled' = spoiled \cup {current}
     ELSE UNCHANGED dir
  /\ Exits("killed")
  /\ UNCHANGED <<device, clock, connected, task, current, todo, orig, ops>>

Menu ==
  /\ pc = "ended" /\ pc' = "menu" /\ task' = NoTask /\ op' = NoOp
  /\ todo' = {} /\ orig' = {} /\ current' = AnyDb /\ connected' = TRUE /\ failed' = 0
  /\ UNCHANGED <<device, clock, ops, dir>>

Idle == pc = "menu" /\ UNCHANGED vars

Steps ==
  \/ ListNext \/ ListEnd \/ ListUnconnected \/ OpenConduit \/ Skip \/ Retrieve
  \/ Transfers \/ CloseFile \/ UnlinkFailed \/ Touch \/ Tidy
  \/ RestoreNext \/ RestoreEnd \/ Installed \/ Menu

Commands ==
  \/ \E kind \in {"backup", "update", "sync"}, unsaved \in BOOLEAN,
        exclude \in {{}, Excluded} : StartBackup(kind, unsaved, exclude)
  \/ StartRestore
  \/ \E d \in DBs : StartInstall(d) \/ StartMerge(d)

User ==
  \/ \E d \in DBs : Edit(d) \/ Loses({d}) \/ Download(d)
  \/ Loses(DBs)

Next == Steps \/ Commands \/ User \/ Killed \/ Idle

Spec == Init /\ [][Next]_vars

-----------------------------------------------------------------------------
Kinds == {"backup", "update", "sync", "restore", "install", "merge"}

(* The state has its types; a task is under way when a command needs it,   *)
(* it is for the database the command is at, and it knows of the handle    *)
(* that it has to close.                                                   *)
TypeOK ==
  /\ \A d \in DBs : device[d].there => device[d].modified \in 1..clock
  /\ clock \in 0..MaxClock /\ failed \in 0..MaxFailures /\ connected \in BOOLEAN
  /\ spoiled \subseteq DBs /\ todo \subseteq DBs /\ orig \subseteq DBs
  /\ pc \in {"menu", "list", "conduit", "examine", "transfer", "touch", "tidy",
             "restore", "ended"}
  /\ pc # "menu" => op.kind \in Kinds
  /\ pc = "transfer" => /\ task.what \in {"retrieve", "install", "merge"}
                        /\ task.what = "retrieve" => task.db = current
                        /\ task.step \in {"app", "recs"} => task.open
                        /\ task.open => task.step \in {"app", "recs", "fail", "done"}

AtEnd == pc = "ended"
Clean == op.exit = "normal" /\ failed = 0
Same(d) == Readable(d) /\ device[d].there /\ Content(files[d]) = Content(device[d])

(* A file with the time of its database holds all of it, unless it was     *)
(* written without: then the next update will not make up for it.          *)
UnchangedIsStored ==
  \A d \in DBs \ spoiled : device[d].there /\ SameTime(d) => Same(d)

(* After a backup in which nothing failed, everything is there that should *)
(* be, and after a sync nothing else; after such a restore, what is in the *)
(* directory is on the device.                                             *)
BackedUp ==
  op.kind \in {"backup", "update", "sync"} =>
    /\ \A d \in OnDevice \ (op.exclude \cup spoiled) : ~LeftOut(d) => Same(d)
    /\ op.kind = "sync" => Stored \subseteq OnDevice

Restored ==
  op.kind = "restore" /\ (\A d \in Stored : Readable(d)) =>
    \A d \in Stored : ~(OldDevice /\ files[d].large) => Same(d)

Complete == AtEnd /\ Clean => BackedUp /\ Restored

(* A sync removes the files of databases that are gone, and of those it    *)
(* leaves out, provided that it saw the list of databases to its end.      *)
RemovedAreGone ==
  AtEnd /\ op.listing # "broken" =>
    \A d \in op.removed : device[d].there => LeftOut(d)

(* A sync removes nothing else than the files of databases that are gone.  *)
SyncRemovesDeleted == AtEnd => \A d \in op.removed : ~device[d].there

(* After an install in which one call failed, the database is as in the    *)
(* file, as it was, or not there, unless the connection broke.             *)
InstallAllOrNothing ==
  AtEnd /\ op.exit = "normal" /\ op.kind = "install" /\ connected /\ failed <= 1 =>
    \/ ~device[task.db].there
    \/ device[task.db] = op.before[task.db]
    \/ Content(device[task.db]) = Content(task.pf)

(* A merge only adds, whatever fails; one that cannot open the database,   *)
(* and then installs it in its place, is another matter.                   *)
MergeAdds ==
  AtEnd /\ op.kind = "merge" /\ task.what = "merge" /\ op.before[task.db].there =>
    /\ device[task.db].there
    /\ Range(op.before[task.db].recs) \subseteq Range(device[task.db].recs)
=============================================================================
