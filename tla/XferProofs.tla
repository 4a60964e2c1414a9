------------------------------ MODULE XferProofs ------------------------------
(***************************************************************************)
(* Theorems about Xfer, for all sets of databases and all bounds.          *)
(***************************************************************************)
EXTENDS Xfer, TLAPS

Backups == {"backup", "update", "sync"}

(* palm_backup is under way.                                               *)
Backing ==
  /\ pc \in {"list", "conduit", "examine", "transfer", "touch", "tidy"}
  /\ op.kind \in Backups

Fields ==
  pc # "menu" =>
    DOMAIN op = {"kind", "unsaved", "exclude", "before", "listing", "exit", "removed"}

(* Where a command may be, and which function it then calls.               *)
KindInv ==
  /\ pc \in {"list", "examine", "touch", "tidy"} => op.kind \in Backups
  /\ pc = "conduit" => op.kind \in Backups \cup {"install"}
  /\ pc = "restore" => op.kind = "restore"

TaskInv ==
  pc = "transfer" \/ (pc = "conduit" /\ op.kind = "install") =>
    /\ {"what", "step"} \subseteq DOMAIN task
    /\ task.what = "retrieve" <=> op.kind \in Backups

(* A file still on the list is of a database that is gone, or not listed   *)
(* yet, or left out, or just being looked at.                              *)
Accounted ==
  Backing => \A d \in orig :
    \/ ~device[d].there
    \/ d \in todo
    \/ d = current /\ pc \in {"conduit", "examine"}
    \/ LeftOut(d)
    \/ op.listing = "broken"

ListedAll ==
  /\ pc = "tidy" /\ op.listing # "broken" => todo = {}
  /\ pc \notin {"menu", "tidy", "ended"} => op.listing # "broken"

NoneRemovedYet == pc \notin {"menu", "ended"} => op.removed = {}

IInv ==
  /\ Fields /\ KindInv /\ TaskInv /\ Accounted /\ ListedAll /\ NoneRemovedYet
  /\ RemovedAreGone

-----------------------------------------------------------------------------
(* A call of pi_file_retrieve, pi_file_install or pi_file_merge goes on in *)
(* the function it is of, and that of a retrieve changes nothing.          *)
LEMMA TransferStep ==
  ASSUME Transferring, {"what", "step"} \subseteq DOMAIN task
  PROVE  /\ {"what", "step"} \subseteq DOMAIN task'
         /\ task'.what = "retrieve" <=> task.what = "retrieve"
         /\ task.what = "retrieve" => device' = device
<1> USE DEF At, Go, Opened, Finish, Fail, Call, CallIf, Called, Refused, Breaks, dlp
<1>1. CASE FindDB        BY <1>1 DEF FindDB
<1>2. CASE OpenToRead    BY <1>2 DEF OpenToRead
<1>3. CASE ReadAppBlock  BY <1>3 DEF ReadAppBlock
<1>4. CASE ReadRecord    BY <1>4 DEF ReadRecord
<1>5. CASE CloseRead     BY <1>5 DEF CloseRead
<1>6. CASE Precheck      BY <1>6 DEF Precheck
<1>7. CASE DeleteOld     BY <1>7 DEF DeleteOld
<1>8. CASE CreateDB      BY <1>8 DEF CreateDB
<1>9. CASE WriteAppBlock BY <1>9 DEF WriteAppBlock
<1>10. CASE MergeOpen
  <2>1. /\ task.what = "merge"
        /\ \/ task' = [task EXCEPT !.step = IF TooLarge THEN "fail" ELSE "recs",
                                   !.open = TRUE]
           \/ task' = Task("install", task.db, "check", task.pf)
    BY <1>10 DEF MergeOpen
  <2>2. CASE task' = Task("install", task.db, "check", task.pf)
    BY <2>1, <2>2 DEF Task
  <2>3. ASSUME NEW s, task' = [task EXCEPT !.step = s, !.open = TRUE]
        PROVE  {"what", "step"} \subseteq DOMAIN task' /\ task'.what = task.what
    BY <2>3
  <2> QED BY <2>1, <2>2, <2>3
<1>11. CASE WriteRecord  BY <1>11 DEF WriteRecord
<1>12. CASE CloseWritten BY <1>12 DEF CloseWritten
<1>13. CASE FailClose    BY <1>13 DEF FailClose
<1>14. CASE FailDelete   BY <1>14 DEF FailDelete, Deletes
<1> QED
  BY <1>1, <1>2, <1>3, <1>4, <1>5, <1>6, <1>7, <1>8, <1>9, <1>10, <1>11, <1>12,
     <1>13, <1>14 DEF Transferring

LEMMA InitInv == ASSUME Init PROVE IInv
  BY DEF Init, IInv, Fields, KindInv, TaskInv, Backing, Accounted, ListedAll,
         NoneRemovedYet, RemovedAreGone, AtEnd

(* Nothing is claimed of the menu, where the user acts.                    *)
LEMMA MenuInv == ASSUME pc' = "menu" PROVE IInv'
  BY DEF IInv, Fields, KindInv, TaskInv, Backing, Accounted, ListedAll,
         NoneRemovedYet, RemovedAreGone, AtEnd

LEMMA StutterInv == ASSUME IInv, UNCHANGED vars PROVE IInv'
  BY DEF IInv, Fields, KindInv, TaskInv, Backing, Accounted, ListedAll,
         NoneRemovedYet, RemovedAreGone, AtEnd, LeftOut, vars, transfers, command

LEMMA CommandsInv == ASSUME IInv, Commands PROVE IInv'
<1> USE DEF IInv, Fields, KindInv, TaskInv, Backing, Backups, Accounted, ListedAll,
            NoneRemovedYet, RemovedAreGone, AtEnd, Starts, Op
<1>1. ASSUME NEW kind \in Backups, NEW unsaved \in BOOLEAN, NEW exclude \in {{}, Excluded},
             StartBackup(kind, unsaved, exclude)
      PROVE  IInv'
  BY <1>1 DEF StartBackup, OnDevice, Stored
<1>2. CASE StartRestore
  BY <1>2 DEF StartRestore
<1>3. ASSUME NEW d \in DBs, StartInstall(d) PROVE IInv'
  BY <1>3 DEF StartInstall, Task
<1>4. ASSUME NEW d \in DBs, StartMerge(d) PROVE IInv'
  BY <1>4 DEF StartMerge, Task
<1> QED BY <1>1, <1>2, <1>3, <1>4 DEF Commands

LEMMA ListInv ==
  ASSUME IInv, ListNext \/ ListEnd \/ ListUnconnected \/ OpenConduit PROVE IInv'
<1> USE DEF IInv, Fields, KindInv, TaskInv, Backing, Backups, Accounted, ListedAll,
            NoneRemovedYet, RemovedAreGone, AtEnd, LeftOut, transfers,
            Call, Called, Refused, Breaks, dlp, Exits
<1>1. CASE ListNext BY <1>1 DEF ListNext
<1>2. CASE ListEnd BY <1>2 DEF ListEnd
<1>3. CASE ListUnconnected BY <1>3 DEF ListUnconnected
<1>4. CASE OpenConduit BY <1>4 DEF OpenConduit
<1> QED BY <1>1, <1>2, <1>3, <1>4

LEMMA ExamineInv == ASSUME IInv, Skip \/ Retrieve PROVE IInv'
<1> USE DEF IInv, Fields, KindInv, TaskInv, Backing, Backups, Accounted, ListedAll,
            NoneRemovedYet, RemovedAreGone, AtEnd, LeftOut, transfers, Kept
<1>1. CASE Skip BY <1>1 DEF Skip
<1>2. CASE Retrieve BY <1>2 DEF Retrieve, Task
<1> QED BY <1>1, <1>2

LEMMA TransferInv == ASSUME IInv, Transfers PROVE IInv'
  BY TransferStep
     DEF IInv, Fields, KindInv, TaskInv, Backing, Backups, Accounted, ListedAll,
         NoneRemovedYet, RemovedAreGone, AtEnd, LeftOut, Transfers, command

LEMMA FileInv ==
  ASSUME IInv, CloseFile \/ UnlinkFailed \/ Touch \/ Tidy PROVE IInv'
<1> USE DEF IInv, Fields, KindInv, TaskInv, Backing, Backups, Accounted, ListedAll,
            NoneRemovedYet, RemovedAreGone, AtEnd, LeftOut, transfers, Done
<1>1. CASE CloseFile BY <1>1 DEF CloseFile
<1>2. CASE UnlinkFailed BY <1>2 DEF UnlinkFailed
<1>3. CASE Touch BY <1>3 DEF Touch
<1>4. CASE Tidy BY <1>4 DEF Tidy
<1> QED BY <1>1, <1>2, <1>3, <1>4

LEMMA OthersInv ==
  ASSUME IInv, RestoreNext \/ RestoreEnd \/ Installed \/ Killed PROVE IInv'
<1> USE DEF IInv, Fields, KindInv, TaskInv, Backing, Backups, Accounted, ListedAll,
            NoneRemovedYet, RemovedAreGone, AtEnd, LeftOut, transfers, Exits, Ends
<1>1. CASE RestoreNext BY <1>1 DEF RestoreNext, Task
<1>2. CASE RestoreEnd BY <1>2 DEF RestoreEnd
<1>3. CASE Installed BY <1>3 DEF Installed
<1>4. CASE Killed BY <1>4 DEF Killed
<1> QED BY <1>1, <1>2, <1>3, <1>4

LEMMA NextInv == ASSUME IInv, [Next]_vars PROVE IInv'
<1>1. CASE Steps
  BY <1>1, ListInv, ExamineInv, TransferInv, FileInv, OthersInv, MenuInv DEF Steps, Menu
<1>2. CASE Commands BY <1>2, CommandsInv
<1>3. CASE User
  <2>1. pc' = "menu"
    BY <1>3 DEF User, Edit, Loses, Download, Ticks, command
  <2> QED BY <2>1, MenuInv
<1>4. CASE Killed BY <1>4, OthersInv
<1>5. CASE Idle \/ UNCHANGED vars BY <1>5, StutterInv DEF Idle
<1> QED BY <1>1, <1>2, <1>3, <1>4, <1>5 DEF Next

(* A sync that has seen the list of databases to its end, whatever failed  *)
(* before and after, removes the backup of no database that is on the      *)
(* device and that it does not leave out (palm_backup).                    *)
THEOREM RemovedAreGoneCorrect == Spec => []RemovedAreGone
<1>1. Init => IInv BY InitInv
<1>2. IInv /\ [Next]_vars => IInv' BY NextInv
<1>3. IInv => RemovedAreGone BY DEF IInv
<1> QED BY <1>1, <1>2, <1>3, PTL DEF Spec

-----------------------------------------------------------------------------
(* What the device, the files and the function under way hold.             *)
Recs == Nat \X Nat
TaskFields == {"what", "db", "step", "pf", "j", "open", "result"}

IsCopy(x) ==
  /\ "there" \in DOMAIN x
  /\ x.there => /\ DOMAIN x = {"there", "recs", "app", "modified"}
                /\ x.recs \in Seq(Recs) /\ x.app \in Nat

DeviceType ==
  device = [d \in DBs |-> device[d]] /\ \A d \in DBs : IsCopy(device[d])

IsFile(f) ==
  f.there => /\ DOMAIN f = {"there", "recs", "app", "large", "mtime", "readable"}
             /\ f.recs \in Seq(Recs) /\ f.app \in Nat

FilesType ==
  files = [d \in DBs |-> files[d]] /\ \A d \in DBs : IsFile(files[d])

TaskType ==
  task # NoTask =>
    /\ DOMAIN task = TaskFields /\ task.step # "none" /\ task.db \in DBs
    /\ DOMAIN task.pf = {"recs", "app", "large"}
    /\ task.pf.recs \in Seq(Recs) /\ task.pf.app \in Nat
    /\ task.j \in Nat \ {0}

(* A database that is being read is there.                                 *)
ReadsThere ==
  task # NoTask /\ task.what = "retrieve" /\ task.step \in {"app", "recs"} =>
    device[task.db].there

PlaceType ==
  /\ clock \in Nat /\ failed \in Nat /\ todo \subseteq DBs
  /\ pc = "menu" => task = NoTask
  /\ Backing /\ pc \notin {"list", "tidy"} => current \in DBs
  /\ pc = "restore" \/ (pc = "transfer" /\ op.kind = "restore") =>
       \A d \in todo : files[d].there

TypeInv == DeviceType /\ FilesType /\ TaskType /\ ReadsThere /\ PlaceType

LEMMA DeviceWith ==
  ASSUME DeviceType, NEW d \in DBs, NEW x, IsCopy(x),
         device' = [device EXCEPT ![d] = x]
  PROVE  DeviceType' /\ device'[d] = x /\ \A e \in DBs \ {d} : device'[e] = device[e]
  BY DEF DeviceType

LEMMA Written ==
  ASSUME NEW x, IsCopy(x)
  PROVE  /\ \A v \in Nat : IsCopy([x EXCEPT !.app = v])
         /\ \A r \in Recs : \A t : IsCopy([x EXCEPT !.recs = Append(@, r), !.modified = t])
         /\ IsCopy(None)
         /\ \A t : IsCopy(Database(<<>>, 0, t))
<1>1. \A v \in Nat : IsCopy([x EXCEPT !.app = v]) BY DEF IsCopy
<1>2. ASSUME NEW r \in Recs, NEW t
      PROVE  IsCopy([x EXCEPT !.recs = Append(@, r), !.modified = t])
  BY DEF IsCopy
<1>3. IsCopy(None) BY DEF IsCopy, None
<1>4. ASSUME NEW t PROVE IsCopy(Database(<<>>, 0, t)) BY DEF IsCopy, Database
<1> QED BY <1>1, <1>2, <1>3, <1>4

LEMMA Active ==
  ASSUME TypeInv, Transferring PROVE task # NoTask /\ task.db \in DBs
  BY DEF TypeInv, TaskType, Transferring, FindDB, OpenToRead, ReadAppBlock, ReadRecord,
         CloseRead, Precheck, DeleteOld, CreateDB, WriteAppBlock, MergeOpen, WriteRecord,
         CloseWritten, FailClose, FailDelete, At, NoTask

LEMMA DeviceStep ==
  ASSUME TypeInv, Transferring PROVE DeviceType'
<1>1. task # NoTask /\ task.db \in DBs BY Active
<1>2. IsCopy(Db) /\ clock \in Nat
  BY <1>1 DEF TypeInv, DeviceType, PlaceType, Db
<1>3. CASE device' = device BY <1>3 DEF TypeInv, DeviceType
<1>4. ASSUME NEW x, IsCopy(x), device' = With(x) PROVE DeviceType'
  BY <1>1, <1>4, DeviceWith DEF With, TypeInv
<1>5. CASE DeleteOld \/ FailDelete
  <2>1. device' = device \/ device' = With(None)
    BY <1>5 DEF DeleteOld, FailDelete, CallIf, Call, Called, Refused, Breaks, dlp
  <2> QED BY <2>1, <1>2, <1>3, <1>4, Written
<1>6. CASE CreateDB
  <2>1. device' = device \/ device' = With(Database(<<>>, 0, clock))
    BY <1>6 DEF CreateDB, CallIf, Call, Called, Refused, Breaks, dlp
  <2> QED BY <2>1, <1>2, <1>3, <1>4, Written
<1>7. CASE WriteAppBlock
  <2>1. device' = device \/ device' = With([Db EXCEPT !.app = task.pf.app])
    BY <1>7 DEF WriteAppBlock, Call, Called, Refused, Breaks, dlp
  <2>2. task.pf.app \in Nat BY <1>1 DEF TypeInv, TaskType
  <2>3. IsCopy([Db EXCEPT !.app = task.pf.app]) BY <1>2, <2>2, Written
  <2> QED BY <2>1, <2>3, <1>3, <1>4
<1>8. CASE WriteRecord
  <2>1. device' = device \/ device' = With([Db EXCEPT !.recs = Append(@, task.pf.recs[task.j]), !.modified = clock])
    BY <1>8 DEF WriteRecord, Call, Called, Refused, Breaks, dlp
  <2>2. task.pf.recs[task.j] \in Recs BY <1>1, <1>8 DEF TypeInv, TaskType, WriteRecord
  <2>3. IsCopy([Db EXCEPT !.recs = Append(@, task.pf.recs[task.j]), !.modified = clock])
    BY <1>2, <2>2, Written
  <2> QED BY <2>1, <2>3, <1>3, <1>4
<1>9. device' = device \/ DeleteOld \/ FailDelete \/ CreateDB \/ WriteAppBlock \/ WriteRecord
  BY DEF Transferring, FindDB, OpenToRead, ReadAppBlock, ReadRecord, CloseRead, Precheck,
         MergeOpen, CloseWritten, FailClose, CallIf, Call, Called, Refused, Breaks, dlp
<1> QED BY <1>3, <1>5, <1>6, <1>7, <1>8, <1>9

LEMMA PfStep ==
  ASSUME task # NoTask, TaskType, NEW c, NEW n \in Nat \ {0}, NEW s, s # "none",
         DOMAIN c = {"recs", "app", "large"}, c.recs \in Seq(Recs), c.app \in Nat,
         task' = [task EXCEPT !.step = s, !.j = n, !.pf = c]
  PROVE  TaskType' /\ task'.db = task.db /\ task'.step = s
  BY DEF TaskType, TaskFields

LEMMA TaskStep ==
  ASSUME TypeInv, Transferring
  PROVE  TaskType' /\ ReadsThere'
<1>0. task # NoTask /\ TaskType /\ IsCopy(Db) /\ ReadsThere
  BY Active DEF TypeInv, DeviceType, Db
<1> USE <1>0 DEF TaskType, ReadsThere, TaskFields,
         At, Go, Opened, Finish, Fail, Call, CallIf, Called, Refused, Breaks, dlp,
         Db, NoTask
<1>1. CASE FindDB        BY <1>1 DEF FindDB
<1>2. CASE OpenToRead    BY <1>2 DEF OpenToRead
<1>3. CASE ReadAppBlock
  <2> DEFINE c == [task.pf EXCEPT !.app = Db.app]
  <2>1. device' = device /\ (task' = [task EXCEPT !.step = "recs", !.pf.app = Db.app]
                              \/ task' = [task EXCEPT !.step = "recs"])
        /\ task.step = "app" /\ task.what = "retrieve"
    BY <1>3 DEF ReadAppBlock
  <2>2. Db.there BY <2>1
  <2>3. DOMAIN c = {"recs", "app", "large"} /\ c.recs \in Seq(Recs) /\ c.app \in Nat
    BY <2>2 DEF IsCopy
  <2>4. CASE task' = [task EXCEPT !.step = "recs", !.pf.app = Db.app]
    <3>1. task' = [task EXCEPT !.step = "recs", !.j = task.j, !.pf = c]
      BY <2>4
    <3> HIDE DEF c, TaskType
    <3>2. TaskType' /\ task'.db = task.db BY <3>1, <2>3, <1>0, PfStep DEF TaskType
    <3> QED BY <3>2, <2>1, <2>2
  <2>5. CASE task' = [task EXCEPT !.step = "recs"] BY <2>1, <2>5
  <2> QED BY <2>1, <2>4, <2>5
<1>4. CASE ReadRecord
  <2> DEFINE c == [task.pf EXCEPT !.recs = Append(@, Db.recs[task.j])]
  <2>1. /\ task.step = "recs" /\ task.what = "retrieve" /\ task.j <= Len(Db.recs)
        /\ device' = device
        /\ Fail \/ task' = [task EXCEPT !.j = @ + 1, !.pf.recs = Append(@, Db.recs[task.j])]
    BY <1>4 DEF ReadRecord
  <2>2. Db.there /\ Db.recs[task.j] \in Recs BY <2>1 DEF IsCopy
  <2>3. DOMAIN c = {"recs", "app", "large"} /\ c.recs \in Seq(Recs) /\ c.app \in Nat
    BY <2>2
  <2>4. CASE Fail BY <2>1, <2>4
  <2>5. CASE task' = [task EXCEPT !.j = @ + 1, !.pf.recs = Append(@, Db.recs[task.j])]
    <3>1. task' = [task EXCEPT !.step = "recs", !.j = task.j + 1, !.pf = c]
      BY <2>1, <2>5
    <3>2. task.j + 1 \in Nat \ {0} BY <1>0
    <3> HIDE DEF c, TaskType
    <3>3. TaskType' /\ task'.db = task.db BY <3>1, <3>2, <2>3, <1>0, PfStep
    <3> QED BY <3>3, <2>1, <2>2
  <2> QED BY <2>1, <2>4, <2>5
<1>5. CASE CloseRead     BY <1>5 DEF CloseRead
<1>6. CASE Precheck      BY <1>6 DEF Precheck
<1>7. CASE DeleteOld     BY <1>7 DEF DeleteOld
<1>8. CASE CreateDB      BY <1>8 DEF CreateDB
<1>9. CASE WriteAppBlock BY <1>9 DEF WriteAppBlock
<1>10. CASE MergeOpen
  <2>1. task.what = "merge" BY <1>10 DEF MergeOpen
  <2>2. CASE task' = Task("install", task.db, "check", task.pf)
    BY <2>2 DEF Task
  <2>3. ASSUME NEW s \in {"fail", "recs"}, task' = [task EXCEPT !.step = s, !.open = TRUE]
        PROVE  TaskType' /\ ReadsThere'
    BY <2>1, <2>3
  <2>4. CASE task' = [task EXCEPT !.step = IF TooLarge THEN "fail" ELSE "recs", !.open = TRUE]
    BY <2>3, <2>4
  <2> QED BY <2>2, <2>4, <1>10 DEF MergeOpen
<1>11. CASE WriteRecord  BY <1>11 DEF WriteRecord
<1>12. CASE CloseWritten BY <1>12 DEF CloseWritten
<1>13. CASE FailClose    BY <1>13 DEF FailClose
<1>14. CASE FailDelete
  <2>1. Finish("failed") BY <1>14 DEF FailDelete
  <2> QED BY <2>1
<1> QED
  BY <1>1, <1>2, <1>3, <1>4, <1>5, <1>6, <1>7, <1>8, <1>9, <1>10, <1>11, <1>12,
     <1>13, <1>14 DEF Transferring

LEMMA TypeInit == ASSUME Init PROVE TypeInv
  BY DEF Init, TypeInv, DeviceType, IsCopy, FilesType, IsFile, TaskType, ReadsThere,
         PlaceType, Backing, None

LEMMA FileWith ==
  ASSUME FilesType, NEW d, NEW f, IsFile(f), FileOf(d, f) PROVE FilesType'
  BY DEF FilesType, FileOf

LEMMA Files ==
  /\ IsFile(None)
  /\ \A c, b : c.recs \in Seq(Recs) /\ c.app \in Nat => IsFile(File(c, b))
  /\ \A f, t : IsFile(f) /\ f.there => IsFile([f EXCEPT !.mtime = t])
<1>1. IsFile(None) BY DEF IsFile, None
<1>2. ASSUME NEW c, NEW b, c.recs \in Seq(Recs), c.app \in Nat PROVE IsFile(File(c, b))
  BY <1>2 DEF IsFile, File
<1>3. ASSUME NEW f, NEW t, IsFile(f), f.there PROVE IsFile([f EXCEPT !.mtime = t])
  BY <1>3 DEF IsFile
<1> QED BY <1>1, <1>2, <1>3

LEMMA Versions ==
  ASSUME NEW v \in Nat
  PROVE  /\ Version(v) \in Seq(Recs)
         /\ \A app \in Nat : IsCopy(Database(Version(v), app, v))
<1>1. Version(v) \in Seq(Recs) BY XferAssumption DEF Version, Recs
<1> HIDE DEF Version
<1> QED BY <1>1 DEF IsCopy, Database

LEMMA UserType == ASSUME TypeInv, User PROVE TypeInv'
<1> USE DEF TypeInv, Ticks, command
<1>0. Ticks /\ UNCHANGED <<failed, task, command>>
  BY DEF User, Edit, Loses, Download, dlp
<1>1. clock' \in Nat /\ pc' = "menu" /\ task' = task /\ task = NoTask /\ UNCHANGED <<failed, todo>>
  BY <1>0 DEF PlaceType
<1>2. TaskType' /\ ReadsThere' /\ PlaceType'
  BY <1>1 DEF TaskType, ReadsThere, PlaceType, Backing
<1>3. ASSUME NEW d \in DBs, Edit(d) PROVE TypeInv'
  <2>1. PICK app \in {0, clock'} :
          device' = [device EXCEPT ![d] = Database(Version(clock'), app, clock')]
    BY <1>3 DEF Edit
  <2>2. IsCopy(Database(Version(clock'), app, clock')) BY <1>1, Versions
  <2>3. DeviceType' BY <2>1, <2>2, DeviceWith
  <2>4. FilesType' BY <1>3 DEF Edit, dir, FilesType
  <2> QED BY <1>2, <2>3, <2>4
<1>4. ASSUME NEW some, Loses(some) PROVE TypeInv'
  <2>1. DeviceType' BY <1>4 DEF Loses, DeviceType, IsCopy, None
  <2>2. FilesType' BY <1>4 DEF Loses, dir, FilesType
  <2> QED BY <1>2, <2>1, <2>2
<1>5. ASSUME NEW d \in DBs, Download(d) PROVE TypeInv'
  <2>1. PICK large \in BOOLEAN :
          FileOf(d, File([recs |-> Version(clock'), app |-> clock', large |-> large], TRUE))
    BY <1>5 DEF Download
  <2>2. IsFile(File([recs |-> Version(clock'), app |-> clock', large |-> large], TRUE))
    BY <1>1, Files, Versions
  <2>3. FilesType' BY <2>1, <2>2, FileWith
  <2>4. DeviceType' BY <1>5 DEF Download, dlp, DeviceType
  <2> QED BY <1>2, <2>3, <2>4
<1> QED BY <1>3, <1>4, <1>5 DEF User

LEMMA CommandsType == ASSUME TypeInv, Commands PROVE TypeInv'
<1> USE DEF TypeInv, PlaceType, Starts, Op, dir, Backing, Backups
<1>0. task = NoTask /\ UNCHANGED <<device, failed, files>> /\ DeviceType' /\ FilesType'
  BY DEF Commands, StartBackup, StartRestore, StartInstall, StartMerge, DeviceType, FilesType
<1>1. ASSUME NEW kind \in Backups, NEW unsaved \in BOOLEAN, NEW exclude \in {{}, Excluded},
             StartBackup(kind, unsaved, exclude)
      PROVE  TypeInv'
  BY <1>0, <1>1 DEF StartBackup, OnDevice, TaskType, ReadsThere
<1>2. CASE StartRestore
  BY <1>0, <1>2 DEF StartRestore, TaskType, ReadsThere, Stored
<1>3. ASSUME NEW d \in DBs, StartInstall(d) \/ StartMerge(d) PROVE TypeInv'
  <2>1. IsFile(files[d]) /\ files[d].there
    BY <1>3 DEF FilesType, StartInstall, StartMerge, Readable
  <2>2. PICK what \in {"install", "merge"}, step \in {"check", "open"} :
          task' = Task(what, d, step, Loaded(d))
    BY <1>3 DEF StartInstall, StartMerge
  <2>3. TaskType' /\ ReadsThere'
    BY <2>1, <2>2 DEF TaskType, ReadsThere, Task, Loaded, TaskFields, IsFile
  <2> QED BY <1>0, <1>3, <2>2, <2>3 DEF StartInstall, StartMerge, Task, NoTask
<1> QED BY <1>1, <1>2, <1>3 DEF Commands

LEMMA ListType ==
  ASSUME TypeInv, IInv,
         ListNext \/ ListEnd \/ ListUnconnected \/ OpenConduit \/ Skip \/ Retrieve
  PROVE  TypeInv'
<1>1. UNCHANGED <<device, clock, files>> /\ (Retrieve \/ task' = task) /\ failed' \in Nat
  BY DEF ListNext, ListEnd, ListUnconnected, OpenConduit, Skip, Retrieve, transfers, dir,
         Call, Called, Refused, Breaks, dlp, TypeInv, PlaceType
<1>2. DeviceType' /\ FilesType' BY <1>1 DEF TypeInv, DeviceType, FilesType
<1>3. PlaceType'
  BY <1>1 DEF TypeInv, IInv, KindInv, PlaceType, Backing, Backups, ListNext, ListEnd,
         ListUnconnected, OpenConduit, Skip, Retrieve, transfers, Exits, Call, Called,
         Refused, Breaks, dlp
<1>4. CASE Retrieve
  <2>1. current \in DBs
    BY <1>4 DEF Retrieve, TypeInv, IInv, KindInv, PlaceType, Backing
  <2>2. task' = Task("retrieve", current, "find", Nothing) BY <1>4 DEF Retrieve
  <2>3. Nothing.recs \in Seq(Recs) /\ Nothing.app \in Nat
        /\ DOMAIN Nothing = {"recs", "app", "large"}
    BY DEF Nothing
  <2>4. TaskType' /\ ReadsThere'
    BY <2>1, <2>2, <2>3 DEF TaskType, ReadsThere, Task, TaskFields
  <2> QED BY <1>2, <1>3, <2>4 DEF TypeInv
<1>5. CASE task' = task
  BY <1>1, <1>2, <1>3, <1>5 DEF TypeInv, TaskType, ReadsThere
<1> QED BY <1>1, <1>4, <1>5

LEMMA TransferType == ASSUME TypeInv, IInv, Transfers PROVE TypeInv'
<1>1. Transferring /\ UNCHANGED <<command, files>> BY DEF Transfers, dir
<1>2. DeviceType' /\ TaskType' /\ ReadsThere' BY <1>1, DeviceStep, TaskStep
<1>3. FilesType' BY <1>1 DEF TypeInv, FilesType
<1>4. failed' \in Nat /\ clock' = clock
  BY <1>1 DEF TypeInv, PlaceType, Transferring, FindDB, OpenToRead, ReadAppBlock,
         ReadRecord, CloseRead, Precheck, DeleteOld, CreateDB, WriteAppBlock, MergeOpen,
         WriteRecord, CloseWritten, FailClose, FailDelete, Call, CallIf, Called, Refused,
         Breaks, dlp
<1>5. PlaceType'
  BY <1>1, <1>4 DEF TypeInv, PlaceType, command, Backing, Transfers
<1> QED BY <1>2, <1>3, <1>5 DEF TypeInv

LEMMA FileType ==
  ASSUME TypeInv, IInv, CloseFile \/ UnlinkFailed \/ Touch \/ Tidy PROVE TypeInv'
<1>1. /\ UNCHANGED <<device, clock, current, todo>> /\ failed' \in Nat
      /\ task' = task \/ task' = NoTask
  <2> USE DEF TypeInv, PlaceType, transfers
  <2>1. CASE CloseFile
    <3>1. failed' = failed \/ failed' = failed + 1 BY <2>1 DEF CloseFile
    <3> QED BY <2>1, <3>1 DEF CloseFile
  <2>2. CASE UnlinkFailed BY <2>2 DEF UnlinkFailed
  <2>3. CASE Touch BY <2>3 DEF Touch
  <2>4. CASE Tidy BY <2>4 DEF Tidy
  <2> QED BY <2>1, <2>2, <2>3, <2>4
<1>2. DeviceType' /\ TaskType' /\ ReadsThere'
  BY <1>1 DEF TypeInv, DeviceType, TaskType, ReadsThere
<1>3. PlaceType'
  BY <1>1 DEF TypeInv, IInv, KindInv, TaskInv, PlaceType, Backing, CloseFile, UnlinkFailed,
         Touch, Tidy, Done, transfers
<1>4. CASE CloseFile
  <2>1. task.pf.recs \in Seq(Recs) /\ task.pf.app \in Nat
    BY <1>4 DEF CloseFile, Done, NoTask, TypeInv, TaskType
  <2>2. \E f : IsFile(f) /\ FileOf(current, f)
    BY <1>4, <2>1, Files DEF CloseFile, FileIs
  <2> QED BY <1>2, <1>3, <2>2, FileWith DEF TypeInv
<1>5. CASE UnlinkFailed
  <2>1. FileOf(current, None) BY <1>5 DEF UnlinkFailed, FileIs, Unlinked
  <2> QED BY <1>2, <1>3, <2>1, Files, FileWith DEF TypeInv
<1>6. CASE Touch
  <2>1. CASE files[current].there
    <3>1. FileOf(current, [files[current] EXCEPT !.mtime = device[current].modified])
      BY <1>6, <2>1 DEF Touch, FileIs
    <3>2. IsFile(files[current])
      BY <1>6 DEF Touch, TypeInv, IInv, KindInv, PlaceType, Backing, FilesType
    <3> QED BY <1>2, <1>3, <2>1, <3>1, <3>2, Files, FileWith DEF TypeInv
  <2>2. CASE ~files[current].there
    BY <1>2, <1>3, <1>6, <2>2 DEF Touch, TypeInv, FilesType
  <2> QED BY <2>1, <2>2
<1>7. CASE Tidy
  <2>1. FilesType' BY <1>7, Files DEF Tidy, TypeInv, FilesType
  <2> QED BY <1>2, <1>3, <2>1 DEF TypeInv
<1> QED BY <1>4, <1>5, <1>6, <1>7

LEMMA OthersType ==
  ASSUME TypeInv, IInv, RestoreNext \/ RestoreEnd \/ Installed \/ Killed \/ Menu
  PROVE  TypeInv'
<1>1. UNCHANGED <<device, clock>> /\ failed' \in Nat
  <2> USE DEF TypeInv, PlaceType, transfers
  <2>1. CASE RestoreNext BY <2>1 DEF RestoreNext
  <2>2. CASE RestoreEnd BY <2>2 DEF RestoreEnd
  <2>3. CASE Installed BY <2>3 DEF Installed
  <2>4. CASE Killed BY <2>4 DEF Killed
  <2>5. CASE Menu BY <2>5 DEF Menu
  <2> QED BY <2>1, <2>2, <2>3, <2>4, <2>5
<1>2. DeviceType' BY <1>1 DEF TypeInv, DeviceType
<1>3. PlaceType'
  <2> USE <1>1 DEF TypeInv, IInv, Fields, KindInv, TaskInv, PlaceType, Backing, Backups,
                   Exits, Ends, transfers, dir
  <2>1. CASE RestoreNext BY <2>1 DEF RestoreNext
  <2>2. CASE RestoreEnd BY <2>2 DEF RestoreEnd
  <2>3. CASE Installed BY <2>3 DEF Installed
  <2>4. CASE Killed BY <2>4 DEF Killed
  <2>5. CASE Menu BY <2>5 DEF Menu
  <2> QED BY <2>1, <2>2, <2>3, <2>4, <2>5
<1>4. FilesType'
  <2>1. CASE Killed
    <3>1. CASE Done("retrieve", "ok")
      <4>1. task.pf.recs \in Seq(Recs) /\ task.pf.app \in Nat
        BY <3>1 DEF Done, NoTask, TypeInv, TaskType
      <4>2. \E f : IsFile(f) /\ FileOf(current, f)
        BY <2>1, <3>1, <4>1, Files DEF Killed, FileIs
      <4> QED BY <4>2, FileWith DEF TypeInv
    <3>2. CASE ~Done("retrieve", "ok")
      BY <2>1, <3>2 DEF Killed, dir, TypeInv, FilesType
    <3> QED BY <3>1, <3>2
  <2>2. CASE files' = files BY <2>2 DEF TypeInv, FilesType
  <2> QED BY <2>1, <2>2 DEF RestoreNext, RestoreEnd, Installed, Menu, dir
<1>5. TaskType' /\ ReadsThere'
  <2>1. CASE RestoreNext
    <3>1. PICK d \in todo : task' = Task("install", d, "check", Loaded(d))
      BY <2>1 DEF RestoreNext
    <3>2. d \in DBs /\ IsFile(files[d]) /\ files[d].there
      BY <2>1 DEF TypeInv, PlaceType, FilesType, RestoreNext
    <3> QED BY <3>1, <3>2 DEF TaskType, ReadsThere, Task, Loaded, TaskFields, IsFile
  <2>2. CASE UNCHANGED task \/ task' = NoTask
    BY <1>1, <2>2 DEF TypeInv, TaskType, ReadsThere
  <2> QED BY <2>1, <2>2 DEF RestoreEnd, Installed, Killed, Menu, transfers
<1> QED BY <1>2, <1>3, <1>4, <1>5 DEF TypeInv

LEMMA TypeNext == ASSUME TypeInv, IInv, [Next]_vars PROVE TypeInv'
<1>1. CASE Steps \/ Killed
  BY <1>1, ListType, TransferType, FileType, OthersType DEF Steps
<1>2. CASE Commands BY <1>2, CommandsType
<1>3. CASE User BY <1>3, UserType
<1>4. CASE Idle \/ UNCHANGED vars
  BY <1>4 DEF Idle, vars, transfers, command, dir, TypeInv, DeviceType, FilesType, TaskType,
         ReadsThere, PlaceType, Backing
<1> QED BY <1>1, <1>2, <1>3, <1>4 DEF Next

-----------------------------------------------------------------------------
(* An install up to where it is, while the connection holds and one call   *)
(* at most has failed: nothing changed, the old database deleted, or the   *)
(* new one written so far.                                                 *)
Old == op.before[task.db]

AllOrNothing == ~Db.there \/ Db = Old \/ Content(Db) = Content(task.pf)

Begun ==
  /\ Db.there /\ Db.app = task.pf.app /\ task.j <= Len(task.pf.recs) + 1
  /\ Len(Db.recs) = task.j - 1
  /\ \A i \in 1..(task.j - 1) : Db.recs[i] = task.pf.recs[i]

Progress ==
  \/ task.step \in {"check", "delete"} /\ task.j = 1 /\ Db = Old
  \/ task.step = "create" /\ task.j = 1 /\ (~Db.there \/ Db = Old)
  \/ task.step = "app" /\ task.j = 1 /\ Db.there /\ Db.recs = <<>> /\ Db.app = 0
  \/ task.step = "recs" /\ Begun
  \/ task.step = "fail" /\ (failed = 1 \/ Db = Old)
  \/ task.step = "done" /\ AllOrNothing

LEMMA Holds ==
  ASSUME Transferring, failed \in Nat, connected', failed' <= 1 PROVE connected /\ failed <= 1
<1>1. connected /\ (failed' = failed \/ failed' = failed + 1)
  BY Zenon DEF Transferring, FindDB, OpenToRead, ReadAppBlock, ReadRecord, CloseRead,
         Precheck, DeleteOld, CreateDB, WriteAppBlock, MergeOpen, WriteRecord, CloseWritten,
         FailClose, FailDelete, CallIf, Call, Called, Refused, Breaks, dlp
<1> QED BY <1>1

LEMMA Written1 ==
  ASSUME TypeInv, task # NoTask, NEW x, device' = With(x), task'.db = task.db
  PROVE  Db' = x
  BY DEF TypeInv, TaskType, DeviceType, With, Db

LEMMA SeqEqual ==
  ASSUME NEW S, NEW s \in Seq(S), NEW t \in Seq(S), Len(s) = Len(t),
         \A i \in 1..Len(s) : s[i] = t[i]
  PROVE  s = t
  OBVIOUS

LEMMA BegunOn ==
  ASSUME TaskType, task # NoTask, IsCopy(Db), Begun, task.j <= Len(task.pf.recs),
         Db' = [Db EXCEPT !.recs = Append(@, task.pf.recs[task.j]), !.modified = clock],
         task'.pf = task.pf, task'.j = task.j + 1
  PROVE  Begun'
<1>1. Db.there /\ Db.recs \in Seq(Recs) /\ task.pf.recs[task.j] \in Recs
  BY DEF Begun, IsCopy, TaskType
<1>2. Db'.there /\ Db'.app = Db.app /\ Db'.recs = Append(Db.recs, task.pf.recs[task.j])
  BY <1>1 DEF IsCopy
<1>3. Len(Db'.recs) = task.j
  BY <1>1, <1>2 DEF Begun, TaskType
<1>4. /\ task.j \in Nat \ {0} /\ Len(Db.recs) = task.j - 1 /\ Db.app = task.pf.app
      /\ \A i \in 1..(task.j - 1) : Db.recs[i] = task.pf.recs[i]
  BY DEF Begun, TaskType
<1>5. ASSUME NEW i \in 1..task.j PROVE Db'.recs[i] = task.pf.recs[i]
  <2>1. CASE i = task.j
    BY ONLY <1>1, <1>2, <1>4, <2>1
  <2>2. CASE i \in 1..(task.j - 1)
    <3>1. Db'.recs[i] = Db.recs[i]
      BY ONLY <1>1, <1>2, <1>4, <2>2
    <3> QED BY ONLY <1>4, <2>2, <3>1
  <2> QED BY ONLY <1>4, <1>5, <2>1, <2>2
<1>6. task'.j \in Nat /\ task'.j <= Len(task'.pf.recs) + 1 /\ task'.j - 1 = task.j
  BY ONLY <1>4, task'.j = task.j + 1, task'.pf = task.pf, task.j <= Len(task.pf.recs),
          TaskType, task # NoTask DEF TaskType
<1>7. \A i \in 1..(task'.j - 1) : Db'.recs[i] = task'.pf.recs[i]
  BY ONLY <1>5, <1>6, task'.pf = task.pf
<1>8. Db'.app = task'.pf.app
  BY ONLY <1>2, <1>4, task'.pf = task.pf
<1> QED BY ONLY <1>2, <1>3, <1>6, <1>7, <1>8 DEF Begun

LEMMA BegunAll ==
  ASSUME TaskType, task # NoTask, IsCopy(Db), Begun, task.j > Len(task.pf.recs)
  PROVE  Db.recs = task.pf.recs
<1>1. Db.recs \in Seq(Recs) /\ task.pf.recs \in Seq(Recs) /\ Len(Db.recs) = Len(task.pf.recs)
  BY DEF Begun, IsCopy, TaskType
<1>2. \A i \in 1..Len(Db.recs) : Db.recs[i] = task.pf.recs[i]
  BY DEF Begun
<1> QED BY <1>1, <1>2, SeqEqual

(* What all of the steps of an install that succeed have in common.        *)
LEMMA InstallStep ==
  ASSUME TypeInv, Transferring, task.what = "install", op' = op,
         connected', failed' <= 1, Progress
  PROVE  Progress' /\ task' # NoTask /\ task'.what = "install"
<1>0. task # NoTask /\ TaskType /\ failed \in Nat /\ IsCopy(Db) /\ connected
  BY Active, Holds DEF TypeInv, PlaceType, DeviceType, Db
<1>a. failed' = failed + 1 => failed' = 1 /\ failed = 0
  BY <1>0
<1>1. CASE Precheck
  BY <1>0, <1>1 DEF Precheck, At, Go, Fail, dlp, Progress, Db, Old, TaskType, TaskFields, NoTask
<1>2. CASE DeleteOld
  <2>1. task.step = "delete" /\ Go("create") BY <1>2 DEF DeleteOld, At, CallIf, Call, Called, Refused, Breaks
  <2>2. (Db.there /\ device' = With(None)) \/ device' = device
    BY <1>2, <1>0 DEF DeleteOld, CallIf, Call, Called, Refused, Breaks, dlp
  <2>3. task'.db = task.db /\ task'.step = "create" /\ task'.j = task.j /\ task' # NoTask
        /\ task'.what = "install"
    BY <2>1, <1>0 DEF Go, TaskType, TaskFields, NoTask
  <2>4. ~Db'.there \/ Db' = Old'
    <3>1. CASE device' = With(None) BY <3>1, <2>3, <1>0, Written1 DEF None
    <3>2. CASE device' = device BY <3>2, <2>1, <2>3 DEF Progress, Db, Old
    <3> QED BY <2>2, <3>1, <3>2
  <2> QED BY <2>1, <2>3, <2>4 DEF Progress
<1>3. CASE CreateDB
  <2> DEFINE new == Database(<<>>, 0, clock)
  <2>1. task.step = "create" /\ task.j = 1 /\ (~Db.there \/ Db = Old)
    BY <1>3 DEF CreateDB, At, Progress
  <2>2. \/ device' = With(new) /\ Opened("app")
        \/ device' = device /\ Finish("failed")
    <3>1. CASE Db.there
      BY <1>3, <3>1, Zenon DEF CreateDB, CallIf, Refused, dlp
    <3>2. CASE ~Db.there
      <4>1. Call(With(new), Opened("app"), Finish("failed"))
        BY <1>3, <3>2, Zenon DEF CreateDB, CallIf
      <4> HIDE DEF new
      <4> QED BY <4>1, <1>0, Zenon DEF Call, Called, Refused, Breaks
    <3> QED BY <3>1, <3>2
  <2>3. CASE device' = With(new) /\ Opened("app")
    <3>1. task'.db = task.db /\ task'.step = "app" /\ task'.j = 1 /\ task' # NoTask
          /\ task'.what = "install"
      BY <2>1, <2>3, <1>0 DEF Opened, TaskType, TaskFields, NoTask
    <3>2. Db' = new BY <2>3, <3>1, <1>0, Written1
    <3> QED BY <3>1, <3>2 DEF Progress, Database
  <2>4. CASE device' = device /\ Finish("failed")
    BY <2>1, <2>4, <1>0 DEF Finish, TaskType, TaskFields, NoTask, Progress, AllOrNothing, Db, Old
  <2> QED BY <2>2, <2>3, <2>4
<1>4. CASE WriteAppBlock
  <2> DEFINE new == [Db EXCEPT !.app = task.pf.app]
  <2>1. task.step = "app" /\ task.j = 1 /\ Db.there /\ Db.recs = <<>> /\ Db.app = 0
    BY <1>4 DEF WriteAppBlock, At, Progress
  <2>2. \/ device' = With(new) /\ Go("recs")
        \/ task.pf.app = 0 /\ device' = device /\ Go("recs")
        \/ failed' = 1 /\ Fail
    <3>1. CASE task.pf.app = 0 BY <1>4, <3>1, Zenon DEF WriteAppBlock, dlp
    <3>2. CASE task.pf.app # 0
      <4>1. Call(With(new), Go("recs"), Fail) BY <1>4, <3>2, Zenon DEF WriteAppBlock
      <4> HIDE DEF new
      <4> QED BY <4>1, <1>0, <1>a, Zenon DEF Call, Called, Refused, Breaks
    <3> QED BY <3>1, <3>2
  <2>3. CASE Go("recs") /\ (device' = With(new) \/ (task.pf.app = 0 /\ device' = device))
    <3>1. task'.db = task.db /\ task'.step = "recs" /\ task'.j = 1 /\ task' # NoTask
          /\ task'.what = "install" /\ task'.pf = task.pf
      BY <2>1, <2>3, <1>0 DEF Go, TaskType, TaskFields, NoTask
    <3>2. Db' = new \/ (task.pf.app = 0 /\ Db' = Db)
      BY <2>3, <3>1, <1>0, Written1 DEF Db
    <3>3. Db'.there /\ Db'.recs = <<>> /\ Db'.app = task.pf.app
      BY <2>1, <3>2, <1>0 DEF IsCopy
    <3>4. Begun' BY <3>1, <3>3, <1>0 DEF Begun, TaskType
    <3> QED BY <3>1, <3>4 DEF Progress
  <2>4. CASE failed' = 1 /\ Fail
    BY <2>4, <1>0 DEF Fail, TaskType, TaskFields, NoTask, Progress
  <2> QED BY <2>2, <2>3, <2>4
<1>5. CASE WriteRecord
  <2> DEFINE new == [Db EXCEPT !.recs = Append(@, task.pf.recs[task.j]), !.modified = clock]
  <2>1. task.step = "recs" /\ Begun /\ task.j <= Len(task.pf.recs)
    BY <1>5 DEF WriteRecord, Progress
  <2>2. \/ device' = With(new) /\ task' = [task EXCEPT !.j = @ + 1]
        \/ failed' = 1 /\ Fail
    <3>1. Call(With(new), task' = [task EXCEPT !.j = @ + 1], Fail)
      BY <1>5, Zenon DEF WriteRecord
    <3> HIDE DEF new
    <3> QED BY <3>1, <1>0, <1>a, Zenon DEF Call, Called, Refused, Breaks
  <2>3. CASE device' = With(new) /\ task' = [task EXCEPT !.j = @ + 1]
    <3>1. task'.db = task.db /\ task'.step = "recs" /\ task'.j = task.j + 1 /\ task' # NoTask
          /\ task'.what = "install" /\ task'.pf = task.pf
      BY <2>1, <2>3, <1>0 DEF TaskType, TaskFields, NoTask
    <3>2. Db' = new BY <2>3, <3>1, <1>0, Written1
    <3>3. Begun' BY <2>1, <3>1, <3>2, <1>0, BegunOn
    <3> QED BY <3>1, <3>3 DEF Progress
  <2>4. CASE failed' = 1 /\ Fail
    BY <2>4, <1>0 DEF Fail, TaskType, TaskFields, NoTask, Progress
  <2> QED BY <2>2, <2>3, <2>4
<1>6. CASE CloseWritten
  <2>1. task.step = "recs" /\ Begun /\ task.j > Len(task.pf.recs)
    BY <1>6 DEF CloseWritten, Progress
  <2>2. device' = device /\ \E r : Finish(r)
    BY <1>6, <1>0 DEF CloseWritten, Call, Called, Refused, Breaks, dlp
  <2>3. task'.db = task.db /\ task'.step = "done" /\ task' # NoTask
        /\ task'.what = "install" /\ task'.pf = task.pf /\ Db' = Db
    BY <2>2, <1>0 DEF Finish, TaskType, TaskFields, NoTask, Db
  <2>4. Db.recs = task.pf.recs BY <2>1, <1>0, BegunAll
  <2> QED BY <2>1, <2>3, <2>4 DEF Progress, AllOrNothing, Content, Begun
<1>7. CASE FailClose
  <2>1. task.step = "fail" /\ (failed = 1 \/ Db = Old)
    BY <1>7 DEF FailClose, Progress
  <2>2. device' = device /\ task' = [task EXCEPT !.open = FALSE]
        /\ (failed' = failed \/ failed' = 1)
    BY <1>7, <1>0, <1>a DEF FailClose, Call, Called, Refused, Breaks, dlp
  <2> QED BY <2>1, <2>2, <1>0 DEF TaskType, TaskFields, NoTask, Progress, Db, Old
<1>8. CASE FailDelete
  <2>1. task.step = "fail" /\ (failed = 1 \/ Db = Old) /\ Finish("failed")
    BY <1>8 DEF FailDelete, Progress, CallIf, Call, Called, Refused, Breaks
  <2>2. task'.db = task.db /\ task'.step = "done" /\ task' # NoTask
        /\ task'.what = "install" /\ task'.pf = task.pf
    BY <2>1, <1>0 DEF Finish, TaskType, TaskFields, NoTask
  <2>3. \/ device' = With(None)
        \/ device' = device /\ ~Db.there
        \/ device' = device /\ failed = 0
    BY <1>8, <1>0, <1>a DEF FailDelete, Deletes, CallIf, Call, Called, Refused, Breaks, dlp
  <2>4. AllOrNothing'
    <3>1. CASE device' = With(None)
      BY <3>1, <2>2, <1>0, Written1 DEF AllOrNothing, None
    <3>2. CASE device' = device /\ (~Db.there \/ failed = 0)
      <4>1. Db' = Db /\ Old' = Old BY <2>2, <3>2 DEF Db, Old
      <4>2. ~Db.there \/ Db = Old BY <2>1, <3>2
      <4> QED BY <4>1, <4>2 DEF AllOrNothing
    <3> QED BY <2>3, <3>1, <3>2
  <2> QED BY <2>2, <2>4 DEF Progress
<1> QED
  BY <1>1, <1>2, <1>3, <1>4, <1>5, <1>6, <1>7, <1>8 DEF Transferring, FindDB, OpenToRead,
     ReadAppBlock, ReadRecord, CloseRead, MergeOpen, At

Installing ==
  pc \in {"conduit", "transfer"} /\ op.kind = "install" =>
    /\ task # NoTask /\ task.what = "install"
    /\ pc = "conduit" => task.step = "check" /\ task.j = 1 /\ Db = Old
    /\ connected /\ failed <= 1 => Progress

InstallInv == Installing /\ InstallAllOrNothing

LEMMA InstallKeeps ==
  ASSUME Transferring, task.what = "install", task # NoTask, TaskType
  PROVE  task' # NoTask /\ task'.what = "install" /\ task'.db = task.db /\ task'.pf = task.pf
<1>1. \/ \E s : task' = [task EXCEPT !.step = s] /\ s # "none"
      \/ task' = [task EXCEPT !.step = "app", !.open = TRUE]
      \/ task' = [task EXCEPT !.j = @ + 1]
      \/ task' = [task EXCEPT !.open = FALSE]
      \/ \E r : task' = [task EXCEPT !.step = "done", !.result = r]
  <2> USE DEF CallIf, Call, Called, Refused, Breaks, At, Go, Opened, Finish, Fail
  <2>1. CASE FindDB \/ OpenToRead \/ ReadAppBlock \/ ReadRecord \/ CloseRead
    BY <2>1 DEF FindDB, OpenToRead, ReadAppBlock, ReadRecord, CloseRead
  <2>2. CASE Precheck \/ DeleteOld
    BY <2>2 DEF Precheck, DeleteOld, Deletes
  <2>4. CASE CreateDB \/ WriteAppBlock
    BY <2>4 DEF CreateDB, WriteAppBlock
  <2>3. CASE MergeOpen \/ WriteRecord \/ CloseWritten \/ FailClose \/ FailDelete
    BY <2>3 DEF MergeOpen, WriteRecord, CloseWritten, FailClose, FailDelete, Deletes
  <2> QED BY <2>1, <2>2, <2>3, <2>4 DEF Transferring
<1> QED BY <1>1 DEF TaskType, TaskFields, NoTask

LEMMA InstallCommands == ASSUME TypeInv, Commands PROVE InstallInv'
<1> USE DEF InstallInv, Installing, InstallAllOrNothing, AtEnd, Starts, Op
<1>1. ASSUME NEW kind \in Backups, NEW unsaved \in BOOLEAN, NEW exclude \in {{}, Excluded},
             StartBackup(kind, unsaved, exclude)
      PROVE  InstallInv'
  BY <1>1 DEF StartBackup, Backups
<1>2. CASE StartRestore BY <1>2 DEF StartRestore
<1>3. ASSUME NEW d \in DBs, StartInstall(d) PROVE InstallInv'
  <2>1. /\ pc' = "conduit" /\ task' = Task("install", d, "check", Loaded(d))
        /\ op' = Op("install", FALSE, {}) /\ device' = device
    BY <1>3 DEF StartInstall
  <2>2. task' # NoTask /\ task'.what = "install" /\ task'.step = "check" /\ task'.j = 1
        /\ task'.db = d
    BY <2>1 DEF Task, NoTask
  <2>3. Db' = device[d] /\ Old' = device[d]
    BY <2>1, <2>2 DEF Db, Old
  <2>4. Progress' BY <2>2, <2>3 DEF Progress
  <2> QED BY <2>1, <2>2, <2>3, <2>4
<1>4. ASSUME NEW d \in DBs, StartMerge(d) PROVE InstallInv'
  BY <1>4 DEF StartMerge
<1> QED BY <1>1, <1>2, <1>3, <1>4 DEF Commands, Backups

LEMMA InstallInit == ASSUME Init PROVE InstallInv
  BY DEF Init, InstallInv, Installing, InstallAllOrNothing, AtEnd

LEMMA InstallNext ==
  ASSUME IInv, TypeInv, InstallInv, [Next]_vars PROVE InstallInv'
<1> USE DEF InstallInv, IInv
<1>1. CASE Transfers
  <2>1. Transferring /\ pc = "transfer" /\ pc' = "transfer" /\ op' = op
    BY <1>1 DEF Transfers, command
  <2>2. ASSUME op.kind = "install"
        PROVE  task' # NoTask /\ task'.what = "install"
               /\ (connected' /\ failed' <= 1 => Progress')
    <3>1. task # NoTask /\ task.what = "install" /\ (connected /\ failed <= 1 => Progress)
      BY <2>1, <2>2 DEF Installing
    <3>2. task' # NoTask /\ task'.what = "install"
      BY <2>1, <3>1, InstallKeeps DEF TypeInv
    <3>3. ASSUME connected', failed' <= 1 PROVE Progress'
      BY <2>1, <3>1, <3>3, Holds, InstallStep DEF TypeInv, PlaceType
    <3> QED BY <3>2, <3>3
  <2> QED BY <2>1, <2>2 DEF Installing, InstallAllOrNothing, AtEnd
<1>2. CASE OpenConduit
  <2>1. CASE pc' = "transfer" /\ op' = op
    <3>1. device' = device /\ task' = task /\ pc = "conduit"
      BY <1>2, <2>1 DEF OpenConduit, Call, Called, Refused, Breaks, dlp
    <3>2. op.kind = "install" =>
            task' # NoTask /\ task'.what = "install" /\ Progress'
      BY <2>1, <3>1 DEF Installing, Progress, Db, Old
    <3> QED BY <2>1, <3>2 DEF Installing, InstallAllOrNothing, AtEnd
  <2>2. CASE pc' = "examine" BY <2>2 DEF Installing, InstallAllOrNothing, AtEnd
  <2>3. CASE Exits("failure")
    BY <1>2, <2>3 DEF OpenConduit, Exits, Fields, Installing, InstallAllOrNothing
  <2> QED BY <1>2, <2>1, <2>2, <2>3 DEF OpenConduit, Call, Called, Refused, Breaks
<1>3. CASE Installed
  <2>1. CASE op.kind = "install"
    <3>1. /\ pc = "transfer" /\ task.step = "done" /\ pc' = "ended"
          /\ op'.kind = "install" /\ op'.before = op.before
          /\ UNCHANGED <<device, connected, failed, task>>
      BY <1>3, <2>1 DEF Installed, Ends, Exits, Fields, transfers
    <3>2. connected /\ failed <= 1 => AllOrNothing
      BY <2>1, <3>1 DEF Installing, Progress
    <3> QED BY <3>1, <3>2 DEF Installing, InstallAllOrNothing, AllOrNothing, Db, Old, Content
  <2>2. CASE op.kind # "install"
    BY <1>3, <2>2 DEF Installed, Ends, Exits, Fields, Installing, InstallAllOrNothing
  <2> QED BY <2>1, <2>2
<1>4. CASE ListNext \/ ListEnd \/ ListUnconnected \/ Tidy \/ Skip \/ Retrieve \/ Touch
  <2>1. op.kind \in Backups /\ op'.kind = op.kind
    BY <1>4 DEF ListNext, ListEnd, ListUnconnected, Tidy, Skip, Retrieve, Touch, KindInv,
           Fields, Call, Called, Refused, Breaks, dlp, Exits
  <2> QED BY <2>1 DEF Backups, Installing, InstallAllOrNothing
<1>5. CASE CloseFile \/ UnlinkFailed
  BY <1>5 DEF CloseFile, UnlinkFailed, Installing, InstallAllOrNothing, AtEnd
<1>6. CASE RestoreNext \/ RestoreEnd
  BY <1>6 DEF RestoreNext, RestoreEnd, KindInv, Fields, Ends, Exits, Installing,
         InstallAllOrNothing
<1>7. CASE Killed
  BY <1>7 DEF Killed, Exits, Fields, Installing, InstallAllOrNothing
<1>8. CASE Menu \/ User
  <2>1. pc' = "menu" BY <1>8 DEF Menu, User, Edit, Loses, Download, Ticks, command
  <2> QED BY <2>1 DEF Installing, InstallAllOrNothing, AtEnd
<1>9. CASE Commands BY <1>9, InstallCommands
<1>10. CASE Idle \/ UNCHANGED vars
  BY <1>10 DEF Idle, vars, transfers, command, Installing, InstallAllOrNothing, AtEnd,
         Progress, Db, Old, Begun, AllOrNothing, Content
<1> QED
  BY <1>1, <1>2, <1>3, <1>4, <1>5, <1>6, <1>7, <1>8, <1>9, <1>10 DEF Next, Steps

(* An install that ends normally, with the connection and with one failed  *)
(* call at most, leaves the database as in the file, as it was, or not     *)
(* there: never half of it (pi_file_install, which deletes what it could   *)
(* not write to the end).                                                  *)
THEOREM InstallAllOrNothingCorrect == Spec => []InstallAllOrNothing
<1> DEFINE Inv == IInv /\ TypeInv /\ InstallInv
<1>1. Init => Inv
  BY InitInv, TypeInit, InstallInit
<1>2. Inv /\ [Next]_vars => Inv' BY NextInv, TypeNext, InstallNext
<1>3. Inv => InstallAllOrNothing BY DEF InstallInv
<1> HIDE DEF Inv
<1> QED BY <1>1, <1>2, <1>3, PTL DEF Spec

-----------------------------------------------------------------------------
(* While a merge is one, it has added to the database, and nothing else.   *)
Grown == Db.there /\ Range(Old.recs) \subseteq Range(Db.recs)

Merged ==
  pc # "menu" /\ op.kind = "merge" /\ task.what = "merge" /\ Old.there => Grown

LEMMA MergeStep ==
  ASSUME TypeInv, Transferring, task'.what = "merge"
  PROVE  /\ task.what = "merge" /\ task'.db = task.db
         /\ Db.there => Db'.there /\ Range(Db.recs) \subseteq Range(Db'.recs)
<1>0. task # NoTask /\ TaskType /\ IsCopy(Db)
  BY Active DEF TypeInv, DeviceType, Db
<1>1. CASE MergeOpen
  <2>1. device' = device /\ task.what = "merge"
    BY <1>1, Zenon DEF MergeOpen, At, CallIf, Call, Called, Refused, Breaks, dlp
  <2>2. \/ task' = [task EXCEPT !.step = IF TooLarge THEN "fail" ELSE "recs", !.open = TRUE]
        \/ task' = Task("install", task.db, "check", task.pf)
    BY <1>1, Zenon DEF MergeOpen, CallIf, Call, Called, Refused, Breaks
  <2>3. ASSUME NEW s, task' = [task EXCEPT !.step = s, !.open = TRUE]
        PROVE  task'.db = task.db
    BY <2>3, <1>0 DEF TaskType, TaskFields
  <2>4. CASE task' = Task("install", task.db, "check", task.pf) BY <2>4 DEF Task
  <2>5. task'.db = task.db BY <2>2, <2>3, <2>4, Zenon
  <2> QED BY <2>1, <2>5 DEF Db
<1>2. CASE WriteRecord
  <2> DEFINE new == [Db EXCEPT !.recs = Append(@, task.pf.recs[task.j]), !.modified = clock]
  <2>1. (device' = device \/ device' = With(new))
        /\ (task' = [task EXCEPT !.j = @ + 1] \/ Fail)
    BY <1>2 DEF WriteRecord, Call, Called, Refused, Breaks, dlp
  <2>2. task'.db = task.db /\ task.what = "merge"
    BY <2>1, <1>0 DEF Fail, TaskType, TaskFields
  <2>3. CASE device' = device BY <2>2, <2>3 DEF Db
  <2>4. CASE device' = With(new)
    <3> SUFFICES ASSUME Db.there
                 PROVE  Db'.there /\ Range(Db.recs) \subseteq Range(Db'.recs)
      BY <2>2
    <3>1. Db' = new BY <2>2, <2>4, <1>0, Written1
    <3>2. Db.recs \in Seq(Recs) /\ DOMAIN Db = {"there", "recs", "app", "modified"}
      BY <1>0 DEF IsCopy
    <3>3. Db'.there /\ Db'.recs = Append(Db.recs, task.pf.recs[task.j])
      BY <3>1, <3>2
    <3>4. Range(Db.recs) \subseteq Range(Db'.recs) BY <3>2, <3>3 DEF Range
    <3> QED BY <3>3, <3>4
  <2> QED BY <2>1, <2>3, <2>4, <2>2
<1>3. CASE CloseWritten
  <2>1. device' = device /\ \E r : Finish(r)
    BY <1>3 DEF CloseWritten, Call, Called, Refused, Breaks, dlp
  <2>2. task'.db = task.db /\ task'.what = task.what
    BY <2>1, <1>0 DEF Finish, TaskType, TaskFields
  <2> QED BY <2>1, <2>2 DEF Db
<1>4. CASE FailClose
  <2>1. device' = device /\ task' = [task EXCEPT !.open = FALSE]
    BY <1>4 DEF FailClose, Call, Called, Refused, Breaks, dlp
  <2>2. task'.db = task.db /\ task'.what = task.what
    BY <2>1, <1>0 DEF TaskType, TaskFields
  <2> QED BY <2>1, <2>2 DEF Db
<1>5. CASE FailDelete
  <2>1. Finish("failed") BY <1>5 DEF FailDelete, CallIf, Call, Called, Refused, Breaks
  <2>2. task'.db = task.db /\ task'.what = task.what
    BY <2>1, <1>0 DEF Finish, TaskType, TaskFields
  <2>3. device' = device BY <2>2, <1>5 DEF FailDelete, Deletes, dlp
  <2> QED BY <2>2, <2>3 DEF Db
<1>6. task'.what = task.what \/ MergeOpen
  BY <1>0 DEF Transferring, FindDB, OpenToRead, ReadAppBlock, ReadRecord, CloseRead, Precheck,
         DeleteOld, CreateDB, WriteAppBlock, WriteRecord, CloseWritten, FailClose, FailDelete,
         CallIf, Call, Called, Refused, Breaks, Go, Opened, Finish, Fail, TaskType, TaskFields
<1> QED
  BY <1>1, <1>2, <1>3, <1>4, <1>5, <1>6 DEF Transferring, FindDB, OpenToRead, ReadAppBlock,
     ReadRecord, CloseRead, Precheck, DeleteOld, CreateDB, WriteAppBlock, At

LEMMA MergeNext ==
  ASSUME IInv, TypeInv, Merged, [Next]_vars PROVE Merged'
<1> USE DEF IInv
<1>1. CASE Transfers
  <2>1. Transferring /\ pc = "transfer" /\ op' = op
    BY <1>1 DEF Transfers, command
  <2>2. ASSUME op.kind = "merge", task'.what = "merge", Old'.there PROVE Grown'
    <3>1. task'.what = "merge" /\ task.what = "merge" /\ task'.db = task.db
      BY <2>1, <2>2, MergeStep
    <3>2. Old' = Old BY <2>1, <3>1 DEF Old
    <3>3. Grown BY <2>1, <2>2, <3>1, <3>2 DEF Merged
    <3> QED BY <2>1, <3>1, <3>2, <3>3, MergeStep DEF Grown
  <2> QED BY <2>1, <2>2 DEF Merged
<1>2. CASE Commands
  <2>1. ASSUME NEW d \in DBs, StartMerge(d) PROVE Merged'
    <3>1. task' = Task("merge", d, "open", Loaded(d)) /\ op' = Op("merge", FALSE, {})
          /\ device' = device
      BY <2>1 DEF StartMerge, Starts
    <3>2. Old' = device[d] /\ Db' = device[d] BY <3>1 DEF Task, Op, Old, Db
    <3> QED BY <3>2 DEF Merged, Grown
  <2>2. (\E d \in DBs : StartMerge(d)) \/ op'.kind # "merge"
    BY <1>2 DEF Commands, StartBackup, StartRestore, StartInstall, Starts, Op
  <2> QED BY <2>1, <2>2 DEF Merged
<1>3. CASE Steps /\ ~Transfers /\ ~Menu /\ ~Installed
  <2>1. op'.kind = op.kind /\ op.kind # "merge"
    BY <1>3 DEF Steps, ListNext, ListEnd, ListUnconnected, OpenConduit, Skip, Retrieve,
           CloseFile, UnlinkFailed, Touch, Tidy, RestoreNext, RestoreEnd, Done, KindInv,
           TaskInv, Fields, Backups, Exits, Ends, Call, Called, Refused, Breaks, dlp
  <2> QED BY <2>1 DEF Merged
<1>4. CASE Installed \/ Killed
  <2>1. pc # "menu" /\ op'.kind = op.kind /\ op'.before = op.before
        /\ UNCHANGED <<device, task>>
    BY <1>4 DEF Installed, Killed, Ends, Exits, Fields, transfers
  <2> QED BY <2>1 DEF Merged, Grown, Old, Db
<1>5. CASE Menu \/ User
  <2>1. pc' = "menu" BY <1>5 DEF Menu, User, Edit, Loses, Download, Ticks, command
  <2> QED BY <2>1 DEF Merged
<1>6. CASE Idle \/ UNCHANGED vars
  BY <1>6 DEF Idle, vars, transfers, command, Merged, Grown, Old, Db
<1> QED BY <1>1, <1>2, <1>3, <1>4, <1>5, <1>6 DEF Next, Steps

(* Whatever fails in a merge, also when the program is killed, no record   *)
(* that the database had is lost, unless the merge could not open it and   *)
(* became an install (pi_file_merge).                                      *)
THEOREM MergeAddsCorrect == Spec => []MergeAdds
<1> DEFINE Inv == IInv /\ TypeInv /\ Merged
<1>1. Init => Inv BY InitInv, TypeInit DEF Init, Merged
<1>2. Inv /\ [Next]_vars => Inv' BY NextInv, TypeNext, MergeNext
<1>3. Inv => MergeAdds BY DEF Merged, MergeAdds, AtEnd, Grown, Old, Db
<1> HIDE DEF Inv
<1> QED BY <1>1, <1>2, <1>3, PTL DEF Spec

-----------------------------------------------------------------------------
(* Times.  An operation that writes to the device has a time of its own,   *)
(* later than that of every file; one that reads from it finds the         *)
(* database at every call as at the first.                                 *)
Times ==
  \A d \in DBs :
    /\ device[d].there => device[d].modified \in Nat \ {0} /\ device[d].modified <= clock
    /\ files[d].there => files[d].mtime \in Nat /\ files[d].mtime <= clock

Writing ==
  pc = "restore" \/ (pc \in {"conduit", "transfer"} /\ op.kind \notin Backups)

BeforeWriting ==
  Writing => clock > 0 /\ \A d \in DBs : files[d].there => files[d].mtime < clock

JustCreated ==
  pc = "transfer" /\ task.what = "install" /\ task.step = "app" =>
    Db.there /\ Db.modified = clock

StillThere ==
  Backing => /\ pc \notin {"list", "tidy"} => device[current].there
             /\ \A d \in todo : device[d].there

ReadSoFar ==
  pc = "transfer" /\ task.what = "retrieve" =>
    /\ task # NoTask /\ task.db = current
    /\ task.step \in {"find", "open", "app"} => task.j = 1 /\ task.pf.recs = <<>>
    /\ task.step = "recs" =>
         /\ Len(task.pf.recs) = task.j - 1 /\ task.j <= Len(Db.recs) + 1
         /\ \A i \in 1..(task.j - 1) : task.pf.recs[i] = Db.recs[i]
    /\ task.step = "done" => task.result = "failed" \/ task.pf.recs = Db.recs

ToBeTouched ==
  pc = "touch" /\ current \notin spoiled /\ files[current].there => Same(current)

TimeInv ==
  /\ Times /\ BeforeWriting /\ JustCreated /\ StillThere /\ ReadSoFar /\ ToBeTouched
  /\ UnchangedIsStored

LEMMA TimeInit == ASSUME Init PROVE TimeInv
  BY DEF Init, TimeInv, Times, Writing, BeforeWriting, JustCreated, StillThere, Backing,
         ReadSoFar, ToBeTouched, UnchangedIsStored, None

LEMMA TimeUser == ASSUME TypeInv, IInv, TimeInv, User PROVE TimeInv'
<1> USE DEF TimeInv
<1>1. /\ clock \in Nat /\ clock' = clock + 1 /\ pc' = "menu"
  BY DEF User, Edit, Loses, Download, Ticks, command, TypeInv, PlaceType
<1>2. BeforeWriting' /\ JustCreated' /\ StillThere' /\ ReadSoFar' /\ ToBeTouched'
  BY <1>1 DEF BeforeWriting, Writing, JustCreated, StillThere, Backing, ReadSoFar, ToBeTouched
<1>3. ASSUME NEW d \in DBs, Edit(d) PROVE Times' /\ UnchangedIsStored'
  <2>0. PICK app \in {0, clock'} :
          device' = [device EXCEPT ![d] = Database(Version(clock'), app, clock')]
    BY <1>3 DEF Edit
  <2> DEFINE x == Database(Version(clock'), app, clock')
  <2>1. /\ device' = [device EXCEPT ![d] = x] /\ x.modified = clock'
        /\ UNCHANGED <<files, spoiled>>
    BY <2>0, <1>3 DEF Edit, Database, dir
  <2> HIDE DEF x
  <2>2. ASSUME NEW e \in DBs
        PROVE  device'[e] = device[e] \/ (device'[e] = x /\ (files'[e].there => files'[e].mtime < clock'))
    BY <2>1, <1>1 DEF Times, TypeInv, DeviceType
  <2>3. Times'
    BY <1>1, <2>1, <2>2 DEF Times
  <2>4. UnchangedIsStored'
    BY <1>1, <2>1, <2>2 DEF UnchangedIsStored, SameTime, Same, Readable, Times
  <2> QED BY <2>3, <2>4
<1>4. ASSUME NEW some, Loses(some) PROVE Times' /\ UnchangedIsStored'
  <2>1. /\ \A d \in DBs : device'[d] = device[d] \/ device'[d] = None
        /\ UNCHANGED <<files, spoiled>>
    BY <1>4 DEF Loses, dir
  <2>2. Times' BY <1>1, <2>1 DEF Times, None
  <2>3. UnchangedIsStored'
    BY <2>1 DEF UnchangedIsStored, SameTime, Same, Readable, None
  <2> QED BY <2>2, <2>3
<1>5. ASSUME NEW d \in DBs, Download(d) PROVE Times' /\ UnchangedIsStored'
  <2>0. PICK large \in BOOLEAN :
          FileOf(d, File([recs |-> Version(clock'), app |-> clock', large |-> large], TRUE))
    BY <1>5 DEF Download
  <2> DEFINE f == File([recs |-> Version(clock'), app |-> clock', large |-> large], TRUE)
  <2>1. files' = [files EXCEPT ![d] = f] /\ f.mtime = 0
    BY <2>0 DEF FileOf, File
  <2> HIDE DEF f
  <2>2. device' = device /\ \A e \in DBs \ {d} : e \in spoiled' <=> e \in spoiled
    BY <1>5 DEF Download, dlp
  <2>3. ASSUME NEW e \in DBs
        PROVE  (e # d /\ files'[e] = files[e]) \/ (e = d /\ files'[e].mtime = 0)
    BY <2>1 DEF TypeInv, FilesType
  <2>4. Times' BY <1>1, <2>2, <2>3 DEF Times
  <2>5. UnchangedIsStored'
    BY <2>2, <2>3 DEF UnchangedIsStored, SameTime, Same, Readable, Times
  <2> QED BY <2>4, <2>5
<1> QED BY <1>2, <1>3, <1>4, <1>5 DEF User

LEMMA TimeCommands == ASSUME TypeInv, IInv, TimeInv, Commands PROVE TimeInv'
<1> USE DEF TimeInv
<1>1. /\ UNCHANGED <<device, files, spoiled>> /\ clock \in Nat
      /\ clock' = clock \/ clock' = clock + 1
  BY DEF Commands, StartBackup, StartRestore, StartInstall, StartMerge, Starts, dir,
         TypeInv, PlaceType
<1>2. Times' /\ UnchangedIsStored'
  BY <1>1 DEF Times, UnchangedIsStored, SameTime, Same, Readable
<1>3. ASSUME NEW kind \in Backups, NEW unsaved \in BOOLEAN, NEW exclude \in {{}, Excluded},
             StartBackup(kind, unsaved, exclude)
      PROVE  TimeInv'
  BY <1>1, <1>2, <1>3 DEF StartBackup, Starts, Op, OnDevice, BeforeWriting, Writing, JustCreated,
     StillThere, Backing, ReadSoFar, ToBeTouched
<1>4. ASSUME clock' = clock + 1, pc' \in {"restore", "conduit", "transfer"},
             op'.kind \notin Backups,
             pc' = "transfer" => task'.what = "merge"
      PROVE  TimeInv'
  BY <1>1, <1>2, <1>4 DEF BeforeWriting, Times, JustCreated, StillThere, Backing, ReadSoFar,
     ToBeTouched
<1>5. CASE StartRestore BY <1>4, <1>5 DEF StartRestore, Starts, Op, Backups
<1>6. ASSUME NEW d \in DBs, StartInstall(d) PROVE TimeInv'
  BY <1>4, <1>6 DEF StartInstall, Starts, Op, Backups
<1>7. ASSUME NEW d \in DBs, StartMerge(d) PROVE TimeInv'
  BY <1>4, <1>7 DEF StartMerge, Starts, Op, Backups, Task
<1> QED BY <1>3, <1>5, <1>6, <1>7 DEF Commands, Backups

(* What an install or merge leaves on the device has its time.             *)
LEMMA WriteStep ==
  ASSUME TypeInv, Transferring, JustCreated, pc = "transfer", pc' = pc,
         task.what # "retrieve"
  PROVE  /\ \A d \in DBs : device'[d] = device[d]
                           \/ (device'[d].there => device'[d].modified = clock)
         /\ JustCreated'
<1>0. task # NoTask /\ TaskType /\ IsCopy(Db) /\ task.db \in DBs /\ clock' = clock
  BY Active DEF TypeInv, DeviceType, Db, Transferring
<1>1. ASSUME NEW x, device' = With(x), x.there => x.modified = clock
      PROVE  \A d \in DBs : device'[d] = device[d]
                            \/ (device'[d].there => device'[d].modified = clock)
  BY <1>0, <1>1 DEF With, TypeInv, DeviceType
<1>2. CASE DeleteOld \/ FailDelete
  <2>1. device' = device \/ device' = With(None)
    BY <1>2 DEF DeleteOld, FailDelete, CallIf, Call, Called, Refused, Breaks, dlp
  <2>2. task'.step # "app"
    BY <1>0, <1>2 DEF DeleteOld, FailDelete, CallIf, Call, Called, Refused, Breaks, Go, Finish,
       TaskType, TaskFields
  <2> QED BY <2>1, <2>2, <1>1 DEF None, JustCreated
<1>3. CASE CreateDB
  <2> DEFINE new == Database(<<>>, 0, clock)
  <2>1. (device' = With(new) /\ Opened("app")) \/ (Finish("failed") /\ device' \in {device, With(new)})
    BY <1>3, Zenon DEF CreateDB, CallIf, Call, Called, Refused, Breaks, dlp
  <2>2. new.there /\ new.modified = clock BY DEF Database
  <2> HIDE DEF new
  <2>3. CASE device' = With(new) /\ Opened("app")
    <3>1. task'.db = task.db BY <2>3, <1>0 DEF Opened, TaskType, TaskFields
    <3>2. Db' = new BY <2>3, <3>1, <1>0, Written1
    <3> QED BY <2>2, <2>3, <3>2, <1>0, <1>1 DEF JustCreated
  <2>4. CASE Finish("failed") /\ device' \in {device, With(new)}
    <3>1. task'.step = "done" BY <2>4, <1>0 DEF Finish, TaskType, TaskFields
    <3> QED BY <2>2, <2>4, <3>1, <1>1 DEF JustCreated
  <2> QED BY <2>1, <2>3, <2>4
<1>4. CASE WriteAppBlock
  <2> DEFINE new == [Db EXCEPT !.app = task.pf.app]
  <2>1. device' = device \/ device' = With(new)
    BY <1>4, Zenon DEF WriteAppBlock, Call, Called, Refused, Breaks, dlp
  <2>2. Db.there /\ Db.modified = clock
    BY <1>4 DEF WriteAppBlock, At, JustCreated
  <2>3. new.modified = clock BY <2>2, <1>0 DEF IsCopy
  <2> HIDE DEF new
  <2>4. task'.step # "app"
    BY <1>0, <1>4 DEF WriteAppBlock, Call, Called, Refused, Breaks, Go, Fail, TaskType, TaskFields
  <2> QED BY <2>1, <2>3, <2>4, <1>1 DEF JustCreated
<1>5. CASE WriteRecord
  <2> DEFINE new == [Db EXCEPT !.recs = Append(@, task.pf.recs[task.j]), !.modified = clock]
  <2>1. device' = device \/ device' = With(new)
    BY <1>5, Zenon DEF WriteRecord, Call, Called, Refused, Breaks, dlp
  <2>2. new.there => new.modified = clock BY <1>0 DEF IsCopy
  <2> HIDE DEF new
  <2>3. task'.step # "app"
    BY <1>0, <1>5 DEF WriteRecord, Call, Called, Refused, Breaks, Fail, TaskType, TaskFields
  <2> QED BY <2>1, <2>2, <2>3, <1>1 DEF JustCreated
<1>6. CASE Precheck \/ CloseWritten \/ FailClose
  <2>1. device' = device /\ task'.step # "app"
    BY <1>0, <1>6 DEF Precheck, CloseWritten, FailClose, Call, Called, Refused, Breaks, dlp,
       Go, Fail, Finish, TaskType, TaskFields
  <2> QED BY <2>1 DEF JustCreated
<1>7. CASE MergeOpen
  <2>1. device' = device
    BY <1>7 DEF MergeOpen, CallIf, Call, Called, Refused, Breaks, dlp
  <2>2. \/ task' = [task EXCEPT !.step = IF TooLarge THEN "fail" ELSE "recs", !.open = TRUE]
        \/ task' = Task("install", task.db, "check", task.pf)
    BY <1>7, Zenon DEF MergeOpen, CallIf, Call, Called, Refused, Breaks
  <2>3. ASSUME NEW s \in {"fail", "recs"}, task' = [task EXCEPT !.step = s, !.open = TRUE]
        PROVE  task'.step # "app"
    BY <2>3, <1>0 DEF TaskType, TaskFields
  <2>4. CASE task' = Task("install", task.db, "check", task.pf) BY <2>1, <2>4 DEF Task, JustCreated
  <2> QED BY <2>1, <2>2, <2>3, <2>4 DEF JustCreated
<1> QED
  BY <1>2, <1>3, <1>4, <1>5, <1>6, <1>7 DEF Transferring, FindDB, OpenToRead, ReadAppBlock,
     ReadRecord, CloseRead, At

(* A retrieve has read the database up to where it is.                     *)
LEMMA ReadStep ==
  ASSUME TypeInv, Transferring, ReadSoFar, pc = "transfer", current' = current,
         task.what = "retrieve"
  PROVE  ReadSoFar'
<1>0. /\ task # NoTask /\ TaskType /\ IsCopy(Db) /\ task.db = current /\ ReadsThere
  BY Active DEF TypeInv, DeviceType, Db, ReadSoFar
<1>1. ASSUME task' # NoTask, task'.db = task.db, device' = device,
             task'.step \in {"find", "open", "app"} => task'.j = 1 /\ task'.pf.recs = <<>>,
             task'.step = "recs" =>
               /\ Len(task'.pf.recs) = task'.j - 1 /\ task'.j <= Len(Db.recs) + 1
               /\ \A i \in 1..(task'.j - 1) : task'.pf.recs[i] = Db.recs[i],
             task'.step = "done" => task'.result = "failed" \/ task'.pf.recs = Db.recs
      PROVE  ReadSoFar'
  BY <1>0, <1>1 DEF ReadSoFar, Db
<1>2. CASE FindDB \/ OpenToRead
  <2>1. device' = device /\ task.step \in {"find", "open"}
        /\ (Go("open") \/ Opened("app") \/ Fail)
    BY <1>2 DEF FindDB, OpenToRead, At, CallIf, Call, Called, Refused, Breaks, dlp
  <2>2. task.j = 1 /\ task.pf.recs = <<>> BY <2>1, <1>0 DEF ReadSoFar
  <2> QED BY <2>1, <2>2, <1>0, <1>1 DEF Go, Opened, Fail, TaskType, TaskFields, NoTask
<1>3. CASE ReadAppBlock
  <2>1. /\ device' = device /\ task.step = "app"
        /\ task' = [task EXCEPT !.step = "recs", !.pf.app = Db.app] \/ Go("recs")
    BY <1>3 DEF ReadAppBlock, At, CallIf, Call, Called, Refused, Breaks, dlp
  <2>2. /\ task'.db = task.db /\ task'.step = "recs" /\ task'.j = task.j /\ task' # NoTask
        /\ task'.pf.recs = task.pf.recs
    <3>1. DOMAIN task = TaskFields /\ DOMAIN task.pf = {"recs", "app", "large"}
      BY <1>0 DEF TaskType
    <3>2. CASE Go("recs")
      BY <3>1, <3>2 DEF Go, TaskFields, NoTask
    <3>3. CASE task' = [task EXCEPT !.step = "recs", !.pf.app = Db.app]
      BY <3>1, <3>3 DEF TaskFields, NoTask
    <3> QED BY <2>1, <3>2, <3>3
  <2>3. Db.recs \in Seq(Recs) BY <2>1, <1>0 DEF ReadsThere, IsCopy, Db, ReadSoFar
  <2> QED BY <2>1, <2>2, <2>3, <1>0, <1>1 DEF ReadSoFar
<1>4. CASE ReadRecord
  <2>1. /\ device' = device /\ task.step = "recs" /\ task.j <= Len(Db.recs)
        /\ Fail \/ task' = [task EXCEPT !.j = @ + 1, !.pf.recs = Append(@, Db.recs[task.j])]
    BY <1>4 DEF ReadRecord, At, Call, Called, Refused, Breaks, dlp
  <2>2. /\ Len(task.pf.recs) = task.j - 1
        /\ \A i \in 1..(task.j - 1) : task.pf.recs[i] = Db.recs[i]
    BY <2>1, <1>0 DEF ReadSoFar
  <2>3. CASE Fail BY <2>1, <2>3, <1>0, <1>1 DEF Fail, TaskType, TaskFields, NoTask
  <2>4. CASE task' = [task EXCEPT !.j = @ + 1, !.pf.recs = Append(@, Db.recs[task.j])]
    <3>1. /\ task'.db = task.db /\ task'.step = "recs" /\ task'.j = task.j + 1
          /\ task' # NoTask /\ task'.pf.recs = Append(task.pf.recs, Db.recs[task.j])
      BY <2>1, <2>4, <1>0 DEF TaskType, TaskFields, NoTask
    <3>2. Db.recs \in Seq(Recs) /\ task.pf.recs \in Seq(Recs) /\ Db.recs[task.j] \in Recs
          /\ task.j \in Nat \ {0}
      BY <2>1, <1>0 DEF ReadsThere, IsCopy, Db, ReadSoFar, TaskType
    <3> DEFINE a == task.pf.recs
               b == Db.recs
               j == task.j
    <3>a. /\ a \in Seq(Recs) /\ b \in Seq(Recs) /\ b[j] \in Recs /\ j \in Nat \ {0}
          /\ j <= Len(b) /\ Len(a) = j - 1 /\ \A i \in 1..(j - 1) : a[i] = b[i]
      BY <2>1, <2>2, <3>2
    <3>b. task'.pf.recs = Append(a, b[j]) /\ task'.j = j + 1
      BY <3>1
    <3> HIDE DEF a, b, j
    <3>c. /\ Len(Append(a, b[j])) = j
          /\ \A i \in 1..j : Append(a, b[j])[i] = b[i]
      BY <3>a
    <3>3. Len(task'.pf.recs) = task'.j - 1 /\ task'.j <= Len(b) + 1
      BY <3>a, <3>b, <3>c
    <3>4. ASSUME NEW i \in 1..(task'.j - 1) PROVE task'.pf.recs[i] = b[i]
      <4>1. i \in 1..j
        BY <3>a, <3>b
      <4> QED BY <3>b, <3>c, <4>1
    <3> USE DEF b
    <3> QED BY <2>1, <3>1, <3>3, <3>4, <1>1
  <2> QED BY <2>1, <2>3, <2>4
<1>5. CASE CloseRead
  <2>1. /\ device' = device /\ task.step = "recs" /\ task.j > Len(Db.recs)
        /\ Finish("ok") \/ Finish("failed")
    BY <1>5 DEF CloseRead, At, Call, Called, Refused, Breaks, dlp
  <2>2. /\ task'.db = task.db /\ task'.step = "done" /\ task' # NoTask
        /\ task'.pf = task.pf
    BY <2>1, <1>0 DEF Finish, TaskType, TaskFields, NoTask
  <2>3. Db.recs \in Seq(Recs) /\ task.pf.recs \in Seq(Recs) /\ task.j \in Nat
    BY <2>1, <1>0 DEF ReadsThere, IsCopy, Db, ReadSoFar, TaskType
  <2>4. Len(task.pf.recs) = Len(Db.recs)
        /\ \A i \in 1..Len(task.pf.recs) : task.pf.recs[i] = Db.recs[i]
    BY <2>1, <2>3, <1>0 DEF ReadSoFar
  <2>5. task.pf.recs = Db.recs BY <2>3, <2>4, SeqEqual
  <2> QED BY <2>1, <2>2, <2>5, <1>1
<1>6. CASE FailClose \/ FailDelete
  <2>1. device' = device /\ task.step = "fail"
        /\ (task' = [task EXCEPT !.open = FALSE] \/ Finish("failed"))
    BY <1>6 DEF FailClose, FailDelete, Deletes, Call, Called, Refused, Breaks, dlp
  <2>2. CASE task' = [task EXCEPT !.open = FALSE]
    BY <2>1, <2>2, <1>0, <1>1 DEF TaskType, TaskFields, NoTask
  <2>3. CASE Finish("failed")
    BY <2>1, <2>3, <1>0, <1>1 DEF Finish, TaskType, TaskFields, NoTask
  <2> QED BY <2>1, <2>2, <2>3
<1> QED
  BY <1>2, <1>3, <1>4, <1>5, <1>6 DEF Transferring, Precheck, DeleteOld, CreateDB,
     WriteAppBlock, MergeOpen, WriteRecord, CloseWritten, At

LEMMA TimeTransfers == ASSUME TypeInv, IInv, TimeInv, Transfers PROVE TimeInv'
<1> USE DEF TimeInv
<1>1. /\ Transferring /\ pc = "transfer" /\ clock' = clock /\ clock \in Nat
      /\ UNCHANGED <<pc, op, current, todo, files, spoiled>>
  BY DEF Transfers, Transferring, command, dir, TypeInv, PlaceType
<1>2. {"what", "step"} \subseteq DOMAIN task /\ (task.what = "retrieve" <=> op.kind \in Backups)
  BY <1>1 DEF IInv, TaskInv
<1>3. BeforeWriting' /\ ToBeTouched'
  BY <1>1 DEF BeforeWriting, Writing, ToBeTouched
<1>4. CASE task.what = "retrieve"
  <2>1. device' = device /\ task'.what = "retrieve" BY <1>1, <1>2, <1>4, TransferStep
  <2>2. ReadSoFar' BY <1>1, <1>4, ReadStep
  <2>3. Times' /\ StillThere' /\ UnchangedIsStored' /\ JustCreated'
    BY <1>1, <2>1 DEF Times, StillThere, Backing, UnchangedIsStored, SameTime, Same, Readable,
       JustCreated
  <2> QED BY <1>3, <2>2, <2>3
<1>5. CASE task.what # "retrieve"
  <2>1. /\ \A d \in DBs : device'[d] = device[d]
                          \/ (device'[d].there => device'[d].modified = clock)
        /\ JustCreated'
    BY <1>1, <1>5, WriteStep
  <2>2. task'.what # "retrieve" BY <1>1, <1>2, <1>5, TransferStep
  <2>3. ReadSoFar' /\ StillThere'
    BY <1>1, <1>2, <1>5, <2>2 DEF ReadSoFar, StillThere, Backing
  <2>4. clock > 0 /\ \A d \in DBs : files[d].there => files[d].mtime < clock
    BY <1>1, <1>2, <1>5 DEF BeforeWriting, Writing
  <2>5. Times'
    BY <1>1, <2>1, <2>4 DEF Times
  <2>6. UnchangedIsStored'
    BY <1>1, <2>1, <2>4 DEF UnchangedIsStored, SameTime, Same, Readable, Times
  <2> QED BY <1>3, <2>1, <2>3, <2>5, <2>6
<1> QED BY <1>4, <1>5

(* A file that is written has no time yet.                                 *)
LEMMA NewFile ==
  ASSUME TypeInv, Times, UnchangedIsStored, current \in DBs, NEW f, FileIs(f),
         f.there => f.mtime = 0, device' = device, clock' = clock,
         spoiled \ {current} \subseteq spoiled'
  PROVE  Times' /\ UnchangedIsStored'
<1>1. files'[current] = f /\ \A d \in DBs \ {current} : files'[d] = files[d]
  BY DEF FileIs, FileOf, TypeInv, FilesType
<1>2. clock \in Nat BY DEF TypeInv, PlaceType
<1>3. Times' BY <1>1, <1>2 DEF Times
<1>4. UnchangedIsStored'
  BY <1>1 DEF UnchangedIsStored, SameTime, Same, Readable, Times
<1> QED BY <1>3, <1>4

LEMMA TimeFiles ==
  ASSUME TypeInv, IInv, TimeInv, CloseFile \/ UnlinkFailed PROVE TimeInv'
<1> USE DEF TimeInv
<1>1. /\ pc = "transfer" /\ task.what = "retrieve" /\ task.step = "done" /\ task # NoTask
      /\ task.db = current /\ op.kind \in Backups /\ current \in DBs
      /\ pc' = "touch" /\ task' = NoTask
      /\ UNCHANGED <<device, clock, op, current, todo>>
  BY DEF CloseFile, UnlinkFailed, Done, ReadSoFar, IInv, TaskInv, TypeInv, PlaceType, Backing
<1>2. BeforeWriting' /\ JustCreated' /\ StillThere' /\ ReadSoFar'
  BY <1>1 DEF BeforeWriting, Writing, JustCreated, StillThere, Backing, ReadSoFar
<1>3. ASSUME NEW f, FileIs(f), f.there => f.mtime = 0, spoiled \ {current} \subseteq spoiled',
             current \in spoiled' \/ ~f.there
                \/ (f.there /\ f.readable /\ Content(f) = Content(device[current]))
      PROVE  TimeInv'
  <2>1. Times' /\ UnchangedIsStored' BY <1>1, <1>3, NewFile
  <2>2. files'[current] = f /\ device[current].there
    BY <1>1, <1>3 DEF FileIs, FileOf, TypeInv, FilesType, StillThere, Backing
  <2>3. ToBeTouched' BY <1>1, <1>3, <2>2 DEF ToBeTouched, Same, Readable
  <2> QED BY <1>2, <2>1, <2>3
<1>4. CASE UnlinkFailed
  BY <1>3, <1>4 DEF UnlinkFailed, Unlinked, None
<1>5. CASE CloseFile
  <2>1. task.pf.recs = device[current].recs
    BY <1>1, <1>5 DEF CloseFile, Done, ReadSoFar, Db
  <2>2. \A b : LET f == File(task.pf, b) IN
          f.there /\ f.mtime = 0 /\ f.readable = b /\ f.recs = task.pf.recs /\ f.app = task.pf.app
    BY DEF File
  <2>3. CASE FileIs(File(task.pf, TRUE))
             /\ spoiled' = (IF task.pf.app = device[current].app THEN spoiled \ {current}
                            ELSE spoiled \cup {current})
    <3>1. spoiled \ {current} \subseteq spoiled'
          /\ (current \in spoiled' \/ task.pf.app = device[current].app)
      BY <2>3
    <3> QED BY <2>1, <2>2, <2>3, <3>1, <1>3 DEF Content
  <2>4. CASE spoiled' = spoiled \cup {current} /\ FileIs(File(task.pf, FALSE))
    BY <2>2, <2>4, <1>3
  <2>5. CASE spoiled' = spoiled \cup {current} /\ FileIs(None)
    BY <2>5, <1>3 DEF None
  <2> QED BY <1>5, <2>3, <2>4, <2>5 DEF CloseFile
<1> QED BY <1>4, <1>5

LEMMA TimeTouch == ASSUME TypeInv, IInv, TimeInv, Touch PROVE TimeInv'
<1> USE DEF TimeInv
<1>1. /\ pc = "touch" /\ pc' = "list" /\ op.kind \in Backups /\ current \in DBs
      /\ device[current].there
      /\ UNCHANGED <<device, clock, task, spoiled, op, current, todo>>
  BY DEF Touch, transfers, IInv, KindInv, StillThere, TypeInv, PlaceType, Backing
<1>2. BeforeWriting' /\ JustCreated' /\ StillThere' /\ ReadSoFar' /\ ToBeTouched'
  BY <1>1 DEF BeforeWriting, Writing, JustCreated, StillThere, Backing, ReadSoFar, ToBeTouched
<1>3. CASE files' = files
  BY <1>1, <1>2, <1>3 DEF Times, UnchangedIsStored, SameTime, Same, Readable
<1>4. CASE files[current].there
           /\ FileIs([files[current] EXCEPT !.mtime = device[current].modified])
  <2>1. \A d \in DBs \ {current} : files'[d] = files[d]
    BY <1>4 DEF FileIs, FileOf, TypeInv, FilesType
  <2>2. files'[current].there /\ files'[current].mtime = device[current].modified
        /\ files'[current].readable = files[current].readable
        /\ Content(files'[current]) = Content(files[current])
    BY <1>1, <1>4 DEF FileIs, FileOf, TypeInv, FilesType, IsFile, Content
  <2>3. Times' BY <1>1, <2>1, <2>2 DEF Times
  <2>4. UnchangedIsStored'
    BY <1>1, <1>4, <2>1, <2>2 DEF UnchangedIsStored, SameTime, Same, Readable, ToBeTouched
  <2> QED BY <1>2, <2>3, <2>4
<1> QED BY <1>3, <1>4 DEF Touch

LEMMA TimeOthers ==
  ASSUME TypeInv, IInv, InstallInv, TimeInv,
         \/ ListNext \/ ListEnd \/ ListUnconnected \/ OpenConduit \/ Skip \/ Retrieve
         \/ RestoreNext \/ RestoreEnd \/ Installed \/ Menu
  PROVE  TimeInv'
<1> USE DEF TimeInv
<1>1. UNCHANGED <<device, clock, files, spoiled>>
  BY DEF ListNext, ListEnd, ListUnconnected, OpenConduit, Skip, Retrieve, RestoreNext,
         RestoreEnd, Installed, Menu, Call, Called, Refused, Breaks, dlp, transfers, dir
<1>2. Times' /\ UnchangedIsStored'
  BY <1>1 DEF Times, UnchangedIsStored, SameTime, Same, Readable
<1> DEFINE Rest == BeforeWriting /\ JustCreated /\ StillThere /\ ReadSoFar /\ ToBeTouched
<1> SUFFICES Rest' BY <1>2
<1> USE <1>1 DEF BeforeWriting, Writing, JustCreated, StillThere, Backing, ReadSoFar,
                 ToBeTouched, IInv, KindInv, Backups
<1>3. CASE ListNext
  BY <1>3 DEF ListNext, Call, Called, Refused, Breaks, dlp, Fields
<1>4. CASE ListEnd \/ ListUnconnected
  BY <1>4 DEF ListEnd, ListUnconnected, Exits, transfers, Fields
<1>5. CASE OpenConduit
  <2>1. /\ pc = "conduit" /\ UNCHANGED <<task, current, todo>>
        /\ \/ pc' = (IF op.kind = "install" THEN "transfer" ELSE "examine") /\ op' = op
           \/ pc' = "ended"
    BY <1>5 DEF OpenConduit, Call, Called, Refused, Breaks, dlp, Exits
  <2>2. pc' = "transfer" => task.what # "retrieve" /\ task.step # "app"
    BY <2>1 DEF InstallInv, Installing
  <2> QED BY <2>1, <2>2
<1>6. CASE Skip BY <1>6 DEF Skip, transfers
<1>7. CASE Retrieve BY <1>7 DEF Retrieve, Task, Nothing, NoTask, Db
<1>8. CASE RestoreNext BY <1>8 DEF RestoreNext, Task
<1>9. CASE RestoreEnd \/ Menu BY <1>9 DEF RestoreEnd, Menu, Ends, Exits
<1>10. CASE Installed
  BY <1>10 DEF Installed, Ends, Exits, transfers, TaskInv
<1> QED BY <1>3, <1>4, <1>5, <1>6, <1>7, <1>8, <1>9, <1>10

LEMMA TimeEnds ==
  ASSUME TypeInv, IInv, TimeInv, Tidy \/ Killed \/ Idle \/ UNCHANGED vars PROVE TimeInv'
<1> USE DEF TimeInv
<1>1. CASE Tidy
  <2>1. /\ pc' = "ended" /\ UNCHANGED <<device, clock, task>>
        /\ \A d \in DBs : files'[d] = None \/ (files'[d] = files[d] /\ (d \in spoiled' <=> d \in spoiled))
    BY <1>1 DEF Tidy, transfers
  <2>2. Times' BY <2>1 DEF Times, None
  <2>3. UnchangedIsStored'
    BY <2>1 DEF UnchangedIsStored, SameTime, Same, Readable, None
  <2> QED BY <2>1, <2>2, <2>3 DEF BeforeWriting, Writing, JustCreated, StillThere, Backing,
     ReadSoFar, ToBeTouched
<1>2. CASE Killed
  <2>1. pc' = "ended" /\ UNCHANGED <<device, clock>> BY <1>2 DEF Killed, Exits
  <2>2. Times' /\ UnchangedIsStored'
    <3>1. CASE UNCHANGED dir
      BY <2>1, <3>1 DEF dir, Times, UnchangedIsStored, SameTime, Same, Readable
    <3>2. CASE Done("retrieve", "ok") /\ spoiled' = spoiled \cup {current}
               /\ (FileIs(File(task.pf, FALSE)) \/ FileIs(None))
      <4>1. current \in DBs
        BY <3>2 DEF Done, IInv, TaskInv, TypeInv, PlaceType, Backing
      <4>2. File(task.pf, FALSE).mtime = 0 BY DEF File
      <4> QED BY <2>1, <3>2, <4>1, <4>2, NewFile DEF None
    <3> QED BY <1>2, <3>1, <3>2 DEF Killed
  <2> QED BY <2>1, <2>2 DEF BeforeWriting, Writing, JustCreated, StillThere, Backing,
     ReadSoFar, ToBeTouched
<1>3. CASE Idle \/ UNCHANGED vars
  BY <1>3 DEF Idle, vars, transfers, command, dir, Times, BeforeWriting, Writing, JustCreated,
     StillThere, Backing, ReadSoFar, ToBeTouched, UnchangedIsStored, SameTime, Same, Readable, Db
<1> QED BY <1>1, <1>2, <1>3

LEMMA TimeNext == ASSUME TypeInv, IInv, InstallInv, TimeInv, [Next]_vars PROVE TimeInv'
  BY TimeUser, TimeCommands, TimeTransfers, TimeFiles, TimeTouch, TimeOthers, TimeEnds
     DEF Next, Steps

(* A file that has the time of its database holds all of it, unless it was *)
(* once written without: what palm_backup skips for its time would not be  *)
(* different if it were retrieved (pilot-xfer.c:485).  It rests on each    *)
(* operation having a time of its own and on palm_backup setting the time  *)
(* of a file after it has read all of the database.                        *)
THEOREM UnchangedIsStoredCorrect == Spec => []UnchangedIsStored
<1> DEFINE Inv == IInv /\ TypeInv /\ InstallInv /\ TimeInv
<1>1. Init => Inv BY InitInv, TypeInit, InstallInit, TimeInit
<1>2. Inv /\ [Next]_vars => Inv' BY NextInv, TypeNext, InstallNext, TimeNext
<1>3. Inv => UnchangedIsStored BY DEF TimeInv
<1> HIDE DEF Inv
<1> QED BY <1>1, <1>2, <1>3, PTL DEF Spec
-----------------------------------------------------------------------------
(* What else TypeOK says: the bounds, and what a function knows of the     *)
(* handle that it has to close.                                            *)
Bounded ==
  /\ clock \in 0..MaxClock /\ failed \in 0..MaxFailures /\ connected \in BOOLEAN
  /\ spoiled \subseteq DBs /\ orig \subseteq DBs
  /\ pc \in {"menu", "list", "conduit", "examine", "transfer", "touch", "tidy",
             "restore", "ended"}
  /\ pc # "menu" => op.kind \in Kinds

Handle ==
  task # NoTask =>
    /\ task.what \in {"retrieve", "install", "merge"}
    /\ task.step \in {"app", "recs"} => task.open
    /\ task.open => task.step \in {"app", "recs", "fail", "done"}

Tasked == pc = "transfer" => task # NoTask

HandleInv == Bounded /\ Handle /\ Tasked

LEMMA TransferFaults ==
  ASSUME Transferring
  PROVE  \/ UNCHANGED <<failed, connected>>
         \/ failed < MaxFailures /\ failed' = failed + 1 /\ connected' \in {connected, FALSE}
BY Zenon DEF Transferring, FindDB, OpenToRead, ReadAppBlock, ReadRecord, CloseRead,
   Precheck, DeleteOld, CreateDB, WriteAppBlock, MergeOpen, WriteRecord, CloseWritten,
   FailClose, FailDelete, CallIf, Call, Called, Refused, Breaks, dlp

LEMMA HandleStep == ASSUME TypeInv, Handle, Transferring PROVE Handle'
<1>0. task # NoTask /\ DOMAIN task = TaskFields
  BY Active DEF TypeInv, TaskType
<1>1. /\ task.what \in {"retrieve", "install", "merge"}
      /\ task.step \in {"app", "recs"} => task.open
      /\ task.open => task.step \in {"app", "recs", "fail", "done"}
  BY <1>0 DEF Handle
<1>2. ASSUME NEW s, Go(s), s \in {"app", "recs"} => task.open,
             task.open => s \in {"app", "recs", "fail", "done"}
      PROVE  Handle'
  BY <1>0, <1>1, <1>2 DEF Go, Handle, TaskFields
<1>3. ASSUME NEW s \in {"app", "recs"}, Opened(s) PROVE Handle'
  BY <1>0, <1>1, <1>3 DEF Opened, Handle, TaskFields
<1>4. ASSUME NEW r, Finish(r) PROVE Handle'
  BY <1>0, <1>1, <1>4 DEF Finish, Handle, TaskFields
<1>5. CASE Fail
  BY <1>0, <1>1, <1>5 DEF Fail, Handle, TaskFields
<1>6. CASE FindDB
  BY <1>1, <1>2, <1>5, <1>6 DEF FindDB, At, CallIf, Call, Called, Refused, Breaks
<1>7. CASE OpenToRead
  BY <1>3, <1>5, <1>7 DEF OpenToRead, CallIf, Call, Called, Refused, Breaks
<1>8. CASE ReadAppBlock
  <2>1. task.step = "app" /\ (Go("recs") \/ task' = [task EXCEPT !.step = "recs", !.pf.app = Db.app])
    BY <1>8 DEF ReadAppBlock, At, CallIf, Call, Called, Refused, Breaks
  <2>2. CASE Go("recs")
    BY <1>1, <1>2, <2>1, <2>2
  <2>3. CASE task' = [task EXCEPT !.step = "recs", !.pf.app = Db.app]
    BY <1>0, <1>1, <2>1, <2>3 DEF Handle, TaskFields
  <2> QED BY <2>1, <2>2, <2>3
<1>9. CASE ReadRecord
  <2>1. task.step = "recs"
        /\ (Fail \/ task' = [task EXCEPT !.j = @ + 1, !.pf.recs = Append(@, Db.recs[task.j])])
    BY <1>9 DEF ReadRecord, At, Call, Called, Refused, Breaks
  <2>2. CASE task' = [task EXCEPT !.j = @ + 1, !.pf.recs = Append(@, Db.recs[task.j])]
    BY <1>0, <1>1, <2>1, <2>2 DEF Handle, TaskFields
  <2> QED BY <1>5, <2>1, <2>2
<1>10. CASE CloseRead \/ CloseWritten \/ FailDelete
  BY <1>4, <1>10 DEF CloseRead, CloseWritten, FailDelete, CallIf, Call, Called, Refused, Breaks
<1>11. CASE Precheck \/ DeleteOld
  BY <1>1, <1>2, <1>5, <1>11 DEF Precheck, DeleteOld, At, CallIf, Call, Called, Refused, Breaks
<1>12. CASE CreateDB
  BY <1>3, <1>4, <1>12 DEF CreateDB, CallIf, Call, Called, Refused, Breaks
<1>13. CASE WriteAppBlock
  BY <1>1, <1>2, <1>5, <1>13 DEF WriteAppBlock, At, Call, Called, Refused, Breaks
<1>14. CASE MergeOpen
  <2>1. \/ task' = [task EXCEPT !.step = IF TooLarge THEN "fail" ELSE "recs", !.open = TRUE]
        \/ task' = Task("install", task.db, "check", task.pf)
    BY <1>14, Zenon DEF MergeOpen, CallIf, Call, Called, Refused, Breaks
  <2>2. CASE task' = Task("install", task.db, "check", task.pf)
    BY <2>2 DEF Handle, Task
  <2>3. ASSUME NEW s \in {"fail", "recs"}, task' = [task EXCEPT !.step = s, !.open = TRUE]
        PROVE  Handle'
    BY <1>0, <1>1, <2>3 DEF Handle, TaskFields
  <2>4. (IF TooLarge THEN "fail" ELSE "recs") \in {"fail", "recs"}
    OBVIOUS
  <2> QED BY <2>1, <2>2, <2>3, <2>4
<1>15. CASE WriteRecord
  <2>1. Fail \/ task' = [task EXCEPT !.j = @ + 1]
    BY <1>15 DEF WriteRecord, Call, Called, Refused, Breaks
  <2>2. CASE task' = [task EXCEPT !.j = @ + 1]
    BY <1>0, <1>1, <2>2 DEF Handle, TaskFields
  <2> QED BY <1>5, <2>1, <2>2
<1>16. CASE FailClose
  <2>1. task.step = "fail" /\ task' = [task EXCEPT !.open = FALSE]
    BY <1>16 DEF FailClose, Call, Called, Refused, Breaks
  <2> QED BY <1>0, <1>1, <2>1 DEF Handle, TaskFields
<1> QED
  BY <1>6, <1>7, <1>8, <1>9, <1>10, <1>11, <1>12, <1>13, <1>14, <1>15, <1>16 DEF Transferring

LEMMA HandleInit == ASSUME Init PROVE HandleInv
  BY XferAssumption, TransferAssumption DEF Init, HandleInv, Bounded, Handle, Tasked

LEMMA HandleKeeps ==
  ASSUME HandleInv, task' = task \/ task' = NoTask, pc' = "transfer" => task' # NoTask
  PROVE  Handle' /\ Tasked'
  BY DEF HandleInv, Handle, Tasked

LEMMA HandleBegins ==
  ASSUME NEW what \in {"retrieve", "install", "merge"}, NEW d, NEW c,
         NEW s \in {"find", "check", "open"}, task' = Task(what, d, s, c)
  PROVE  Handle' /\ Tasked'
  BY DEF Handle, Tasked, Task, NoTask

LEMMA HandleNext ==
  ASSUME TypeInv, IInv, InstallInv, HandleInv, [Next]_vars PROVE HandleInv'
<1>0. MaxClock \in Nat /\ MaxFailures \in Nat /\ clock \in 0..MaxClock /\ failed \in 0..MaxFailures
      /\ clock \in Nat /\ failed \in Nat
  BY XferAssumption, TransferAssumption DEF HandleInv, Bounded
<1>b. connected \in BOOLEAN
  BY DEF HandleInv, Bounded
<1>1. CASE Transfers
  <2>1. /\ Transferring /\ pc = "transfer"
        /\ UNCHANGED <<pc, op, orig, spoiled, clock>>
    BY <1>1 DEF Transfers, Transferring, command, dir
  <2>2. Handle'
    BY <2>1, HandleStep DEF HandleInv
  <2>3. task' # NoTask
    <3>1. {"what", "step"} \subseteq DOMAIN task'
      BY <2>1, TransferStep DEF IInv, TaskInv
    <3>2. DOMAIN NoTask = {"step"}
      BY DEF NoTask
    <3> QED BY <3>1, <3>2
  <2>4. Bounded'
    <3>1. \/ UNCHANGED <<failed, connected>>
          \/ failed < MaxFailures /\ failed' = failed + 1 /\ connected' \in {connected, FALSE}
      BY <2>1, TransferFaults
    <3>2. failed' \in 0..MaxFailures
      <4>1. failed' = failed \/ (failed < MaxFailures /\ failed' = failed + 1)
        BY <3>1
      <4> QED BY ONLY <1>0, <4>1
    <3>3. connected' = connected \/ connected' = FALSE
      BY <3>1
    <3>4. connected' \in BOOLEAN
      BY <1>b, <3>3, Zenon
    <3> QED BY <2>1, <3>2, <3>4 DEF HandleInv, Bounded
  <2> QED BY <2>2, <2>3, <2>4 DEF HandleInv, Tasked
<1>2. CASE Commands
  <2>1. ASSUME NEW kind \in Backups, NEW unsaved \in BOOLEAN, NEW exclude \in {{}, Excluded},
               StartBackup(kind, unsaved, exclude)
        PROVE  HandleInv'
    <3>1. Handle' /\ Tasked'
      BY <2>1, HandleKeeps DEF StartBackup
    <3>2. Bounded'
      BY <1>0, <2>1 DEF StartBackup, Starts, Op, Stored, dir, HandleInv, Bounded, Backups, Kinds
    <3> QED BY <3>1, <3>2 DEF HandleInv
  <2>2. ASSUME UNCHANGED <<failed, connected, spoiled, orig>>,
               clock < MaxClock /\ clock' = clock + 1, op'.kind \in Kinds,
               pc' \in {"restore", "conduit", "transfer"}
        PROVE  Bounded'
    BY <1>0, <2>2 DEF HandleInv, Bounded
  <2>3. CASE StartRestore
    <3>1. Handle' /\ Tasked'
      BY <2>3, HandleKeeps DEF StartRestore
    <3>2. Bounded'
      BY <2>2, <2>3 DEF StartRestore, Starts, Op, dir, Kinds
    <3> QED BY <3>1, <3>2 DEF HandleInv
  <2>4. ASSUME NEW d \in DBs, StartInstall(d) PROVE HandleInv'
    <3>1. Handle' /\ Tasked'
      BY <2>4, HandleBegins DEF StartInstall
    <3>2. Bounded'
      BY <2>2, <2>4 DEF StartInstall, Starts, Op, dir, Kinds
    <3> QED BY <3>1, <3>2 DEF HandleInv
  <2>5. ASSUME NEW d \in DBs, StartMerge(d) PROVE HandleInv'
    <3>1. Handle' /\ Tasked'
      BY <2>5, HandleBegins DEF StartMerge
    <3>2. Bounded'
      BY <2>2, <2>5 DEF StartMerge, Starts, Op, dir, Kinds
    <3> QED BY <3>1, <3>2 DEF HandleInv
  <2> QED BY <1>2, <2>1, <2>3, <2>4, <2>5 DEF Commands, Backups
<1>3. CASE User
  <2>1. /\ clock < MaxClock /\ clock' = clock + 1 /\ pc' = "menu"
        /\ UNCHANGED <<failed, connected, task, orig>> /\ spoiled' \subseteq spoiled
    BY <1>3 DEF User, Edit, Loses, Download, Ticks, command, dir, dlp
  <2>2. Bounded'
    BY <1>0, <1>b, <2>1 DEF HandleInv, Bounded
  <2>3. Handle' /\ Tasked'
    BY <2>1, HandleKeeps
  <2> QED BY <2>2, <2>3 DEF HandleInv
<1>4. CASE ListNext \/ ListEnd \/ ListUnconnected \/ OpenConduit \/ Skip \/ Touch
  <2>1. /\ UNCHANGED <<clock, task, spoiled>> /\ orig' \subseteq orig
        /\ \/ UNCHANGED <<failed, connected>>
           \/ failed < MaxFailures /\ failed' = failed + 1 /\ connected' \in {connected, FALSE}
    BY <1>4 DEF ListNext, ListEnd, ListUnconnected, OpenConduit, Skip, Touch, Kept,
       transfers, dir, Call, Called, Refused, Breaks, dlp
  <2>2. /\ pc # "menu" /\ op'.kind = op.kind
        /\ pc' \in {"list", "conduit", "examine", "transfer", "tidy", "ended"}
        /\ pc' = "transfer" => pc = "conduit" /\ op.kind = "install"
    BY <1>4 DEF ListNext, ListEnd, ListUnconnected, OpenConduit, Skip, Touch,
       transfers, dir, Call, Called, Refused, Breaks, dlp, Exits, IInv, Fields
  <2>3. Bounded'
    <3>1. failed' \in 0..MaxFailures
      <4>1. failed' = failed \/ (failed < MaxFailures /\ failed' = failed + 1)
        BY <2>1
      <4> QED BY ONLY <1>0, <4>1
    <3>2. connected' = connected \/ connected' = FALSE
      BY <2>1
    <3>3. connected' \in BOOLEAN
      BY <1>b, <3>2, Zenon
    <3> QED BY <2>1, <2>2, <3>1, <3>3 DEF HandleInv, Bounded
  <2>4. pc' = "transfer" => task # NoTask
    BY <2>2 DEF InstallInv, Installing
  <2> QED BY <2>1, <2>3, <2>4, HandleKeeps DEF HandleInv
<1>5. CASE Retrieve \/ RestoreNext
  <2>1. Handle' /\ Tasked'
    BY <1>5, HandleBegins DEF Retrieve, RestoreNext
  <2>2. Bounded'
    BY <1>5 DEF Retrieve, RestoreNext, Kept, dir, HandleInv, Bounded
  <2> QED BY <2>1, <2>2 DEF HandleInv
<1>6. CASE CloseFile \/ UnlinkFailed \/ Killed
  <2>1. /\ pc # "menu" /\ pc' \in {"touch", "ended"} /\ (task' = task \/ task' = NoTask)
        /\ UNCHANGED <<clock, connected, orig>> /\ op'.kind = op.kind
    BY <1>6 DEF CloseFile, UnlinkFailed, Killed, Done, Exits, IInv, Fields
  <2>2. failed' = failed \/ (failed < MaxFailures /\ failed' = failed + 1)
    BY <1>6 DEF CloseFile, UnlinkFailed, Killed
  <2>3. spoiled' \in {spoiled, spoiled \ {current}, spoiled \cup {current}}
    BY <1>6 DEF CloseFile, UnlinkFailed, Killed, dir
  <2>4. spoiled' # spoiled => current \in DBs \/ spoiled' \subseteq spoiled
    BY <1>6, <2>3 DEF CloseFile, UnlinkFailed, Killed, dir, Done, IInv, TaskInv, TypeInv,
       PlaceType, Backing
  <2>5. Bounded'
    BY <1>0, <2>1, <2>2, <2>3, <2>4 DEF HandleInv, Bounded
  <2> QED BY <2>1, <2>5, HandleKeeps DEF HandleInv
<1>7. CASE Tidy \/ RestoreEnd \/ Installed
  <2>1. /\ pc # "menu" /\ pc' \in {"restore", "ended"} /\ spoiled' \subseteq spoiled
        /\ UNCHANGED <<clock, connected, failed, task, orig>> /\ op'.kind = op.kind
    BY <1>7 DEF Tidy, RestoreEnd, Installed, Exits, Ends, IInv, Fields, transfers, dir
  <2>2. Bounded'
    BY <2>1 DEF HandleInv, Bounded
  <2> QED BY <2>1, <2>2, HandleKeeps DEF HandleInv
<1>8. CASE Menu
  <2>1. Bounded'
    BY <1>0, <1>8 DEF Menu, dir, HandleInv, Bounded
  <2> QED BY <1>8, <2>1, HandleKeeps DEF Menu, HandleInv
<1>9. CASE Idle \/ UNCHANGED vars
  <2>1. UNCHANGED vars
    BY <1>9 DEF Idle
  <2> QED BY <2>1 DEF vars, transfers, command, dir, HandleInv, Bounded, Handle, Tasked
<1> QED
  BY <1>1, <1>2, <1>3, <1>4, <1>5, <1>6, <1>7, <1>8, <1>9 DEF Next, Steps

(* Whatever fails and whenever the program is killed, the state keeps its  *)
(* types, and a function that has opened a database knows of the handle    *)
(* that it has to close (pi-file.c).                                       *)
THEOREM TypeCorrect == Spec => []TypeOK
<1> DEFINE Inv == IInv /\ TypeInv /\ InstallInv /\ TimeInv /\ HandleInv
<1>1. Init => Inv BY InitInv, TypeInit, InstallInit, TimeInit, HandleInit
<1>2. Inv /\ [Next]_vars => Inv' BY NextInv, TypeNext, InstallNext, TimeNext, HandleNext
<1>3. Inv => TypeOK
  <2> SUFFICES ASSUME Inv PROVE TypeOK
    OBVIOUS
  <2>1. \A d \in DBs : device[d].there => device[d].modified \in 1..clock
    BY DEF TimeInv, Times, TypeInv, PlaceType
  <2>2. todo \subseteq DBs
    BY DEF TypeInv, PlaceType
  <2>3. ASSUME pc = "transfer"
        PROVE  /\ task.what \in {"retrieve", "install", "merge"}
               /\ task.what = "retrieve" => task.db = current
               /\ task.step \in {"app", "recs"} => task.open
               /\ task.open => task.step \in {"app", "recs", "fail", "done"}
    BY <2>3 DEF HandleInv, Handle, Tasked, TimeInv, ReadSoFar
  <2> QED BY <2>1, <2>2, <2>3 DEF TypeOK, HandleInv, Bounded
<1> HIDE DEF Inv
<1> QED BY <1>1, <1>2, <1>3, PTL DEF Spec
-----------------------------------------------------------------------------
(* As long as no call has failed, each has succeeded.  A backup then has   *)
(* stored what it has listed, but for what it is at.                       *)
Unbroken == failed = 0 => connected

BackSoFar ==
  Backing /\ failed = 0 =>
    /\ op.listing # "broken"
    /\ \A d \in DBs \ (op.exclude \cup spoiled) : device[d].there /\ ~LeftOut(d) =>
         d \in todo \/ Same(d) \/ (d = current /\ pc \notin {"list", "tidy"})
    /\ pc = "transfer" => task.step # "fail" /\ (task.step = "done" => task.result = "ok")
    /\ pc = "touch" => files[current].there
    /\ op.kind = "sync" => \A d \in DBs : files[d].there => d \in orig \/ device[d].there

(* And an install is at what it has to do next.                            *)
Flawless ==
  \/ task.step \in {"check", "delete"} /\ task.j = 1
  \/ task.step = "create" /\ task.j = 1 /\ ~Db.there
  \/ task.step = "app" /\ task.j = 1 /\ Db.there /\ Db.recs = <<>> /\ Db.app = 0
  \/ task.step = "recs" /\ Begun
  \/ task.step = "done" /\ Db.there /\ Content(Db) = Content(task.pf)

Restorable == \A d \in DBs : files[d].there => files[d].readable
Fits(d) == files[d].there /\ ~(OldDevice /\ files[d].large)

RestoredSoFar ==
  op.kind = "restore" /\ pc \in {"restore", "transfer"} /\ failed = 0 =>
    /\ Restorable => \A d \in DBs : Fits(d) =>
         d \in todo \/ (pc = "transfer" /\ d = task.db) \/ Same(d)
    /\ pc = "transfer" =>
         /\ task.what = "install" /\ Content(task.pf) = Content(files[task.db])
         /\ task.pf.large = files[task.db].large
         /\ ~TooLarge => Flawless

(* A retrieve of a database that is there succeeds unless a call fails.    *)
LEMMA RetrieveGoesOn ==
  ASSUME TypeInv, Transferring, task.what = "retrieve", task.step # "fail", Db.there,
         failed \in Nat, connected, failed' = 0, failed = 0
  PROVE  task'.step # "fail" /\ (task'.step = "done" => task'.result = "ok")
<1>0. task # NoTask /\ DOMAIN task = TaskFields
  BY Active DEF TypeInv, TaskType
<1>1. ASSUME NEW s, task' = [task EXCEPT !.step = s], s \notin {"fail", "done"}
      PROVE  task'.step # "fail" /\ (task'.step = "done" => task'.result = "ok")
  BY <1>0, <1>1 DEF TaskFields
<1>2. CASE FindDB
  <2>1. Go("open")
    BY <1>2 DEF FindDB, CallIf, Call, Called, Refused, Breaks
  <2> QED BY <1>1, <2>1 DEF Go
<1>3. CASE OpenToRead
  <2>1. Opened("app")
    BY <1>3 DEF OpenToRead, CallIf, Call, Called, Refused, Breaks
  <2> QED BY <1>0, <2>1 DEF Opened, TaskFields
<1>4. CASE ReadAppBlock
  <2>1. Go("recs") \/ task' = [task EXCEPT !.step = "recs", !.pf.app = Db.app]
    BY <1>4 DEF ReadAppBlock, CallIf, Call, Called, Refused, Breaks
  <2>2. CASE Go("recs")
    BY <1>1, <2>2 DEF Go
  <2>3. CASE task' = [task EXCEPT !.step = "recs", !.pf.app = Db.app]
    BY <1>0, <2>3 DEF TaskFields
  <2> QED BY <2>1, <2>2, <2>3
<1>5. CASE ReadRecord
  <2>1. task' = [task EXCEPT !.j = @ + 1, !.pf.recs = Append(@, Db.recs[task.j])]
        /\ task.step = "recs"
    BY <1>5 DEF ReadRecord, At, Call, Called, Refused, Breaks
  <2> QED BY <1>0, <2>1 DEF TaskFields
<1>6. CASE CloseRead
  <2>1. Finish("ok")
    BY <1>6 DEF CloseRead, Call, Called, Refused, Breaks
  <2> QED BY <1>0, <2>1 DEF Finish, TaskFields
<1> QED
  BY <1>2, <1>3, <1>4, <1>5, <1>6 DEF Transferring, Precheck, DeleteOld, CreateDB,
     WriteAppBlock, MergeOpen, WriteRecord, CloseWritten, FailClose, FailDelete, At

(* Only failures are counted.                                              *)
LEMMA UnbrokenNext ==
  ASSUME failed \in Nat, Unbroken, [Next]_vars
  PROVE  Unbroken' /\ (pc' # "menu" /\ failed' = 0 => failed = 0 /\ connected)
<1>1. ASSUME UNCHANGED <<failed, connected>>
             \/ (failed' = failed + 1 /\ connected' \in {connected, FALSE})
      PROVE  Unbroken' /\ (failed' = 0 => failed = 0 /\ connected)
  <2>1. failed + 1 # 0
    OBVIOUS
  <2>2. failed' = 0 => UNCHANGED <<failed, connected>>
    BY <1>1, <2>1, Zenon
  <2> QED BY <2>2, Zenon DEF Unbroken
<1>2. CASE Transfers
  BY <1>1, <1>2, TransferFaults DEF Transfers
<1>3. CASE Steps /\ ~Transfers /\ ~Menu
  <2>1. UNCHANGED <<failed, connected>> \/ (failed' = failed + 1 /\ connected' \in {connected, FALSE})
    BY <1>3 DEF Steps, ListNext, ListEnd, ListUnconnected, OpenConduit, Skip, Retrieve,
       CloseFile, UnlinkFailed, Touch, Tidy, RestoreNext, RestoreEnd, Installed, transfers,
       Call, Called, Refused, Breaks, dlp
  <2> QED BY <1>1, <2>1
<1>4. CASE Menu
  BY <1>4 DEF Menu, Unbroken
<1>5. CASE Commands \/ User \/ Killed \/ Idle \/ UNCHANGED vars
  <2>1. UNCHANGED <<failed, connected>> \/ (failed' = failed + 1 /\ connected' = connected)
    BY <1>5 DEF Commands, StartBackup, StartRestore, StartInstall, StartMerge, Starts, User,
       Edit, Loses, Download, Killed, Idle, vars, transfers, dlp
  <2> QED BY <1>1, <2>1
<1> QED BY <1>2, <1>3, <1>4, <1>5 DEF Next

LEMMA BackCommands == ASSUME Commands PROVE BackSoFar'
<1>1. ASSUME NEW kind \in Backups, NEW unsaved \in BOOLEAN, NEW exclude \in {{}, Excluded},
             StartBackup(kind, unsaved, exclude)
      PROVE  BackSoFar'
  <2>1. /\ device' = device /\ files' = files /\ pc' = "list" /\ todo' = OnDevice
        /\ op' = Op(kind, unsaved, exclude) /\ (kind # "backup" => orig' = Stored)
    BY <1>1 DEF StartBackup, Starts, dir
  <2>2. op'.kind = kind /\ op'.listing = "on"
    BY <2>1 DEF Op
  <2> QED BY <2>1, <2>2 DEF BackSoFar, OnDevice, Stored
<1>2. CASE \/ StartRestore
           \/ \E d \in DBs : StartInstall(d) \/ StartMerge(d)
  <2>1. op'.kind \notin Backups
    BY <1>2 DEF StartRestore, StartInstall, StartMerge, Starts, Op, Backups
  <2> QED BY <2>1 DEF BackSoFar, Backing
<1> QED BY <1>1, <1>2 DEF Commands, Backups

LEMMA BackList ==
  ASSUME IInv, TimeInv, BackSoFar, failed' = 0 => failed = 0 /\ connected, failed \in Nat,
         ListNext \/ ListEnd \/ ListUnconnected \/ OpenConduit
  PROVE  BackSoFar'
<1> SUFFICES ASSUME Backing', failed' = 0 PROVE BackSoFar'
  BY DEF BackSoFar
<1>1. UNCHANGED <<device, files, spoiled, orig, task>> /\ failed = 0 /\ connected
  BY DEF ListNext, ListEnd, ListUnconnected, OpenConduit, transfers, dir,
     Call, Called, Refused, Breaks, dlp
<1>2. \A d \in DBs : Same(d)' <=> Same(d)
  BY <1>1 DEF Same, Readable
<1>3. CASE ListNext
  <2>1. PICK d \in todo : /\ pc = "list" /\ pc' = "conduit" /\ current' = d
                          /\ todo' = todo \ {d} /\ op' = op
    BY <1>1, <1>3 DEF ListNext, Call, Called, Refused, Breaks
  <2>2. op.kind \in Backups
    BY <2>1 DEF IInv, KindInv
  <2> QED BY <1>1, <1>2, <2>1, <2>2 DEF BackSoFar, Backing, LeftOut
<1>4. CASE ListEnd
  <2>1. pc = "list" /\ pc' = "tidy" /\ op' = [op EXCEPT !.listing = "end"]
        /\ UNCHANGED <<current, todo>>
    BY <1>4 DEF ListEnd
  <2>2. op.kind \in Backups /\ DOMAIN op = {"kind", "unsaved", "exclude", "before", "listing", "exit", "removed"}
    BY <2>1 DEF IInv, KindInv, Fields
  <2>3. op'.kind = op.kind /\ op'.unsaved = op.unsaved /\ op'.exclude = op.exclude
        /\ op'.listing = "end"
    BY <2>1, <2>2
  <2> QED BY <1>1, <1>2, <2>1, <2>2, <2>3 DEF BackSoFar, Backing, LeftOut
<1>5. CASE ListUnconnected
  BY <1>5 DEF ListUnconnected, Exits, Backing
<1>6. CASE OpenConduit
  <2>1. pc = "conduit" /\ op' = op /\ UNCHANGED <<current, todo>>
        /\ pc' = IF op.kind = "install" THEN "transfer" ELSE "examine"
    BY <1>1, <1>6 DEF OpenConduit, Exits, Call, Called, Refused, Breaks, Backing
  <2>2. op.kind \in Backups /\ op.kind # "install"
    BY <2>1 DEF Backing, Backups
  <2> QED BY <1>1, <1>2, <2>1, <2>2 DEF BackSoFar, Backing, LeftOut
<1> QED BY <1>3, <1>4, <1>5, <1>6

LEMMA BackExamine ==
  ASSUME TypeInv, IInv, TimeInv, BackSoFar, failed' = 0 => failed = 0 /\ connected,
         Skip \/ Retrieve
  PROVE  BackSoFar'
<1> SUFFICES ASSUME failed' = 0 PROVE BackSoFar'
  BY DEF BackSoFar
<1>1. /\ UNCHANGED <<device, files, spoiled, op, current, todo>> /\ failed = 0
      /\ pc = "examine" /\ op.kind \in Backups /\ orig \ {current} \subseteq orig'
  BY DEF Skip, Retrieve, transfers, dir, IInv, KindInv, Kept
<1>2. \A d \in DBs : Same(d)' <=> Same(d)
  BY <1>1 DEF Same, Readable
<1>3. device[current].there /\ current \in DBs
  BY <1>1 DEF TimeInv, StillThere, Backing, TypeInv, PlaceType
<1>4. BackSoFar /\ Backing
  BY <1>1 DEF Backing
<1>5. ASSUME op.kind = "sync", NEW d \in DBs, files[d].there PROVE d \in orig' \/ device[d].there
  BY <1>1, <1>3, <1>4, <1>5 DEF BackSoFar
<1>6. CASE Skip
  <2>1. current \in op.exclude \/ LeftOut(current) \/ Unchanged(current)
    BY <1>6 DEF Skip
  <2>2. Unchanged(current) /\ current \notin spoiled => Same(current)
    BY <1>3 DEF Unchanged, TimeInv, UnchangedIsStored
  <2>3. pc' = "list"
    BY <1>6 DEF Skip
  <2>4. ASSUME NEW d \in DBs \ (op.exclude \cup spoiled), device[d].there, ~LeftOut(d)
        PROVE  d \in todo \/ Same(d)
    BY <1>1, <1>4, <2>1, <2>2, <2>4 DEF BackSoFar
  <2> QED BY <1>1, <1>2, <1>4, <1>5, <2>3, <2>4 DEF BackSoFar, Backing, LeftOut
<1>7. CASE Retrieve
  <2>1. pc' = "transfer" /\ task' = Task("retrieve", current, "find", Nothing)
    BY <1>7 DEF Retrieve
  <2>2. task'.step = "find"
    BY <2>1 DEF Task
  <2> QED BY <1>1, <1>2, <1>4, <1>5, <2>1, <2>2 DEF BackSoFar, Backing, LeftOut
<1> QED BY <1>6, <1>7

LEMMA BackTransfers ==
  ASSUME TypeInv, IInv, TimeInv, BackSoFar, failed' = 0 => failed = 0 /\ connected, Transfers
  PROVE  BackSoFar'
<1> SUFFICES ASSUME Backing', failed' = 0 PROVE BackSoFar'
  BY DEF BackSoFar
<1>1. /\ Transferring /\ pc = "transfer" /\ failed = 0 /\ connected
      /\ UNCHANGED <<files, spoiled, op, current, todo, orig, pc>>
  BY DEF Transfers, command, dir
<1>2. Backing /\ task.what = "retrieve"
  BY <1>1 DEF Backing, IInv, TaskInv
<1>3. Db.there
  <2>1. task.db = current
    BY <1>1, <1>2 DEF TimeInv, ReadSoFar
  <2>2. device[current].there
    BY <1>1, <1>2 DEF TimeInv, StillThere
  <2> QED BY <2>1, <2>2 DEF Db
<1>4. task'.step # "fail" /\ (task'.step = "done" => task'.result = "ok")
  <2>1. task.step # "fail"
    BY <1>1, <1>2 DEF BackSoFar
  <2> QED BY <1>1, <1>2, <1>3, <2>1, RetrieveGoesOn
<1>5. device' = device
  <2>1. {"what", "step"} \subseteq DOMAIN task
    BY <1>1 DEF IInv, TaskInv
  <2> QED BY <1>1, <1>2, <2>1, TransferStep
<1>6. \A d \in DBs : Same(d)' <=> Same(d)
  BY <1>1, <1>5 DEF Same, Readable
<1> QED BY <1>1, <1>2, <1>4, <1>5, <1>6 DEF BackSoFar, LeftOut

LEMMA BackFiles ==
  ASSUME TypeInv, IInv, TimeInv, BackSoFar, failed' = 0 => failed = 0 /\ connected,
         CloseFile \/ UnlinkFailed
  PROVE  BackSoFar'
<1> SUFFICES ASSUME failed' = 0 PROVE BackSoFar'
  BY DEF BackSoFar
<1>1. /\ UNCHANGED <<device, op, current, todo, orig>> /\ failed = 0
      /\ pc = "transfer" /\ pc' = "touch" /\ task.what = "retrieve" /\ task.step = "done"
  BY DEF CloseFile, UnlinkFailed, Done
<1>2. Backing
  BY <1>1 DEF Backing, IInv, TaskInv
<1>3. device[current].there /\ current \in DBs
  BY <1>1, <1>2 DEF TimeInv, StillThere, TypeInv, PlaceType
<1>4. CASE CloseFile
  <2>1. FileIs(File(task.pf, TRUE)) /\ spoiled \ {current} \subseteq spoiled'
    <3>1. failed' # failed + 1
      BY <1>1
    <3>2. /\ FileIs(File(task.pf, TRUE))
          /\ spoiled' = (IF task.pf.app = device[current].app THEN spoiled \ {current}
                         ELSE spoiled \cup {current})
      BY <1>4, <3>1, Zenon DEF CloseFile
    <3> QED BY <3>2
  <2>2. files'[current].there /\ \A d \in DBs \ {current} : files'[d] = files[d]
    BY <1>3, <2>1 DEF FileIs, FileOf, File, TypeInv, FilesType
  <2>3. \A d \in DBs \ {current} : Same(d)' <=> Same(d)
    BY <1>1, <2>2 DEF Same, Readable
  <2> QED BY <1>1, <1>2, <1>3, <2>1, <2>2, <2>3 DEF BackSoFar, Backing, LeftOut
<1>5. CASE UnlinkFailed
  BY <1>1, <1>2, <1>5 DEF UnlinkFailed, Done, BackSoFar
<1> QED BY <1>4, <1>5

LEMMA BackTouch ==
  ASSUME TypeInv, IInv, TimeInv, BackSoFar, failed' = 0 => failed = 0 /\ connected, Touch
  PROVE  BackSoFar'
<1> SUFFICES ASSUME failed' = 0 PROVE BackSoFar'
  BY DEF BackSoFar
<1>1. /\ UNCHANGED <<device, op, current, todo, orig, spoiled>> /\ failed = 0
      /\ pc = "touch" /\ pc' = "list" /\ op.kind \in Backups
  BY DEF Touch, transfers, IInv, KindInv
<1>2. Backing
  BY <1>1 DEF Backing
<1>3. files[current].there /\ current \in DBs
  BY <1>1, <1>2 DEF BackSoFar, TypeInv, PlaceType
<1>4. FileIs([files[current] EXCEPT !.mtime = device[current].modified])
  BY <1>3 DEF Touch
<1>5. /\ \A d \in DBs \ {current} : files'[d] = files[d]
      /\ files'[current].there /\ files'[current].readable = files[current].readable
      /\ Content(files'[current]) = Content(files[current])
  BY <1>3, <1>4 DEF FileIs, FileOf, TypeInv, FilesType, IsFile, Content
<1>6. \A d \in DBs : (Same(d)' <=> Same(d)) /\ (files'[d].there <=> files[d].there)
  BY <1>1, <1>3, <1>5 DEF Same, Readable
<1>7. current \notin spoiled => Same(current)
  BY <1>1, <1>3 DEF TimeInv, ToBeTouched
<1> QED BY <1>1, <1>2, <1>6, <1>7 DEF BackSoFar, Backing, LeftOut

LEMMA BackNext ==
  ASSUME TypeInv, IInv, TimeInv, Unbroken, BackSoFar, [Next]_vars PROVE BackSoFar'
<1>0. failed \in Nat /\ (pc' # "menu" /\ failed' = 0 => failed = 0 /\ connected)
  BY UnbrokenNext DEF TypeInv, PlaceType
<1>1. CASE pc' \in {"menu", "ended"}
  BY <1>1 DEF BackSoFar, Backing
<1>2. ASSUME pc' \notin {"menu", "ended"}, Steps PROVE BackSoFar'
  <2>0. failed' = 0 => failed = 0 /\ connected
    BY <1>0, <1>2
  <2>1. CASE RestoreNext \/ Installed
    <3>1. op'.kind = op.kind /\ op.kind \notin Backups
      BY <1>2, <2>1 DEF RestoreNext, Installed, Ends, Exits, IInv, KindInv, TaskInv, Backups
    <3> QED BY <3>1 DEF BackSoFar, Backing
  <2> QED
    BY <1>0, <1>2, <2>0, <2>1, BackList, BackExamine, BackTransfers, BackFiles, BackTouch
       DEF Steps, Tidy, RestoreEnd, Ends, Exits, Menu
<1>3. CASE Commands
  BY <1>3, BackCommands
<1>4. CASE User \/ Killed \/ Idle
  <2>1. pc' \in {"menu", "ended"}
    BY <1>4 DEF User, Edit, Loses, Download, Ticks, Killed, Exits, Idle, vars, command
  <2> QED BY <1>1, <2>1
<1>5. CASE UNCHANGED vars
  BY <1>5 DEF vars, transfers, command, dir, BackSoFar, Backing, LeftOut, Same, Readable
<1> QED BY <1>1, <1>2, <1>3, <1>4, <1>5 DEF Next

-----------------------------------------------------------------------------
(* An install that nothing refuses, step by step.                          *)
LEMMA FlawlessStep ==
  ASSUME TypeInv, Transferring, task.what = "install", ~TooLarge, Flawless,
         failed = 0, failed' = 0, connected
  PROVE  Flawless'
<1>0. task # NoTask /\ TaskType /\ IsCopy(Db) /\ failed \in Nat
  BY Active DEF TypeInv, DeviceType, Db, PlaceType
<1>1. CASE Precheck
  BY <1>0, <1>1 DEF Precheck, At, Go, Flawless, TaskType, TaskFields
<1>2. CASE DeleteOld
  <2>1. /\ task.step = "delete" /\ Go("create") /\ task.j = 1
        /\ IF Db.there THEN device' = With(None) ELSE device' = device
    <3>1. task.step = "delete" /\ task.j = 1
      BY <1>2 DEF DeleteOld, At, Flawless
    <3>2. CASE Db.there
      <4>1. Call(With(None), Go("create"), Go("create"))
        BY <1>2, <3>2, Zenon DEF DeleteOld, CallIf
      <4>2. device' = With(None) /\ Go("create")
        BY <4>1, <1>0 DEF Call, Called, Refused, Breaks
      <4> QED BY <3>1, <3>2, <4>2
    <3>3. CASE ~Db.there
      <4>1. Refused(Go("create"))
        BY <1>2, <3>3, Zenon DEF DeleteOld, CallIf
      <4> QED BY <3>1, <3>3, <4>1 DEF Refused, dlp
    <3> QED BY <3>2, <3>3
  <2>2. task'.db = task.db /\ task'.step = "create" /\ task'.j = 1
    BY <2>1, <1>0 DEF Go, TaskType, TaskFields
  <2>3. ~Db'.there
    <3>1. CASE device' = With(None)
      BY <3>1, <2>2, <1>0, Written1 DEF None
    <3>2. CASE device' = device /\ ~Db.there
      BY <3>2, <2>2 DEF Db
    <3> QED BY <2>1, <3>1, <3>2
  <2> QED BY <2>2, <2>3 DEF Flawless
<1>3. CASE CreateDB
  <2> DEFINE new == Database(<<>>, 0, clock)
  <2>1. task.step = "create" /\ task.j = 1 /\ ~Db.there
    BY <1>3 DEF CreateDB, At, Flawless
  <2>2. device' = With(new) /\ Opened("app")
    <3>1. Call(With(new), Opened("app"), Finish("failed"))
      BY <1>3, <2>1, Zenon DEF CreateDB, CallIf
    <3> HIDE DEF new
    <3> QED BY <3>1, <1>0 DEF Call, Called, Refused, Breaks
  <2>3. task'.db = task.db /\ task'.step = "app" /\ task'.j = 1
    BY <2>1, <2>2, <1>0 DEF Opened, TaskType, TaskFields
  <2>4. Db' = new
    BY <2>2, <2>3, <1>0, Written1
  <2> QED BY <2>3, <2>4 DEF Flawless, Database
<1>4. CASE WriteAppBlock
  <2> DEFINE new == [Db EXCEPT !.app = task.pf.app]
  <2>1. task.step = "app" /\ task.j = 1 /\ Db.there /\ Db.recs = <<>> /\ Db.app = 0
    BY <1>4 DEF WriteAppBlock, At, Flawless
  <2>2. Go("recs") /\ (device' = With(new) \/ (task.pf.app = 0 /\ device' = device))
    <3>1. CASE task.pf.app = 0
      BY <1>4, <3>1, Zenon DEF WriteAppBlock, dlp
    <3>2. CASE task.pf.app # 0
      <4>1. Call(With(new), Go("recs"), Fail)
        BY <1>4, <3>2, Zenon DEF WriteAppBlock
      <4> HIDE DEF new
      <4> QED BY <4>1, <1>0 DEF Call, Called, Refused, Breaks
    <3> QED BY <3>1, <3>2
  <2>3. task'.db = task.db /\ task'.step = "recs" /\ task'.j = 1 /\ task'.pf = task.pf
    BY <2>1, <2>2, <1>0 DEF Go, TaskType, TaskFields
  <2>4. Db' = new \/ (task.pf.app = 0 /\ Db' = Db)
    BY <2>2, <2>3, <1>0, Written1 DEF Db
  <2>5. Db'.there /\ Db'.recs = <<>> /\ Db'.app = task.pf.app
    BY <2>1, <2>4, <1>0 DEF IsCopy
  <2>6. Begun'
    BY <2>3, <2>5, <1>0 DEF Begun, TaskType
  <2> QED BY <2>3, <2>6 DEF Flawless
<1>5. CASE WriteRecord
  <2> DEFINE new == [Db EXCEPT !.recs = Append(@, task.pf.recs[task.j]), !.modified = clock]
  <2>1. task.step = "recs" /\ Begun /\ task.j <= Len(task.pf.recs)
    BY <1>5 DEF WriteRecord, Flawless
  <2>2. device' = With(new) /\ task' = [task EXCEPT !.j = @ + 1]
    <3>1. Call(With(new), task' = [task EXCEPT !.j = @ + 1], Fail)
      BY <1>5, Zenon DEF WriteRecord
    <3> HIDE DEF new
    <3> QED BY <3>1, <1>0 DEF Call, Called, Refused, Breaks
  <2>3. task'.db = task.db /\ task'.step = "recs" /\ task'.j = task.j + 1 /\ task'.pf = task.pf
    BY <2>1, <2>2, <1>0 DEF TaskType, TaskFields
  <2>4. Db' = new
    BY <2>2, <2>3, <1>0, Written1
  <2>5. Begun'
    BY <2>1, <2>3, <2>4, <1>0, BegunOn
  <2> QED BY <2>3, <2>5 DEF Flawless
<1>6. CASE CloseWritten
  <2>1. task.step = "recs" /\ Begun /\ task.j > Len(task.pf.recs)
    BY <1>6 DEF CloseWritten, Flawless
  <2>2. device' = device /\ Finish("ok")
    BY <1>6, <1>0 DEF CloseWritten, Call, Called, Refused, Breaks, dlp
  <2>3. task'.step = "done" /\ task'.pf = task.pf /\ Db' = Db
    BY <2>2, <1>0 DEF Finish, TaskType, TaskFields, Db
  <2>4. Db.recs = task.pf.recs
    BY <2>1, <1>0, BegunAll
  <2> QED BY <2>1, <2>3, <2>4 DEF Flawless, Content, Begun
<1> QED
  BY <1>1, <1>2, <1>3, <1>4, <1>5, <1>6 DEF Transferring, FindDB, OpenToRead, ReadAppBlock,
     ReadRecord, CloseRead, MergeOpen, FailClose, FailDelete, At, Flawless

(* An operation on the device is for one database.                         *)
LEMMA OthersStay ==
  ASSUME TypeInv, Transferring PROVE \A d \in DBs \ {task.db} : device'[d] = device[d]
<1>1. device' = device \/ \E x : device' = With(x)
  <2>1. CASE DeleteOld \/ FailDelete
    BY <2>1 DEF DeleteOld, FailDelete, CallIf, Call, Called, Refused, Breaks, dlp
  <2>2. CASE CreateDB
    BY <2>2 DEF CreateDB, CallIf, Call, Called, Refused, Breaks, dlp
  <2>3. CASE WriteAppBlock
    BY <2>3 DEF WriteAppBlock, Call, Called, Refused, Breaks, dlp
  <2>4. CASE WriteRecord
    BY <2>4 DEF WriteRecord, Call, Called, Refused, Breaks, dlp
  <2>5. device' = device \/ DeleteOld \/ FailDelete \/ CreateDB \/ WriteAppBlock \/ WriteRecord
    BY DEF Transferring, FindDB, OpenToRead, ReadAppBlock, ReadRecord, CloseRead, Precheck,
           MergeOpen, CloseWritten, FailClose, CallIf, Call, Called, Refused, Breaks, dlp
  <2> QED BY <2>1, <2>2, <2>3, <2>4, <2>5
<1>2. ASSUME NEW x, device' = With(x) PROVE \A d \in DBs \ {task.db} : device'[d] = device[d]
  BY <1>2 DEF With, TypeInv, DeviceType
<1> QED BY <1>1, <1>2

LEMMA RestoredTransfers ==
  ASSUME TypeInv, IInv, RestoredSoFar, failed' = 0 => failed = 0 /\ connected, Transfers
  PROVE  RestoredSoFar'
<1> SUFFICES ASSUME op'.kind = "restore", failed' = 0 PROVE RestoredSoFar'
  BY DEF RestoredSoFar
<1>1. /\ Transferring /\ pc = "transfer" /\ failed = 0 /\ connected
      /\ UNCHANGED <<files, op, todo, pc>>
  BY DEF Transfers, command, dir
<1>2. task # NoTask
  BY <1>1, Active
<1>3. /\ Restorable => \A d \in DBs : Fits(d) => d \in todo \/ d = task.db \/ Same(d)
      /\ task.what = "install" /\ Content(task.pf) = Content(files[task.db])
      /\ task.pf.large = files[task.db].large
      /\ ~TooLarge => Flawless
  BY <1>1 DEF RestoredSoFar
<1>4. task'.db = task.db /\ task'.what = "install" /\ task'.pf = task.pf
  BY <1>1, <1>2, <1>3, InstallKeeps DEF TypeInv
<1>5. ASSUME NEW d \in DBs, d # task.db PROVE Same(d)' <=> Same(d)
  BY <1>1, <1>5, OthersStay DEF Same, Readable
<1>6. TooLarge' <=> TooLarge
  BY <1>4 DEF TooLarge
<1>7. ~TooLarge => Flawless'
  BY <1>1, <1>3, FlawlessStep
<1>8. Restorable' => \A d \in DBs : Fits(d)' => d \in todo' \/ d = task'.db \/ Same(d)'
  BY <1>1, <1>3, <1>4, <1>5 DEF Restorable, Fits
<1>9. Content(task'.pf) = Content(files'[task'.db]) /\ task'.pf.large = files'[task'.db].large
  BY <1>1, <1>3, <1>4 DEF Content
<1> QED BY <1>1, <1>4, <1>6, <1>7, <1>8, <1>9 DEF RestoredSoFar

LEMMA RestoredMoves ==
  ASSUME TypeInv, IInv, RestoredSoFar, failed' = 0 => failed = 0 /\ connected,
         RestoreNext \/ Installed
  PROVE  RestoredSoFar'
<1>1. /\ UNCHANGED <<device, files, failed>>
      /\ \A d \in DBs : (Same(d)' <=> Same(d)) /\ (Fits(d)' <=> Fits(d))
      /\ Restorable' <=> Restorable
  BY DEF RestoreNext, Installed, transfers, dir, Same, Readable, Fits, Restorable
<1>2. CASE RestoreNext
  <2>1. PICK d \in todo : /\ pc = "restore" /\ pc' = "transfer" /\ todo' = todo \ {d} /\ op' = op
                          /\ task' = Task("install", d, "check", Loaded(d))
    BY <1>2 DEF RestoreNext
  <2>2. /\ task'.what = "install" /\ task'.db = d /\ task'.step = "check" /\ task'.j = 1
        /\ Content(task'.pf) = Content(files'[d]) /\ task'.pf.large = files'[d].large
    BY <1>1, <2>1 DEF Task, Loaded, Content
  <2>3. op.kind = "restore"
    BY <2>1 DEF IInv, KindInv
  <2>4. Flawless'
    BY <2>2 DEF Flawless
  <2>5. failed' = 0 /\ Restorable' =>
          \A e \in DBs : Fits(e)' => e \in todo' \/ e = task'.db \/ Same(e)'
    BY <1>1, <2>1, <2>2, <2>3 DEF RestoredSoFar
  <2> QED BY <2>1, <2>2, <2>4, <2>5 DEF RestoredSoFar
<1>3. CASE Installed
  <2>1. /\ pc = "transfer" /\ task.step = "done" /\ task' = task /\ todo' = todo
        /\ op.kind = "restore" => pc' = "restore" /\ op' = op
        /\ op.kind # "restore" => pc' = "ended"
    BY <1>3 DEF Installed, Ends, Exits, transfers
  <2>2. ASSUME op.kind = "restore", failed = 0, Restorable, NEW d \in DBs, Fits(d)
        PROVE  d \in todo \/ Same(d)
    <3>1. /\ d \in todo \/ d = task.db \/ Same(d)
          /\ Content(task.pf) = Content(files[task.db]) /\ task.pf.large = files[task.db].large
          /\ ~TooLarge => Flawless
      BY <2>1, <2>2 DEF RestoredSoFar
    <3>2. CASE d = task.db
      <4>1. ~TooLarge
        BY <2>2, <3>1, <3>2 DEF Fits, TooLarge
      <4>2. Db.there /\ Content(Db) = Content(task.pf)
        BY <2>1, <3>1, <4>1 DEF Flawless
      <4> QED BY <2>2, <3>1, <3>2, <4>2 DEF Same, Readable, Restorable, Fits, Db
    <3> QED BY <3>1, <3>2
  <2> QED BY <1>1, <2>1, <2>2 DEF RestoredSoFar
<1> QED BY <1>2, <1>3

LEMMA RestoredCommands == ASSUME Commands PROVE RestoredSoFar'
<1>1. CASE StartRestore
  <2>1. /\ pc' = "restore" /\ UNCHANGED <<files, device>>
        /\ (\A d \in Stored : Readable(d)) => todo' = Stored
    BY <1>1 DEF StartRestore, Starts, dir
  <2>2. Restorable' => \A d \in DBs : Fits(d)' => d \in todo'
    BY <2>1 DEF Restorable, Stored, Readable, Fits
  <2> QED BY <2>1, <2>2 DEF RestoredSoFar
<1>2. CASE ~StartRestore
  <2>1. op'.kind # "restore"
    BY <1>2 DEF Commands, StartBackup, StartInstall, StartMerge, Starts, Op
  <2> QED BY <2>1 DEF RestoredSoFar
<1> QED BY <1>1, <1>2

LEMMA RestoredNext ==
  ASSUME TypeInv, IInv, Unbroken, RestoredSoFar, [Next]_vars PROVE RestoredSoFar'
<1>0. failed \in Nat /\ (pc' # "menu" /\ failed' = 0 => failed = 0 /\ connected)
  BY UnbrokenNext DEF TypeInv, PlaceType
<1>1. CASE pc' \in {"menu", "ended"}
  BY <1>1 DEF RestoredSoFar
<1>2. ASSUME pc' \notin {"menu", "ended"}, Transfers \/ RestoreNext \/ Installed
      PROVE  RestoredSoFar'
  BY <1>0, <1>2, RestoredTransfers, RestoredMoves
<1>3. CASE ListNext \/ ListEnd \/ ListUnconnected \/ OpenConduit \/ Skip \/ Retrieve
           \/ CloseFile \/ UnlinkFailed \/ Touch \/ Tidy
  <2>1. op'.kind = op.kind /\ op.kind \in Backups \cup {"install"}
    BY <1>3 DEF ListNext, ListEnd, ListUnconnected, OpenConduit, Skip, Retrieve, CloseFile,
       UnlinkFailed, Touch, Tidy, Done, IInv, KindInv, TaskInv, Fields, Exits, Call, Called,
       Refused, Breaks, dlp
  <2> QED BY <2>1 DEF RestoredSoFar, Backups
<1>4. CASE Commands
  BY <1>4, RestoredCommands
<1>5. CASE RestoreEnd \/ Menu \/ User \/ Killed \/ Idle
  <2>1. pc' \in {"menu", "ended"}
    BY <1>5 DEF RestoreEnd, Ends, Menu, User, Edit, Loses, Download, Ticks, Killed, Exits,
       Idle, vars, command
  <2> QED BY <1>1, <2>1
<1>6. CASE UNCHANGED vars
  <2>1. UNCHANGED <<device, files, pc, op, todo, failed, task>>
    BY <1>6 DEF vars, transfers, command, dir
  <2> QED BY <2>1 DEF RestoredSoFar, Restorable, Fits, Same, Readable, Content, TooLarge,
             Flawless, Begun, Db
<1> QED BY <1>1, <1>2, <1>3, <1>4, <1>5, <1>6 DEF Next, Steps

-----------------------------------------------------------------------------
LEMMA CompleteTidy ==
  ASSUME TypeInv, IInv, BackSoFar, failed = 0, Tidy PROVE BackedUp' /\ Restored'
<1>1. /\ pc = "tidy" /\ pc' = "ended" /\ UNCHANGED <<device, todo>> /\ op.kind \in Backups
      /\ DOMAIN op = {"kind", "unsaved", "exclude", "before", "listing", "exit", "removed"}
  BY DEF Tidy, transfers, IInv, KindInv, Fields
<1> DEFINE gone == IF op.kind = "sync" THEN orig ELSE {}
<1>2. /\ files' = [d \in DBs |-> IF d \in gone THEN None ELSE files[d]]
      /\ spoiled' = spoiled \ gone
      /\ op' = [op EXCEPT !.removed = gone, !.exit = "normal"]
  BY DEF Tidy
<1>3. op'.kind = op.kind /\ op'.exclude = op.exclude /\ op'.unsaved = op.unsaved
  BY <1>1, <1>2
<1>4. Backing /\ todo = {}
  BY <1>1 DEF Backing, BackSoFar, IInv, ListedAll
<1>5. \A d \in gone : ~device[d].there \/ LeftOut(d)
  BY <1>1, <1>4 DEF BackSoFar, IInv, Accounted
<1>6. ASSUME NEW d \in OnDevice' \ (op'.exclude \cup spoiled'), ~LeftOut(d)' PROVE Same(d)'
  <2>1. device[d].there /\ ~LeftOut(d) /\ d \in DBs \ op.exclude
    BY <1>1, <1>3, <1>6 DEF OnDevice, LeftOut
  <2>2. d \notin gone
    BY <1>5, <2>1
  <2>3. d \notin spoiled /\ files'[d] = files[d]
    BY <1>2, <1>6, <2>1, <2>2
  <2>4. Same(d)
    BY <1>1, <1>4, <2>1, <2>3 DEF BackSoFar
  <2> QED BY <1>1, <2>3, <2>4 DEF Same, Readable
<1>7. ASSUME op'.kind = "sync" PROVE Stored' \subseteq OnDevice'
  <2> SUFFICES ASSUME NEW d \in DBs, files'[d].there PROVE device'[d].there
    BY DEF Stored, OnDevice
  <2>1. d \notin orig /\ files[d].there
    BY <1>2, <1>3, <1>7 DEF None
  <2> QED BY <1>1, <1>3, <1>4, <1>7, <2>1 DEF BackSoFar
<1>8. op'.kind # "restore"
  BY <1>1, <1>3 DEF Backups
<1> QED BY <1>6, <1>7, <1>8 DEF BackedUp, Restored

LEMMA CompleteRestore ==
  ASSUME IInv, RestoredSoFar, failed = 0, RestoreEnd PROVE BackedUp' /\ Restored'
<1>1. /\ pc = "restore" /\ todo = {} /\ op.kind = "restore" /\ op'.kind = "restore"
      /\ UNCHANGED <<device, files>>
  BY DEF RestoreEnd, Ends, Exits, transfers, dir, IInv, KindInv, Fields
<1>2. Restorable => \A d \in DBs : Fits(d) => Same(d)
  BY <1>1 DEF RestoredSoFar
<1>3. Restored'
  BY <1>1, <1>2 DEF Restored, Restorable, Fits, Same, Readable, Stored
<1> QED BY <1>1, <1>3 DEF BackedUp

LEMMA CompleteNext ==
  ASSUME TypeInv, IInv, TimeInv, Unbroken, BackSoFar, RestoredSoFar, Complete, [Next]_vars
  PROVE  Complete'
<1>0. failed \in Nat /\ (pc' # "menu" /\ failed' = 0 => failed = 0 /\ connected)
  BY UnbrokenNext DEF TypeInv, PlaceType
<1>1. CASE Tidy
  <2>1. pc' = "ended"
    BY <1>1 DEF Tidy
  <2> QED BY <1>0, <1>1, <2>1, CompleteTidy DEF Complete, Clean
<1>2. CASE RestoreEnd
  <2>1. pc' = "ended"
    BY <1>2 DEF RestoreEnd, Ends, Exits
  <2> QED BY <1>0, <1>2, <2>1, CompleteRestore DEF Complete, Clean
<1>3. CASE Installed
  <2>1. pc' = "restore" \/ (op'.kind = op.kind /\ op.kind \notin Backups \cup {"restore"})
    BY <1>3 DEF Installed, Ends, Exits, IInv, TaskInv, Fields, Backups
  <2> QED BY <2>1 DEF Complete, AtEnd, BackedUp, Restored, Backups
<1>4. ASSUME pc' = "ended" => \E how \in {"failure", "killed"} : Exits(how),
             pc # "menu"
      PROVE  Complete'
  <2>1. ASSUME NEW how \in {"failure", "killed"}, Exits(how) PROVE op'.exit # "normal"
    BY <1>4, <2>1 DEF Exits, IInv, Fields
  <2> QED BY <1>4, <2>1 DEF Complete, AtEnd, Clean
<1>5. CASE ListNext \/ ListEnd \/ ListUnconnected \/ OpenConduit \/ Skip \/ Retrieve
           \/ Transfers \/ CloseFile \/ UnlinkFailed \/ Touch \/ RestoreNext \/ Killed
  BY <1>4, <1>5 DEF ListNext, ListEnd, ListUnconnected, OpenConduit, Skip, Retrieve, Transfers,
     CloseFile, UnlinkFailed, Touch, RestoreNext, Killed, Call, Called, Refused, Breaks, dlp,
     Done, command
<1>6. CASE Menu \/ Commands \/ User \/ Idle
  <2>1. pc' # "ended"
    BY <1>6 DEF Menu, Commands, StartBackup, StartRestore, StartInstall, StartMerge, Starts,
       User, Edit, Loses, Download, Ticks, Idle, vars, command
  <2> QED BY <2>1 DEF Complete, AtEnd
<1>7. CASE UNCHANGED vars
  <2>1. UNCHANGED <<device, files, spoiled, pc, op, failed>>
    BY <1>7 DEF vars, transfers, command, dir
  <2> QED BY <2>1 DEF Complete, AtEnd, Clean, BackedUp, Restored, OnDevice, Stored, LeftOut,
             Same, Readable, Content
<1> QED BY <1>1, <1>2, <1>3, <1>5, <1>6, <1>7 DEF Next, Steps

(* After a backup, an update or a sync in which no call failed, every      *)
(* database of the device that is not left out is in the directory, and    *)
(* after a sync no other is; after such a restore every file is on the     *)
(* device (palm_backup and palm_restore).                                  *)
THEOREM CompleteCorrect == Spec => []Complete
<1> DEFINE Inv == /\ IInv /\ TypeInv /\ InstallInv /\ TimeInv
                  /\ Unbroken /\ BackSoFar /\ RestoredSoFar /\ Complete
<1>1. Init => Inv
  <2>1. Init => Unbroken /\ BackSoFar /\ RestoredSoFar /\ Complete
    BY DEF Init, Unbroken, BackSoFar, Backing, RestoredSoFar, Complete, AtEnd
  <2> QED BY <2>1, InitInv, TypeInit, InstallInit, TimeInit
<1>2. Inv /\ [Next]_vars => Inv'
  <2> SUFFICES ASSUME Inv, [Next]_vars PROVE Inv'
    OBVIOUS
  <2>1. IInv' /\ TypeInv' /\ InstallInv' /\ TimeInv'
    BY NextInv, TypeNext, InstallNext, TimeNext
  <2>2. Unbroken'
    BY UnbrokenNext DEF TypeInv, PlaceType
  <2>3. BackSoFar' /\ RestoredSoFar' /\ Complete'
    BY BackNext, RestoredNext, CompleteNext
  <2> QED BY <2>1, <2>2, <2>3
<1>3. Inv => Complete BY Zenon
<1> HIDE DEF Inv
<1> QED BY <1>1, <1>2, <1>3, PTL DEF Spec
=============================================================================
