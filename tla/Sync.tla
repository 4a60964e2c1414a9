--------------------------------- MODULE Sync ---------------------------------
(***************************************************************************)
(* The five operations of libpisync/sync.c on one database: they read      *)
(* records of the device or the desktop one after the other, hand each to  *)
(* sync_record (SyncRecord), store the queued desktop records on the       *)
(* device and close the database.  Every call to the device or to the      *)
(* SyncHandler that changes something is a step, and any call may fail.    *)
(***************************************************************************)
EXTENDS SyncRecord, SequencesExt

CONSTANTS
  Base,       \* ids 1..Base are known to both sides when the operation begins
  Ops,        \* operations the application may call
  Slow,       \* the values Pre may set slow to
  NewOnes,    \* may there be records created since the last synchronization?
  MaxFails,   \* bound: calls that fail
  Junk        \* the values the uninitialized id_ of store_record_on_pilot has

ASSUME SyncAssumption ==
  /\ Base \in Nat /\ MaxFails \in Nat
  /\ Ops \subseteq {"CopyToPilot", "CopyFromPilot", "MergeFromPilot",
                    "MergeToPilot", "Synchronize"}
  /\ Slow \subseteq BOOLEAN /\ NewOnes \in BOOLEAN
  /\ Junk \subseteq Nat

VARIABLES
  op,      \* the operation called
  slow,    \* set by Pre
  pc,      \* "open", "copyTo", "wipe", "copyFrom", "pull", "pullQueue",
           \* "push", "pushQueue", "post", "close" or "done"
  dev,     \* records of the device, in order
  desk,    \* records of the desktop, in order; removed ones stay as "gone"
  queue,   \* desktop records to store on the device
  fresh,   \* next record id the device hands out
  seen,    \* ids dlp_ReadNextModifiedRec has returned
  pos,     \* index of the loop that is running
  rec,     \* the two records sync_record is called for, and its steps to come
  result,  \* "ok" or "failed"
  fails,   \* calls that failed
  start    \* dev and desk when the operation began

records == <<dev, desk, queue, fresh>>
vars == <<op, slow, pc, records, seen, pos, rec, result, fails, start>>

-----------------------------------------------------------------------------
(* What users did to a record since the last synchronization. *)

Original(k) == <<k, "original">>
EditOnPilot(k) == <<k, "pilot edit">>
EditOnDesktop(k) == <<k, "desktop edit">>
SameEdit(k) == <<k, "same edit">>
Erased(k) == <<k, "erased">>     \* a deleted device record has lost its data

OnPilot(k) ==
  {PilotRecord(k, Original(k), {}), PilotRecord(k, Original(k), {"archived"}),
   PilotRecord(k, Erased(k), {"deleted"}), PilotRecord(k, Erased(k), {"deleted", "dirty"})}
  \cup {PilotRecord(k, v, {"dirty"} \cup a) :
          v \in {EditOnPilot(k), SameEdit(k)}, a \in {{}, {"archived"}}}

OnDesktop(k) ==
  {DesktopRecord(k, Original(k), {}, "live"),
   DesktopRecord(k, Original(k), {"deleted"}, "live"),
   DesktopRecord(k, EditOnDesktop(k), {"deleted", "dirty"}, "live"),
   DesktopRecord(k, Original(k), {"archived"}, "archive")}
  \cup {DesktopRecord(k, v, {"dirty"}, "live") : v \in {EditOnDesktop(k), SameEdit(k)}}
  \cup {DesktopRecord(k, v, {"dirty", "archived"}, "archive") :
          v \in {EditOnDesktop(k), SameEdit(k)}}

(* Before a slow synchronization the flags of the device may have been     *)
(* reset, and its deleted records removed, by another desktop.             *)
Unflagged(r) == [r EXCEPT !.dirty = FALSE]

NewOnPilot(k) ==
  {<<>>} \cup (IF NewOnes
               THEN {<<PilotRecord(k, EditOnPilot(k), {"dirty"} \cup a)>> :
                       a \in {{}, {"archived"}}}
                    \cup {<<PilotRecord(k, Erased(k), {"deleted", "dirty"})>>}
               ELSE {})

NewOnDesktop(k) ==
  {<<>>} \cup (IF NewOnes
               THEN {<<DesktopRecord(0, EditOnDesktop(k), {"dirty"}, "live")>>}
               ELSE {})

(* What is left of the sequence rs when only the places in S stay. *)
Kept(rs, S) ==
  LET Increasing(n) == {at \in [1..n -> S] : \A i, j \in 1..n : i < j => at[i] < at[j]}
      Onto(n) == {at \in Increasing(n) : \A k \in S : \E i \in 1..n : at[i] = k}
  IN UNION {{[i \in 1..n |-> rs[at[i]]] : at \in Onto(n)} : n \in 0..Len(rs)}

Deleted(rs) == {i \in DOMAIN rs : rs[i].del}
Present(rs) == {i \in DOMAIN rs : ~rs[i].del}

(* Deleted records are at the end of the database. *)
InOrder(rs) == {a \o b : a \in Kept(rs, Present(rs)), b \in Kept(rs, Deleted(rs))}

NotRunning == [p |-> NoPilotRecord, d |-> 0, steps |-> <<>>]

Init ==
  /\ op \in Ops /\ slow \in Slow /\ pc = "open"
  /\ \E p \in [1..Base -> UNION {OnPilot(k) : k \in 1..Base}],
        d \in [1..Base -> UNION {OnDesktop(k) : k \in 1..Base}],
        np \in NewOnPilot(Base + 1), nd \in NewOnDesktop(Base + 2) :
       /\ \A k \in 1..Base : p[k] \in OnPilot(k) /\ d[k] \in OnDesktop(k)
       /\ \/ dev \in InOrder(p \o np)
          \/ LET rs == [k \in 1..Base |-> Unflagged(p[k])] \o np
             IN slow /\ dev \in Kept(rs, Present(rs))
       /\ desk = d \o nd
  /\ queue = <<>> /\ fresh = Base + 2 /\ seen = {} /\ pos = 0
  /\ rec = NotRunning /\ result = "ok" /\ fails = 0
  /\ start = [dev |-> dev, desk |-> desk]

-----------------------------------------------------------------------------
(* A call fails. *)
Fault == fails < MaxFails /\ fails' = fails + 1

GoTo(label) == pc' = label /\ pos' = 0

(* The result of a loop that fails: sync_MergeToPilot does not assign it. *)
FailsAt(label, r) == GoTo(label) /\ result' = r

(* goto cleanup *)
Abort == FailsAt("close", "failed")

FirstLoop == [CopyToPilot |-> "copyTo", CopyFromPilot |-> "wipe",
              MergeFromPilot |-> "pull", MergeToPilot |-> "push",
              Synchronize |-> "pull"]

(* open_db and Pre; CopyToPilot then deletes all records of the device.    *)
(* Without a handle close_db has no effect on the database.                *)
Open ==
  /\ pc = "open"
  /\ \/ /\ GoTo(FirstLoop[op])
        /\ dev' = IF op = "CopyToPilot" THEN <<>> ELSE dev
        /\ UNCHANGED <<result, fails>>
     \/ /\ Fault /\ Abort /\ UNCHANGED dev
     \/ /\ Fault /\ FailsAt("done", "failed") /\ UNCHANGED dev
  /\ UNCHANGED <<op, slow, desk, queue, fresh, seen, rec, start>>

-----------------------------------------------------------------------------
Mod == CASE op = "MergeFromPilot" -> "DESKTOP"
         [] op = "MergeToPilot"   -> "PILOT"
         [] OTHER                 -> "BOTH"

DeskAt(d) == IF d = 0 THEN NoDesktopRecord ELSE desk[d]

(* sync_record, for the device record p and the desktop record d, which is *)
(* read as r.                                                              *)
Continue(p, d, steps) ==
  rec' = IF steps = <<>> THEN NotRunning ELSE [p |-> p, d |-> d, steps |-> steps]

SyncRecord(p, d, r) ==
  \E q \in {p}, t \in {r} : \E steps \in {Decision(q, t)} : Continue(q, d, steps)

Running == rec.steps # <<>>
At(label) == pc = label /\ ~Running

(* sync_record, or a call of the loop, fails. *)
LeavesLoop ==
  IF op = "MergeToPilot" THEN FailsAt("post", "ok") ELSE Abort

-----------------------------------------------------------------------------
(* The steps of sync_record.                                               *)

Step(s) ==
  /\ Running /\ Head(rec.steps) = s /\ Taken(s, Mod)
  /\ UNCHANGED <<op, slow, pc, seen, pos, result, fails, start>>

Goes == Continue(rec.p, rec.d, Tail(rec.steps))

AddRecord ==
  /\ Step("add") /\ Goes
  /\ desk' = Append(desk, DesktopRecord(rec.p.id, rec.p.val, {}, "live"))
  /\ UNCHANGED <<dev, queue, fresh>>

(* Match: the desktop record with the id of a device record. *)
Match(id) ==
  First({i \in DOMAIN desk : desk[i].id = id /\ desk[i].place # "gone"})

MatchAdded ==
  /\ Step("match") /\ Continue(rec.p, Match(rec.p.id), Tail(rec.steps))
  /\ UNCHANGED records

Cleared(r) == [r EXCEPT !.dirty = FALSE, !.del = FALSE, !.arch = FALSE]

ChangeDesktop(r) ==
  /\ Goes /\ desk' = [desk EXCEPT ![rec.d] = r]
  /\ UNCHANGED <<dev, queue, fresh>>

ReplaceRecord == Step("replace") /\ ChangeDesktop([desk[rec.d] EXCEPT !.val = rec.p.val])
ArchiveRecord == Step("archive") /\ ChangeDesktop([desk[rec.d] EXCEPT !.place = "archive"])
Unarchive     == Step("unarchive") /\ ChangeDesktop([desk[rec.d] EXCEPT !.place = "live"])
SetStatusCleared == Step("clear") /\ ChangeDesktop(Cleared(desk[rec.d]))
DeleteRecord  == Step("deleteD") /\ ChangeDesktop([desk[rec.d] EXCEPT !.place = "gone"])
ForgetID      == Step("forget") /\ ChangeDesktop([desk[rec.d] EXCEPT !.id = 0])

AddRecordQueue ==
  /\ Step("queue") /\ Goes
  /\ queue' = <<rec.d>> \o queue
  /\ UNCHANGED <<dev, desk, fresh>>

OnDevice(id) == First({i \in DOMAIN dev : dev[i].id = id})

(* The device's list of records when new is written. *)
WrittenAppends(new) == Append(dev, new)

Written(new) ==
  IF OnDevice(new.id) = 0 THEN Append(dev, new)
  ELSE [dev EXCEPT ![OnDevice(new.id)] = new]

(* dlp_WriteRecord: id 0 makes the device choose an id. *)
WriteRecord(id, val) ==
  /\ dev' = Written(PilotRecord(IF id = 0 THEN fresh ELSE id, val, {}))
  /\ fresh' = IF id = 0 THEN fresh + 1 ELSE fresh

WriteNew ==
  /\ Step("writeNew")
  /\ WriteRecord(0, rec.p.val)
  /\ Continue([rec.p EXCEPT !.id = fresh], rec.d, Tail(rec.steps))
  /\ UNCHANGED <<desk, queue>>

(* dlp_DeleteRecord *)
DeleteOnDevice ==
  /\ Step("deleteP") \/ Step("deleteBoth")
  /\ Goes
  /\ dev' = IF OnDevice(rec.p.id) = 0 THEN dev ELSE RemoveAt(dev, OnDevice(rec.p.id))
  /\ UNCHANGED <<desk, queue, fresh>>

NotTaken ==
  /\ Running /\ ~Taken(Head(rec.steps), Mod) /\ Goes
  /\ UNCHANGED <<op, slow, pc, records, seen, pos, result, fails, start>>

StepFails ==
  /\ Running /\ Taken(Head(rec.steps), Mod) /\ MayFail(Head(rec.steps))
  /\ Fault /\ LeavesLoop /\ rec' = NotRunning
  /\ UNCHANGED <<op, slow, records, seen, start>>

Steps ==
  \/ AddRecord \/ MatchAdded \/ ReplaceRecord \/ ArchiveRecord \/ Unarchive
  \/ SetStatusCleared \/ DeleteRecord \/ ForgetID \/ AddRecordQueue \/ WriteNew
  \/ DeleteOnDevice \/ NotTaken \/ StepFails

-----------------------------------------------------------------------------
(* The loops that call it.                                                 *)

(* dlp_ReadNextModifiedRec *)
Modified(r) == r.dirty \/ r.del \/ r.arch

Remaining == {i \in DOMAIN dev : Modified(dev[i]) /\ dev[i].id \notin seen}

(* A pass of the loop of sync_MergeFromPilot_fast. *)
PullFast ==
  /\ At("pull") /\ ~slow /\ Remaining # {}
  /\ LET p == dev[Least(Remaining)]
         d == Match(p.id)
     IN seen' = seen \cup {p.id} /\ SyncRecord(p, d, DeskAt(d))
  /\ UNCHANGED <<op, slow, pc, records, pos, result, fails, start>>

(* The flags sync_MergeFromPilot_slow computes. *)
Recomputed(r, dirty) == [r EXCEPT !.dirty = dirty, !.del = FALSE]

StayingIndex(i) == i
NextIndex(i) == i + 1

(* dlp_ReadRecordByIndex returns the size, which is 0 for a deleted record. *)
Readable(i) == i \in DOMAIN dev /\ ~dev[i].del

(* A pass of the loop of sync_MergeFromPilot_slow. *)
PullSlow ==
  /\ At("pull") /\ slow /\ Readable(pos + 1)
  /\ LET r == dev[pos + 1]
         d == Match(r.id)
         p == Recomputed(r, d = 0 \/ r.val # DeskAt(d).val)
     IN SyncRecord(p, d, DeskAt(d))
  /\ pos' = NextIndex(pos)
  /\ UNCHANGED <<op, slow, pc, records, seen, result, fails, start>>

MoreToPull == IF slow THEN Readable(pos + 1) ELSE Remaining # {}

(* The loop ends; an error of the read ends it like the end of the records. *)
PullEnds ==
  /\ At("pull")
  /\ \/ ~MoreToPull /\ UNCHANGED fails
     \/ Fault
  /\ GoTo("pullQueue")
  /\ UNCHANGED <<op, slow, records, seen, rec, result, start>>

(* Match fails. *)
MatchFails ==
  /\ At("pull") /\ MoreToPull
  /\ Fault /\ Abort
  /\ UNCHANGED <<op, slow, records, seen, rec, start>>

-----------------------------------------------------------------------------
(* store_record_on_pilot.  For "DESKTOP" nothing is written, but the id    *)
(* that would have come back is stored all the same.                       *)
StoresOnPilot(d) ==
  IF Mod = "DESKTOP" THEN UNCHANGED <<dev, fresh>> ELSE WriteRecord(desk[d].id, desk[d].val)

SetPilotID(d) ==
  CASE Mod = "BOTH"    -> desk' = [desk EXCEPT ![d].id = IF @ = 0 THEN fresh ELSE @]
    [] Mod = "PILOT"   -> UNCHANGED desk
    [] Mod = "DESKTOP" -> \E id \in Junk : desk' = [desk EXCEPT ![d].id = id]

Store(d) == StoresOnPilot(d) /\ SetPilotID(d)

(* Prepare, dlp_WriteRecord or SetPilotID fails. *)
StoreFails(d) ==
  /\ UNCHANGED <<dev, fresh>> \/ (Mod = "BOTH" /\ StoresOnPilot(d))
  /\ Fault /\ UNCHANGED desk

(* An item of the queue in sync_MergeFromPilot_process.  A failure to      *)
(* store it is not noticed.                                                *)
ProcessItem ==
  /\ pc \in {"pullQueue", "pushQueue"} /\ queue # <<>>
  /\ (Store(Head(queue)) /\ UNCHANGED fails) \/ StoreFails(Head(queue))
  /\ queue' = Tail(queue)
  /\ UNCHANGED <<op, slow, pc, seen, pos, rec, result, start>>

AfterPull == IF op = "Synchronize" THEN "push" ELSE "post"

ProcessEnds ==
  /\ pc \in {"pullQueue", "pushQueue"} /\ queue = <<>>
  /\ GoTo(IF pc = "pullQueue" THEN AfterPull ELSE "post")
  /\ UNCHANGED <<op, slow, records, seen, rec, result, fails, start>>

-----------------------------------------------------------------------------
(* A pass of the loops of sync_MergeToPilot_fast and _slow.                *)

(* ForEach does not return deleted records, nor archived ones unless they  *)
(* were archived since the last synchronization.                           *)
ForEach(r) == r.place # "gone" /\ ~r.del /\ (r.place = "archive" => r.arch)
ForEachModified(r) == r.place # "gone" /\ (r.dirty \/ r.del \/ r.arch)

Pending == {i \in DOMAIN desk :
              i > pos /\ IF slow THEN ForEach(desk[i]) ELSE ForEachModified(desk[i])}

(* The record of the device that a record of the desktop belongs to. *)
Counterpart(id) == IF id = 0 THEN NoPilotRecord ELSE dev[OnDevice(id)]

(* The flags sync_MergeToPilot_slow computes. *)
WithFlags(r, p) ==
  IF slow THEN Recomputed(r, p = NoPilotRecord \/ p.val # r.val) ELSE r

Push ==
  /\ At("push") /\ Pending # {}
  /\ LET d == Least(Pending)
         id == desk[d].id
         p == Counterpart(id)
         r == WithFlags(desk[d], p)
     IN /\ id = 0 \/ OnDevice(id) # 0
        /\ desk' = [desk EXCEPT ![d] = r] /\ pos' = d
        /\ SyncRecord(p, d, r)
  /\ UNCHANGED <<op, slow, pc, dev, queue, fresh, seen, result, fails, start>>

(* The record has an id and cannot be read, or is not there any more.      *)
ReadFails ==
  /\ At("push") /\ Pending # {}
  /\ LET id == desk[Least(Pending)].id
     IN id # 0 /\ \/ OnDevice(id) = 0 /\ UNCHANGED fails
                  \/ OnDevice(id) # 0 /\ Fault
  /\ LeavesLoop
  /\ UNCHANGED <<op, slow, records, seen, rec, start>>

(* ForEach and ForEachModified may fail, which ends the loop. *)
PushEnds ==
  /\ At("push")
  /\ \/ Pending = {} /\ UNCHANGED fails
     \/ Fault
  /\ GoTo("pushQueue")
  /\ UNCHANGED <<op, slow, records, seen, rec, result, start>>

-----------------------------------------------------------------------------
(* sync_CopyToPilot and sync_CopyFromPilot.                                *)

Copyable == {i \in DOMAIN desk : i > pos /\ ForEach(desk[i])}

CopyToPilot ==
  /\ pc = "copyTo" /\ Copyable # {}
  /\ LET d == Least(Copyable)
     IN \/ Store(d) /\ pos' = d /\ UNCHANGED <<pc, result, fails>>
        \/ StoreFails(d) /\ Abort
  /\ UNCHANGED <<op, slow, queue, seen, rec, start>>

CopyToEnds ==
  /\ pc = "copyTo"
  /\ \/ Copyable = {} /\ UNCHANGED fails
     \/ Fault
  /\ GoTo("post")
  /\ UNCHANGED <<op, slow, records, seen, rec, result, start>>

WipeDesktop ==
  /\ pc = "wipe" /\ Copyable # {}
  /\ LET d == Least(Copyable)
     IN \/ /\ desk' = [desk EXCEPT ![d].place = "gone"]
           /\ pos' = d /\ UNCHANGED <<pc, result, fails>>
        \/ Fault /\ Abort /\ UNCHANGED desk
  /\ UNCHANGED <<op, slow, dev, queue, fresh, seen, rec, start>>

WipeEnds ==
  /\ pc = "wipe"
  /\ \/ Copyable = {} /\ UNCHANGED fails
     \/ Fault
  /\ GoTo("copyFrom")
  /\ UNCHANGED <<op, slow, records, seen, rec, result, start>>

CopyFromPilot ==
  /\ pc = "copyFrom" /\ Readable(pos + 1)
  /\ \/ /\ desk' = Append(desk, DesktopRecord(dev[pos + 1].id, dev[pos + 1].val, {}, "live"))
        /\ pos' = NextIndex(pos) /\ UNCHANGED <<pc, result, fails>>
     \/ Fault /\ Abort /\ UNCHANGED desk
  /\ UNCHANGED <<op, slow, dev, queue, fresh, seen, rec, start>>

CopyFromEnds ==
  /\ pc = "copyFrom"
  /\ \/ ~Readable(pos + 1) /\ UNCHANGED fails
     \/ Fault
  /\ GoTo("post")
  /\ UNCHANGED <<op, slow, records, seen, rec, result, start>>

-----------------------------------------------------------------------------
Post ==
  /\ pc = "post" /\ GoTo("close")
  /\ \/ UNCHANGED <<result, fails>>
     \/ Fault /\ result' = "failed"
  /\ UNCHANGED <<op, slow, records, seen, rec, start>>

CleanUpDatabase(rs) == Kept(rs, {i \in DOMAIN rs : ~rs[i].del /\ ~rs[i].arch})
ResetSyncFlags(rs) == [i \in DOMAIN rs |-> Unflagged(rs[i])]

(* close_db looks at no result, of its own calls or of the operation.      *)
Close ==
  /\ pc = "close" /\ GoTo("done")
  /\ \/ \E rs \in CleanUpDatabase(dev) : dev' = ResetSyncFlags(rs) /\ UNCHANGED fails
     \/ dev' \in {ResetSyncFlags(dev)} \cup CleanUpDatabase(dev) /\ Fault
  /\ UNCHANGED <<op, slow, desk, queue, fresh, seen, rec, result, start>>

Next ==
  \/ Steps
  \/ Open \/ PullFast \/ PullSlow \/ PullEnds \/ MatchFails
  \/ ProcessItem \/ ProcessEnds \/ Push \/ ReadFails \/ PushEnds
  \/ CopyToPilot \/ CopyToEnds \/ WipeDesktop \/ WipeEnds
  \/ CopyFromPilot \/ CopyFromEnds \/ Post \/ Close

Spec == Init /\ [][Next]_vars

(* The caller goes on. *)
FairSpec == Spec /\ WF_vars(Next)

-----------------------------------------------------------------------------
(* What the operations promise.                                            *)

LiveOnPilot   == {<<r.id, r.val>> : r \in {s \in Range(dev) : ~s.del /\ ~s.arch}}
LiveOnDesktop == {<<r.id, r.val>> :
                    r \in {s \in Range(desk) : s.place = "live" /\ ~s.del}}

KeptValues == {r.val : r \in Range(dev)}
              \cup {r.val : r \in {s \in Range(desk) : s.place # "gone"}}

Returned(o) == pc = "done" /\ op = o /\ result = "ok"

(* No user archived a record since the last synchronization.  (Rows 451 to *)
(* 466 of sync_record give up one of two versions of an archived record.)  *)
NoneArchived == \A r \in Range(start.dev) \cup Range(start.desk) : ~r.arch

(* Ids of the device are distinct and handed out by it; the queue holds    *)
(* desktop records, each once.                                             *)
TypeOK ==
  /\ op \in Ops /\ slow \in Slow /\ result \in {"ok", "failed"}
  /\ fails \in 0..MaxFails /\ pos \in Nat /\ seen \subseteq 1..fresh
  /\ \A i, j \in DOMAIN dev :
       dev[i].id \in 1..(fresh - 1) /\ (dev[i].id = dev[j].id => i = j)
  /\ \A i, j \in DOMAIN queue :
       queue[i] \in DOMAIN desk /\ (queue[i] = queue[j] => i = j)
  /\ \A i \in DOMAIN desk :
       desk[i].id \in Nat /\ desk[i].place \in {"live", "archive", "gone"}

(* A synchronization in which no call fails leaves the same records on     *)
(* both sides (sync_Synchronize: "Synchronizes the pilot database and the  *)
(* desktop database").                                                     *)
Converged ==
  Returned("Synchronize") /\ fails = 0 /\ NoneArchived
    => LiveOnPilot = LiveOnDesktop

(* An edit is at no moment lost to both sides, whichever operation merges  *)
(* and whatever call fails: conflicts keep both versions, an edit beats a  *)
(* deletion, and what is deleted to be written again is still queued.      *)
EditsSurvive ==
  op \in {"Synchronize", "MergeFromPilot", "MergeToPilot"} /\ NoneArchived =>
    \A r \in Range(start.dev) \cup Range(start.desk) :
       r.dirty /\ ~r.del => r.val \in KeptValues

(* No two desktop records have the same id: Match would find but one.      *)
(* (In a conflict the first loses its id when the second has been added.)  *)
Forgetting == Running /\ Head(rec.steps) = "forget"

NoTwins ==
  op \in {"Synchronize", "MergeToPilot"} /\ ~Forgetting =>
    \A i, j \in DOMAIN desk :
       /\ i # j /\ desk[i].place # "gone" /\ desk[j].place # "gone"
       /\ desk[i].id = desk[j].id
       => desk[i].id = 0

(* sync_MergeFromPilot does "not alter the device records" that are live,  *)
(* sync_MergeToPilot not the contents of those of the desktop.             *)
ContentsOnDesktop == [i \in DOMAIN desk |-> <<desk[i].val, desk[i].place>>]

OneWay ==
  [][/\ op = "MergeFromPilot" => UNCHANGED LiveOnPilot
     /\ op = "MergeToPilot" => UNCHANGED ContentsOnDesktop]_vars

(* When no call fails a fast synchronization makes both sides the same, a  *)
(* copy is complete, and a merge brings every edit of one side to the      *)
(* other; slow synchronizations and slow merges to the device need not.    *)
Edits(rs) == {r.val : r \in {s \in Range(rs) : s.dirty /\ ~s.del}}

MergedToPilot ==
  Returned("MergeToPilot") /\ fails = 0 /\ NoneArchived
    => Edits(start.desk) \subseteq {c[2] : c \in LiveOnPilot}

Delivered ==
  /\ slow \/ (Converged /\ MergedToPilot)
  /\ fails = 0 /\ NoneArchived =>
       /\ Returned("CopyToPilot") \/ Returned("CopyFromPilot")
            => LiveOnPilot = LiveOnDesktop
       /\ Returned("MergeFromPilot")
            => Edits(start.dev) \subseteq {c[2] : c \in LiveOnDesktop}

(* Every operation returns: no loop is kept going by what it adds itself. *)
Returns == <>(pc = "done")
=============================================================================
