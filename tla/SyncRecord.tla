------------------------------ MODULE SyncRecord ------------------------------
(***************************************************************************)
(* One record of a database and its counterpart on the desktop: what       *)
(* sync_record in libpisync/sync.c decides to do with the two, as the      *)
(* sequence of the calls it then makes.                                    *)
(*                                                                         *)
(* The repository has no implementation of the SyncHandler callbacks and   *)
(* none of the device; both are modelled from what sync.c and pi-dlp.h say *)
(* of them.                                                                *)
(***************************************************************************)
EXTENDS Naturals, Sequences

(* Attributes are those of enum dlpRecAttributes that sync.c looks at. *)
PilotRecord(id, val, attrs) ==
  [id |-> id, val |-> val, dirty |-> "dirty" \in attrs,
   del |-> "deleted" \in attrs, arch |-> "archived" \in attrs]

(* place: where the desktop keeps the record, "live", "archive" or "gone". *)
DesktopRecord(id, val, attrs, place) ==
  [id |-> id, val |-> val, dirty |-> "dirty" \in attrs,
   del |-> "deleted" \in attrs, arch |-> "archived" \in attrs,
   place |-> place]

NoPilotRecord   == PilotRecord(0, <<>>, {})
NoDesktopRecord == DesktopRecord(0, <<>>, {}, "none")

Least(S) == CHOOSE i \in S : \A j \in S : i <= j

(* The first place in S, or 0. *)
First(S) == IF S = {} THEN 0 ELSE Least(S)

-----------------------------------------------------------------------------
(* The decisions of sync_record, as the sequence of steps it takes for a   *)
(* device record p and a desktop record d.                                 *)

(* Both sides changed the record.  (Faulty variants of definitions stand   *)
(* before their originals; each breaks a property of Sync.)                *)
ConflictPilotWins(p, d) == <<"replace", "clear">>

ConflictKeepsId(p, d) == IF p.val = d.val THEN <<"clear">>
                         ELSE <<"add", "queue", "clear">>
Conflict(p, d) == IF p.val = d.val THEN <<"clear">>
                  ELSE <<"add", "forget", "queue", "clear">>

(* Archived on the device, changed on both sides. *)
ArchivedConflict(p, d) == IF p.val = d.val
                          THEN <<"archive", "deleteP", "clear">>
                          ELSE <<"writeNew", "add", "queue", "clear">>

(* Changed on the device, changed and archived on the desktop. *)
RevivedConflict(p, d) == IF p.val = d.val
                         THEN <<"deleteP", "clear">>
                         ELSE <<"unarchive", "replace", "clear">>

(* Changed on the desktop only. *)
DesktopChange(p, d) == <<"deleteP", "queue", "clear">>

DeleteBoth(p, d) == <<"deleteD", "deleteBoth", "clear">>

(* pchange and dchange: deletion takes precedence over modification. *)
ChangedEvenIfDeleted(r) == r.dirty
Changed(r) == r.dirty /\ ~r.del

When(condition, steps) == [holds |-> condition, steps |-> steps]

(* The rows in the order of the code; the first that holds counts. *)
Decisions(p, d) ==
  LET hasP == p # NoPilotRecord  hasD == d # NoDesktopRecord
      parch == p.arch  pdel == p.del  pchange == Changed(p)
      darch == d.arch  ddel == d.del  dchange == Changed(d)
  IN <<When(~hasD /\ ~parch /\ pdel,            <<>>),
       When(hasP /\ ~parch /\ ~pdel /\ ~hasD,   <<"add">>),
       When(~hasP /\ hasD,                      <<"queue">>),
       When(parch /\ ddel,                <<"replace", "archive", "clear">>),
       When(parch /\ ~darch /\ ~dchange /\ hasD, <<"archive">>),
       When(parch /\ ~hasD,               <<"add", "match", "archive">>),
       When(parch /\ pchange /\ ~darch /\ dchange, ArchivedConflict(p, d)),
       When(parch /\ ~pchange /\ ~darch /\ dchange, DesktopChange(p, d)),
       When(pchange /\ darch /\ dchange,        RevivedConflict(p, d)),
       When(pchange /\ darch,             <<"unarchive", "replace", "clear">>),
       When(pchange /\ dchange,                 Conflict(p, d)),
       When(pchange,                            <<"replace", "clear">>),
       When(pdel /\ dchange,                    <<"queue", "clear">>),
       When(pdel,                               DeleteBoth(p, d)),
       When(darch,                              <<"deleteP", "clear">>),
       When(dchange,                            DesktopChange(p, d)),
       When(ddel,                               DeleteBoth(p, d)),
       When(TRUE,                               <<>>)>>

Decision(p, d) ==
  LET rows == Decisions(p, d)
  IN rows[Least({i \in DOMAIN rows : rows[i].holds})].steps

-----------------------------------------------------------------------------
(* The macros DesktopCheck, PilotCheck and ErrorCheck: which steps are     *)
(* taken for which RecordModifier, and which may fail.                     *)

DesktopSteps == {"add", "replace", "archive", "unarchive", "clear", "deleteD"}
PilotSteps   == {"deleteP", "writeNew"}

DesktopCheckAlways(s, mod) == TRUE
DesktopCheck(s, mod) == s \in DesktopSteps => mod \in {"DESKTOP", "BOTH"}
PilotCheck(s, mod)   == s \in PilotSteps => mod \in {"PILOT", "BOTH"}

(* delete_both runs inside a DesktopCheck and has a PilotCheck of its own. *)
Taken(s, mod) ==
  DesktopCheck(s, mod) /\ PilotCheck(s, mod) /\ (s = "deleteBoth" => mod = "BOTH")

MayFail(s) == s \notin {"queue", "forget"}
=============================================================================
