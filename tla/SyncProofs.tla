------------------------------ MODULE SyncProofs ------------------------------
(***************************************************************************)
(* Theorems about Sync, for any number of records and failures.            *)
(***************************************************************************)
EXTENDS Sync, SequenceTheorems, WellFoundedInduction, TLAPS

Values == (Nat \X {"original", "pilot edit", "desktop edit", "same edit", "erased"})
          \cup {<<>>}

PilotRecords ==
  [id : Nat, val : Values, dirty : BOOLEAN, del : BOOLEAN, arch : BOOLEAN]

DesktopRecords ==
  [id : Nat, val : Values, dirty : BOOLEAN, del : BOOLEAN, arch : BOOLEAN,
   place : {"live", "archive", "gone"}]

LEMMA LeastIs ==
  ASSUME NEW S, S \subseteq Nat, S # {}
  PROVE  Least(S) \in S /\ \A j \in S : Least(S) <= j
<1> DEFINE R == OpToRel(<, Nat)
<1>a. \A i, j \in Nat : j < i => <<j, i>> \in R
  BY DEF OpToRel
<1>b. IsWellFoundedOn(R, Nat)
  BY NatLessThanWellFounded
<1> HIDE DEF R
<1>1. PICK i \in S : \A j \in S : <<j, i>> \notin R
  BY ONLY <1>b, S \subseteq Nat, S # {}, WFMin
<1>2. ASSUME NEW j \in S PROVE i <= j
  <2>1. ~(j < i)
    BY <1>1, <1>a
  <2> QED BY <2>1
<1> QED BY <1>2 DEF Least

LEMMA FirstIs ==
  ASSUME NEW n \in Nat, NEW S \in SUBSET (1..n)
  PROVE  IF S = {} THEN First(S) = 0 ELSE First(S) \in S
<1>1. CASE S = {}
  BY <1>1 DEF First
<1>2. CASE S # {}
  <2>0. S \subseteq Nat
    OBVIOUS
  <2>1. Least(S) \in S
    BY <1>2, <2>0, LeastIs
  <2> QED BY <1>2, <2>1 DEF First
<1> QED BY <1>1, <1>2

(* The row of the table that sync_record takes. *)
LEMMA DecisionRow ==
  ASSUME NEW p, NEW d, NEW rows, rows = Decisions(p, d)
  PROVE  \E i \in 1..18 : /\ rows[i].holds /\ Decision(p, d) = rows[i].steps
                          /\ \A j \in 1..18 : j < i => ~rows[j].holds
<1> DEFINE S == {i \in DOMAIN rows : rows[i].holds}
<1>1. DOMAIN rows = 1..18
  BY DEF Decisions
<1>2. rows[18].holds
  BY DEF Decisions, When
<1>3. S \subseteq Nat /\ S # {}
  BY <1>1, <1>2
<1>4. Least(S) \in S /\ \A j \in S : Least(S) <= j
  BY <1>3, LeastIs
<1>5. Decision(p, d) = rows[Least(S)].steps
  BY DEF Decision
<1>6. Least(S) \in 1..18 /\ rows[Least(S)].holds
  <2>1. \A i \in S : i \in 1..18 /\ rows[i].holds
    BY <1>1
  <2> HIDE DEF S
  <2> QED BY ONLY <1>4, <2>1
<1>7. ASSUME NEW j \in 1..18, j < Least(S) PROVE ~rows[j].holds
  <2>1. rows[j].holds => j \in S
    BY <1>1
  <2> HIDE DEF S
  <2>2. j \in S => Least(S) <= j
    BY <1>4
  <2>3. Least(S) \in Nat /\ j \in Nat
    BY <1>6
  <2> QED BY ONLY <1>7, <2>1, <2>2, <2>3
<1> HIDE DEF S
<1> QED BY <1>5, <1>6, <1>7
(* What sync_record has to do in the end, and when it does what.           *)
Rule(p, d, s) ==
  LET hasP == p # NoPilotRecord  hasD == d # NoDesktopRecord IN
  \/ s = <<>>
  \/ s = <<"add">> /\ hasP /\ ~hasD
  \/ s = <<"queue">> /\ ~hasP /\ hasD
  \/ s = <<"replace", "archive", "clear">> /\ p.arch /\ hasD
  \/ s = <<"archive">> /\ p.arch /\ hasD
  \/ s = <<"add", "match", "archive">> /\ p.arch /\ ~hasD
  \/ s = <<"archive", "deleteP", "clear">> /\ p.arch /\ hasD
  \/ s = <<"writeNew", "add", "queue", "clear">> /\ p.arch /\ hasD
  \/ s = <<"deleteP", "queue", "clear">> /\ hasP /\ ~Changed(p) /\ Changed(d)
  \/ s = <<"deleteP", "clear">> /\ d.arch
  \/ s = <<"unarchive", "replace", "clear">> /\ d.arch
  \/ s = <<"clear">> /\ Changed(p) /\ Changed(d)
  \/ s = <<"add", "forget", "queue", "clear">> /\ Changed(p) /\ Changed(d)
  \/ s = <<"replace", "clear">> /\ Changed(p) /\ ~Changed(d) /\ hasD
  \/ s = <<"queue", "clear">> /\ p.del /\ Changed(d)
  \/ /\ s = <<"deleteD", "deleteBoth", "clear">> /\ hasD
     /\ ~Changed(p) /\ ~Changed(d) /\ (p.del \/ d.del)

LEMMA NoRecords ==
  /\ ~NoPilotRecord.arch /\ ~NoPilotRecord.del /\ ~NoPilotRecord.dirty
  /\ ~NoDesktopRecord.arch /\ ~NoDesktopRecord.del /\ ~NoDesktopRecord.dirty
  /\ NoPilotRecord = [id |-> 0, val |-> <<>>, dirty |-> FALSE, del |-> FALSE, arch |-> FALSE]
  /\ NoDesktopRecord = [id |-> 0, val |-> <<>>, dirty |-> FALSE, del |-> FALSE, arch |-> FALSE,
                         place |-> "none"]
<1>1. /\ ("archived" \in {}) = FALSE /\ ("deleted" \in {}) = FALSE /\ ("dirty" \in {}) = FALSE
  BY SMT
<1>2. NoPilotRecord = [id |-> 0, val |-> <<>>, dirty |-> FALSE, del |-> FALSE, arch |-> FALSE]
  BY <1>1, Zenon DEF NoPilotRecord, PilotRecord
<1>3. NoDesktopRecord = [id |-> 0, val |-> <<>>, dirty |-> FALSE, del |-> FALSE, arch |-> FALSE,
                         place |-> "none"]
  BY <1>1, Zenon DEF NoDesktopRecord, DesktopRecord
<1> QED BY <1>2, <1>3

LEMMA DecisionRule ==
  ASSUME NEW p \in PilotRecords, NEW d \in DesktopRecords \cup {NoDesktopRecord}
  PROVE  Rule(p, d, Decision(p, d))
<1> DEFINE rows == Decisions(p, d)
<1>1. PICK i \in 1..18 : /\ rows[i].holds /\ Decision(p, d) = rows[i].steps
                         /\ \A j \in 1..18 : j < i => ~rows[j].holds
  BY DecisionRow
<1>2. /\ p.arch \in BOOLEAN /\ p.del \in BOOLEAN /\ p.dirty \in BOOLEAN
      /\ d.arch \in BOOLEAN /\ d.del \in BOOLEAN /\ d.dirty \in BOOLEAN
  <2>1. CASE d = NoDesktopRecord
    BY <2>1, NoRecords DEF PilotRecords
  <2>2. CASE d \in DesktopRecords
    BY <2>2 DEF PilotRecords, DesktopRecords
  <2> QED BY <2>1, <2>2
<1>3. d = NoDesktopRecord => ~d.arch /\ ~d.del /\ ~Changed(d)
  BY NoRecords DEF Changed
<1>4. p = NoPilotRecord => ~p.arch /\ ~p.del /\ ~Changed(p)
  BY NoRecords DEF Changed
<1> DEFINE hasP == p # NoPilotRecord
           hasD == d # NoDesktopRecord
<1>5. rows[1] = When(~hasD /\ ~p.arch /\ p.del, <<>>)
  BY DEF Decisions
<1>6. rows[2] = When(hasP /\ ~p.arch /\ ~p.del /\ ~hasD, <<"add">>)
  BY DEF Decisions
<1>7. rows[3] = When(~hasP /\ hasD, <<"queue">>)
  BY DEF Decisions
<1>8. rows[4] = When(p.arch /\ d.del, <<"replace", "archive", "clear">>)
  BY DEF Decisions
<1>9. rows[5] = When(p.arch /\ ~d.arch /\ ~Changed(d) /\ hasD, <<"archive">>)
  BY DEF Decisions
<1>10. rows[6] = When(p.arch /\ ~hasD, <<"add", "match", "archive">>)
  BY DEF Decisions
<1>11. rows[7] = When(p.arch /\ Changed(p) /\ ~d.arch /\ Changed(d), ArchivedConflict(p, d))
  BY DEF Decisions
<1>12. rows[8] = When(p.arch /\ ~Changed(p) /\ ~d.arch /\ Changed(d), DesktopChange(p, d))
  BY DEF Decisions
<1>13. rows[9] = When(Changed(p) /\ d.arch /\ Changed(d), RevivedConflict(p, d))
  BY DEF Decisions
<1>14. rows[10] = When(Changed(p) /\ d.arch, <<"unarchive", "replace", "clear">>)
  BY DEF Decisions
<1>15. rows[11] = When(Changed(p) /\ Changed(d), Conflict(p, d))
  BY DEF Decisions
<1>16. rows[12] = When(Changed(p), <<"replace", "clear">>)
  BY DEF Decisions
<1>17. rows[13] = When(p.del /\ Changed(d), <<"queue", "clear">>)
  BY DEF Decisions
<1>18. rows[14] = When(p.del, DeleteBoth(p, d))
  BY DEF Decisions
<1>19. rows[15] = When(d.arch, <<"deleteP", "clear">>)
  BY DEF Decisions
<1>20. rows[16] = When(Changed(d), DesktopChange(p, d))
  BY DEF Decisions
<1>21. rows[17] = When(d.del, DeleteBoth(p, d))
  BY DEF Decisions
<1>22. rows[18] = When(TRUE, <<>>)
  BY DEF Decisions
<1> HIDE DEF rows
<1>23. (rows[1].holds <=> ~hasD /\ ~p.arch /\ p.del) /\ rows[1].steps = <<>>
  <2>1. ASSUME NEW x, x = When(~hasD /\ ~p.arch /\ p.del, <<>>)
        PROVE  (x.holds <=> ~hasD /\ ~p.arch /\ p.del) /\ x.steps = <<>>
    BY ONLY <2>1 DEF When
  <2> QED BY ONLY <1>5, <2>1, Zenon
<1>24. (rows[2].holds <=> hasP /\ ~p.arch /\ ~p.del /\ ~hasD) /\ rows[2].steps = <<"add">>
  <2>1. ASSUME NEW x, x = When(hasP /\ ~p.arch /\ ~p.del /\ ~hasD, <<"add">>)
        PROVE  (x.holds <=> hasP /\ ~p.arch /\ ~p.del /\ ~hasD) /\ x.steps = <<"add">>
    BY ONLY <2>1 DEF When
  <2> QED BY ONLY <1>6, <2>1, Zenon
<1>25. (rows[3].holds <=> ~hasP /\ hasD) /\ rows[3].steps = <<"queue">>
  <2>1. ASSUME NEW x, x = When(~hasP /\ hasD, <<"queue">>)
        PROVE  (x.holds <=> ~hasP /\ hasD) /\ x.steps = <<"queue">>
    BY ONLY <2>1 DEF When
  <2> QED BY ONLY <1>7, <2>1, Zenon
<1>26. (rows[4].holds <=> p.arch /\ d.del) /\ rows[4].steps = <<"replace", "archive", "clear">>
  <2>1. ASSUME NEW x, x = When(p.arch /\ d.del, <<"replace", "archive", "clear">>)
        PROVE  (x.holds <=> p.arch /\ d.del) /\ x.steps = <<"replace", "archive", "clear">>
    BY ONLY <2>1 DEF When
  <2> QED BY ONLY <1>8, <2>1, Zenon
<1>27. (rows[5].holds <=> p.arch /\ ~d.arch /\ ~Changed(d) /\ hasD) /\ rows[5].steps = <<"archive">>
  <2>1. ASSUME NEW x, x = When(p.arch /\ ~d.arch /\ ~Changed(d) /\ hasD, <<"archive">>)
        PROVE  (x.holds <=> p.arch /\ ~d.arch /\ ~Changed(d) /\ hasD) /\ x.steps = <<"archive">>
    BY ONLY <2>1 DEF When
  <2> QED BY ONLY <1>9, <2>1, Zenon
<1>28. (rows[6].holds <=> p.arch /\ ~hasD) /\ rows[6].steps = <<"add", "match", "archive">>
  <2>1. ASSUME NEW x, x = When(p.arch /\ ~hasD, <<"add", "match", "archive">>)
        PROVE  (x.holds <=> p.arch /\ ~hasD) /\ x.steps = <<"add", "match", "archive">>
    BY ONLY <2>1 DEF When
  <2> QED BY ONLY <1>10, <2>1, Zenon
<1>29. (rows[7].holds <=> p.arch /\ Changed(p) /\ ~d.arch /\ Changed(d)) /\ rows[7].steps = ArchivedConflict(p, d)
  <2>1. ASSUME NEW x, x = When(p.arch /\ Changed(p) /\ ~d.arch /\ Changed(d), ArchivedConflict(p, d))
        PROVE  (x.holds <=> p.arch /\ Changed(p) /\ ~d.arch /\ Changed(d)) /\ x.steps = ArchivedConflict(p, d)
    BY ONLY <2>1 DEF When
  <2> QED BY ONLY <1>11, <2>1, Zenon
<1>30. (rows[8].holds <=> p.arch /\ ~Changed(p) /\ ~d.arch /\ Changed(d)) /\ rows[8].steps = DesktopChange(p, d)
  <2>1. ASSUME NEW x, x = When(p.arch /\ ~Changed(p) /\ ~d.arch /\ Changed(d), DesktopChange(p, d))
        PROVE  (x.holds <=> p.arch /\ ~Changed(p) /\ ~d.arch /\ Changed(d)) /\ x.steps = DesktopChange(p, d)
    BY ONLY <2>1 DEF When
  <2> QED BY ONLY <1>12, <2>1, Zenon
<1>31. (rows[9].holds <=> Changed(p) /\ d.arch /\ Changed(d)) /\ rows[9].steps = RevivedConflict(p, d)
  <2>1. ASSUME NEW x, x = When(Changed(p) /\ d.arch /\ Changed(d), RevivedConflict(p, d))
        PROVE  (x.holds <=> Changed(p) /\ d.arch /\ Changed(d)) /\ x.steps = RevivedConflict(p, d)
    BY ONLY <2>1 DEF When
  <2> QED BY ONLY <1>13, <2>1, Zenon
<1>32. (rows[10].holds <=> Changed(p) /\ d.arch) /\ rows[10].steps = <<"unarchive", "replace", "clear">>
  <2>1. ASSUME NEW x, x = When(Changed(p) /\ d.arch, <<"unarchive", "replace", "clear">>)
        PROVE  (x.holds <=> Changed(p) /\ d.arch) /\ x.steps = <<"unarchive", "replace", "clear">>
    BY ONLY <2>1 DEF When
  <2> QED BY ONLY <1>14, <2>1, Zenon
<1>33. (rows[11].holds <=> Changed(p) /\ Changed(d)) /\ rows[11].steps = Conflict(p, d)
  <2>1. ASSUME NEW x, x = When(Changed(p) /\ Changed(d), Conflict(p, d))
        PROVE  (x.holds <=> Changed(p) /\ Changed(d)) /\ x.steps = Conflict(p, d)
    BY ONLY <2>1 DEF When
  <2> QED BY ONLY <1>15, <2>1, Zenon
<1>34. (rows[12].holds <=> Changed(p)) /\ rows[12].steps = <<"replace", "clear">>
  <2>1. ASSUME NEW x, x = When(Changed(p), <<"replace", "clear">>)
        PROVE  (x.holds <=> Changed(p)) /\ x.steps = <<"replace", "clear">>
    BY ONLY <2>1 DEF When
  <2> QED BY ONLY <1>16, <2>1, Zenon
<1>35. (rows[13].holds <=> p.del /\ Changed(d)) /\ rows[13].steps = <<"queue", "clear">>
  <2>1. ASSUME NEW x, x = When(p.del /\ Changed(d), <<"queue", "clear">>)
        PROVE  (x.holds <=> p.del /\ Changed(d)) /\ x.steps = <<"queue", "clear">>
    BY ONLY <2>1 DEF When
  <2> QED BY ONLY <1>17, <2>1, Zenon
<1>36. (rows[14].holds <=> p.del) /\ rows[14].steps = DeleteBoth(p, d)
  <2>1. ASSUME NEW x, x = When(p.del, DeleteBoth(p, d))
        PROVE  (x.holds <=> p.del) /\ x.steps = DeleteBoth(p, d)
    BY ONLY <2>1 DEF When
  <2> QED BY ONLY <1>18, <2>1, Zenon
<1>37. (rows[15].holds <=> d.arch) /\ rows[15].steps = <<"deleteP", "clear">>
  <2>1. ASSUME NEW x, x = When(d.arch, <<"deleteP", "clear">>)
        PROVE  (x.holds <=> d.arch) /\ x.steps = <<"deleteP", "clear">>
    BY ONLY <2>1 DEF When
  <2> QED BY ONLY <1>19, <2>1, Zenon
<1>38. (rows[16].holds <=> Changed(d)) /\ rows[16].steps = DesktopChange(p, d)
  <2>1. ASSUME NEW x, x = When(Changed(d), DesktopChange(p, d))
        PROVE  (x.holds <=> Changed(d)) /\ x.steps = DesktopChange(p, d)
    BY ONLY <2>1 DEF When
  <2> QED BY ONLY <1>20, <2>1, Zenon
<1>39. (rows[17].holds <=> d.del) /\ rows[17].steps = DeleteBoth(p, d)
  <2>1. ASSUME NEW x, x = When(d.del, DeleteBoth(p, d))
        PROVE  (x.holds <=> d.del) /\ x.steps = DeleteBoth(p, d)
    BY ONLY <2>1 DEF When
  <2> QED BY ONLY <1>21, <2>1, Zenon
<1>40. (rows[18].holds <=> TRUE) /\ rows[18].steps = <<>>
  <2>1. ASSUME NEW x, x = When(TRUE, <<>>)
        PROVE  (x.holds <=> TRUE) /\ x.steps = <<>>
    BY ONLY <2>1 DEF When
  <2> QED BY ONLY <1>22, <2>1, Zenon
<1>41. CASE i = 1
  <2>1. rows[1].holds /\ Decision(p, d) = rows[1].steps
    BY <1>1, <1>41
  <2> QED BY ONLY <1>2, <1>3, <1>4, <2>1, <1>23 DEF Rule
<1>42. CASE i = 2
  <2>1. rows[2].holds /\ Decision(p, d) = rows[2].steps
    BY <1>1, <1>42
  <2> QED BY ONLY <1>2, <1>3, <1>4, <2>1, <1>24 DEF Rule
<1>43. CASE i = 3
  <2>1. rows[3].holds /\ Decision(p, d) = rows[3].steps
    BY <1>1, <1>43
  <2> QED BY ONLY <1>2, <1>3, <1>4, <2>1, <1>25 DEF Rule
<1>44. CASE i = 4
  <2>1. rows[4].holds /\ Decision(p, d) = rows[4].steps
    BY <1>1, <1>44
  <2> QED BY ONLY <1>2, <1>3, <1>4, <2>1, <1>26 DEF Rule
<1>45. CASE i = 5
  <2>1. rows[5].holds /\ Decision(p, d) = rows[5].steps
    BY <1>1, <1>45
  <2> QED BY ONLY <1>2, <1>3, <1>4, <2>1, <1>27 DEF Rule
<1>46. CASE i = 6
  <2>1. rows[6].holds /\ Decision(p, d) = rows[6].steps
    BY <1>1, <1>46
  <2>2. ~rows[2].holds /\ ~rows[3].holds
    BY <1>1, <1>46
  <2> QED BY ONLY <1>2, <1>3, <1>4, <2>1, <1>28, <2>2, <1>24, <1>25 DEF Rule
<1>47. CASE i = 7
  <2>1. rows[7].holds /\ Decision(p, d) = rows[7].steps
    BY <1>1, <1>47
  <2>2. ~rows[6].holds
    BY <1>1, <1>47
  <2> QED BY ONLY <1>2, <1>3, <1>4, <2>1, <1>29, <2>2, <1>28 DEF Rule, ArchivedConflict
<1>48. CASE i = 8
  <2>1. rows[8].holds /\ Decision(p, d) = rows[8].steps
    BY <1>1, <1>48
  <2>2. ~rows[2].holds /\ ~rows[3].holds
    BY <1>1, <1>48
  <2> QED BY ONLY <1>2, <1>3, <1>4, <2>1, <1>30, <2>2, <1>24, <1>25 DEF Rule, DesktopChange
<1>49. CASE i = 9
  <2>1. rows[9].holds /\ Decision(p, d) = rows[9].steps
    BY <1>1, <1>49
  <2> QED BY ONLY <1>2, <1>3, <1>4, <2>1, <1>31 DEF Rule, RevivedConflict
<1>50. CASE i = 10
  <2>1. rows[10].holds /\ Decision(p, d) = rows[10].steps
    BY <1>1, <1>50
  <2> QED BY ONLY <1>2, <1>3, <1>4, <2>1, <1>32 DEF Rule
<1>51. CASE i = 11
  <2>1. rows[11].holds /\ Decision(p, d) = rows[11].steps
    BY <1>1, <1>51
  <2> QED BY ONLY <1>2, <1>3, <1>4, <2>1, <1>33 DEF Rule, Conflict
<1>52. CASE i = 12
  <2>1. rows[12].holds /\ Decision(p, d) = rows[12].steps
    BY <1>1, <1>52
  <2>2. ~rows[1].holds /\ ~rows[2].holds /\ ~rows[6].holds /\ ~rows[11].holds
    BY <1>1, <1>52
  <2> QED BY ONLY <1>2, <1>3, <1>4, <2>1, <1>34, <2>2, <1>23, <1>24, <1>28, <1>33 DEF Rule
<1>53. CASE i = 13
  <2>1. rows[13].holds /\ Decision(p, d) = rows[13].steps
    BY <1>1, <1>53
  <2> QED BY ONLY <1>2, <1>3, <1>4, <2>1, <1>35 DEF Rule
<1>54. CASE i = 14
  <2>1. rows[14].holds /\ Decision(p, d) = rows[14].steps
    BY <1>1, <1>54
  <2>2. ~rows[1].holds /\ ~rows[6].holds /\ ~rows[12].holds /\ ~rows[13].holds
    BY <1>1, <1>54
  <2> QED BY ONLY <1>2, <1>3, <1>4, <2>1, <1>36, <2>2, <1>23, <1>28, <1>34, <1>35 DEF Rule, DeleteBoth
<1>55. CASE i = 15
  <2>1. rows[15].holds /\ Decision(p, d) = rows[15].steps
    BY <1>1, <1>55
  <2> QED BY ONLY <1>2, <1>3, <1>4, <2>1, <1>37 DEF Rule
<1>56. CASE i = 16
  <2>1. rows[16].holds /\ Decision(p, d) = rows[16].steps
    BY <1>1, <1>56
  <2>2. ~rows[3].holds /\ ~rows[12].holds
    BY <1>1, <1>56
  <2> QED BY ONLY <1>2, <1>3, <1>4, <2>1, <1>38, <2>2, <1>25, <1>34 DEF Rule, DesktopChange
<1>57. CASE i = 17
  <2>1. rows[17].holds /\ Decision(p, d) = rows[17].steps
    BY <1>1, <1>57
  <2>2. ~rows[12].holds /\ ~rows[14].holds /\ ~rows[16].holds
    BY <1>1, <1>57
  <2> QED BY ONLY <1>2, <1>3, <1>4, <2>1, <1>39, <2>2, <1>34, <1>36, <1>38 DEF Rule, DeleteBoth
<1>58. CASE i = 18
  <2>1. rows[18].holds /\ Decision(p, d) = rows[18].steps
    BY <1>1, <1>58
  <2> QED BY ONLY <1>2, <1>3, <1>4, <2>1, <1>40 DEF Rule
<1> QED BY <1>1, <1>41, <1>42, <1>43, <1>44, <1>45, <1>46, <1>47, <1>48, <1>49, <1>50, <1>51, <1>52, <1>53, <1>54, <1>55, <1>56, <1>57, <1>58

-----------------------------------------------------------------------------
(* What is left of a sequence when some places are dropped.                *)
LEMMA KeptIs ==
  ASSUME NEW T, NEW rs \in Seq(T), NEW S \in SUBSET DOMAIN rs, NEW s \in Kept(rs, S)
  PROVE  /\ s \in Seq(T)
         /\ \E at \in [DOMAIN s -> S] :
              /\ \A i \in DOMAIN s : s[i] = rs[at[i]]
              /\ \A i, j \in DOMAIN s : i < j => at[i] < at[j]
              /\ \A k \in S : \E i \in DOMAIN s : at[i] = k
<1> DEFINE Increasing(n) == {at \in [1..n -> S] : \A i, j \in 1..n : i < j => at[i] < at[j]}
           Onto(n) == {at \in Increasing(n) : \A k \in S : \E i \in 1..n : at[i] = k}
<1>0. PICK n \in 0..Len(rs) : s \in {[i \in 1..n |-> rs[at[i]]] : at \in Onto(n)}
  BY DEF Kept
<1>1. PICK at \in [1..n -> S] :
        /\ \A i, j \in 1..n : i < j => at[i] < at[j]
        /\ \A k \in S : \E i \in 1..n : at[i] = k
        /\ s = [i \in 1..n |-> rs[at[i]]]
  BY <1>0
<1>2. n \in Nat /\ \A i \in 1..n : rs[at[i]] \in T
  BY <1>1
<1>3. s \in Seq(T) /\ DOMAIN s = 1..n
  BY <1>1, <1>2
<1> QED BY <1>1, <1>3

(* The device's records when one is removed, and when one is written.      *)
LEMMA RemovedAt ==
  ASSUME NEW T, NEW rs \in Seq(T), NEW at \in DOMAIN rs, NEW s, s = RemoveAt(rs, at)
  PROVE  /\ s \in Seq(T) /\ Len(s) = Len(rs) - 1
         /\ \A i \in DOMAIN s : i + 1 \in DOMAIN rs
                                /\ s[i] = rs[IF i < at THEN i ELSE i + 1]
         /\ \A i \in DOMAIN rs : i # at => \E j \in DOMAIN s : s[j] = rs[i]
<1>1. Len(rs) \in Nat /\ at \in 1..Len(rs)
  OBVIOUS
<1> DEFINE a == SubSeq(rs, 1, at - 1)  b == SubSeq(rs, at + 1, Len(rs))
<1>2. a \in Seq(T) /\ Len(a) = at - 1 /\ \A i \in 1..(at - 1) : a[i] = rs[i]
  BY <1>1
<1>3. b \in Seq(T) /\ Len(b) = Len(rs) - at /\ \A i \in 1..(Len(rs) - at) : b[i] = rs[at + i]
  BY <1>1
<1>4. s = a \o b
  BY DEF RemoveAt
<1> HIDE DEF a, b
<1>5. s \in Seq(T) /\ Len(s) = Len(rs) - 1
  BY <1>1, <1>2, <1>3, <1>4
<1>6. ASSUME NEW i \in DOMAIN s PROVE s[i] = rs[IF i < at THEN i ELSE i + 1]
  <2>1. i \in 1..(Len(rs) - 1)
    BY <1>5
  <2>2. CASE i < at
    BY <1>1, <1>2, <1>3, <1>4, <2>1, <2>2
  <2>3. CASE i >= at
    <3>1. s[i] = b[i - (at - 1)]
      BY ONLY <1>1, <1>2, <1>3, <1>4, <2>1, <2>3
    <3> QED BY ONLY <1>1, <1>3, <2>1, <2>3, <3>1
  <2> QED BY ONLY <1>1, <2>1, <2>2, <2>3
<1>7. ASSUME NEW i \in DOMAIN rs, i # at PROVE \E j \in DOMAIN s : s[j] = rs[i]
  <2>1. CASE i < at
    <3>1. i \in DOMAIN s /\ s[i] = rs[i]
      BY <1>1, <1>5, <1>6, <2>1
    <3> QED BY <3>1
  <2>2. CASE i > at
    <3>1. i - 1 \in DOMAIN s /\ ~(i - 1 < at) /\ (i - 1) + 1 = i
      BY <1>1, <1>5, <1>7, <2>2
    <3> QED BY <1>6, <3>1
  <2> QED BY <1>1, <1>7, <2>1, <2>2
<1> QED BY <1>1, <1>5, <1>6, <1>7

OnceOnDevice == \A i, j \in DOMAIN dev : dev[i].id = dev[j].id => i = j

LEMMA OnDeviceIs ==
  ASSUME dev \in Seq(PilotRecords), NEW id
  PROVE  \/ OnDevice(id) = 0 /\ \A i \in DOMAIN dev : dev[i].id # id
         \/ OnDevice(id) \in DOMAIN dev /\ dev[OnDevice(id)].id = id
<1> DEFINE S == {i \in DOMAIN dev : dev[i].id = id}
<1>1. Len(dev) \in Nat /\ S \in SUBSET (1..Len(dev))
  OBVIOUS
<1>2. IF S = {} THEN First(S) = 0 ELSE First(S) \in S
  BY ONLY <1>1, FirstIs
<1> QED BY <1>2 DEF OnDevice

LEMMA WrittenIs ==
  ASSUME dev \in Seq(PilotRecords), OnceOnDevice, NEW new \in PilotRecords,
         dev' = Written(new)
  PROVE  /\ dev' \in Seq(PilotRecords) /\ DOMAIN dev \subseteq DOMAIN dev' /\ OnceOnDevice'
         /\ \A i \in DOMAIN dev : dev'[i] = IF dev[i].id = new.id THEN new ELSE dev[i]
         /\ \A i \in DOMAIN dev' \ DOMAIN dev : dev'[i] = new
<1>1. CASE OnDevice(new.id) = 0
  <2>1. dev' = Append(dev, new) /\ \A i \in DOMAIN dev : dev[i].id # new.id
    BY <1>1, OnDeviceIs DEF Written
  <2>2. /\ dev' \in Seq(PilotRecords) /\ DOMAIN dev' = DOMAIN dev \cup {Len(dev) + 1}
        /\ \A i \in DOMAIN dev : dev'[i] = dev[i]
        /\ dev'[Len(dev) + 1] = new
    BY <2>1
  <2> QED BY <2>1, <2>2 DEF OnceOnDevice
<1>2. CASE OnDevice(new.id) # 0
  <2>1. OnDevice(new.id) \in DOMAIN dev /\ dev[OnDevice(new.id)].id = new.id
    BY <1>2, OnDeviceIs
  <2>2. dev' = [dev EXCEPT ![OnDevice(new.id)] = new]
    BY <1>2 DEF Written
  <2>3. /\ dev' \in Seq(PilotRecords) /\ DOMAIN dev' = DOMAIN dev
        /\ \A i \in DOMAIN dev : dev'[i] = IF i = OnDevice(new.id) THEN new ELSE dev[i]
    BY <2>1, <2>2
  <2>4. \A i \in DOMAIN dev : i = OnDevice(new.id) <=> dev[i].id = new.id
    BY <2>1 DEF OnceOnDevice
  <2> QED BY <2>1, <2>3, <2>4 DEF OnceOnDevice
<1> QED BY <1>1, <1>2

-----------------------------------------------------------------------------
(* What sync_record may still have to do.                                  *)
Plans ==
  {<<>>, <<"add">>, <<"queue">>, <<"archive">>, <<"clear">>,
   <<"replace", "archive", "clear">>, <<"archive", "clear">>,
   <<"add", "match", "archive">>, <<"match", "archive">>,
   <<"archive", "deleteP", "clear">>, <<"deleteP", "clear">>,
   <<"writeNew", "add", "queue", "clear">>, <<"add", "queue", "clear">>,
   <<"queue", "clear">>, <<"deleteP", "queue", "clear">>,
   <<"unarchive", "replace", "clear">>, <<"replace", "clear">>,
   <<"add", "forget", "queue", "clear">>, <<"forget", "queue", "clear">>,
   <<"deleteD", "deleteBoth", "clear">>, <<"deleteBoth", "clear">>}

LEMMA RulePlans == ASSUME NEW p, NEW d, NEW s, Rule(p, d, s) PROVE s \in Plans
BY Zenon DEF Rule, Plans

(* The step s begins with, and what comes after it.                        *)
Turn(s, h, t) ==
  \/ h = "add" /\ \/ s = <<"add">> /\ t = <<>>
                  \/ s = <<"add", "match", "archive">> /\ t = <<"match", "archive">>
                  \/ s = <<"add", "queue", "clear">> /\ t = <<"queue", "clear">>
                  \/ s = <<"add", "forget", "queue", "clear">>
                     /\ t = <<"forget", "queue", "clear">>
  \/ h = "queue" /\ \/ s = <<"queue">> /\ t = <<>>
                    \/ s = <<"queue", "clear">> /\ t = <<"clear">>
  \/ h = "archive" /\ \/ s = <<"archive">> /\ t = <<>>
                      \/ s = <<"archive", "clear">> /\ t = <<"clear">>
                      \/ s = <<"archive", "deleteP", "clear">> /\ t = <<"deleteP", "clear">>
  \/ h = "clear" /\ s = <<"clear">> /\ t = <<>>
  \/ h = "match" /\ s = <<"match", "archive">> /\ t = <<"archive">>
  \/ h = "replace" /\ \/ s = <<"replace", "clear">> /\ t = <<"clear">>
                      \/ s = <<"replace", "archive", "clear">> /\ t = <<"archive", "clear">>
  \/ h = "deleteP" /\ \/ s = <<"deleteP", "clear">> /\ t = <<"clear">>
                      \/ s = <<"deleteP", "queue", "clear">> /\ t = <<"queue", "clear">>
  \/ h = "writeNew" /\ s = <<"writeNew", "add", "queue", "clear">>
                   /\ t = <<"add", "queue", "clear">>
  \/ h = "unarchive" /\ s = <<"unarchive", "replace", "clear">> /\ t = <<"replace", "clear">>
  \/ h = "forget" /\ s = <<"forget", "queue", "clear">> /\ t = <<"queue", "clear">>
  \/ h = "deleteD" /\ s = <<"deleteD", "deleteBoth", "clear">>
                  /\ t = <<"deleteBoth", "clear">>
  \/ h = "deleteBoth" /\ s = <<"deleteBoth", "clear">> /\ t = <<"clear">>

LEMMA PlanTurn ==
  ASSUME NEW s \in Plans, s # <<>>
  PROVE  Turn(s, Head(s), Tail(s)) /\ Tail(s) \in Plans
<1>1. \A a : Head(<<a>>) = a /\ Tail(<<a>>) = <<>>
  OBVIOUS
<1>2. \A a, b : Head(<<a, b>>) = a /\ Tail(<<a, b>>) = <<b>>
  OBVIOUS
<1>3. \A a, b, c : Head(<<a, b, c>>) = a /\ Tail(<<a, b, c>>) = <<b, c>>
  OBVIOUS
<1>4. \A a, b, c, d : Head(<<a, b, c, d>>) = a /\ Tail(<<a, b, c, d>>) = <<b, c, d>>
  OBVIOUS
<1>5. CASE s = <<"add">>
  <2>1. Head(s) = "add" /\ Tail(s) = <<>>
    BY <1>1, <1>5
  <2> QED BY <1>5, <2>1, Zenon DEF Turn, Plans
<1>6. CASE s = <<"queue">>
  <2>1. Head(s) = "queue" /\ Tail(s) = <<>>
    BY <1>1, <1>6
  <2> QED BY <1>6, <2>1, Zenon DEF Turn, Plans
<1>7. CASE s = <<"archive">>
  <2>1. Head(s) = "archive" /\ Tail(s) = <<>>
    BY <1>1, <1>7
  <2> QED BY <1>7, <2>1, Zenon DEF Turn, Plans
<1>8. CASE s = <<"clear">>
  <2>1. Head(s) = "clear" /\ Tail(s) = <<>>
    BY <1>1, <1>8
  <2> QED BY <1>8, <2>1, Zenon DEF Turn, Plans
<1>9. CASE s = <<"replace", "archive", "clear">>
  <2>1. Head(s) = "replace" /\ Tail(s) = <<"archive", "clear">>
    BY <1>3, <1>9
  <2> QED BY <1>9, <2>1, Zenon DEF Turn, Plans
<1>10. CASE s = <<"archive", "clear">>
  <2>1. Head(s) = "archive" /\ Tail(s) = <<"clear">>
    BY <1>2, <1>10
  <2> QED BY <1>10, <2>1, Zenon DEF Turn, Plans
<1>11. CASE s = <<"add", "match", "archive">>
  <2>1. Head(s) = "add" /\ Tail(s) = <<"match", "archive">>
    BY <1>3, <1>11
  <2> QED BY <1>11, <2>1, Zenon DEF Turn, Plans
<1>12. CASE s = <<"match", "archive">>
  <2>1. Head(s) = "match" /\ Tail(s) = <<"archive">>
    BY <1>2, <1>12
  <2> QED BY <1>12, <2>1, Zenon DEF Turn, Plans
<1>13. CASE s = <<"archive", "deleteP", "clear">>
  <2>1. Head(s) = "archive" /\ Tail(s) = <<"deleteP", "clear">>
    BY <1>3, <1>13
  <2> QED BY <1>13, <2>1, Zenon DEF Turn, Plans
<1>14. CASE s = <<"deleteP", "clear">>
  <2>1. Head(s) = "deleteP" /\ Tail(s) = <<"clear">>
    BY <1>2, <1>14
  <2> QED BY <1>14, <2>1, Zenon DEF Turn, Plans
<1>15. CASE s = <<"writeNew", "add", "queue", "clear">>
  <2>1. Head(s) = "writeNew" /\ Tail(s) = <<"add", "queue", "clear">>
    BY <1>4, <1>15
  <2> QED BY <1>15, <2>1, Zenon DEF Turn, Plans
<1>16. CASE s = <<"add", "queue", "clear">>
  <2>1. Head(s) = "add" /\ Tail(s) = <<"queue", "clear">>
    BY <1>3, <1>16
  <2> QED BY <1>16, <2>1, Zenon DEF Turn, Plans
<1>17. CASE s = <<"queue", "clear">>
  <2>1. Head(s) = "queue" /\ Tail(s) = <<"clear">>
    BY <1>2, <1>17
  <2> QED BY <1>17, <2>1, Zenon DEF Turn, Plans
<1>18. CASE s = <<"deleteP", "queue", "clear">>
  <2>1. Head(s) = "deleteP" /\ Tail(s) = <<"queue", "clear">>
    BY <1>3, <1>18
  <2> QED BY <1>18, <2>1, Zenon DEF Turn, Plans
<1>19. CASE s = <<"unarchive", "replace", "clear">>
  <2>1. Head(s) = "unarchive" /\ Tail(s) = <<"replace", "clear">>
    BY <1>3, <1>19
  <2> QED BY <1>19, <2>1, Zenon DEF Turn, Plans
<1>20. CASE s = <<"replace", "clear">>
  <2>1. Head(s) = "replace" /\ Tail(s) = <<"clear">>
    BY <1>2, <1>20
  <2> QED BY <1>20, <2>1, Zenon DEF Turn, Plans
<1>21. CASE s = <<"add", "forget", "queue", "clear">>
  <2>1. Head(s) = "add" /\ Tail(s) = <<"forget", "queue", "clear">>
    BY <1>4, <1>21
  <2> QED BY <1>21, <2>1, Zenon DEF Turn, Plans
<1>22. CASE s = <<"forget", "queue", "clear">>
  <2>1. Head(s) = "forget" /\ Tail(s) = <<"queue", "clear">>
    BY <1>3, <1>22
  <2> QED BY <1>22, <2>1, Zenon DEF Turn, Plans
<1>23. CASE s = <<"deleteD", "deleteBoth", "clear">>
  <2>1. Head(s) = "deleteD" /\ Tail(s) = <<"deleteBoth", "clear">>
    BY <1>3, <1>23
  <2> QED BY <1>23, <2>1, Zenon DEF Turn, Plans
<1>24. CASE s = <<"deleteBoth", "clear">>
  <2>1. Head(s) = "deleteBoth" /\ Tail(s) = <<"clear">>
    BY <1>2, <1>24
  <2> QED BY <1>24, <2>1, Zenon DEF Turn, Plans
<1> QED BY <1>5, <1>6, <1>7, <1>8, <1>9, <1>10, <1>11, <1>12, <1>13, <1>14, <1>15, <1>16, <1>17, <1>18, <1>19, <1>20, <1>21, <1>22, <1>23, <1>24 DEF Plans

(* desk[rec.d] is to be queued.                                            *)
QueuePlans ==
  {<<"queue">>, <<"queue", "clear">>, <<"add", "queue", "clear">>,
   <<"writeNew", "add", "queue", "clear">>, <<"deleteP", "queue", "clear">>,
   <<"add", "forget", "queue", "clear">>, <<"forget", "queue", "clear">>}

QueuePending == rec.steps \in QueuePlans

LEMMA RuleQueues ==
  ASSUME NEW p, NEW d, NEW s \in QueuePlans, Rule(p, d, s)
  PROVE  d # NoDesktopRecord /\ s # <<>>
<1>1. ~Changed(NoDesktopRecord)
  BY NoRecords DEF Changed
<1>2. ASSUME d = NoDesktopRecord PROVE ~Changed(d)
  BY <1>1, <1>2
<1>3. <<>> \notin QueuePlans
  BY DEF QueuePlans
<1>4. CASE s = <<"queue">>
  BY <1>3, <1>4 DEF Rule
<1>5. CASE s = <<"queue", "clear">>
  BY <1>2, <1>3, <1>5 DEF Rule
<1>6. CASE s = <<"writeNew", "add", "queue", "clear">>
  BY <1>3, <1>6 DEF Rule
<1>7. CASE s = <<"deleteP", "queue", "clear">>
  BY <1>2, <1>3, <1>7 DEF Rule
<1>8. CASE s = <<"add", "forget", "queue", "clear">>
  BY <1>2, <1>3, <1>8 DEF Rule
<1>9. CASE s \in {<<"add", "queue", "clear">>, <<"forget", "queue", "clear">>}
  BY <1>9 DEF Rule
<1> QED BY <1>4, <1>5, <1>6, <1>7, <1>8, <1>9 DEF QueuePlans

LEMMA QueueTurn ==
  ASSUME NEW s, NEW t, rec.steps = s, rec'.steps = t, NEW h, Turn(s, h, t)
  PROVE  /\ QueuePending' => QueuePending /\ h # "queue" /\ t # <<>>
         /\ h = "queue" => QueuePending
BY DEF Turn, QueuePending, QueuePlans

-----------------------------------------------------------------------------
(* The records that there may be when the operation begins.                *)
LEMMA PilotRecordIs ==
  ASSUME NEW id, NEW v, NEW a
  PROVE  \E x, y, z \in BOOLEAN :
           /\ PilotRecord(id, v, a) = [id |-> id, val |-> v, dirty |-> x, del |-> y, arch |-> z]
           /\ x <=> "dirty" \in a
           /\ y <=> "deleted" \in a
           /\ z <=> "archived" \in a
<1>1. PICK x \in BOOLEAN : x = ("dirty" \in a)
  <2>1. ("dirty" \in a) \in BOOLEAN
    OBVIOUS
  <2> QED BY <2>1, Zenon
<1>2. PICK y \in BOOLEAN : y = ("deleted" \in a)
  <2>1. ("deleted" \in a) \in BOOLEAN
    OBVIOUS
  <2> QED BY <2>1, Zenon
<1>3. PICK z \in BOOLEAN : z = ("archived" \in a)
  <2>1. ("archived" \in a) \in BOOLEAN
    OBVIOUS
  <2> QED BY <2>1, Zenon
<1>4. PilotRecord(id, v, a) = [id |-> id, val |-> v, dirty |-> x, del |-> y, arch |-> z]
  BY <1>1, <1>2, <1>3, Zenon DEF PilotRecord
<1> QED BY <1>1, <1>2, <1>3, <1>4, Zenon

LEMMA DesktopRecordIs ==
  ASSUME NEW id, NEW v, NEW a, NEW place
  PROVE  \E x, y, z \in BOOLEAN :
           /\ DesktopRecord(id, v, a, place) =
                [id |-> id, val |-> v, dirty |-> x, del |-> y, arch |-> z, place |-> place]
           /\ x <=> "dirty" \in a
           /\ y <=> "deleted" \in a
           /\ z <=> "archived" \in a
<1>1. PICK x \in BOOLEAN : x = ("dirty" \in a)
  <2>1. ("dirty" \in a) \in BOOLEAN
    OBVIOUS
  <2> QED BY <2>1, Zenon
<1>2. PICK y \in BOOLEAN : y = ("deleted" \in a)
  <2>1. ("deleted" \in a) \in BOOLEAN
    OBVIOUS
  <2> QED BY <2>1, Zenon
<1>3. PICK z \in BOOLEAN : z = ("archived" \in a)
  <2>1. ("archived" \in a) \in BOOLEAN
    OBVIOUS
  <2> QED BY <2>1, Zenon
<1>4. DesktopRecord(id, v, a, place) =
        [id |-> id, val |-> v, dirty |-> x, del |-> y, arch |-> z, place |-> place]
  BY <1>1, <1>2, <1>3, Zenon DEF DesktopRecord
<1> QED BY <1>1, <1>2, <1>3, <1>4, Zenon

EditsOnPilot == {"pilot edit", "same edit"}

GivenOnPilot ==
  {r \in PilotRecords : /\ r.del => r.val[2] = "erased"
                        /\ Changed(r) => r.val[2] \in EditsOnPilot}

GivenOnDesktop ==
  {r \in DesktopRecords : /\ r.place # "gone"
                          /\ r.del => r.val[2] \in {"original", "desktop edit"}
                          /\ Changed(r) => r.val[2] \in {"desktop edit", "same edit"}}

LEMMA Contents ==
  ASSUME NEW k \in Nat
  PROVE  /\ {Original(k), EditOnPilot(k), EditOnDesktop(k), SameEdit(k), Erased(k)}
               \subseteq Values
         /\ Original(k)[2] = "original" /\ EditOnPilot(k)[2] = "pilot edit"
         /\ EditOnDesktop(k)[2] = "desktop edit" /\ SameEdit(k)[2] = "same edit"
         /\ Erased(k)[2] = "erased"
<1>1. \A t \in {"original", "pilot edit", "desktop edit", "same edit", "erased"} :
        <<k, t>> \in Values
  BY DEF Values
<1>2. \A t : <<k, t>>[2] = t
  OBVIOUS
<1> QED BY <1>1, <1>2 DEF Original, EditOnPilot, EditOnDesktop, SameEdit, Erased

LEMMA OnPilotIs ==
  ASSUME NEW k \in Nat, NEW r \in OnPilot(k)
  PROVE  r \in GivenOnPilot /\ r.id = k
<1>1. ASSUME NEW v \in Values, NEW a, r = PilotRecord(k, v, a),
             "deleted" \in a => v[2] = "erased",
             "dirty" \in a /\ "deleted" \notin a => v[2] \in EditsOnPilot
      PROVE  r \in GivenOnPilot /\ r.id = k
  <2>1. PICK x, y, z \in BOOLEAN :
          /\ r = [id |-> k, val |-> v, dirty |-> x, del |-> y, arch |-> z]
          /\ x <=> "dirty" \in a
          /\ y <=> "deleted" \in a
    <3>1. \E x, y, z \in BOOLEAN :
            /\ PilotRecord(k, v, a) = [id |-> k, val |-> v, dirty |-> x, del |-> y, arch |-> z]
            /\ x <=> "dirty" \in a
            /\ y <=> "deleted" \in a
            /\ z <=> "archived" \in a
      BY ONLY PilotRecordIs, Zenon
    <3> QED BY ONLY <1>1, <3>1, Zenon
  <2>2. r \in PilotRecords /\ r.id = k /\ r.val = v /\ r.dirty = x /\ r.del = y
    BY <2>1 DEF PilotRecords
  <2> QED BY <1>1, <2>1, <2>2 DEF GivenOnPilot, Changed
<1>2. /\ Original(k) \in Values /\ Original(k)[2] = "original"
      /\ Erased(k) \in Values /\ Erased(k)[2] = "erased"
      /\ EditOnPilot(k) \in Values /\ EditOnPilot(k)[2] = "pilot edit"
      /\ SameEdit(k) \in Values /\ SameEdit(k)[2] = "same edit"
  BY Contents
<1>3. \/ \E a \in {{}, {"archived"}} : r = PilotRecord(k, Original(k), a)
      \/ \E a \in {{"deleted"}, {"deleted", "dirty"}} : r = PilotRecord(k, Erased(k), a)
      \/ \E v \in {EditOnPilot(k), SameEdit(k)}, a \in {{}, {"archived"}} :
           r = PilotRecord(k, v, {"dirty"} \cup a)
  BY DEF OnPilot
<1>4. CASE \E a \in {{}, {"archived"}} : r = PilotRecord(k, Original(k), a)
  <2>1. PICK a \in {{}, {"archived"}} : r = PilotRecord(k, Original(k), a)
    BY <1>4
  <2>2. "dirty" \notin a /\ "deleted" \notin a
    OBVIOUS
  <2> QED BY <1>1, <1>2, <2>1, <2>2
<1>5. CASE \E a \in {{"deleted"}, {"deleted", "dirty"}} : r = PilotRecord(k, Erased(k), a)
  <2>1. PICK a \in {{"deleted"}, {"deleted", "dirty"}} : r = PilotRecord(k, Erased(k), a)
    BY <1>5
  <2>2. "deleted" \in a
    OBVIOUS
  <2> QED BY <1>1, <1>2, <2>1, <2>2
<1>6. CASE \E v \in {EditOnPilot(k), SameEdit(k)}, a \in {{}, {"archived"}} :
             r = PilotRecord(k, v, {"dirty"} \cup a)
  <2>1. PICK v \in {EditOnPilot(k), SameEdit(k)} :
          \E a \in {{}, {"archived"}} : r = PilotRecord(k, v, {"dirty"} \cup a)
    BY <1>6
  <2>2. PICK a \in {{}, {"archived"}} : r = PilotRecord(k, v, {"dirty"} \cup a)
    BY <2>1
  <2>3. "deleted" \notin {"dirty"} \cup a
    OBVIOUS
  <2>4. v \in Values /\ v[2] \in EditsOnPilot
    BY <1>2 DEF EditsOnPilot
  <2> QED BY <1>1, <2>2, <2>3, <2>4
<1> QED BY <1>3, <1>4, <1>5, <1>6

LEMMA GivenDesktopIs ==
  ASSUME NEW id \in Nat, NEW v \in Values, NEW a, NEW place \in {"live", "archive"},
         "deleted" \in a => v[2] \in {"original", "desktop edit"},
         "dirty" \in a /\ "deleted" \notin a => v[2] \in {"desktop edit", "same edit"},
         NEW r, r = DesktopRecord(id, v, a, place)
  PROVE  r \in GivenOnDesktop /\ r.id = id
<1>1. PICK x, y, z \in BOOLEAN :
          /\ r = [id |-> id, val |-> v, dirty |-> x, del |-> y, arch |-> z, place |-> place]
          /\ x <=> "dirty" \in a
          /\ y <=> "deleted" \in a
  <2>1. \E x, y, z \in BOOLEAN :
           /\ DesktopRecord(id, v, a, place) =
                [id |-> id, val |-> v, dirty |-> x, del |-> y, arch |-> z, place |-> place]
           /\ x <=> "dirty" \in a
           /\ y <=> "deleted" \in a
           /\ z <=> "archived" \in a
    BY ONLY DesktopRecordIs
  <2> QED BY ONLY <2>1, r = DesktopRecord(id, v, a, place), Zenon
<1>2. /\ r \in DesktopRecords /\ r.id = id /\ r.val = v /\ r.dirty = x /\ r.del = y
      /\ r.place = place
  BY ONLY <1>1, id \in Nat, v \in Values, place \in {"live", "archive"} DEF DesktopRecords
<1> QED BY <1>1, <1>2 DEF GivenOnDesktop, Changed

LEMMA OnDesktopIs ==
  ASSUME NEW k \in Nat, NEW r \in OnDesktop(k)
  PROVE  r \in GivenOnDesktop /\ r.id = k
<1>1. /\ Original(k) \in Values /\ Original(k)[2] = "original"
      /\ EditOnDesktop(k) \in Values /\ EditOnDesktop(k)[2] = "desktop edit"
      /\ SameEdit(k) \in Values /\ SameEdit(k)[2] = "same edit"
  BY Contents
<1>2. ASSUME NEW v \in {EditOnDesktop(k), SameEdit(k)}, NEW a, "deleted" \notin a,
             NEW place \in {"live", "archive"}, r = DesktopRecord(k, v, a, place)
      PROVE  r \in GivenOnDesktop /\ r.id = k
  <2>1. v \in Values /\ v[2] \in {"desktop edit", "same edit"}
    BY <1>1
  <2> QED BY <1>2, <2>1, GivenDesktopIs
<1>3. ASSUME NEW a, "dirty" \notin a, NEW place \in {"live", "archive"},
             r = DesktopRecord(k, Original(k), a, place)
      PROVE  r \in GivenOnDesktop /\ r.id = k
  <2>1. "deleted" \in a => Original(k)[2] \in {"original", "desktop edit"}
    BY <1>1
  <2>2. "dirty" \in a /\ "deleted" \notin a => Original(k)[2] \in {"desktop edit", "same edit"}
    BY <1>3
  <2>3. Original(k) \in Values
    BY <1>1
  <2> QED BY ONLY <1>3, <2>1, <2>2, <2>3, k \in Nat, place \in {"live", "archive"}, GivenDesktopIs, Zenon
<1>4. CASE r = DesktopRecord(k, EditOnDesktop(k), {"deleted", "dirty"}, "live")
  <2>1. EditOnDesktop(k)[2] \in {"original", "desktop edit"} /\ EditOnDesktop(k) \in Values
    BY <1>1
  <2> DEFINE a == {"deleted", "dirty"}
  <2>2. "deleted" \in a /\ "live" \in {"live", "archive"}
    OBVIOUS
  <2>3. r = DesktopRecord(k, EditOnDesktop(k), a, "live")
    BY <1>4
  <2> HIDE DEF a
  <2> QED BY ONLY <2>1, <2>2, <2>3, k \in Nat, GivenDesktopIs, Zenon
<1>5. \/ r = DesktopRecord(k, Original(k), {}, "live")
      \/ r = DesktopRecord(k, Original(k), {"deleted"}, "live")
      \/ r = DesktopRecord(k, EditOnDesktop(k), {"deleted", "dirty"}, "live")
      \/ r = DesktopRecord(k, Original(k), {"archived"}, "archive")
      \/ \E v \in {EditOnDesktop(k), SameEdit(k)} : r = DesktopRecord(k, v, {"dirty"}, "live")
      \/ \E v \in {EditOnDesktop(k), SameEdit(k)} :
           r = DesktopRecord(k, v, {"dirty", "archived"}, "archive")
  BY DEF OnDesktop
<1>6. /\ "dirty" \notin {} /\ "dirty" \notin {"deleted"} /\ "dirty" \notin {"archived"}
      /\ "deleted" \notin {"dirty"} /\ "deleted" \notin {"dirty", "archived"}
  OBVIOUS
<1>7. "live" \in {"live", "archive"} /\ "archive" \in {"live", "archive"}
  OBVIOUS
<1> QED BY ONLY <1>2, <1>3, <1>4, <1>5, <1>6, <1>7, Zenon

LEMMA NewOnPilotIs ==
  ASSUME NEW k \in Nat, NEW s \in NewOnPilot(k)
  PROVE  s = <<>> \/ \E r \in GivenOnPilot : s = <<r>> /\ r.id = k
<1>1. CASE \E a \in {{}, {"archived"}} : s = <<PilotRecord(k, EditOnPilot(k), {"dirty"} \cup a)>>
  <2>1. PICK a \in {{}, {"archived"}} : s = <<PilotRecord(k, EditOnPilot(k), {"dirty"} \cup a)>>
    BY <1>1
  <2>2. PilotRecord(k, EditOnPilot(k), {"dirty"} \cup a) \in OnPilot(k)
    BY DEF OnPilot
  <2> QED BY <2>1, <2>2, OnPilotIs
<1>2. CASE s = <<PilotRecord(k, Erased(k), {"deleted", "dirty"})>>
  <2>1. PilotRecord(k, Erased(k), {"deleted", "dirty"}) \in OnPilot(k)
    BY DEF OnPilot
  <2> QED BY <1>2, <2>1, OnPilotIs
<1> QED BY <1>1, <1>2 DEF NewOnPilot

LEMMA NewOnDesktopIs ==
  ASSUME NEW k \in Nat, NEW s \in NewOnDesktop(k)
  PROVE  s = <<>> \/ \E r \in GivenOnDesktop : s = <<r>> /\ r.id = 0
<1> DEFINE r == DesktopRecord(0, EditOnDesktop(k), {"dirty"}, "live")
<1>1. r \in GivenOnDesktop /\ r.id = 0
  <2>1. PICK v, a, place, q :
          /\ v = EditOnDesktop(k) /\ a = {"dirty"} /\ place = "live" /\ q = r
          /\ q = DesktopRecord(0, v, a, place)
    OBVIOUS
  <2>2. v \in Values /\ v[2] = "desktop edit"
    BY <2>1, Contents
  <2>3. /\ place \in {"live", "archive"}
        /\ "deleted" \in a => v[2] \in {"original", "desktop edit"}
        /\ "dirty" \in a /\ "deleted" \notin a => v[2] \in {"desktop edit", "same edit"}
    BY <2>1, <2>2
  <2>4. q \in GivenOnDesktop /\ q.id = 0
    <3>1. q = DesktopRecord(0, v, a, place) /\ 0 \in Nat
      BY <2>1
    <3> QED BY ONLY <3>1, <2>2, <2>3, GivenDesktopIs
  <2> QED BY <2>1, <2>4
<1>2. s = <<>> \/ s = <<r>>
  BY DEF NewOnDesktop
<1> QED BY <1>1, <1>2

(* The records of rs have different ids, up to n. *)
DistinctIds(rs, n) ==
  /\ \A i \in DOMAIN rs : rs[i].id \in 1..n
  /\ \A i, j \in DOMAIN rs : rs[i].id = rs[j].id => i = j

LEMMA KeptIds ==
  ASSUME NEW T, NEW n \in Nat, NEW rs \in Seq(T), DistinctIds(rs, n),
         NEW S \in SUBSET DOMAIN rs, NEW s \in Kept(rs, S)
  PROVE  /\ s \in Seq(T) /\ DistinctIds(s, n)
         /\ \A i \in DOMAIN s : \E k \in S : s[i] = rs[k]
<1>1. PICK at \in [DOMAIN s -> S] :
        /\ \A i \in DOMAIN s : s[i] = rs[at[i]]
        /\ \A i, j \in DOMAIN s : i < j => at[i] < at[j]
  BY ONLY rs \in Seq(T), S \in SUBSET DOMAIN rs, s \in Kept(rs, S), KeptIs
<1>2. s \in Seq(T)
  BY ONLY rs \in Seq(T), S \in SUBSET DOMAIN rs, s \in Kept(rs, S), KeptIs
<1>3. \A i \in DOMAIN s : at[i] \in S /\ at[i] \in DOMAIN rs /\ at[i] \in Nat
  BY <1>1
<1>4. ASSUME NEW i \in DOMAIN s, NEW j \in DOMAIN s, s[i].id = s[j].id PROVE i = j
  <2>1. at[i] = at[j]
    BY <1>1, <1>3, <1>4 DEF DistinctIds
  <2>2. ~(i < j) /\ ~(j < i)
    BY <1>1, <1>3, <2>1
  <2>3. i \in Nat /\ j \in Nat
    BY <1>2
  <2> QED BY <2>2, <2>3
<1>5. \A i \in DOMAIN s : s[i].id \in 1..n
  BY <1>1, <1>3 DEF DistinctIds
<1> QED BY <1>1, <1>2, <1>3, <1>4, <1>5 DEF DistinctIds

LEMMA InOrderIds ==
  ASSUME NEW n \in Nat, NEW rs \in Seq(GivenOnPilot), DistinctIds(rs, n),
         NEW s \in InOrder(rs)
  PROVE  s \in Seq(GivenOnPilot) /\ DistinctIds(s, n)
<1>1. PICK a \in Kept(rs, Present(rs)), b \in Kept(rs, Deleted(rs)) : s = a \o b
  BY DEF InOrder
<1>2. /\ Deleted(rs) \in SUBSET DOMAIN rs /\ Present(rs) \in SUBSET DOMAIN rs
      /\ Present(rs) \cap Deleted(rs) = {}
  BY DEF Deleted, Present
<1>3. /\ a \in Seq(GivenOnPilot) /\ DistinctIds(a, n)
      /\ \A i \in DOMAIN a : \E k \in Present(rs) : a[i] = rs[k]
  BY <1>2, KeptIds
<1>4. /\ b \in Seq(GivenOnPilot) /\ DistinctIds(b, n)
      /\ \A i \in DOMAIN b : \E k \in Deleted(rs) : b[i] = rs[k]
  BY <1>2, KeptIds
<1>5. ASSUME NEW i \in DOMAIN a, NEW j \in DOMAIN b PROVE a[i].id # b[j].id
  <2>1. PICK k \in Present(rs) : a[i] = rs[k]
    BY <1>3
  <2>2. PICK m \in Deleted(rs) : b[j] = rs[m]
    BY <1>4
  <2>3. rs[k].id # rs[m].id
    BY <1>2, <2>1, <2>2 DEF DistinctIds
  <2> QED BY <2>1, <2>2, <2>3
<1> HIDE DEF DistinctIds
<1>6. /\ s \in Seq(GivenOnPilot) /\ Len(s) = Len(a) + Len(b)
      /\ \A i \in DOMAIN s : IF i <= Len(a) THEN i \in DOMAIN a /\ s[i] = a[i]
                              ELSE i - Len(a) \in DOMAIN b /\ s[i] = b[i - Len(a)]
  BY <1>1, <1>3, <1>4
<1>7. \A i \in DOMAIN s : s[i].id \in 1..n
  BY <1>3, <1>4, <1>6 DEF DistinctIds
<1>8. ASSUME NEW i \in DOMAIN s, NEW j \in DOMAIN s, s[i].id = s[j].id PROVE i = j
  <2>0. i \in Nat /\ j \in Nat /\ Len(a) \in Nat
    BY <1>3, <1>6
  <2>1. CASE i <= Len(a) /\ j <= Len(a)
    BY <1>3, <1>6, <1>8, <2>1 DEF DistinctIds
  <2>2. CASE i > Len(a) /\ j > Len(a)
    <3>1. i - Len(a) = j - Len(a)
      BY <1>4, <1>6, <1>8, <2>0, <2>2 DEF DistinctIds
    <3> QED BY ONLY <2>0, <3>1
  <2>3. CASE i <= Len(a) /\ j > Len(a)
    BY <1>5, <1>6, <1>8, <2>0, <2>3
  <2>4. CASE j <= Len(a) /\ i > Len(a)
    BY <1>5, <1>6, <1>8, <2>0, <2>4
  <2> QED BY <2>0, <2>1, <2>2, <2>3, <2>4
<1> QED BY <1>6, <1>7, <1>8 DEF DistinctIds

LEMMA OneMore ==
  ASSUME NEW n \in Nat, NEW m \in 0..1
  PROVE  /\ \A i \in 1..(n + m) : i \in 1..n \/ (i = n + 1 /\ m = 1)
         /\ 1..(n + m) \subseteq 1..(n + 1)
OBVIOUS

(* What there is when the operation begins.                                *)
LEMMA Beginning ==
  ASSUME Init
  PROVE  /\ dev \in Seq(GivenOnPilot) /\ DistinctIds(dev, Base + 1)
         /\ desk \in Seq(GivenOnDesktop)
         /\ \A i \in DOMAIN desk : desk[i].id \in {0, i} /\ desk[i].id <= Base
<1>0. Base \in Nat
  BY SyncAssumption
<1>1. PICK p \in [1..Base -> UNION {OnPilot(k) : k \in 1..Base}],
           d \in [1..Base -> UNION {OnDesktop(k) : k \in 1..Base}],
           np \in NewOnPilot(Base + 1), nd \in NewOnDesktop(Base + 2) :
        /\ \A k \in 1..Base : p[k] \in OnPilot(k) /\ d[k] \in OnDesktop(k)
        /\ \/ dev \in InOrder(p \o np)
           \/ LET rs == [k \in 1..Base |-> Unflagged(p[k])] \o np
              IN slow /\ dev \in Kept(rs, Present(rs))
        /\ desk = d \o nd
  BY Zenon DEF Init
<1> DEFINE u == [k \in 1..Base |-> Unflagged(p[k])]
<1>2. ASSUME NEW k \in 1..Base PROVE p[k] \in GivenOnPilot /\ p[k].id = k
  <2>1. k \in Nat /\ p[k] \in OnPilot(k)
    BY <1>0, <1>1
  <2> QED BY ONLY <2>1, OnPilotIs
<1>3. ASSUME NEW k \in 1..Base PROVE d[k] \in GivenOnDesktop /\ d[k].id = k
  <2>1. k \in Nat /\ d[k] \in OnDesktop(k)
    BY <1>0, <1>1
  <2> QED BY ONLY <2>1, OnDesktopIs
<1>4. p \in Seq(GivenOnPilot) /\ Len(p) = Base /\ d \in Seq(GivenOnDesktop) /\ Len(d) = Base
  BY <1>0, <1>2, <1>3
<1>5. ASSUME NEW r \in GivenOnPilot PROVE Unflagged(r) \in GivenOnPilot /\ Unflagged(r).id = r.id
  BY DEF Unflagged, GivenOnPilot, PilotRecords, Changed
<1>6. u \in Seq(GivenOnPilot) /\ Len(u) = Base /\ \A k \in 1..Base : u[k].id = k
  <2>1. ASSUME NEW k \in 1..Base PROVE u[k] \in GivenOnPilot /\ u[k].id = k
    BY <1>2, <1>5
  <2>2. u = [k \in 1..Base |-> u[k]]
    OBVIOUS
  <2> HIDE DEF u
  <2>3. u \in Seq(GivenOnPilot) /\ Len(u) = Base
    <3>1. u \in [1..Base -> GivenOnPilot]
      BY ONLY <2>1, <2>2
    <3> QED BY ONLY <1>0, <3>1
  <2> QED BY <2>1, <2>3
<1> HIDE DEF u
<1>7. np \in Seq(GivenOnPilot) /\ Len(np) \in 0..1 /\ \A i \in DOMAIN np : np[i].id = Base + 1
  <2>1. np = <<>> \/ \E r \in GivenOnPilot : np = <<r>> /\ r.id = Base + 1
    BY <1>0, NewOnPilotIs
  <2>2. CASE np = <<>>
    BY ONLY <2>2
  <2>3. ASSUME NEW r \in GivenOnPilot, np = <<r>>, r.id = Base + 1
        PROVE  np \in Seq(GivenOnPilot) /\ Len(np) \in 0..1 /\ \A i \in DOMAIN np : np[i].id = Base + 1
    BY ONLY <2>3
  <2> QED BY ONLY <2>1, <2>2, <2>3
<1>8. nd \in Seq(GivenOnDesktop) /\ \A i \in DOMAIN nd : nd[i].id = 0
  <2>1. nd = <<>> \/ \E r \in GivenOnDesktop : nd = <<r>> /\ r.id = 0
    BY <1>0, NewOnDesktopIs
  <2>2. CASE nd = <<>>
    BY ONLY <2>2
  <2>3. ASSUME NEW r \in GivenOnDesktop, nd = <<r>>, r.id = 0
        PROVE  nd \in Seq(GivenOnDesktop) /\ \A i \in DOMAIN nd : nd[i].id = 0
    BY ONLY <2>3
  <2> QED BY ONLY <2>1, <2>2, <2>3
<1>9. ASSUME NEW s \in Seq(GivenOnPilot), Len(s) = Base, \A k \in 1..Base : s[k].id = k
      PROVE  s \o np \in Seq(GivenOnPilot) /\ DistinctIds(s \o np, Base + 1)
  <2>1. s \o np \in Seq(GivenOnPilot) /\ Len(s \o np) = Base + Len(np)
    BY <1>7, <1>9
  <2>2. ASSUME NEW i \in DOMAIN (s \o np) PROVE (s \o np)[i].id = i
    <3>1. i \in 1..Base \/ (i = Base + 1 /\ 1 \in DOMAIN np)
      <4>1. \E n \in 0..1 : n = Len(np) /\ i \in 1..(Base + n)
        BY <1>7, <2>1
      <4>2. Len(np) = 1 => 1 \in DOMAIN np
        BY <1>7
      <4>3. i \in 1..Base \/ (i = Base + 1 /\ Len(np) = 1)
        BY ONLY <1>0, <4>1, OneMore
      <4> QED BY <4>2, <4>3
    <3>2. CASE i \in 1..Base
      <4>1. (s \o np)[i] = s[i]
        BY ONLY <1>0, <1>7, <1>9, <3>2
      <4> QED BY <4>1, <1>9, <3>2
    <3>3. CASE i = Base + 1 /\ 1 \in DOMAIN np
      <4>1. (s \o np)[i] = np[1]
        BY ONLY <1>0, <1>7, <1>9, <3>3
      <4> QED BY <4>1, <1>7, <3>3
    <3> QED BY <3>1, <3>2, <3>3
  <2>3. DOMAIN (s \o np) \subseteq 1..(Base + 1)
    <3>1. \E n \in 0..1 : n = Len(np) /\ DOMAIN (s \o np) = 1..(Base + n)
      BY <1>7, <2>1
    <3> QED BY ONLY <1>0, <3>1, OneMore
  <2> QED BY ONLY <2>1, <2>2, <2>3 DEF DistinctIds
<1>10. dev \in Seq(GivenOnPilot) /\ DistinctIds(dev, Base + 1)
  <2>1. CASE dev \in InOrder(p \o np)
    <3>1. p \o np \in Seq(GivenOnPilot) /\ DistinctIds(p \o np, Base + 1)
      BY <1>2, <1>4, <1>9
    <3>2. Base + 1 \in Nat
      BY <1>0
    <3> QED BY ONLY <3>1, <3>2, <2>1, InOrderIds
  <2>2. CASE dev \in Kept(u \o np, Present(u \o np))
    <3>1. u \o np \in Seq(GivenOnPilot) /\ DistinctIds(u \o np, Base + 1)
      BY <1>6, <1>9
    <3>2. Base + 1 \in Nat
      BY <1>0
    <3>3. Present(u \o np) \in SUBSET DOMAIN (u \o np)
      BY DEF Present
    <3> QED BY ONLY <3>1, <3>2, <3>3, <2>2, KeptIds
  <2> QED BY <1>1, <2>1, <2>2 DEF u
<1>11. desk \in Seq(GivenOnDesktop)
  BY <1>1, <1>4, <1>8
<1>12. ASSUME NEW i \in DOMAIN desk PROVE desk[i].id \in {0, i} /\ desk[i].id <= Base
  <2>1. CASE i <= Base
    <3>1. i \in 1..Base /\ desk[i] = d[i]
      BY <1>0, <1>1, <1>4, <1>8, <2>1
    <3>2. d[i].id = i
      BY <1>3, <3>1
    <3> QED BY ONLY <1>0, <3>1, <3>2
  <2>2. CASE i > Base
    BY <1>0, <1>1, <1>4, <1>8, <2>2
  <2> QED BY <1>0, <1>11, <2>1, <2>2
<1> QED BY <1>10, <1>11, <1>12

-----------------------------------------------------------------------------
(* The inductive invariant for TypeOK.                                     *)
Labels == {"open", "copyTo", "wipe", "copyFrom", "pull", "pullQueue",
           "push", "pushQueue", "post", "close", "done"}

Types ==
  /\ op \in Ops /\ slow \in Slow /\ pc \in Labels
  /\ result \in {"ok", "failed"} /\ fails \in 0..MaxFails
  /\ pos \in Nat /\ fresh \in Nat
  /\ dev \in Seq(PilotRecords) /\ desk \in Seq(DesktopRecords) /\ queue \in Seq(Nat)
  /\ rec \in [p : PilotRecords, d : Nat, steps : Plans]

(* A merge from the device gives desktop records the ids that happen to be *)
(* in an uninitialized variable.                                           *)
Ids ==
  /\ DistinctIds(dev, fresh - 1)
  /\ op # "MergeFromPilot" => \A i \in DOMAIN desk : desk[i].id < fresh
  /\ rec.p.id < fresh
  /\ seen \subseteq 1..(fresh - 1)

(* The loop of the pull will not come across the id again.                 *)
Passed(id) ==
  IF slow THEN \A i \in DOMAIN dev : i > pos => dev[i].id # id ELSE id \in seen

Past(i) == desk[i].id = 0 \/ Passed(desk[i].id)

MatchPlans == {<<"add", "match", "archive">>, <<"match", "archive">>}
Matching == rec.steps \in MatchPlans

LEMMA NothingPlanned == <<>> \notin QueuePlans /\ <<>> \notin MatchPlans
BY DEF QueuePlans, MatchPlans

(* The queue holds no record that may be queued again: the loops are past  *)
(* those in it.                                                            *)
Queueing ==
  /\ \A i \in DOMAIN queue : queue[i] \in DOMAIN desk
  /\ \A i, j \in DOMAIN queue : queue[i] = queue[j] => i = j
  /\ pc = "open" => queue = <<>>
  /\ pc = "pull" => \A i \in DOMAIN queue : Past(queue[i])
  /\ pc = "push" => \A i \in DOMAIN queue : queue[i] <= pos
  /\ QueuePending => rec.d \in DOMAIN desk /\ \A i \in DOMAIN queue : queue[i] # rec.d
  /\ Running => pc \in {"pull", "push"}
  /\ Running /\ pc = "push" => rec.d = pos
  /\ Running /\ pc = "pull" /\ rec.d # 0 => rec.d \in DOMAIN desk /\ Past(rec.d)
  /\ Matching => pc = "pull" /\ Passed(rec.p.id)

Inv == Types /\ Ids /\ Queueing

LEMMA PlainPilot ==
  ASSUME NEW id \in Nat, NEW v \in Values, NEW r, r = PilotRecord(id, v, {})
  PROVE  r \in PilotRecords /\ r = [id |-> id, val |-> v, dirty |-> FALSE, del |-> FALSE, arch |-> FALSE]
<1>1. PICK x, y, z \in BOOLEAN :
        /\ r = [id |-> id, val |-> v, dirty |-> x, del |-> y, arch |-> z]
        /\ x <=> "dirty" \in {}
        /\ y <=> "deleted" \in {}
        /\ z <=> "archived" \in {}
  <2>1. \E x, y, z \in BOOLEAN :
           /\ PilotRecord(id, v, {}) = [id |-> id, val |-> v, dirty |-> x, del |-> y, arch |-> z]
           /\ x <=> "dirty" \in {}
           /\ y <=> "deleted" \in {}
           /\ z <=> "archived" \in {}
    BY ONLY PilotRecordIs
  <2> QED BY ONLY <2>1, r = PilotRecord(id, v, {})
<1>2. x = FALSE /\ y = FALSE /\ z = FALSE
  BY <1>1
<1>3. r = [id |-> id, val |-> v, dirty |-> FALSE, del |-> FALSE, arch |-> FALSE]
  BY ONLY <1>1, <1>2
<1> QED BY ONLY <1>3, id \in Nat, v \in Values DEF PilotRecords

LEMMA PlainDesktop ==
  ASSUME NEW id \in Nat, NEW v \in Values, NEW r, r = DesktopRecord(id, v, {}, "live")
  PROVE  /\ r \in DesktopRecords
         /\ r = [id |-> id, val |-> v, dirty |-> FALSE, del |-> FALSE, arch |-> FALSE,
                 place |-> "live"]
<1>1. PICK x, y, z \in BOOLEAN :
        /\ r = [id |-> id, val |-> v, dirty |-> x, del |-> y, arch |-> z, place |-> "live"]
        /\ x <=> "dirty" \in {}
        /\ y <=> "deleted" \in {}
        /\ z <=> "archived" \in {}
  <2>1. \E x, y, z \in BOOLEAN :
           /\ DesktopRecord(id, v, {}, "live") =
                [id |-> id, val |-> v, dirty |-> x, del |-> y, arch |-> z, place |-> "live"]
           /\ x <=> "dirty" \in {}
           /\ y <=> "deleted" \in {}
           /\ z <=> "archived" \in {}
    BY ONLY DesktopRecordIs
  <2> QED BY ONLY <2>1, r = DesktopRecord(id, v, {}, "live")
<1>2. x = FALSE /\ y = FALSE /\ z = FALSE
  BY <1>1
<1>3. r = [id |-> id, val |-> v, dirty |-> FALSE, del |-> FALSE, arch |-> FALSE, place |-> "live"]
  BY ONLY <1>1, <1>2
<1> QED BY ONLY <1>3, id \in Nat, v \in Values DEF DesktopRecords

LEMMA NoPilotIs == NoPilotRecord \in PilotRecords /\ NoPilotRecord.id = 0
BY NoRecords DEF PilotRecords, Values

LEMMA NoDesktopIs == NoDesktopRecord \notin DesktopRecords
BY NoRecords DEF DesktopRecords

LEMMA ChangedAt ==
  ASSUME NEW T, NEW s \in Seq(T), NEW d, NEW r, d \in DOMAIN s => r \in T,
         NEW t, t = [s EXCEPT ![d] = r]
  PROVE  /\ t \in Seq(T) /\ DOMAIN t = DOMAIN s
         /\ \A i \in DOMAIN s : t[i] = IF i = d THEN r ELSE s[i]
<1>1. CASE d \in DOMAIN s
  BY <1>1
<1>2. CASE d \notin DOMAIN s
  <2>1. t = [i \in DOMAIN s |-> s[i]]
    BY <1>2
  <2>2. t = s
    BY <2>1
  <2> QED BY <1>2, <2>2
<1> QED BY <1>1, <1>2

LEMMA MatchIs ==
  ASSUME desk \in Seq(DesktopRecords), NEW id
  PROVE  /\ Match(id) \in Nat
         /\ \/ /\ Match(id) = 0
               /\ \A i \in DOMAIN desk : desk[i].id = id => desk[i].place = "gone"
            \/ /\ Match(id) \in DOMAIN desk
               /\ desk[Match(id)].id = id /\ desk[Match(id)].place # "gone"
<1> DEFINE S == {i \in DOMAIN desk : desk[i].id = id /\ desk[i].place # "gone"}
<1>1. Len(desk) \in Nat /\ S \in SUBSET (1..Len(desk))
  OBVIOUS
<1>2. IF S = {} THEN First(S) = 0 ELSE First(S) \in S
  BY ONLY <1>1, FirstIs
<1> QED BY <1>2 DEF Match

(* What comes after a step of sync_record.                                 *)
LEMMA ContinueIs ==
  ASSUME NEW p \in PilotRecords, NEW d \in Nat, NEW t \in Plans, Continue(p, d, t)
  PROVE  /\ rec' \in [p : PilotRecords, d : Nat, steps : Plans] /\ rec'.steps = t
         /\ t # <<>> => rec'.p = p /\ rec'.d = d
         /\ t = <<>> => rec' = NotRunning /\ rec'.p.id = 0
<1>1. <<>> \in Plans
  BY DEF Plans
<1>2. CASE t = <<>>
  BY <1>1, <1>2, NoPilotIs DEF Continue, NotRunning
<1>3. CASE t # <<>>
  BY <1>3 DEF Continue
<1> QED BY <1>2, <1>3

LEMMA SyncRecordIs ==
  ASSUME NEW p \in PilotRecords, NEW d \in Nat,
         NEW r \in DesktopRecords \cup {NoDesktopRecord}, SyncRecord(p, d, r)
  PROVE  /\ rec' \in [p : PilotRecords, d : Nat, steps : Plans] /\ Rule(p, r, rec'.steps)
         /\ rec'.steps # <<>> => rec'.p = p /\ rec'.d = d
         /\ rec'.steps = <<>> => rec' = NotRunning /\ rec'.p.id = 0
<1>1. Continue(p, d, Decision(p, r))
  BY DEF SyncRecord
<1>2. Rule(p, r, Decision(p, r))
  BY DecisionRule
<1>3. Decision(p, r) \in Plans
  BY <1>2, RulePlans
<1> QED BY <1>1, <1>2, <1>3, ContinueIs

-----------------------------------------------------------------------------
(* The invariant holds in the beginning.                                   *)
LEMMA InitInv == Init => Inv
<1> SUFFICES ASSUME Init PROVE Inv
  OBVIOUS
<1>0. Base \in Nat /\ MaxFails \in Nat
  BY SyncAssumption
<1>1. /\ op \in Ops /\ slow \in Slow /\ pc = "open" /\ queue = <<>> /\ fresh = Base + 2
      /\ seen = {} /\ pos = 0 /\ rec = NotRunning /\ result = "ok" /\ fails = 0
  BY Zenon DEF Init
<1>2. rec \in [p : PilotRecords, d : Nat, steps : Plans] /\ rec.steps = <<>> /\ rec.p.id = 0
  BY <1>1, NoPilotIs DEF NotRunning, Plans
<1>3. /\ dev \in Seq(PilotRecords) /\ desk \in Seq(DesktopRecords)
  <2>1. GivenOnPilot \subseteq PilotRecords /\ GivenOnDesktop \subseteq DesktopRecords
    BY DEF GivenOnPilot, GivenOnDesktop
  <2> QED BY <2>1, Beginning
<1>4. Types
  BY <1>0, <1>1, <1>2, <1>3 DEF Types, Labels
<1>5. Ids
  <2>1. DistinctIds(dev, fresh - 1) /\ \A i \in DOMAIN desk : desk[i].id <= Base
    BY <1>0, <1>1, Beginning
  <2>2. ASSUME NEW i \in DOMAIN desk PROVE desk[i].id \in Nat
    <3>1. desk[i] \in DesktopRecords
      BY <1>3
    <3> QED BY <3>1 DEF DesktopRecords
  <2> QED BY <1>0, <1>1, <1>2, <2>1, <2>2 DEF Ids
<1>6. Queueing
  BY <1>1, <1>2, NothingPlanned DEF Queueing, QueuePending, Matching, Running
<1> QED BY <1>4, <1>5, <1>6 DEF Inv

(* The steps of sync_record.                                               *)
Turning(s) ==
  /\ Running /\ Head(rec.steps) = s
  /\ UNCHANGED <<op, slow, pc, seen, pos, result, fails, start>>

LEMMA StepTurns == ASSUME NEW s, Step(s) PROVE Turning(s) /\ Taken(s, Mod)
BY DEF Step, Turning

LEMMA UpToGrows ==
  ASSUME NEW m \in Nat, NEW n \in Nat, m <= n PROVE 1..(m - 1) \subseteq 1..(n - 1)
OBVIOUS

LEMMA StepIs ==
  ASSUME Inv, NEW s, Turning(s)
  PROVE  /\ pc \in {"pull", "push"} /\ Turn(rec.steps, s, Tail(rec.steps))
         /\ Tail(rec.steps) \in Plans
         /\ rec.p \in PilotRecords /\ rec.p.id \in Nat /\ rec.p.val \in Values /\ rec.d \in Nat
<1>1. rec.steps \in Plans /\ rec.steps # <<>> /\ Head(rec.steps) = s
  BY DEF Inv, Types, Turning, Running
<1>2. Turn(rec.steps, s, Tail(rec.steps)) /\ Tail(rec.steps) \in Plans
  BY <1>1, PlanTurn
<1>3. pc \in {"pull", "push"}
  BY <1>1 DEF Inv, Queueing, Running
<1> QED BY <1>1, <1>2, <1>3 DEF Inv, Types, PilotRecords

(* Queueing is kept by a step that does as much.                           *)
LEMMA QueueingKept ==
  ASSUME Inv, NEW s, Turning(s), s # "match",
         \/ Continue(rec.p, rec.d, Tail(rec.steps))
         \/ s = "writeNew" /\ \E q \in PilotRecords : Continue(q, rec.d, Tail(rec.steps)),
         queue' = IF s = "queue" THEN <<rec.d>> \o queue ELSE queue,
         DOMAIN desk \subseteq DOMAIN desk',
         \A i \in DOMAIN desk : desk'[i].id \in {desk[i].id, 0},
         pc = "pull" => \A i \in DOMAIN desk : \A id : id = desk[i].id /\ Passed(id) => Passed(id)',
         s = "add" => UNCHANGED dev
  PROVE  Queueing'
<1> DEFINE t == Tail(rec.steps)
<1>1. /\ pc \in {"pull", "push"} /\ Turn(rec.steps, s, t) /\ t \in Plans
      /\ rec.p \in PilotRecords /\ rec.d \in Nat
  BY StepIs
<1>2. UNCHANGED <<op, slow, pc, seen, pos>>
  BY DEF Turning
<1>a. \/ Continue(rec.p, rec.d, t)
      \/ s = "writeNew" /\ \E q \in PilotRecords : Continue(q, rec.d, t)
  OBVIOUS
<1> HIDE DEF t
<1>3. /\ rec'.steps = t
      /\ t # <<>> => rec'.d = rec.d /\ (s # "writeNew" => rec'.p = rec.p)
      /\ t = <<>> => rec' = NotRunning
  <2>1. CASE Continue(rec.p, rec.d, t)
    BY ONLY <1>1, <2>1, ContinueIs
  <2>2. CASE s = "writeNew" /\ \E q \in PilotRecords : Continue(q, rec.d, t)
    BY ONLY <1>1, <2>2, ContinueIs
  <2> QED BY <1>a, <2>1, <2>2
<1>4. (QueuePending' => QueuePending /\ s # "queue" /\ t # <<>>) /\ (s = "queue" => QueuePending)
  BY <1>1, <1>3, QueueTurn
<1>5. queue \in Seq(Nat)
  BY DEF Inv, Types
<1>6. ASSUME NEW i \in DOMAIN queue'
      PROVE  \/ s = "queue" /\ i = 1 /\ queue'[i] = rec.d
             \/ \E j \in DOMAIN queue : queue'[i] = queue[j] /\ i = IF s = "queue" THEN j + 1 ELSE j
  <2>1. CASE s = "queue"
    <3>1. queue' = <<rec.d>> \o queue
      BY <2>1
    <3>2. i \in 1..(Len(queue) + 1) /\ (i = 1 => queue'[i] = rec.d) /\ (i # 1 => queue'[i] = queue[i - 1])
      BY ONLY <1>1, <1>5, <3>1, i \in DOMAIN queue'
    <3>3. i # 1 => i - 1 \in DOMAIN queue /\ i = (i - 1) + 1
      BY ONLY <3>2, <1>5
    <3> QED BY <2>1, <3>2, <3>3
  <2>2. CASE s # "queue"
    BY <2>2
  <2> QED BY <2>1, <2>2
<1>7. ASSUME NEW i \in DOMAIN desk, pc = "pull", Past(i) PROVE Past(i)'
  BY <1>7 DEF Past
<1>8. \A i \in DOMAIN queue : queue[i] \in DOMAIN desk
  BY DEF Inv, Queueing
<1>9. s = "queue" => rec.d \in DOMAIN desk /\ \A i \in DOMAIN queue : queue[i] # rec.d
  BY <1>4 DEF Inv, Queueing
<1>10. \A i \in DOMAIN queue' : queue'[i] \in DOMAIN desk'
  BY <1>6, <1>8, <1>9
<1>11. ASSUME NEW i \in DOMAIN queue', NEW j \in DOMAIN queue', queue'[i] = queue'[j] PROVE i = j
  <2>1. \A k, l \in DOMAIN queue : queue[k] = queue[l] => k = l
    BY DEF Inv, Queueing
  <2> QED BY ONLY <1>6, <1>9, <1>11, <2>1
<1>12. (pc = "pull" => \A i \in DOMAIN queue : Past(queue[i]))'
  <2>1. SUFFICES ASSUME pc = "pull", NEW i \in DOMAIN queue', NEW q, q = queue'[i] PROVE Past(q)'
    BY <1>2 DEF Past, Passed
  <2>2. \A j \in DOMAIN queue : Past(queue[j])
    BY <2>1 DEF Inv, Queueing
  <2>3. s = "queue" => Past(rec.d)
    <3>1. s = "queue" => Running /\ rec.d # 0
      BY <1>9 DEF Inv, Types, Turning
    <3> QED BY <2>1, <3>1 DEF Inv, Queueing
  <2>4. queue'[i] \in DOMAIN desk /\ Past(queue'[i])
    BY <1>6, <1>8, <1>9, <2>2, <2>3
  <2> QED BY <1>7, <2>1, <2>4
<1>13. pc' = "push" => \A i \in DOMAIN queue' : queue'[i] <= pos'
  <2>1. SUFFICES ASSUME pc = "push", NEW i \in DOMAIN queue' PROVE queue'[i] <= pos
    BY <1>2
  <2>2. \A j \in DOMAIN queue : queue[j] <= pos
    BY <2>1 DEF Inv, Queueing
  <2>3. rec.d = pos /\ pos \in Nat
    BY <2>1 DEF Inv, Queueing, Types, Turning
  <2> QED BY <1>6, <2>2, <2>3
<1>14. QueuePending' => rec'.d \in DOMAIN desk' /\ \A i \in DOMAIN queue' : queue'[i] # rec'.d
  <2>1. SUFFICES ASSUME QueuePending' PROVE rec'.d \in DOMAIN desk' /\ \A i \in DOMAIN queue' : queue'[i] # rec'.d
    OBVIOUS
  <2>2. QueuePending /\ s # "queue" /\ t # <<>>
    BY <1>4, <2>1
  <2>3. rec.d \in DOMAIN desk /\ \A i \in DOMAIN queue : queue[i] # rec.d
    BY <2>2 DEF Inv, Queueing
  <2> QED BY <1>3, <2>2, <2>3
<1>15. Running' => rec'.d = rec.d
  BY <1>3 DEF Running
<1>16. Running
  BY DEF Turning
<1>17. Running' /\ pc' = "push" => rec'.d = pos'
  BY <1>2, <1>15, <1>16 DEF Inv, Queueing
<1>18. (Running /\ pc = "pull" /\ rec.d # 0 => rec.d \in DOMAIN desk /\ Past(rec.d))'
  <2>1. SUFFICES ASSUME Running', pc = "pull", NEW d, d = rec'.d, d # 0
                 PROVE  d \in DOMAIN desk' /\ Past(d)'
    BY <1>2 DEF Past, Passed
  <2>2. d = rec.d /\ d \in DOMAIN desk /\ Past(d)
    BY <1>15, <1>16, <2>1 DEF Inv, Queueing
  <2> QED BY <1>7, <2>1, <2>2
<1>19. (Matching => pc = "pull" /\ Passed(rec.p.id))'
  <2>1. SUFFICES ASSUME Matching' PROVE (pc = "pull" /\ Passed(rec.p.id))'
    OBVIOUS
  <2>2. s = "add" /\ Matching /\ rec'.p = rec.p
    <3>1. t \in {<<"add", "match", "archive">>, <<"match", "archive">>}
      BY <1>3, <2>1 DEF Matching, MatchPlans
    <3>2. s = "add" /\ rec.steps = <<"add", "match", "archive">>
      BY ONLY <1>1, <3>1 DEF Turn
    <3> QED BY <1>3, <3>1, <3>2 DEF Matching, MatchPlans
  <2>3. pc = "pull" /\ Passed(rec.p.id)
    BY <2>2 DEF Inv, Queueing
  <2> QED BY <1>2, <2>2, <2>3 DEF Passed
<1>20. \A i, j \in DOMAIN queue' : queue'[i] = queue'[j] => i = j
  BY <1>11
<1> QED BY <1>1, <1>2, <1>10, <1>12, <1>13, <1>14, <1>17, <1>18, <1>19, <1>20 DEF Queueing, Past

LEMMA StepTypes ==
  ASSUME Inv, NEW s, Turning(s), NEW p \in PilotRecords, NEW d \in Nat, Continue(p, d, Tail(rec.steps)),
         dev' \in Seq(PilotRecords), desk' \in Seq(DesktopRecords), queue' \in Seq(Nat),
         fresh' \in Nat, fresh <= fresh', p.id < fresh'
  PROVE  /\ Types' /\ rec'.p.id < fresh' /\ (seen \subseteq 1..(fresh - 1))'
         /\ UNCHANGED <<op, slow, pc, seen, pos>>
<1>1. UNCHANGED <<op, slow, pc, seen, pos, result, fails>>
  BY DEF Turning
<1>2. Tail(rec.steps) \in Plans /\ rec.p.id \in Nat
  BY StepIs
<1>3. /\ rec' \in [p : PilotRecords, d : Nat, steps : Plans]
      /\ rec'.p = p \/ rec'.p.id = 0
  BY ONLY <1>2, p \in PilotRecords, d \in Nat, Continue(p, d, Tail(rec.steps)), ContinueIs
<1>4. rec'.p.id < fresh'
  BY <1>2, <1>3 DEF Inv, Ids, Types
<1>5. Types'
  BY <1>1, <1>3 DEF Inv, Types
<1>6. (seen \subseteq 1..(fresh - 1))'
  <2>1. seen \subseteq 1..(fresh - 1) /\ fresh \in Nat
    BY DEF Inv, Ids, Types
  <2>2. 1..(fresh - 1) \subseteq 1..(fresh' - 1)
    BY ONLY <2>1, fresh' \in Nat, fresh <= fresh', UpToGrows
  <2> QED BY <1>1, <2>1, <2>2
<1> QED BY <1>1, <1>4, <1>5, <1>6

LEMMA ChangeDesktopInv ==
  ASSUME Inv, NEW s, Step(s), s \notin {"match", "queue"}, NEW r, ChangeDesktop(r),
         rec.d \in DOMAIN desk => r \in DesktopRecords /\ r.id \in {desk[rec.d].id, 0}
  PROVE  /\ Inv' /\ DOMAIN desk' = DOMAIN desk
         /\ \A i \in DOMAIN desk : desk'[i] = IF i = rec.d THEN r ELSE desk[i]
<1>1. /\ Continue(rec.p, rec.d, Tail(rec.steps)) /\ UNCHANGED <<dev, queue, fresh>>
      /\ desk' = [desk EXCEPT ![rec.d] = r]
  BY DEF ChangeDesktop, Goes
<1>2. /\ desk \in Seq(DesktopRecords) /\ dev \in Seq(PilotRecords) /\ queue \in Seq(Nat)
      /\ fresh \in Nat /\ rec.p.id < fresh
  BY DEF Inv, Types, Ids
<1>3. /\ desk' \in Seq(DesktopRecords) /\ DOMAIN desk' = DOMAIN desk
      /\ \A i \in DOMAIN desk : desk'[i] = IF i = rec.d THEN r ELSE desk[i]
  BY ONLY <1>1, <1>2, rec.d \in DOMAIN desk => r \in DesktopRecords, ChangedAt
<1>4. /\ Types' /\ rec'.p.id < fresh' /\ (seen \subseteq 1..(fresh - 1))'
      /\ UNCHANGED <<op, slow, pc, seen, pos>>
  BY <1>1, <1>2, <1>3, StepIs, StepTypes, StepTurns
<1>5. \A i \in DOMAIN desk : desk'[i].id \in {desk[i].id, 0}
  BY <1>3
<1>6. \A id : Passed(id) => Passed(id)'
  BY <1>1, <1>4 DEF Passed
<1>7. Queueing'
  BY <1>1, <1>3, <1>5, <1>6, QueueingKept, StepTurns
<1>8. Ids'
  <2>1. 0 < fresh
    BY <1>2, StepIs, StepTurns
  <2> QED BY <1>1, <1>3, <1>4, <1>5, <2>1 DEF Inv, Ids
<1> QED BY <1>3, <1>4, <1>7, <1>8 DEF Inv

LEMMA ChangesAre ==
  ASSUME Inv, NEW d \in DOMAIN desk
  PROVE  /\ desk[d] \in DesktopRecords /\ desk[d].id \in Nat /\ desk[d].val \in Values
         /\ \A v \in Values : /\ [desk[d] EXCEPT !.val = v] \in DesktopRecords
                              /\ [desk[d] EXCEPT !.val = v].id = desk[d].id
         /\ \A place \in {"live", "archive", "gone"} :
              /\ [desk[d] EXCEPT !.place = place] \in DesktopRecords
              /\ [desk[d] EXCEPT !.place = place].id = desk[d].id
         /\ Cleared(desk[d]) \in DesktopRecords /\ Cleared(desk[d]).id = desk[d].id
         /\ \A id \in Nat : /\ [desk[d] EXCEPT !.id = id] \in DesktopRecords
                            /\ [desk[d] EXCEPT !.id = id].id = id
<1>1. ASSUME NEW r, r \in DesktopRecords
      PROVE  /\ r.id \in Nat /\ r.val \in Values
             /\ \A v \in Values : [r EXCEPT !.val = v] \in DesktopRecords /\ [r EXCEPT !.val = v].id = r.id
             /\ \A place \in {"live", "archive", "gone"} :
                  [r EXCEPT !.place = place] \in DesktopRecords /\ [r EXCEPT !.place = place].id = r.id
             /\ Cleared(r) \in DesktopRecords /\ Cleared(r).id = r.id
             /\ \A id \in Nat : [r EXCEPT !.id = id] \in DesktopRecords /\ [r EXCEPT !.id = id].id = id
  BY <1>1 DEF DesktopRecords, Cleared
<1>2. desk[d] \in DesktopRecords
  BY DEF Inv, Types
<1> QED BY ONLY <1>1, <1>2

LEMMA ChangesInv ==
  ASSUME Inv, \/ ReplaceRecord \/ ArchiveRecord \/ Unarchive
              \/ SetStatusCleared \/ DeleteRecord \/ ForgetID
  PROVE  Inv'
<1>1. CASE ReplaceRecord
  <2>1. rec.p.val \in Values
    BY <1>1, StepIs, StepTurns DEF ReplaceRecord
  <2> QED BY <1>1, <2>1, ChangesAre, ChangeDesktopInv DEF ReplaceRecord
<1>2. CASE ArchiveRecord
  BY <1>2, ChangesAre, ChangeDesktopInv DEF ArchiveRecord
<1>3. CASE Unarchive
  BY <1>3, ChangesAre, ChangeDesktopInv DEF Unarchive
<1>4. CASE SetStatusCleared
  BY <1>4, ChangesAre, ChangeDesktopInv DEF SetStatusCleared
<1>5. CASE DeleteRecord
  BY <1>5, ChangesAre, ChangeDesktopInv DEF DeleteRecord
<1>6. CASE ForgetID
  BY <1>6, ChangesAre, ChangeDesktopInv DEF ForgetID
<1> QED BY <1>1, <1>2, <1>3, <1>4, <1>5, <1>6

LEMMA AddRecordInv ==
  ASSUME Inv, AddRecord
  PROVE  /\ Inv' /\ DOMAIN desk' = DOMAIN desk \cup {Len(desk) + 1}
         /\ \A i \in DOMAIN desk : desk'[i] = desk[i]
         /\ desk'[Len(desk) + 1] = [id |-> rec.p.id, val |-> rec.p.val, dirty |-> FALSE, del |-> FALSE,
                                    arch |-> FALSE, place |-> "live"]
<1> DEFINE new == DesktopRecord(rec.p.id, rec.p.val, {}, "live")
<1>1. /\ Step("add") /\ Continue(rec.p, rec.d, Tail(rec.steps)) /\ UNCHANGED <<dev, queue, fresh>>
      /\ desk' = Append(desk, new)
  BY DEF AddRecord, Goes
<1>2. /\ desk \in Seq(DesktopRecords) /\ dev \in Seq(PilotRecords) /\ queue \in Seq(Nat)
      /\ fresh \in Nat /\ rec.p.id < fresh
  BY DEF Inv, Types, Ids
<1>3. rec.p \in PilotRecords /\ rec.d \in Nat /\ rec.p.id \in Nat /\ rec.p.val \in Values
  BY <1>1, StepIs, StepTurns
<1>4. /\ new \in DesktopRecords
      /\ new = [id |-> rec.p.id, val |-> rec.p.val, dirty |-> FALSE, del |-> FALSE,
                arch |-> FALSE, place |-> "live"]
  BY ONLY <1>3, PlainDesktop
<1> HIDE DEF new
<1>5. /\ desk' \in Seq(DesktopRecords) /\ DOMAIN desk' = DOMAIN desk \cup {Len(desk) + 1}
      /\ \A i \in DOMAIN desk : desk'[i] = desk[i]
      /\ desk'[Len(desk) + 1] = new
  BY ONLY <1>1, <1>2, <1>4
<1>6. /\ Types' /\ rec'.p.id < fresh' /\ (seen \subseteq 1..(fresh - 1))'
      /\ UNCHANGED <<op, slow, pc, seen, pos>>
  BY <1>1, <1>2, <1>3, <1>5, StepTypes, StepTurns
<1>7. \A id : Passed(id) => Passed(id)'
  BY <1>1, <1>6 DEF Passed
<1>8. Queueing'
  BY <1>1, <1>5, <1>7, QueueingKept, StepTurns
<1>9. Ids'
  <2>1. new.id < fresh
    BY <1>2, <1>4
  <2> QED BY <1>1, <1>5, <1>6, <2>1 DEF Inv, Ids
<1> QED BY <1>4, <1>5, <1>6, <1>8, <1>9 DEF Inv

LEMMA AddRecordQueueInv == ASSUME Inv, AddRecordQueue PROVE Inv'
<1>1. /\ Step("queue") /\ Continue(rec.p, rec.d, Tail(rec.steps)) /\ UNCHANGED <<dev, desk, fresh>>
      /\ queue' = <<rec.d>> \o queue
  BY DEF AddRecordQueue, Goes
<1>2. /\ desk \in Seq(DesktopRecords) /\ dev \in Seq(PilotRecords) /\ queue \in Seq(Nat)
      /\ fresh \in Nat /\ rec.p.id < fresh
  BY DEF Inv, Types, Ids
<1>3. rec.p \in PilotRecords /\ rec.d \in Nat
  BY <1>1, StepIs, StepTurns
<1>4. queue' \in Seq(Nat)
  BY <1>1, <1>2, <1>3
<1>5. /\ Types' /\ rec'.p.id < fresh' /\ (seen \subseteq 1..(fresh - 1))'
      /\ UNCHANGED <<op, slow, pc, seen, pos>>
  BY <1>1, <1>2, <1>3, <1>4, StepTypes, StepTurns
<1>6. \A id : Passed(id) => Passed(id)'
  BY <1>1, <1>5 DEF Passed
<1>7. Queueing'
  BY <1>1, <1>6, QueueingKept, StepTurns
<1>8. Ids'
  BY <1>1, <1>5 DEF Inv, Ids
<1> QED BY <1>5, <1>7, <1>8 DEF Inv

LEMMA NotTakenInv == ASSUME Inv, NotTaken PROVE Inv'
<1> DEFINE s == Head(rec.steps)
<1>1. /\ Turning(s) /\ Continue(rec.p, rec.d, Tail(rec.steps))
      /\ UNCHANGED <<dev, desk, queue, fresh>> /\ ~Taken(s, Mod)
  BY DEF NotTaken, Turning, Goes, records
<1>2. /\ desk \in Seq(DesktopRecords) /\ dev \in Seq(PilotRecords) /\ queue \in Seq(Nat)
      /\ fresh \in Nat /\ rec.p.id < fresh
  BY DEF Inv, Types, Ids
<1> HIDE DEF s
<1>3. rec.p \in PilotRecords /\ rec.d \in Nat
  BY <1>1, StepIs
<1>4. s \notin {"match", "queue"}
  BY <1>1 DEF Taken, DesktopCheck, DesktopSteps, PilotCheck, PilotSteps
<1>5. /\ Types' /\ rec'.p.id < fresh' /\ (seen \subseteq 1..(fresh - 1))'
      /\ UNCHANGED <<op, slow, pc, seen, pos>>
  BY <1>1, <1>2, <1>3, StepTypes
<1>6. \A id : Passed(id) => Passed(id)'
  BY <1>1, <1>5 DEF Passed
<1>7. Queueing'
  BY <1>1, <1>4, <1>6, QueueingKept
<1>8. Ids'
  BY <1>1, <1>5 DEF Inv, Ids
<1> QED BY <1>5, <1>7, <1>8 DEF Inv

LEMMA WriteNewInv ==
  ASSUME Inv, WriteNew
  PROVE  /\ Inv' /\ op # "MergeFromPilot"
         /\ DOMAIN dev' = DOMAIN dev \cup {Len(dev) + 1}
         /\ \A i \in DOMAIN dev : dev'[i] = dev[i]
         /\ dev'[Len(dev) + 1] = [id |-> fresh, val |-> rec.p.val, dirty |-> FALSE, del |-> FALSE,
                                  arch |-> FALSE]
<1>1. /\ Step("writeNew") /\ Continue([rec.p EXCEPT !.id = fresh], rec.d, Tail(rec.steps))
      /\ UNCHANGED <<desk, queue>> /\ WriteRecord(0, rec.p.val)
  BY DEF WriteNew
<1>2. /\ desk \in Seq(DesktopRecords) /\ dev \in Seq(PilotRecords) /\ queue \in Seq(Nat)
      /\ fresh \in Nat /\ rec.p.id < fresh
  BY DEF Inv, Types, Ids
<1>3. /\ rec.p \in PilotRecords /\ rec.d \in Nat /\ rec.p.id \in Nat /\ rec.p.val \in Values
      /\ Taken("writeNew", Mod)
  BY <1>1, StepIs, StepTurns
<1>4. op # "MergeFromPilot"
  BY <1>3 DEF Taken, PilotCheck, PilotSteps, Mod
<1> DEFINE new == PilotRecord(fresh, rec.p.val, {})
<1>5. /\ new \in PilotRecords
      /\ new = [id |-> fresh, val |-> rec.p.val, dirty |-> FALSE, del |-> FALSE, arch |-> FALSE]
  BY ONLY <1>2, <1>3, PlainPilot
<1>6. dev' = Written(new) /\ fresh' = fresh + 1
  BY <1>1 DEF WriteRecord
<1> HIDE DEF new
<1>7. ASSUME NEW i \in DOMAIN dev PROVE dev[i].id # new.id
  BY <1>2, <1>5 DEF Inv, Ids, DistinctIds
<1>8. dev' = Append(dev, new)
  <2>1. OnDevice(new.id) = 0
    BY <1>2, <1>7, OnDeviceIs
  <2> QED BY <1>6, <2>1 DEF Written
<1>9. /\ dev' \in Seq(PilotRecords) /\ DOMAIN dev' = DOMAIN dev \cup {Len(dev) + 1}
      /\ \A i \in DOMAIN dev : dev'[i] = dev[i]
      /\ dev'[Len(dev) + 1] = new
  BY ONLY <1>2, <1>5, <1>8
<1> DEFINE q == [rec.p EXCEPT !.id = fresh]
<1>10. q \in PilotRecords /\ q.id = fresh
  BY ONLY <1>2, <1>3 DEF PilotRecords
<1>11. Continue(q, rec.d, Tail(rec.steps))
  BY <1>1
<1> HIDE DEF q
<1>12. /\ Types' /\ rec'.p.id < fresh' /\ (seen \subseteq 1..(fresh - 1))'
       /\ UNCHANGED <<op, slow, pc, seen, pos>>
  <2>1. fresh' \in Nat /\ fresh <= fresh' /\ q.id < fresh'
    BY <1>2, <1>6, <1>10
  <2> QED BY <1>1, <1>2, <1>3, <1>9, <1>10, <1>11, <2>1, StepTypes, StepTurns
<1>13. \A i \in DOMAIN desk : \A id : id = desk[i].id /\ Passed(id) => Passed(id)'
  <2>1. \A i \in DOMAIN desk : desk[i].id # new.id
    BY <1>2, <1>4, <1>5 DEF Inv, Ids
  <2> QED BY <1>9, <1>12, <2>1 DEF Passed
<1>14. Queueing'
  BY <1>1, <1>10, <1>11, <1>13, QueueingKept, StepTurns
<1>15. Ids'
  <2>1. DistinctIds(dev', fresh' - 1)
    <3>1. \A i \in DOMAIN dev : dev[i].id \in 1..(fresh - 1)
      BY DEF Inv, Ids, DistinctIds
    <3>2. \A i, j \in DOMAIN dev : dev[i].id = dev[j].id => i = j
      BY DEF Inv, Ids, DistinctIds
    <3>3. /\ \A i \in DOMAIN dev : dev'[i] = dev[i]
          /\ dev'[Len(dev) + 1].id = fresh
      BY <1>5, <1>9
    <3>4. \A i \in DOMAIN dev' : dev'[i].id \in 1..fresh
      BY ONLY <1>2, <1>3, <1>9, <3>1, <3>3
    <3>5. \A i, j \in DOMAIN dev' : dev'[i].id = dev'[j].id => i = j
      BY <1>5, <1>7, <1>9, <3>2, <3>3
    <3>6. fresh' - 1 = fresh
      BY <1>2, <1>6
    <3> QED BY ONLY <3>4, <3>5, <3>6 DEF DistinctIds
  <2>2. \A i \in DOMAIN desk : desk[i].id < fresh'
    <3>1. \A i \in DOMAIN desk : desk[i].id < fresh /\ desk[i].id \in Nat
      BY <1>4, ChangesAre DEF Inv, Ids
    <3> QED BY ONLY <1>2, <1>6, <3>1
  <2> QED BY <1>1, <1>4, <1>12, <2>1, <2>2 DEF Inv, Ids
<1> QED BY <1>4, <1>5, <1>9, <1>12, <1>14, <1>15 DEF Inv

LEMMA DeleteOnDeviceInv ==
  ASSUME Inv, DeleteOnDevice
  PROVE  /\ Inv' /\ dev' \in Seq(PilotRecords)
         /\ \A i \in DOMAIN dev' : \E j \in DOMAIN dev : dev'[i] = dev[j]
         /\ \A i \in DOMAIN dev : dev[i].id # rec.p.id => \E j \in DOMAIN dev' : dev'[j] = dev[i]
         /\ \A i \in DOMAIN dev' : dev'[i].id # rec.p.id
         /\ \A id : Passed(id) => Passed(id)'
<1>1. PICK s \in {"deleteP", "deleteBoth"} : Step(s)
  BY DEF DeleteOnDevice
<1>2. /\ Continue(rec.p, rec.d, Tail(rec.steps)) /\ UNCHANGED <<desk, queue, fresh>>
      /\ dev' = IF OnDevice(rec.p.id) = 0 THEN dev ELSE RemoveAt(dev, OnDevice(rec.p.id))
  BY DEF DeleteOnDevice, Goes
<1>3. /\ desk \in Seq(DesktopRecords) /\ dev \in Seq(PilotRecords) /\ queue \in Seq(Nat)
      /\ fresh \in Nat /\ rec.p.id < fresh /\ DistinctIds(dev, fresh - 1)
  BY DEF Inv, Types, Ids
<1>4. rec.p \in PilotRecords /\ rec.d \in Nat /\ rec.p.id \in Nat
  BY <1>1, StepIs, StepTurns
<1>5. /\ dev' \in Seq(PilotRecords) /\ DistinctIds(dev', fresh - 1)
      /\ \A i \in DOMAIN dev' : \E j \in DOMAIN dev : dev'[i] = dev[j] /\ i <= j
      /\ \A i \in DOMAIN dev : dev[i].id # rec.p.id => \E j \in DOMAIN dev' : dev'[j] = dev[i]
      /\ \A i \in DOMAIN dev' : dev'[i].id # rec.p.id
  <2>1. CASE OnDevice(rec.p.id) = 0
    <3>1. dev' = dev
      BY <1>2, <2>1
    <3>2. \A i \in DOMAIN dev : i <= i
      BY <1>3
    <3>3. \A i \in DOMAIN dev : dev[i].id # rec.p.id
      <4>1. 0 \notin DOMAIN dev
        BY <1>3
      <4> QED BY <1>3, <2>1, <4>1, OnDeviceIs
    <3> QED BY <1>3, <3>1, <3>2, <3>3
  <2>2. CASE OnDevice(rec.p.id) # 0
    <3> DEFINE at == OnDevice(rec.p.id)
    <3>1. at \in DOMAIN dev /\ dev[at].id = rec.p.id
      BY <1>3, <2>2, OnDeviceIs
    <3>2. dev' = RemoveAt(dev, at)
      BY <1>2, <2>2
    <3> HIDE DEF at
    <3>3. /\ dev' \in Seq(PilotRecords) /\ Len(dev') = Len(dev) - 1
          /\ \A i \in DOMAIN dev' : i + 1 \in DOMAIN dev
                                   /\ dev'[i] = dev[IF i < at THEN i ELSE i + 1]
          /\ \A i \in DOMAIN dev : i # at => \E j \in DOMAIN dev' : dev'[j] = dev[i]
      <4>1. dev \in Seq(PilotRecords) /\ at \in DOMAIN dev
        BY <1>3, <3>1
      <4>2. ASSUME NEW t, t = RemoveAt(dev, at)
            PROVE  /\ t \in Seq(PilotRecords) /\ Len(t) = Len(dev) - 1
                   /\ \A i \in DOMAIN t : /\ i + 1 \in DOMAIN dev
                                          /\ t[i] = dev[IF i < at THEN i ELSE i + 1]
                   /\ \A i \in DOMAIN dev : i # at => \E j \in DOMAIN t : t[j] = dev[i]
        BY ONLY <4>1, <4>2, RemovedAt
      <4> QED BY ONLY <4>2, <3>2
    <3>4. \A i \in DOMAIN dev' : /\ i \in Nat /\ i \in DOMAIN dev /\ i + 1 \in DOMAIN dev
                               /\ i <= i /\ i <= i + 1
      BY ONLY <1>3, <3>3
    <3>5. \A i, j \in DOMAIN dev : dev[i].id = dev[j].id => i = j
      BY <1>3 DEF DistinctIds
    <3>6. \A i \in DOMAIN dev : dev[i].id \in 1..(fresh - 1)
      BY <1>3 DEF DistinctIds
    <3>7. ASSUME NEW i \in DOMAIN dev', NEW j \in DOMAIN dev', dev'[i].id = dev'[j].id PROVE i = j
      <4>1. (IF i < at THEN i ELSE i + 1) = (IF j < at THEN j ELSE j + 1)
        BY <3>3, <3>4, <3>5, <3>7
      <4>2. at \in Nat /\ i \in Nat /\ j \in Nat
        BY <3>1, <3>4, <1>3
      <4> QED BY ONLY <4>1, <4>2
    <3>8. DistinctIds(dev', fresh - 1)
      BY <3>3, <3>4, <3>6, <3>7 DEF DistinctIds
    <3>9. \A i \in DOMAIN dev' : \E j \in DOMAIN dev : dev'[i] = dev[j] /\ i <= j
      BY <3>3, <3>4
    <3>10. \A i \in DOMAIN dev : dev[i].id # rec.p.id => \E j \in DOMAIN dev' : dev'[j] = dev[i]
      BY <3>1, <3>3
    <3>11. ASSUME NEW i \in DOMAIN dev' PROVE dev'[i].id # rec.p.id
      <4>1. PICK k \in DOMAIN dev : k = (IF i < at THEN i ELSE i + 1) /\ dev'[i] = dev[k]
        BY <3>3, <3>4
      <4>2. i \in Nat /\ at \in Nat
        BY <3>1, <3>4, <1>3
      <4>3. k # at
        BY ONLY <4>1, <4>2
      <4> QED BY <3>1, <3>5, <4>1, <4>3
    <3> QED BY <3>3, <3>8, <3>9, <3>10, <3>11
  <2> QED BY <2>1, <2>2
<1>6. /\ Types' /\ rec'.p.id < fresh' /\ (seen \subseteq 1..(fresh - 1))'
      /\ UNCHANGED <<op, slow, pc, seen, pos>>
  <2>1. fresh <= fresh' /\ rec.p.id < fresh'
    BY <1>2, <1>3
  <2> QED BY ONLY Inv, <1>1, <1>2, <1>3, <1>4, <1>5, <2>1, StepTurns, StepTypes
<1>7. ASSUME NEW id, Passed(id) PROVE Passed(id)'
  <2>1. CASE ~slow
    BY <1>6, <1>7, <2>1 DEF Passed
  <2>2. CASE slow
    <3>1. \A j \in DOMAIN dev : j > pos => dev[j].id # id
      BY <1>7, <2>2 DEF Passed
    <3>2. ASSUME NEW i \in DOMAIN dev', i > pos PROVE dev'[i].id # id
      <4>1. PICK j \in DOMAIN dev : dev'[i] = dev[j] /\ i <= j
        BY <1>5
      <4>2. i \in Nat /\ j \in Nat /\ pos \in Nat
        BY <1>3, <1>5 DEF Inv, Types
      <4>3. j > pos
        BY ONLY <3>2, <4>1, <4>2
      <4> QED BY <3>1, <4>1, <4>3
    <3> QED BY <1>6, <2>2, <3>2 DEF Passed
  <2> QED BY <2>1, <2>2
<1>8. Queueing'
  <2>1. s \notin {"match", "queue", "add"}
    OBVIOUS
  <2> QED BY <1>1, <1>2, <1>7, <2>1, StepTurns, QueueingKept
<1>9. Ids'
  BY <1>2, <1>5, <1>6 DEF Inv, Ids
<1> QED BY <1>5, <1>6, <1>7, <1>8, <1>9 DEF Inv

LEMMA MatchAddedInv ==
  ASSUME Inv, MatchAdded
  PROVE  Inv'
<1>1. /\ Turning("match") /\ Continue(rec.p, Match(rec.p.id), Tail(rec.steps))
      /\ UNCHANGED <<dev, desk, queue, fresh>>
  BY StepTurns DEF MatchAdded, records
<1>2. /\ desk \in Seq(DesktopRecords) /\ dev \in Seq(PilotRecords) /\ queue \in Seq(Nat)
      /\ fresh \in Nat /\ rec.p.id < fresh
  BY DEF Inv, Types, Ids
<1>3. rec.p \in PilotRecords /\ rec.p.id \in Nat
  BY <1>1, StepIs
<1>4. /\ Match(rec.p.id) \in Nat
      /\ Match(rec.p.id) # 0 => Match(rec.p.id) \in DOMAIN desk /\ desk[Match(rec.p.id)].id = rec.p.id
  BY <1>2, MatchIs
<1>5. /\ Types' /\ rec'.p.id < fresh' /\ (seen \subseteq 1..(fresh - 1))'
      /\ UNCHANGED <<op, slow, pc, seen, pos>>
  BY <1>1, <1>2, <1>3, <1>4, StepTypes
<1>6. \A id : Passed(id) => Passed(id)'
  BY <1>1, <1>5 DEF Passed
<1>7. rec.steps = <<"match", "archive">> /\ Tail(rec.steps) = <<"archive">> /\ <<"archive">> # <<>>
  <2>1. Turn(rec.steps, "match", Tail(rec.steps))
    BY <1>1, StepIs
  <2>2. rec.steps = <<"match", "archive">> /\ Tail(rec.steps) = <<"archive">>
    BY ONLY <2>1 DEF Turn
  <2> QED BY <2>2
<1>8. rec'.steps = <<"archive">> /\ rec'.d = Match(rec.p.id)
  BY <1>1, <1>7 DEF Continue
<1>9. pc = "pull" /\ Passed(rec.p.id)
  BY <1>7 DEF Inv, Queueing, Matching, MatchPlans
<1>10. ~QueuePending' /\ ~Matching'
  BY <1>8 DEF QueuePending, Matching, QueuePlans, MatchPlans
<1>11. (rec.d # 0 => rec.d \in DOMAIN desk /\ Past(rec.d))'
  BY <1>1, <1>4, <1>6, <1>8, <1>9 DEF Past
<1>12. (\A i \in DOMAIN queue : Past(queue[i]))'
  <2>1. \A i \in DOMAIN queue : Past(queue[i])
    BY <1>9 DEF Inv, Queueing
  <2> QED BY <1>1, <1>5, <1>6, <2>1 DEF Past, Passed
<1>13. Queueing'
  BY <1>1, <1>5, <1>9, <1>10, <1>11, <1>12 DEF Inv, Queueing
<1>14. Ids'
  BY <1>1, <1>5 DEF Inv, Ids
<1> QED BY <1>5, <1>13, <1>14 DEF Inv

(* The call of sync_record is over, or there is none, and the loop too.    *)
LEMMA GoesOn ==
  ASSUME Inv, UNCHANGED <<op, slow, dev, desk, queue, fresh, seen>>,
         rec' = NotRunning \/ (rec.steps = <<>> /\ rec' = rec),
         pc' \in Labels, pos' = 0, result' \in {"ok", "failed"}, fails' \in 0..MaxFails,
         pc' # "open",
         pc' \in {"pull", "push"} => queue = <<>>
  PROVE  Inv'
<1>1. /\ rec' \in [p : PilotRecords, d : Nat, steps : Plans] /\ rec'.steps = <<>>
      /\ rec'.p.id = 0 \/ rec'.p = rec.p
  <2>1. CASE rec' = NotRunning
    BY <2>1, NoPilotIs DEF NotRunning, Plans
  <2>2. CASE rec.steps = <<>> /\ rec' = rec
    BY <2>2 DEF Inv, Types
  <2> QED BY <2>1, <2>2
<1>2. Types'
  BY <1>1 DEF Inv, Types
<1>3. Ids'
  <2>1. 0 < fresh /\ rec.p.id < fresh
    BY DEF Inv, Ids, Types, PilotRecords
  <2> QED BY <1>1, <2>1 DEF Inv, Ids
<1>4. ~Running' /\ ~Matching' /\ ~QueuePending'
  BY <1>1, NothingPlanned DEF Running, Matching, QueuePending
<1>5. Queueing'
  BY <1>4 DEF Inv, Queueing
<1> QED BY <1>2, <1>3, <1>5 DEF Inv

LEMMA FaultIs == ASSUME Inv, Fault PROVE fails' \in 0..MaxFails
BY SyncAssumption DEF Inv, Types, Fault

LEMMA StepFailsInv == ASSUME Inv, StepFails PROVE Inv'
<1>1. /\ Fault /\ LeavesLoop /\ rec' = NotRunning
      /\ UNCHANGED <<op, slow, dev, desk, queue, fresh, seen>>
  BY DEF StepFails, records
<1>2. pc' \in {"post", "close"} /\ pos' = 0 /\ result' \in {"ok", "failed"}
  BY <1>1 DEF LeavesLoop, FailsAt, Abort, GoTo
<1>3. fails' \in 0..MaxFails
  BY <1>1, FaultIs
<1> QED BY <1>1, <1>2, <1>3, GoesOn DEF Labels

LEMMA StepsInv == ASSUME Inv, Steps PROVE Inv'
BY AddRecordInv, MatchAddedInv, ChangesInv, AddRecordQueueInv, WriteNewInv, DeleteOnDeviceInv,
   NotTakenInv, StepFailsInv DEF Steps

-----------------------------------------------------------------------------
(* The loops.                                                              *)

LEMMA AtIs == ASSUME Inv, NEW label, At(label) PROVE pc = label /\ ~Running /\ rec.steps = <<>>
BY DEF At, Running

LEMMA DeskAtIs ==
  ASSUME Inv, NEW id
  PROVE  /\ Match(id) \in Nat
         /\ DeskAt(Match(id)) \in DesktopRecords \cup {NoDesktopRecord}
         /\ Match(id) = 0 => DeskAt(Match(id)) = NoDesktopRecord
         /\ Match(id) # 0 => /\ Match(id) \in DOMAIN desk /\ DeskAt(Match(id)) = desk[Match(id)]
                            /\ desk[Match(id)].id = id /\ desk[Match(id)].place # "gone"
<1>1. desk \in Seq(DesktopRecords)
  BY DEF Inv, Types
<1>2. 0 \notin DOMAIN desk
  BY <1>1
<1>3. CASE Match(id) = 0
  BY <1>3 DEF DeskAt
<1>4. CASE Match(id) # 0
  BY <1>1, <1>2, <1>4, MatchIs DEF DeskAt
<1> QED BY <1>3, <1>4

(* What both ways to read a record of the device have in common.           *)
LEMMA PullInv ==
  ASSUME Inv, At("pull"), NEW p \in PilotRecords, p.id \in 1..(fresh - 1),
         SyncRecord(p, Match(p.id), DeskAt(Match(p.id))),
         UNCHANGED <<op, slow, pc, dev, desk, queue, fresh, result, fails>>,
         pos' \in Nat, (seen \subseteq 1..(fresh - 1))',
         ~Passed(p.id), Passed(p.id)', \A id : Passed(id) => Passed(id)'
  PROVE  /\ Inv' /\ Rule(p, DeskAt(Match(p.id)), rec'.steps)
         /\ rec'.steps # <<>> => rec'.p = p /\ rec'.d = Match(p.id)
<1> DEFINE d == Match(p.id)
<1>1. /\ d \in Nat /\ DeskAt(d) \in DesktopRecords \cup {NoDesktopRecord}
      /\ d = 0 => DeskAt(d) = NoDesktopRecord
      /\ d # 0 => d \in DOMAIN desk /\ desk[d].id = p.id
  BY DeskAtIs
<1>2. SyncRecord(p, d, DeskAt(d))
  OBVIOUS
<1> HIDE DEF d
<1>3. /\ rec' \in [p : PilotRecords, d : Nat, steps : Plans] /\ Rule(p, DeskAt(d), rec'.steps)
      /\ rec'.steps # <<>> => rec'.p = p /\ rec'.d = d
      /\ rec'.steps = <<>> => rec' = NotRunning /\ rec'.p.id = 0
  BY ONLY p \in PilotRecords, <1>1, <1>2, SyncRecordIs
<1>4. Types'
  BY <1>3 DEF Inv, Types
<1>5. fresh \in Nat /\ p.id \in Nat /\ p.id < fresh /\ p.id # 0 /\ 0 < fresh
  BY DEF Inv, Types
<1>6. Ids'
  BY <1>3, <1>5 DEF Inv, Ids
<1>7. pc = "pull" /\ \A i \in DOMAIN queue : queue[i] \in DOMAIN desk /\ Past(queue[i])
  BY AtIs DEF Inv, Queueing
<1>8. \A i \in DOMAIN queue : desk[queue[i]].id # p.id
  BY <1>5, <1>7 DEF Past
<1>9. QueuePending' => d # 0
  <2>1. SUFFICES ASSUME QueuePending', d = 0 PROVE FALSE
    OBVIOUS
  <2>2. rec'.steps \in QueuePlans
    BY <2>1 DEF QueuePending
  <2> QED BY ONLY <1>1, <1>3, <2>1, <2>2, RuleQueues
<1>10. (QueuePending => rec.d \in DOMAIN desk /\ \A i \in DOMAIN queue : queue[i] # rec.d)'
  <2>1. SUFFICES ASSUME QueuePending'
                 PROVE  rec'.d \in DOMAIN desk /\ \A i \in DOMAIN queue : queue[i] # rec'.d
    OBVIOUS
  <2>2. rec'.steps # <<>>
    BY <2>1, NothingPlanned DEF QueuePending
  <2> QED BY <1>1, <1>3, <1>8, <1>9, <2>1, <2>2
<1>11. (\A i \in DOMAIN queue : Past(queue[i]))'
  BY <1>7 DEF Past, Passed
<1>12. (Running /\ rec.d # 0 => rec.d \in DOMAIN desk /\ Past(rec.d))'
  BY <1>1, <1>3 DEF Running, Past
<1>13. (Matching => pc = "pull" /\ Passed(rec.p.id))'
  <2>1. SUFFICES ASSUME Matching' PROVE (pc = "pull" /\ Passed(rec.p.id))'
    OBVIOUS
  <2>2. rec'.steps # <<>>
    BY <2>1, NothingPlanned DEF Matching
  <2> QED BY <1>3, <1>7, <2>2
<1>14. Queueing'
  BY <1>7, <1>10, <1>11, <1>12, <1>13 DEF Inv, Queueing
<1> QED BY <1>3, <1>4, <1>6, <1>14 DEF Inv, d

LEMMA PullFastInv ==
  ASSUME Inv, PullFast
  PROVE  Inv' /\ \E i \in DOMAIN dev :
           /\ Modified(dev[i]) /\ ~Passed(dev[i].id)
           /\ Rule(dev[i], DeskAt(Match(dev[i].id)), rec'.steps)
           /\ rec'.steps # <<>> => rec'.p = dev[i] /\ rec'.d = Match(dev[i].id)
<1> DEFINE i == Least(Remaining)
<1>1. PICK p : p = dev[i]
  OBVIOUS
<1>2. /\ At("pull") /\ ~slow /\ Remaining # {}
      /\ seen' = seen \cup {p.id}
      /\ SyncRecord(p, Match(p.id), DeskAt(Match(p.id)))
      /\ UNCHANGED <<op, slow, pc, dev, desk, queue, fresh, pos, result, fails>>
  BY <1>1 DEF PullFast, records
<1>3. dev \in Seq(PilotRecords) /\ DistinctIds(dev, fresh - 1) /\ pos \in Nat
  BY DEF Inv, Types, Ids
<1>4. Remaining \subseteq Nat
  BY <1>3 DEF Remaining
<1>5. i \in Remaining
  BY <1>2, <1>4, LeastIs
<1> HIDE DEF i
<1>6. /\ i \in DOMAIN dev /\ Modified(p) /\ p.id \notin seen
      /\ p \in PilotRecords /\ p.id \in 1..(fresh - 1)
  BY <1>1, <1>3, <1>5 DEF Remaining, DistinctIds
<1>7. ~Passed(p.id)
  BY <1>2, <1>6 DEF Passed
<1>8. Passed(p.id)'
  BY <1>2 DEF Passed
<1>9. \A id : Passed(id) => Passed(id)'
  BY <1>2 DEF Passed
<1>10. (seen \subseteq 1..(fresh - 1))'
  BY <1>2, <1>6 DEF Inv, Ids
<1>11. pos' \in Nat
  BY <1>2, <1>3
<1>12. /\ Inv' /\ Rule(p, DeskAt(Match(p.id)), rec'.steps)
       /\ rec'.steps # <<>> => rec'.p = p /\ rec'.d = Match(p.id)
  BY ONLY Inv, <1>2, <1>6, <1>7, <1>8, <1>9, <1>10, <1>11, PullInv
<1> QED BY <1>1, <1>6, <1>7, <1>12

LEMMA RecomputedIs ==
  ASSUME NEW r \in PilotRecords \cup DesktopRecords, NEW b \in BOOLEAN
  PROVE  /\ r \in PilotRecords => Recomputed(r, b) \in PilotRecords
         /\ r \in DesktopRecords => /\ Recomputed(r, b) \in DesktopRecords
                                    /\ Recomputed(r, b).place = r.place
         /\ Recomputed(r, b).id = r.id /\ Recomputed(r, b).val = r.val
         /\ Recomputed(r, b).dirty = b /\ Recomputed(r, b).del = FALSE
         /\ Recomputed(r, b).arch = r.arch
BY DEF Recomputed, PilotRecords, DesktopRecords

LEMMA PullSlowInv ==
  ASSUME Inv, PullSlow
  PROVE  Inv' /\ \E i \in DOMAIN dev : \E p \in PilotRecords :
           LET d == Match(p.id) IN
           /\ p = Recomputed(dev[i], d = 0 \/ dev[i].val # DeskAt(d).val)
           /\ ~dev[i].del /\ ~Passed(p.id)
           /\ Rule(p, DeskAt(d), rec'.steps)
           /\ rec'.steps # <<>> => rec'.p = p /\ rec'.d = d
<1> DEFINE i == pos + 1
           b == Match(dev[i].id) = 0 \/ dev[i].val # DeskAt(Match(dev[i].id)).val
<1>1. PICK p : p = Recomputed(dev[i], b)
  OBVIOUS
<1>2. /\ At("pull") /\ slow /\ i \in DOMAIN dev /\ ~dev[i].del /\ pos' = i
      /\ SyncRecord(p, Match(dev[i].id), DeskAt(Match(dev[i].id)))
      /\ UNCHANGED <<op, slow, pc, dev, desk, queue, fresh, seen, result, fails>>
  BY <1>1 DEF PullSlow, Readable, NextIndex, records
<1>3. dev \in Seq(PilotRecords) /\ DistinctIds(dev, fresh - 1) /\ pos \in Nat
  BY DEF Inv, Types, Ids
<1>4. i \in Nat /\ pos < i /\ \A k \in DOMAIN dev : k > i => k > pos
  BY <1>3
<1>5. dev[i] \in PilotRecords /\ b \in BOOLEAN
  BY <1>2, <1>3
<1> HIDE DEF b
<1>6. p \in PilotRecords /\ p.id = dev[i].id
  BY <1>1, <1>5, RecomputedIs
<1>7. p.id \in 1..(fresh - 1)
  BY <1>2, <1>3, <1>6 DEF DistinctIds
<1> HIDE DEF i
<1>8. ~Passed(p.id)
  BY <1>2, <1>3, <1>4, <1>6 DEF Passed
<1>9. Passed(p.id)'
  <2>1. ASSUME NEW k \in DOMAIN dev, k > i PROVE dev[k].id # p.id
    <3>1. k # i
      BY <1>4, <2>1
    <3> QED BY <1>2, <1>3, <1>6, <3>1 DEF DistinctIds
  <2> QED BY <1>2, <2>1 DEF Passed
<1>10. ASSUME NEW id, Passed(id) PROVE Passed(id)'
  BY <1>2, <1>4, <1>10 DEF Passed
<1>11. (seen \subseteq 1..(fresh - 1))'
  BY <1>2 DEF Inv, Ids
<1>12. pos' \in Nat
  BY <1>2, <1>4
<1>13. SyncRecord(p, Match(p.id), DeskAt(Match(p.id)))
  BY <1>2, <1>6
<1>14. /\ Inv' /\ Rule(p, DeskAt(Match(p.id)), rec'.steps)
       /\ rec'.steps # <<>> => rec'.p = p /\ rec'.d = Match(p.id)
  BY ONLY Inv, <1>2, <1>6, <1>7, <1>8, <1>9, <1>10, <1>11, <1>12, <1>13, PullInv
<1>15. p = Recomputed(dev[i], Match(p.id) = 0 \/ dev[i].val # DeskAt(Match(p.id)).val)
  BY <1>1, <1>6 DEF b
<1> QED BY <1>2, <1>6, <1>8, <1>14, <1>15

LEMMA PendingIs ==
  ASSUME Inv, Pending # {}
  PROVE  LET d == Least(Pending) IN
         /\ d \in DOMAIN desk /\ d > pos /\ d \in Nat /\ desk[d] \in DesktopRecords
         /\ desk[d].place # "gone"
         /\ IF slow THEN ForEach(desk[d]) ELSE ForEachModified(desk[d])
<1>1. Pending \subseteq Nat /\ desk \in Seq(DesktopRecords)
  BY DEF Inv, Types, Pending
<1>2. Least(Pending) \in Pending
  BY <1>1, LeastIs
<1> DEFINE d == Least(Pending)
<1>3. d \in DOMAIN desk /\ d > pos /\ IF slow THEN ForEach(desk[d]) ELSE ForEachModified(desk[d])
  BY <1>2 DEF Pending
<1> HIDE DEF d
<1>4. desk[d].place # "gone"
  BY <1>3 DEF ForEach, ForEachModified
<1>5. d \in Nat /\ desk[d] \in DesktopRecords
  BY <1>1, <1>3
<1> QED BY <1>3, <1>4, <1>5 DEF d

LEMMA PushInv ==
  ASSUME Inv, Push
  PROVE  Inv' /\ \E d \in DOMAIN desk : \E p \in PilotRecords : \E r \in DesktopRecords :
           /\ \/ desk[d].id = 0 /\ p = NoPilotRecord
              \/ desk[d].id # 0 /\ \E i \in DOMAIN dev : p = dev[i] /\ dev[i].id = desk[d].id
           /\ r = WithFlags(desk[d], p) /\ desk[d].place # "gone" /\ desk[d].id = r.id
           /\ r.place = desk[d].place /\ r.val = desk[d].val
           /\ IF slow THEN ForEach(desk[d]) ELSE ForEachModified(desk[d])
           /\ desk' \in Seq(DesktopRecords) /\ DOMAIN desk' = DOMAIN desk
           /\ \A i \in DOMAIN desk : desk'[i] = IF i = d THEN r ELSE desk[i]
           /\ Rule(p, r, rec'.steps) /\ pos < d /\ pos' = d
           /\ rec'.steps # <<>> => rec'.p = p /\ rec'.d = d
<1> DEFINE d == Least(Pending)
<1>1. PICK p : p = Counterpart(desk[d].id)
  OBVIOUS
<1>2. PICK r : r = WithFlags(desk[d], p)
  OBVIOUS
<1>3. /\ At("push") /\ Pending # {} /\ (desk[d].id = 0 \/ OnDevice(desk[d].id) # 0)
      /\ desk' = [desk EXCEPT ![d] = r] /\ pos' = d /\ SyncRecord(p, d, r)
      /\ UNCHANGED <<op, slow, pc, dev, queue, fresh, seen, result, fails>>
  BY <1>1, <1>2 DEF Push
<1>4. /\ d \in DOMAIN desk /\ d > pos /\ d \in Nat /\ desk[d] \in DesktopRecords
      /\ desk[d].place # "gone"
      /\ IF slow THEN ForEach(desk[d]) ELSE ForEachModified(desk[d])
  BY <1>3, PendingIs
<1> HIDE DEF d
<1>5. /\ dev \in Seq(PilotRecords) /\ desk \in Seq(DesktopRecords) /\ DistinctIds(dev, fresh - 1)
      /\ fresh \in Nat /\ pos \in Nat /\ rec.p.id < fresh /\ rec.p.id \in Nat
  BY DEF Inv, Types, Ids, PilotRecords
<1>6. \/ desk[d].id = 0 /\ p = NoPilotRecord
      \/ desk[d].id # 0 /\ \E i \in DOMAIN dev : p = dev[i] /\ dev[i].id = desk[d].id
  BY <1>1, <1>3, <1>5, OnDeviceIs DEF Counterpart
<1>7. p \in PilotRecords /\ p.id < fresh
  <2>1. CASE p = NoPilotRecord
    BY <1>5, <2>1, NoPilotIs
  <2>2. ASSUME NEW i \in DOMAIN dev, p = dev[i] PROVE p \in PilotRecords /\ p.id < fresh
    BY <1>5, <2>2 DEF DistinctIds
  <2> QED BY <1>6, <2>1, <2>2
<1>8. r \in DesktopRecords /\ r.id = desk[d].id /\ r.place = desk[d].place /\ r.val = desk[d].val
  <2>1. CASE slow
    <3>1. (p = NoPilotRecord \/ p.val # desk[d].val) \in BOOLEAN
      OBVIOUS
    <3> QED BY <1>2, <1>4, <2>1, <3>1, RecomputedIs DEF WithFlags
  <2>2. CASE ~slow
    BY <1>2, <1>4, <2>2 DEF WithFlags
  <2> QED BY <2>1, <2>2
<1>9. /\ desk' \in Seq(DesktopRecords) /\ DOMAIN desk' = DOMAIN desk
      /\ \A i \in DOMAIN desk : desk'[i] = IF i = d THEN r ELSE desk[i]
  BY ONLY <1>3, <1>5, <1>8, ChangedAt
<1>10. /\ rec' \in [p : PilotRecords, d : Nat, steps : Plans] /\ Rule(p, r, rec'.steps)
       /\ rec'.steps # <<>> => rec'.p = p /\ rec'.d = d
       /\ rec'.steps = <<>> => rec' = NotRunning /\ rec'.p.id = 0
  BY ONLY <1>3, <1>4, <1>7, <1>8, SyncRecordIs
<1>11. Types'
  BY <1>3, <1>4, <1>9, <1>10 DEF Inv, Types
<1>12. Ids'
  BY <1>3, <1>5, <1>7, <1>8, <1>9, <1>10 DEF Inv, Ids
<1>13. pc = "push" /\ \A i \in DOMAIN queue : queue[i] \in DOMAIN desk /\ queue[i] <= pos
  BY <1>3, AtIs DEF Inv, Queueing
<1>14. \A i \in DOMAIN queue : queue[i] <= d /\ queue[i] # d
  <2>1. \A i \in DOMAIN queue : queue[i] \in Nat
    BY DEF Inv, Types
  <2> QED BY <1>4, <1>5, <1>13, <2>1
<1>15. (QueuePending => rec.d \in DOMAIN desk /\ \A i \in DOMAIN queue : queue[i] # rec.d)'
  <2>1. SUFFICES ASSUME QueuePending'
                 PROVE  rec'.d \in DOMAIN desk' /\ \A i \in DOMAIN queue : queue[i] # rec'.d
    BY <1>3
  <2>2. rec'.steps # <<>>
    BY <2>1, NothingPlanned DEF QueuePending
  <2> QED BY <1>4, <1>9, <1>10, <1>14, <2>2
<1>16. ~Matching'
  <2>1. rec'.steps # <<"match", "archive">>
    BY <1>10 DEF Rule
  <2>2. rec'.steps # <<"add", "match", "archive">>
    <3>1. r # NoDesktopRecord
      BY <1>8, NoDesktopIs
    <3> QED BY ONLY <1>10, <3>1 DEF Rule
  <2> QED BY <2>1, <2>2 DEF Matching, MatchPlans
<1>17. Queueing'
  BY <1>3, <1>9, <1>10, <1>13, <1>14, <1>15, <1>16 DEF Inv, Queueing, Running
<1> QED BY <1>3, <1>4, <1>6, <1>7, <1>8, <1>9, <1>10, <1>11, <1>12, <1>17, <1>2 DEF Inv

(* The operations that copy, and the storing of records on the device.     *)
LEMMA WriteRecordIs ==
  ASSUME Inv, NEW id \in Nat, id < fresh, NEW v \in Values, WriteRecord(id, v)
  PROVE  /\ dev' \in Seq(PilotRecords) /\ DistinctIds(dev', fresh' - 1)
         /\ fresh' \in Nat /\ fresh <= fresh'
         /\ IF id = 0 THEN fresh < fresh' ELSE fresh' = fresh
         /\ \E new \in PilotRecords :
              /\ new = [id |-> IF id = 0 THEN fresh ELSE id, val |-> v, dirty |-> FALSE,
                        del |-> FALSE, arch |-> FALSE]
              /\ DOMAIN dev \subseteq DOMAIN dev'
              /\ \A i \in DOMAIN dev : dev'[i] = IF dev[i].id = new.id THEN new ELSE dev[i]
              /\ \A i \in DOMAIN dev' \ DOMAIN dev : dev'[i] = new
              /\ \E i \in DOMAIN dev' : dev'[i] = new
<1> DEFINE n == IF id = 0 THEN fresh ELSE id
           new == PilotRecord(n, v, {})
<1>1. /\ dev \in Seq(PilotRecords) /\ fresh \in Nat /\ 0 < fresh
      /\ \A i, j \in DOMAIN dev : dev[i].id = dev[j].id => i = j
      /\ \A i \in DOMAIN dev : dev[i].id \in 1..(fresh - 1)
  BY DEF Inv, Types, Ids, DistinctIds
<1>2. n \in Nat /\ n # 0 /\ (fresh' = IF id = 0 THEN fresh + 1 ELSE fresh) /\ dev' = Written(new)
  BY <1>1 DEF WriteRecord
<1>3. n \in 1..(fresh' - 1) /\ fresh' \in Nat /\ fresh <= fresh'
  BY <1>1, <1>2
<1> HIDE DEF n
<1>4. new \in PilotRecords
      /\ new = [id |-> n, val |-> v, dirty |-> FALSE, del |-> FALSE, arch |-> FALSE]
  BY ONLY <1>2, v \in Values, PlainPilot
<1> HIDE DEF new
<1>5. new.id = n
  BY <1>4
<1>6. OnceOnDevice
  BY <1>1 DEF OnceOnDevice
<1>7. /\ dev' \in Seq(PilotRecords) /\ DOMAIN dev \subseteq DOMAIN dev' /\ OnceOnDevice'
      /\ \A i \in DOMAIN dev : dev'[i] = IF dev[i].id = new.id THEN new ELSE dev[i]
      /\ \A i \in DOMAIN dev' \ DOMAIN dev : dev'[i] = new
  BY ONLY <1>1, <1>2, <1>4, <1>6, WrittenIs
<1>8. 1..(fresh - 1) \subseteq 1..(fresh' - 1)
  BY <1>1, <1>3, UpToGrows
<1>9. \A i \in DOMAIN dev' : dev'[i].id \in 1..(fresh' - 1)
  BY ONLY <1>1, <1>3, <1>5, <1>7, <1>8
<1>10. DistinctIds(dev', fresh' - 1)
  BY <1>7, <1>9 DEF DistinctIds, OnceOnDevice
<1>11. \E i \in DOMAIN dev' : dev'[i] = new
  <2>1. CASE OnDevice(new.id) = 0
    <3>1. dev' = Append(dev, new)
      BY <1>2, <2>1 DEF Written
    <3>2. Len(dev) + 1 \in DOMAIN dev' /\ dev'[Len(dev) + 1] = new
      BY ONLY <1>1, <3>1
    <3> QED BY <3>2
  <2>2. CASE OnDevice(new.id) # 0
    BY <1>1, <1>7, <2>2, OnDeviceIs
  <2> QED BY <2>1, <2>2
<1>12. IF id = 0 THEN fresh < fresh' ELSE fresh' = fresh
  BY <1>1, <1>2
<1> QED BY <1>3, <1>4, <1>7, <1>10, <1>11, <1>12 DEF n

(* Outside the loops that call sync_record.                                *)
LEMMA QuietInv ==
  ASSUME Inv, pc \notin {"pull", "push"}, pc' \in Labels \ {"open", "pull", "push"},
         UNCHANGED <<op, slow, rec, seen>>,
         dev' \in Seq(PilotRecords), DistinctIds(dev', fresh' - 1), fresh' \in Nat, fresh <= fresh',
         desk' \in Seq(DesktopRecords), DOMAIN desk \subseteq DOMAIN desk',
         op # "MergeFromPilot" => \A i \in DOMAIN desk' : desk'[i].id < fresh',
         queue' = queue \/ (queue # <<>> /\ queue' = Tail(queue)),
         pos' \in Nat, result' \in {"ok", "failed"}, fails' \in 0..MaxFails
  PROVE  Inv'
<1>1. rec.steps = <<>>
  BY DEF Inv, Queueing, Running
<1>2. /\ queue' \in Seq(Nat)
      /\ \A i \in DOMAIN queue' : \E k \in DOMAIN queue : queue'[i] = queue[k] /\ k = IF queue' = queue THEN i ELSE i + 1
  <2>1. queue \in Seq(Nat)
    BY DEF Inv, Types
  <2>2. CASE queue' = queue
    BY <2>1, <2>2
  <2>3. CASE queue # <<>> /\ queue' = Tail(queue) /\ queue' # queue
    <3>1. /\ queue' \in Seq(Nat) /\ \A i \in DOMAIN queue' : i + 1 \in DOMAIN queue /\ queue'[i] = queue[i + 1]
      BY ONLY <2>1, <2>3
    <3> QED BY <2>3, <3>1
  <2> QED BY <2>2, <2>3
<1>3. Types'
  BY <1>2 DEF Inv, Types
<1>4. Ids'
  <2>1. fresh \in Nat /\ rec.p.id \in Nat /\ rec.p.id < fresh
    BY DEF Inv, Types, Ids, PilotRecords
  <2>2. 1..(fresh - 1) \subseteq 1..(fresh' - 1)
    BY <2>1, UpToGrows
  <2>3. rec.p.id < fresh'
    BY ONLY <2>1, fresh' \in Nat, fresh <= fresh'
  <2>4. (seen \subseteq 1..(fresh - 1))'
    BY <2>2 DEF Inv, Ids
  <2> QED BY <2>3, <2>4 DEF Ids
<1>5. \A i \in DOMAIN queue' : queue'[i] \in DOMAIN desk'
  BY <1>2 DEF Inv, Queueing
<1>6. ASSUME NEW i \in DOMAIN queue', NEW j \in DOMAIN queue', queue'[i] = queue'[j] PROVE i = j
  <2>1. \A k, l \in DOMAIN queue : queue[k] = queue[l] => k = l
    BY DEF Inv, Queueing
  <2>2. i \in Nat /\ j \in Nat
    BY <1>2
  <2> QED BY ONLY <1>2, <1>6, <2>1, <2>2
<1>7. ~Running' /\ ~Matching' /\ ~QueuePending'
  BY <1>1, NothingPlanned DEF Running, Matching, QueuePending
<1>8. Queueing'
  BY <1>5, <1>6, <1>7 DEF Queueing
<1> QED BY <1>3, <1>4, <1>8 DEF Inv

LEMMA Ready ==
  ASSUME Inv
  PROVE  /\ dev \in Seq(PilotRecords) /\ DistinctIds(dev, fresh - 1) /\ fresh \in Nat /\ fresh <= fresh
         /\ desk \in Seq(DesktopRecords) /\ DOMAIN desk \subseteq DOMAIN desk /\ pos \in Nat
         /\ op # "MergeFromPilot" => \A i \in DOMAIN desk : desk[i].id < fresh
         /\ result \in {"ok", "failed"} /\ fails \in 0..MaxFails /\ op \in Ops
BY DEF Inv, Types, Ids

(* What storing a desktop record does to both sides.                       *)
LEMMA StoreIs ==
  ASSUME Inv, NEW d \in DOMAIN desk,
         \/ Store(d)
         \/ (UNCHANGED <<dev, fresh>> \/ (Mod = "BOTH" /\ StoresOnPilot(d))) /\ UNCHANGED desk
  PROVE  /\ dev' \in Seq(PilotRecords) /\ DistinctIds(dev', fresh' - 1)
         /\ fresh' \in Nat /\ fresh <= fresh'
         /\ desk' \in Seq(DesktopRecords) /\ DOMAIN desk' = DOMAIN desk
         /\ op # "MergeFromPilot" => \A i \in DOMAIN desk' : desk'[i].id < fresh'
         /\ UNCHANGED <<dev, fresh>> \/ WriteRecord(desk[d].id, desk[d].val)
         /\ op = "MergeFromPilot" => UNCHANGED <<dev, fresh>>
         /\ \E id \in Nat :
              /\ \A i \in DOMAIN desk : desk'[i] = IF i = d THEN [desk[d] EXCEPT !.id = id] ELSE desk[i]
              /\ op # "MergeFromPilot" => id = desk[d].id \/ (id = fresh /\ fresh < fresh')
<1>1. Mod = "DESKTOP" <=> op = "MergeFromPilot"
  BY DEF Mod
<1>2. /\ dev \in Seq(PilotRecords) /\ DistinctIds(dev, fresh - 1) /\ fresh \in Nat
      /\ desk \in Seq(DesktopRecords)
      /\ op # "MergeFromPilot" => \A i \in DOMAIN desk : desk[i].id < fresh
  BY Ready
<1>3. /\ desk[d] \in DesktopRecords /\ desk[d].id \in Nat /\ desk[d].val \in Values
      /\ \A id \in Nat : [desk[d] EXCEPT !.id = id] \in DesktopRecords /\ [desk[d] EXCEPT !.id = id].id = id
      /\ [desk[d] EXCEPT !.id = desk[d].id] = desk[d]
  <2>1. desk[d] \in DesktopRecords => [desk[d] EXCEPT !.id = desk[d].id] = desk[d]
    BY DEF DesktopRecords
  <2> QED BY <2>1, ChangesAre
<1>4. /\ UNCHANGED <<dev, fresh>> \/ WriteRecord(desk[d].id, desk[d].val)
      /\ op = "MergeFromPilot" => UNCHANGED <<dev, fresh>>
  BY <1>1 DEF Store, StoresOnPilot
<1>5. /\ dev' \in Seq(PilotRecords) /\ DistinctIds(dev', fresh' - 1)
      /\ fresh' \in Nat /\ fresh <= fresh'
      /\ WriteRecord(desk[d].id, desk[d].val) /\ desk[d].id = 0 /\ op # "MergeFromPilot" => fresh < fresh'
  <2>1. CASE UNCHANGED <<dev, fresh>> /\ ~WriteRecord(desk[d].id, desk[d].val)
    BY <1>2, <2>1
  <2>2. CASE op = "MergeFromPilot"
    BY <1>2, <1>4, <2>2
  <2>3. CASE op # "MergeFromPilot" /\ WriteRecord(desk[d].id, desk[d].val)
    <3>1. desk[d].id < fresh
      BY <1>2, <2>3
    <3> QED BY <1>3, <2>3, <3>1, WriteRecordIs
  <2> QED BY <1>4, <2>1, <2>2, <2>3
<1>6. PICK id \in Nat :
        /\ desk' \in Seq(DesktopRecords) /\ DOMAIN desk' = DOMAIN desk
        /\ \A i \in DOMAIN desk : desk'[i] = IF i = d THEN [desk[d] EXCEPT !.id = id] ELSE desk[i]
        /\ op # "MergeFromPilot" => id = desk[d].id \/ (id = fresh /\ fresh < fresh')
  <2>1. CASE UNCHANGED desk
    BY <1>2, <1>3, <2>1
  <2>2. ASSUME NEW id \in Nat, desk' = [desk EXCEPT ![d].id = id],
               op # "MergeFromPilot" => id = desk[d].id \/ (id = fresh /\ fresh < fresh')
        PROVE  \E x \in Nat :
                 /\ desk' \in Seq(DesktopRecords) /\ DOMAIN desk' = DOMAIN desk
                 /\ \A i \in DOMAIN desk : desk'[i] = IF i = d THEN [desk[d] EXCEPT !.id = x] ELSE desk[i]
                 /\ op # "MergeFromPilot" => x = desk[d].id \/ (x = fresh /\ fresh < fresh')
    <3>1. PICK r : r = [desk[d] EXCEPT !.id = id]
      OBVIOUS
    <3>2. desk' = [desk EXCEPT ![d] = r] /\ r \in DesktopRecords
      BY <1>3, <2>2, <3>1
    <3>3. /\ desk' \in Seq(DesktopRecords) /\ DOMAIN desk' = DOMAIN desk
          /\ \A i \in DOMAIN desk : desk'[i] = IF i = d THEN r ELSE desk[i]
      BY ONLY <1>2, <3>2, ChangedAt
    <3> QED BY <2>2, <3>1, <3>3
  <2>3. CASE Store(d) /\ Mod = "BOTH"
    <3>1. PICK id : id = IF desk[d].id = 0 THEN fresh ELSE desk[d].id
      OBVIOUS
    <3>2. desk' = [desk EXCEPT ![d].id = id] /\ WriteRecord(desk[d].id, desk[d].val)
      BY <2>3, <3>1 DEF Store, SetPilotID, StoresOnPilot
    <3>3. id \in Nat /\ (op # "MergeFromPilot" => id = desk[d].id \/ (id = fresh /\ fresh < fresh'))
      BY <1>2, <1>3, <1>5, <3>1, <3>2
    <3> QED BY <2>2, <3>2, <3>3
  <2>4. CASE Store(d) /\ Mod = "PILOT"
    BY <2>1, <2>4 DEF Store, SetPilotID
  <2>5. CASE Store(d) /\ Mod = "DESKTOP"
    <3>1. PICK id \in Junk : desk' = [desk EXCEPT ![d].id = id]
      BY <2>5 DEF Store, SetPilotID
    <3>2. id \in Nat
      BY SyncAssumption
    <3> QED BY <1>1, <2>2, <2>5, <3>1, <3>2
  <2> QED BY <2>1, <2>3, <2>4, <2>5 DEF Mod
<1>7. op # "MergeFromPilot" => \A i \in DOMAIN desk' : desk'[i].id < fresh'
  <2>1. ASSUME op # "MergeFromPilot", NEW i \in DOMAIN desk PROVE desk'[i].id < fresh'
    <3>1. desk[i].id < fresh /\ desk[i].id \in Nat
      BY <1>2, <2>1, ChangesAre
    <3>2. desk'[i].id \in {desk[i].id, fresh} /\ (desk'[i].id = fresh => desk'[i].id = desk[i].id \/ fresh < fresh')
      BY <1>3, <1>6, <2>1
    <3> QED BY <1>2, <1>5, <3>1, <3>2
  <2> QED BY <1>6, <2>1
<1> QED BY <1>4, <1>5, <1>6, <1>7

LEMMA ProcessItemInv == ASSUME Inv, ProcessItem PROVE Inv'
<1> DEFINE d == Head(queue)
<1>1. /\ pc \in {"pullQueue", "pushQueue"} /\ queue # <<>> /\ queue' = Tail(queue)
      /\ (Store(d) /\ UNCHANGED fails) \/ StoreFails(d)
      /\ UNCHANGED <<op, slow, pc, seen, pos, rec, result>>
  BY DEF ProcessItem
<1>2. d \in DOMAIN desk
  <2>1. queue \in Seq(Nat) /\ \A i \in DOMAIN queue : queue[i] \in DOMAIN desk
    BY DEF Inv, Types, Queueing
  <2>2. 1 \in DOMAIN queue /\ d = queue[1]
    BY <1>1, <2>1
  <2> QED BY <2>1, <2>2
<1> HIDE DEF d
<1>3. /\ \/ Store(d)
         \/ (UNCHANGED <<dev, fresh>> \/ (Mod = "BOTH" /\ StoresOnPilot(d))) /\ UNCHANGED desk
      /\ fails' \in 0..MaxFails
  <2>1. CASE Store(d) /\ UNCHANGED fails
    BY <2>1, Ready
  <2>2. CASE StoreFails(d)
    BY <2>2, FaultIs DEF StoreFails
  <2> QED BY <1>1, <2>1, <2>2
<1>4. /\ dev' \in Seq(PilotRecords) /\ DistinctIds(dev', fresh' - 1)
      /\ fresh' \in Nat /\ fresh <= fresh'
      /\ desk' \in Seq(DesktopRecords) /\ DOMAIN desk' = DOMAIN desk
      /\ op # "MergeFromPilot" => \A i \in DOMAIN desk' : desk'[i].id < fresh'
  BY <1>2, <1>3, StoreIs
<1>5. pc' \in Labels \ {"open", "pull", "push"} /\ pc \notin {"pull", "push"}
  BY <1>1 DEF Labels
<1>6. pos' \in Nat /\ result' \in {"ok", "failed"} /\ DOMAIN desk \subseteq DOMAIN desk'
  BY <1>1, <1>4, Ready
<1> QED BY ONLY Inv, <1>1, <1>3, <1>4, <1>5, <1>6, QuietInv

LEMMA CopyToPilotInv == ASSUME Inv, CopyToPilot PROVE Inv'
<1> DEFINE d == Least(Copyable)
<1>1. /\ pc = "copyTo" /\ Copyable # {}
      /\ \/ Store(d) /\ pos' = d /\ UNCHANGED <<pc, result, fails>>
         \/ StoreFails(d) /\ Abort
      /\ UNCHANGED <<op, slow, queue, seen, rec>>
  BY DEF CopyToPilot
<1>2. d \in DOMAIN desk /\ d \in Nat
  <2>1. Copyable \subseteq Nat
    BY Ready DEF Copyable
  <2>2. d \in Copyable
    BY <1>1, <2>1, LeastIs
  <2> QED BY <2>1, <2>2 DEF Copyable
<1> HIDE DEF d
<1>3. /\ \/ Store(d)
         \/ (UNCHANGED <<dev, fresh>> \/ (Mod = "BOTH" /\ StoresOnPilot(d))) /\ UNCHANGED desk
      /\ fails' \in 0..MaxFails /\ pos' \in Nat /\ result' \in {"ok", "failed"}
      /\ pc' \in {"copyTo", "close"}
  <2>1. CASE Store(d) /\ pos' = d /\ UNCHANGED <<pc, result, fails>>
    BY <1>1, <1>2, <2>1, Ready
  <2>2. CASE StoreFails(d) /\ Abort
    BY <2>2, FaultIs DEF StoreFails, Abort, FailsAt, GoTo
  <2> QED BY <1>1, <2>1, <2>2
<1>4. /\ dev' \in Seq(PilotRecords) /\ DistinctIds(dev', fresh' - 1)
      /\ fresh' \in Nat /\ fresh <= fresh'
      /\ desk' \in Seq(DesktopRecords) /\ DOMAIN desk \subseteq DOMAIN desk'
      /\ op # "MergeFromPilot" => \A i \in DOMAIN desk' : desk'[i].id < fresh'
  BY <1>2, <1>3, StoreIs
<1>5. pc' \in Labels \ {"open", "pull", "push"} /\ pc \notin {"pull", "push"}
  BY <1>1, <1>3 DEF Labels
<1> QED BY ONLY Inv, <1>1, <1>3, <1>4, <1>5, QuietInv

LEMMA WipeDesktopInv == ASSUME Inv, WipeDesktop PROVE Inv'
<1> DEFINE d == Least(Copyable)
<1>1. /\ pc = "wipe" /\ Copyable # {}
      /\ \/ /\ desk' = [desk EXCEPT ![d].place = "gone"]
            /\ pos' = d /\ UNCHANGED <<pc, result, fails>>
         \/ Fault /\ Abort /\ UNCHANGED desk
      /\ UNCHANGED <<op, slow, dev, queue, fresh, seen, rec>>
  BY DEF WipeDesktop
<1>2. d \in DOMAIN desk /\ d \in Nat
  <2>1. Copyable \subseteq Nat
    BY Ready DEF Copyable
  <2>2. d \in Copyable
    BY <1>1, <2>1, LeastIs
  <2> QED BY <2>1, <2>2 DEF Copyable
<1> HIDE DEF d
<1>3. /\ fails' \in 0..MaxFails /\ pos' \in Nat /\ result' \in {"ok", "failed"}
      /\ pc' \in {"wipe", "close"}
      /\ desk' \in Seq(DesktopRecords) /\ DOMAIN desk \subseteq DOMAIN desk'
      /\ \A i \in DOMAIN desk' : i \in DOMAIN desk /\ desk'[i].id = desk[i].id
  <2>1. CASE desk' = [desk EXCEPT ![d].place = "gone"] /\ pos' = d /\ UNCHANGED <<pc, result, fails>>
    <3>1. PICK r : r = [desk[d] EXCEPT !.place = "gone"]
      OBVIOUS
    <3>2. desk' = [desk EXCEPT ![d] = r] /\ r \in DesktopRecords /\ r.id = desk[d].id
      BY <1>2, <2>1, <3>1, ChangesAre
    <3>3. desk \in Seq(DesktopRecords)
      BY Ready
    <3>4. /\ desk' \in Seq(DesktopRecords) /\ DOMAIN desk' = DOMAIN desk
          /\ \A i \in DOMAIN desk : desk'[i] = IF i = d THEN r ELSE desk[i]
      BY ONLY <3>2, <3>3, ChangedAt
    <3> QED BY <1>1, <1>2, <2>1, <3>2, <3>4, Ready
  <2>2. CASE Fault /\ Abort /\ UNCHANGED desk
    BY <2>2, FaultIs, Ready DEF Abort, FailsAt, GoTo
  <2> QED BY <1>1, <2>1, <2>2
<1>4. pc' \in Labels \ {"open", "pull", "push"} /\ pc \notin {"pull", "push"}
  BY <1>1, <1>3 DEF Labels
<1>5. /\ dev' \in Seq(PilotRecords) /\ DistinctIds(dev', fresh' - 1)
      /\ fresh' \in Nat /\ fresh <= fresh'
      /\ op # "MergeFromPilot" => \A i \in DOMAIN desk' : desk'[i].id < fresh'
  BY <1>1, <1>3, Ready
<1> QED BY ONLY Inv, <1>1, <1>3, <1>4, <1>5, QuietInv

LEMMA CopyFromPilotInv == ASSUME Inv, CopyFromPilot PROVE Inv'
<1> DEFINE r == dev[pos + 1]
           new == DesktopRecord(r.id, r.val, {}, "live")
<1>1. /\ pc = "copyFrom" /\ Readable(pos + 1)
      /\ \/ /\ desk' = Append(desk, new)
            /\ pos' = pos + 1 /\ UNCHANGED <<pc, result, fails>>
         \/ Fault /\ Abort /\ UNCHANGED desk
      /\ UNCHANGED <<op, slow, dev, queue, fresh, seen, rec>>
  BY DEF CopyFromPilot, NextIndex
<1>2. r \in PilotRecords /\ r.id \in Nat /\ r.val \in Values /\ r.id < fresh
  <2>1. r \in PilotRecords /\ r.id \in 1..(fresh - 1)
    BY <1>1, Ready DEF Readable, DistinctIds
  <2>2. r.id \in Nat /\ r.val \in Values
    BY <2>1 DEF PilotRecords
  <2> QED BY <2>1, <2>2, Ready
<1> HIDE DEF r
<1>3. new \in DesktopRecords /\ new.id = r.id
  <2>1. /\ new \in DesktopRecords
        /\ new = [id |-> r.id, val |-> r.val, dirty |-> FALSE, del |-> FALSE, arch |-> FALSE,
                  place |-> "live"]
    BY ONLY <1>2, PlainDesktop
  <2> HIDE DEF new
  <2> QED BY <2>1
<1> HIDE DEF new
<1>4. /\ fails' \in 0..MaxFails /\ pos' \in Nat /\ result' \in {"ok", "failed"}
      /\ pc' \in {"copyFrom", "close"}
      /\ desk' \in Seq(DesktopRecords) /\ DOMAIN desk \subseteq DOMAIN desk'
      /\ \A i \in DOMAIN desk' : desk'[i] = new \/ (i \in DOMAIN desk /\ desk'[i] = desk[i])
  <2>1. CASE desk' = Append(desk, new) /\ pos' = pos + 1 /\ UNCHANGED <<pc, result, fails>>
    <3>1. desk \in Seq(DesktopRecords) /\ pos \in Nat
      BY Ready
    <3>2. /\ desk' \in Seq(DesktopRecords) /\ DOMAIN desk' = DOMAIN desk \cup {Len(desk) + 1}
          /\ \A i \in DOMAIN desk : desk'[i] = desk[i]
          /\ desk'[Len(desk) + 1] = new
      BY ONLY <1>3, <2>1, <3>1
    <3> QED BY <1>1, <2>1, <3>1, <3>2, Ready
  <2>2. CASE Fault /\ Abort /\ UNCHANGED desk
    BY <2>2, FaultIs, Ready DEF Abort, FailsAt, GoTo
  <2> QED BY <1>1, <2>1, <2>2
<1>5. pc' \in Labels \ {"open", "pull", "push"} /\ pc \notin {"pull", "push"}
  BY <1>1, <1>4 DEF Labels
<1>6. /\ dev' \in Seq(PilotRecords) /\ DistinctIds(dev', fresh' - 1)
      /\ fresh' \in Nat /\ fresh <= fresh'
      /\ op # "MergeFromPilot" => \A i \in DOMAIN desk' : desk'[i].id < fresh'
  BY <1>1, <1>2, <1>3, <1>4, Ready
<1> QED BY ONLY Inv, <1>1, <1>4, <1>5, <1>6, QuietInv

LEMMA LoopsEndInv ==
  ASSUME Inv, \/ PullEnds \/ MatchFails \/ ProcessEnds \/ ReadFails \/ PushEnds
              \/ CopyToEnds \/ WipeEnds \/ CopyFromEnds \/ Post
  PROVE  Inv'
<1>1. UNCHANGED <<op, slow, dev, desk, queue, fresh, seen, rec>> /\ rec.steps = <<>>
  <2>1. rec.steps = <<>>
    BY AtIs DEF Inv, Queueing, Running, PullEnds, MatchFails, ProcessEnds, ReadFails, PushEnds,
                CopyToEnds, WipeEnds, CopyFromEnds, Post
  <2> QED BY <2>1 DEF records, PullEnds, MatchFails, ProcessEnds, ReadFails, PushEnds,
                      CopyToEnds, WipeEnds, CopyFromEnds, Post
<1>2. /\ pc' \in Labels /\ pc' # "open" /\ pos' = 0 /\ result' \in {"ok", "failed"}
      /\ pc' \in {"pull", "push"} => queue = <<>>
  BY Ready DEF PullEnds, MatchFails, ProcessEnds, ReadFails, PushEnds, CopyToEnds, WipeEnds,
         CopyFromEnds, Post, GoTo, Abort, FailsAt, LeavesLoop, AfterPull, Labels
<1>3. fails' \in 0..MaxFails
  BY FaultIs, Ready DEF PullEnds, MatchFails, ProcessEnds, ReadFails, PushEnds, CopyToEnds, WipeEnds,
         CopyFromEnds, Post
<1> QED BY <1>1, <1>2, <1>3, GoesOn

LEMMA OpenInv == ASSUME Inv, Open PROVE Inv'
<1>1. /\ pc = "open" /\ queue = <<>> /\ rec.steps = <<>>
      /\ UNCHANGED <<op, slow, desk, queue, fresh, seen, rec>>
      /\ dev' = dev \/ dev' = <<>>
  <2>1. pc = "open"
    BY DEF Open
  <2>2. queue = <<>> /\ rec.steps = <<>>
    BY <2>1 DEF Inv, Queueing, Running
  <2> QED BY <2>1, <2>2 DEF Open
<1>2. /\ pc' \in Labels /\ pc' # "open" /\ pos' = 0 /\ result' \in {"ok", "failed"}
  <2>1. FirstLoop[op] \in {"copyTo", "wipe", "pull", "push"}
    <3>1. op \in {"CopyToPilot", "CopyFromPilot", "MergeFromPilot", "MergeToPilot", "Synchronize"}
      BY SyncAssumption, Ready
    <3>2. /\ FirstLoop["CopyToPilot"] = "copyTo" /\ FirstLoop["CopyFromPilot"] = "wipe"
          /\ FirstLoop["MergeFromPilot"] = "pull" /\ FirstLoop["MergeToPilot"] = "push"
          /\ FirstLoop["Synchronize"] = "pull"
      BY DEF FirstLoop
    <3> QED BY <3>1, <3>2
  <2> QED BY <2>1, Ready DEF Open, GoTo, Abort, FailsAt, Labels
<1>3. fails' \in 0..MaxFails
  BY FaultIs, Ready DEF Open
<1>4. Types'
  <2>1. dev' \in Seq(PilotRecords)
    <3>1. <<>> \in Seq(PilotRecords)
      OBVIOUS
    <3> QED BY <1>1, <3>1, Ready
  <2> QED BY <1>1, <1>2, <1>3, <2>1 DEF Inv, Types
<1>5. Ids'
  <2>1. DistinctIds(dev, fresh - 1)
    BY Ready
  <2>2. DistinctIds(<<>>, fresh - 1)
    BY DEF DistinctIds
  <2> QED BY <1>1, <2>1, <2>2 DEF Inv, Ids
<1>6. Queueing'
  BY <1>1, <1>2, NothingPlanned DEF Inv, Queueing, Running, Matching, QueuePending
<1> QED BY <1>4, <1>5, <1>6 DEF Inv

LEMMA ResetIs ==
  ASSUME NEW n, NEW rs \in Seq(PilotRecords), DistinctIds(rs, n)
  PROVE  /\ ResetSyncFlags(rs) \in Seq(PilotRecords) /\ DistinctIds(ResetSyncFlags(rs), n)
         /\ DOMAIN ResetSyncFlags(rs) = DOMAIN rs
         /\ \A i \in DOMAIN rs : /\ ResetSyncFlags(rs)[i].val = rs[i].val
                                 /\ ResetSyncFlags(rs)[i].id = rs[i].id
                                 /\ ResetSyncFlags(rs)[i].del = rs[i].del
                                 /\ ResetSyncFlags(rs)[i].arch = rs[i].arch
                                 /\ ResetSyncFlags(rs)[i].dirty = FALSE
<1>1. ASSUME NEW i \in DOMAIN rs
      PROVE  /\ Unflagged(rs[i]) \in PilotRecords /\ Unflagged(rs[i]).id = rs[i].id
             /\ Unflagged(rs[i]).val = rs[i].val /\ Unflagged(rs[i]).del = rs[i].del
             /\ Unflagged(rs[i]).arch = rs[i].arch /\ Unflagged(rs[i]).dirty = FALSE
  <2>1. rs[i] \in PilotRecords
    OBVIOUS
  <2> QED BY <2>1 DEF Unflagged, PilotRecords
<1>2. PICK s : s = ResetSyncFlags(rs) /\ s = [i \in DOMAIN rs |-> Unflagged(rs[i])]
  BY DEF ResetSyncFlags
<1>3. DOMAIN s = DOMAIN rs /\ \A i \in DOMAIN rs : s[i] = Unflagged(rs[i])
  BY ONLY <1>2
<1>4. DOMAIN rs = 1..Len(rs) /\ Len(rs) \in Nat
  BY ONLY rs \in Seq(PilotRecords)
<1>5. \A i \in 1..Len(rs) : Unflagged(rs[i]) \in PilotRecords
  BY <1>1, <1>4
<1>6. s = [i \in 1..Len(rs) |-> Unflagged(rs[i])]
  BY ONLY <1>2, <1>4
<1>7. s \in [1..Len(rs) -> PilotRecords]
  BY ONLY <1>5, <1>6
<1>8. s \in Seq(PilotRecords)
  BY ONLY <1>4, <1>7
<1>9. \A i \in DOMAIN rs : /\ s[i].id = rs[i].id /\ s[i].val = rs[i].val /\ s[i].del = rs[i].del
                           /\ s[i].arch = rs[i].arch /\ s[i].dirty = FALSE
  BY ONLY <1>1, <1>3
<1>10. DistinctIds(s, n)
  BY ONLY <1>3, <1>9, DistinctIds(rs, n) DEF DistinctIds
<1> QED BY ONLY <1>2, <1>3, <1>8, <1>9, <1>10

LEMMA CleanedIs ==
  ASSUME NEW n \in Nat, NEW rs \in Seq(PilotRecords), DistinctIds(rs, n), NEW s \in CleanUpDatabase(rs)
  PROVE  s \in Seq(PilotRecords) /\ DistinctIds(s, n)
<1> DEFINE S == {i \in DOMAIN rs : ~rs[i].del /\ ~rs[i].arch}
<1>1. s \in Kept(rs, S) /\ S \in SUBSET DOMAIN rs
  BY DEF CleanUpDatabase
<1> HIDE DEF S
<1> QED BY <1>1, KeptIds

LEMMA CloseInv == ASSUME Inv, Close PROVE Inv'
<1>1. /\ pc = "close" /\ pc' = "done" /\ pos' = 0
      /\ UNCHANGED <<op, slow, desk, queue, fresh, seen, rec, result>>
  BY DEF Close, GoTo
<1>2. fails' \in 0..MaxFails
  BY FaultIs, Ready DEF Close
<1>3. dev \in Seq(PilotRecords) /\ DistinctIds(dev, fresh - 1) /\ fresh - 1 \in Nat
  <2>1. 0 < fresh /\ fresh \in Nat
    BY DEF Inv, Types, Ids, PilotRecords
  <2> QED BY <2>1, Ready
<1>4. dev' \in Seq(PilotRecords) /\ DistinctIds(dev', fresh - 1)
  <2>1. ASSUME NEW rs \in CleanUpDatabase(dev)
        PROVE  rs \in Seq(PilotRecords) /\ DistinctIds(rs, fresh - 1)
    BY <1>3, CleanedIs
  <2>2. ASSUME NEW rs \in CleanUpDatabase(dev), dev' = ResetSyncFlags(rs)
        PROVE  dev' \in Seq(PilotRecords) /\ DistinctIds(dev', fresh - 1)
    BY <2>1, <2>2, ResetIs
  <2>3. CASE dev' = ResetSyncFlags(dev)
    BY <1>3, <2>3, ResetIs
  <2>4. CASE dev' \in CleanUpDatabase(dev)
    BY <2>1, <2>4
  <2> QED BY <2>2, <2>3, <2>4 DEF Close
<1>5. pc' \in Labels \ {"open", "pull", "push"} /\ pc \notin {"pull", "push"}
  BY <1>1 DEF Labels
<1> QED BY <1>1, <1>2, <1>4, <1>5, Ready, QuietInv

LEMMA NextInv == ASSUME Inv, Next PROVE Inv'
BY StepsInv, OpenInv, PullFastInv, PullSlowInv, ProcessItemInv, PushInv, CopyToPilotInv, WipeDesktopInv,
   CopyFromPilotInv, LoopsEndInv, CloseInv DEF Next

LEMMA StutterInv == ASSUME Inv, UNCHANGED vars PROVE Inv'
<1>1. UNCHANGED <<op, slow, pc, dev, desk, queue, fresh, seen, pos, rec, result, fails>>
  BY DEF vars, records
<1>2. Types'
  BY <1>1 DEF Inv, Types
<1>3. Ids'
  BY <1>1 DEF Inv, Ids
<1>4. Queueing'
  BY <1>1 DEF Inv, Queueing, Past, Passed, Running, QueuePending, Matching
<1> QED BY <1>2, <1>3, <1>4 DEF Inv

LEMMA SpecInv == Spec => []Inv
<1>1. Inv /\ [Next]_vars => Inv'
  BY NextInv, StutterInv
<1> QED BY InitInv, <1>1, PTL DEF Spec

(* Ids of the device stay distinct and handed out by it, and the queue     *)
(* holds each record once: store_record_on_pilot, WriteRecord and          *)
(* close_db, whatever call fails.                                          *)
THEOREM TypeCorrect == Spec => []TypeOK
<1>1. Inv => TypeOK
  <2>1. SUFFICES ASSUME Inv PROVE TypeOK
    OBVIOUS
  <2>2. /\ op \in Ops /\ slow \in Slow /\ result \in {"ok", "failed"}
        /\ fails \in 0..MaxFails /\ pos \in Nat
    BY <2>1 DEF Inv, Types
  <2>3. seen \subseteq 1..fresh
    <3>1. seen \subseteq 1..(fresh - 1) /\ fresh \in Nat
      BY <2>1 DEF Inv, Types, Ids
    <3>2. 1..(fresh - 1) \subseteq 1..fresh
      BY ONLY <3>1
    <3> QED BY <3>1, <3>2
  <2>4. \A i, j \in DOMAIN dev :
          dev[i].id \in 1..(fresh - 1) /\ (dev[i].id = dev[j].id => i = j)
    BY <2>1 DEF Inv, Ids, DistinctIds
  <2>5. \A i, j \in DOMAIN queue :
          queue[i] \in DOMAIN desk /\ (queue[i] = queue[j] => i = j)
    BY <2>1 DEF Inv, Queueing
  <2>6. \A i \in DOMAIN desk :
          desk[i].id \in Nat /\ desk[i].place \in {"live", "archive", "gone"}
    <3>1. \A i \in DOMAIN desk : desk[i] \in DesktopRecords
      BY <2>1 DEF Inv, Types
    <3> QED BY <3>1 DEF DesktopRecords
  <2> QED BY <2>2, <2>3, <2>4, <2>5, <2>6 DEF TypeOK
<1> QED BY SpecInv, <1>1, PTL

-----------------------------------------------------------------------------
(* The inductive invariant for NoTwins.                                    *)
AddPlans == {<<"add">>, <<"add", "match", "archive">>, <<"add", "queue", "clear">>}

PlacePlans ==
  {<<"archive">>, <<"replace", "archive", "clear">>, <<"archive", "clear">>,
   <<"archive", "deleteP", "clear">>, <<"unarchive", "replace", "clear">>}

There(i) == desk[i].place # "gone"
Twins(i, j) == There(i) /\ There(j) /\ desk[i].id = desk[j].id
Exempt(i) == Forgetting /\ i = rec.d

Different ==
  \A i, j \in DOMAIN desk :
    Twins(i, j) => i = j \/ desk[i].id = 0 \/ Exempt(i) \/ Exempt(j)

(* A record that is added is the only one with its id; in a conflict the   *)
(* one it is in conflict with has it too.                                  *)
AddsOwn ==
  op = "Synchronize" /\ rec.steps \in AddPlans =>
    \A i \in DOMAIN desk : There(i) => desk[i].id # rec.p.id

AddsBeside ==
  rec.steps = <<"add", "forget", "queue", "clear">> =>
    \A i \in DOMAIN desk : There(i) /\ i # rec.d => desk[i].id # rec.p.id

(* What is archived or taken from the archive has not been removed.        *)
Places == rec.d \in DOMAIN desk /\ rec.steps \in PlacePlans => There(rec.d)

TwinFree ==
  Different /\ AddsOwn /\ AddsBeside /\ Places /\ pc \notin {"wipe", "copyFrom"}

MergesToPilot == op \in {"Synchronize", "MergeToPilot"}
TwinInv == MergesToPilot => TwinFree

LEMMA NoneSpecial ==
  /\ <<>> \notin AddPlans /\ <<>> \notin PlacePlans
  /\ <<>> # <<"add", "forget", "queue", "clear">>
BY DEF AddPlans, PlacePlans

LEMMA TwinTurn ==
  ASSUME NEW s, NEW t, NEW h, Turn(s, h, t)
  PROVE  /\ t \in AddPlans => h = "writeNew"
         /\ t # <<"add", "forget", "queue", "clear">>
         /\ t \in PlacePlans => h = "match" \/ (h = "replace" /\ s \in PlacePlans)
         /\ h \in {"archive", "unarchive"} => s \in PlacePlans
         /\ h = "add" => s \in AddPlans \/ (s = <<"add", "forget", "queue", "clear">>
                                         /\ t = <<"forget", "queue", "clear">>)
         /\ h = "match" => t = <<"archive">>
BY DEF Turn, AddPlans, PlacePlans

LEMMA NotForgetting == ASSUME NEW s, s # "forget", Turning(s) PROVE ~Forgetting
BY DEF Turning, Forgetting

(* A step that changes one desktop record at most, and neither brings one  *)
(* back nor gives it an id.                                                *)
LEMMA ChangeTwins ==
  ASSUME Inv, TwinFree, NEW s, Turning(s), s # "match",
         s \in {"add", "writeNew"} => op # "Synchronize",
         Continue(rec.p, rec.d, Tail(rec.steps)),
         DOMAIN desk' = DOMAIN desk,
         \A i \in DOMAIN desk : desk'[i].id \in {desk[i].id, 0} /\ (There(i)' => There(i)),
         s = "replace" => \A i \in DOMAIN desk : There(i) => There(i)',
         s = "forget" /\ rec.d \in DOMAIN desk => desk'[rec.d].id = 0
  PROVE  TwinFree'
<1> DEFINE t == Tail(rec.steps)
<1>1. Turn(rec.steps, s, t) /\ t \in Plans /\ rec.p \in PilotRecords /\ rec.d \in Nat
  BY StepIs
<1>2. Continue(rec.p, rec.d, t)
  OBVIOUS
<1> HIDE DEF t
<1>3. rec'.steps = t /\ (t # <<>> => rec'.d = rec.d)
  BY ONLY <1>1, <1>2, ContinueIs
<1>4. Different'
  <2>1. ASSUME NEW i \in DOMAIN desk, NEW j \in DOMAIN desk, Twins(i, j)', i # j, desk'[i].id # 0
        PROVE  Exempt(i)' \/ Exempt(j)'
    <3>0. There(i)' /\ There(j)' /\ desk'[i].id = desk'[j].id
      BY <2>1 DEF Twins
    <3>1. There(i) /\ There(j) /\ desk[i].id = desk'[i].id /\ desk[j].id = desk'[j].id
          /\ desk'[j].id # 0
      BY <2>1, <3>0 DEF There
    <3>2. Exempt(i) \/ Exempt(j)
      BY <2>1, <3>1 DEF TwinFree, Different, Twins
    <3>3. s = "forget"
      BY <3>2, NotForgetting DEF Exempt
    <3>4. desk'[i].id = 0 \/ desk'[j].id = 0
      BY <3>2, <3>3 DEF Exempt
    <3> QED BY <2>1, <3>1, <3>4
  <2>2. \A i, j \in DOMAIN desk' : Twins(i, j)' => i = j \/ desk'[i].id = 0 \/ Exempt(i)' \/ Exempt(j)'
    BY <2>1
  <2> QED BY <2>2 DEF Different
<1>5. AddsOwn' /\ AddsBeside'
  <2>1. op' = op /\ (t \in AddPlans => op # "Synchronize")
    BY <1>1, TwinTurn DEF Turning
  <2>2. t # <<"add", "forget", "queue", "clear">>
    BY <1>1, TwinTurn
  <2> QED BY <1>3, <2>1, <2>2 DEF AddsOwn, AddsBeside
<1>6. Places'
  <2>1. SUFFICES ASSUME rec'.d \in DOMAIN desk', rec'.steps \in PlacePlans PROVE There(rec.d)'
    BY DEF Places
  <2>2. s = "replace" /\ rec.steps \in PlacePlans
    BY <1>1, <1>3, <2>1, TwinTurn
  <2>3. t # <<>>
    BY <1>3, <2>1, NoneSpecial
  <2>4. PICK d : d = rec.d
    OBVIOUS
  <2>5. There(d)'
    BY <1>3, <2>1, <2>2, <2>3, <2>4 DEF TwinFree, Places
  <2> QED BY <1>3, <2>3, <2>4, <2>5
<1>7. pc' \notin {"wipe", "copyFrom"}
  BY DEF TwinFree, Turning
<1> QED BY <1>4, <1>5, <1>6, <1>7 DEF TwinFree

LEMMA PlacesAre ==
  ASSUME Inv, NEW d \in DOMAIN desk
  PROVE  /\ \A v : [desk[d] EXCEPT !.val = v].place = desk[d].place
         /\ \A place : [desk[d] EXCEPT !.place = place].place = place
         /\ Cleared(desk[d]).place = desk[d].place
         /\ [desk[d] EXCEPT !.id = 0].place = desk[d].place
<1>1. ASSUME NEW r \in DesktopRecords
      PROVE  /\ \A v : [r EXCEPT !.val = v].place = r.place
             /\ \A place : [r EXCEPT !.place = place].place = place
             /\ Cleared(r).place = r.place
             /\ [r EXCEPT !.id = 0].place = r.place
  BY DEF DesktopRecords, Cleared
<1>2. desk[d] \in DesktopRecords
  BY DEF Inv, Types
<1> QED BY ONLY <1>1, <1>2

LEMMA ChangeTwin ==
  ASSUME Inv, TwinFree, NEW s, Step(s), s \notin {"match", "queue", "add", "writeNew"},
         NEW r, ChangeDesktop(r),
         rec.d \in DOMAIN desk =>
           /\ r \in DesktopRecords /\ r.id \in {desk[rec.d].id, 0}
           /\ r.place # "gone" => There(rec.d)
           /\ s = "replace" => r.place = desk[rec.d].place
           /\ s = "forget" => r.id = 0
  PROVE  TwinFree'
<1>1. /\ DOMAIN desk' = DOMAIN desk
      /\ \A i \in DOMAIN desk : desk'[i] = IF i = rec.d THEN r ELSE desk[i]
  BY ChangeDesktopInv
<1>2. Turning(s) /\ Continue(rec.p, rec.d, Tail(rec.steps))
  BY StepTurns DEF ChangeDesktop, Goes
<1>3. \A i \in DOMAIN desk : desk'[i].id \in {desk[i].id, 0} /\ (There(i)' => There(i))
  BY <1>1 DEF There
<1>4. s = "replace" => \A i \in DOMAIN desk : There(i) => There(i)'
  BY <1>1 DEF There
<1>5. s = "forget" /\ rec.d \in DOMAIN desk => desk'[rec.d].id = 0
  BY <1>1
<1> QED BY <1>1, <1>2, <1>3, <1>4, <1>5, ChangeTwins

LEMMA ChangesTwins ==
  ASSUME Inv, TwinFree, \/ ReplaceRecord \/ ArchiveRecord \/ Unarchive
                        \/ SetStatusCleared \/ DeleteRecord \/ ForgetID
  PROVE  TwinFree'
<1>0. ASSUME NEW s \in {"archive", "unarchive"}, Step(s), rec.d \in DOMAIN desk PROVE There(rec.d)
  <2>1. rec.steps \in PlacePlans
    BY <1>0, StepIs, StepTurns, TwinTurn
  <2> QED BY <1>0, <2>1 DEF TwinFree, Places
<1>1. CASE ReplaceRecord
  <2>0. rec.p.val \in Values
    BY <1>1, StepIs, StepTurns DEF ReplaceRecord
  <2>1. PICK r, s : s = "replace" /\ r = [desk[rec.d] EXCEPT !.val = rec.p.val] /\ Step(s) /\ ChangeDesktop(r)
    BY <1>1 DEF ReplaceRecord
  <2>2. rec.d \in DOMAIN desk =>
          /\ r \in DesktopRecords /\ r.id \in {desk[rec.d].id, 0}
          /\ r.place # "gone" => There(rec.d)
          /\ r.place = desk[rec.d].place
    BY <2>0, <2>1, ChangesAre, PlacesAre DEF There
  <2>3. s \notin {"match", "queue", "add", "writeNew"} /\ s # "forget"
    BY <2>1
  <2>a. Step(s) /\ ChangeDesktop(r)
    BY <2>1
  <2> QED BY ONLY Inv, TwinFree, <2>a, <2>2, <2>3, ChangeTwin
<1>2. CASE ArchiveRecord
  <2>1. PICK r, s : s = "archive" /\ r = [desk[rec.d] EXCEPT !.place = "archive"] /\ Step(s) /\ ChangeDesktop(r)
    BY <1>2 DEF ArchiveRecord
  <2>2. rec.d \in DOMAIN desk =>
          /\ r \in DesktopRecords /\ r.id \in {desk[rec.d].id, 0}
          /\ r.place # "gone" => There(rec.d)
    BY <1>0, <2>1, ChangesAre, PlacesAre DEF There
  <2>3. s \notin {"match", "queue", "add", "writeNew"} /\ s # "replace" /\ s # "forget"
    BY <2>1
  <2>a. Step(s) /\ ChangeDesktop(r)
    BY <2>1
  <2> QED BY ONLY Inv, TwinFree, <2>a, <2>2, <2>3, ChangeTwin
<1>3. CASE Unarchive
  <2>1. PICK r, s : s = "unarchive" /\ r = [desk[rec.d] EXCEPT !.place = "live"] /\ Step(s) /\ ChangeDesktop(r)
    BY <1>3 DEF Unarchive
  <2>2. rec.d \in DOMAIN desk =>
          /\ r \in DesktopRecords /\ r.id \in {desk[rec.d].id, 0}
          /\ r.place # "gone" => There(rec.d)
    BY <1>0, <2>1, ChangesAre, PlacesAre DEF There
  <2>3. s \notin {"match", "queue", "add", "writeNew"} /\ s # "replace" /\ s # "forget"
    BY <2>1
  <2>a. Step(s) /\ ChangeDesktop(r)
    BY <2>1
  <2> QED BY ONLY Inv, TwinFree, <2>a, <2>2, <2>3, ChangeTwin
<1>4. CASE SetStatusCleared
  <2>1. PICK r, s : s = "clear" /\ r = Cleared(desk[rec.d]) /\ Step(s) /\ ChangeDesktop(r)
    BY <1>4 DEF SetStatusCleared
  <2>2. rec.d \in DOMAIN desk =>
          /\ r \in DesktopRecords /\ r.id \in {desk[rec.d].id, 0}
          /\ r.place # "gone" => There(rec.d)
    BY <2>1, ChangesAre, PlacesAre DEF There
  <2>3. s \notin {"match", "queue", "add", "writeNew"} /\ s # "replace" /\ s # "forget"
    BY <2>1
  <2>a. Step(s) /\ ChangeDesktop(r)
    BY <2>1
  <2> QED BY ONLY Inv, TwinFree, <2>a, <2>2, <2>3, ChangeTwin
<1>5. CASE DeleteRecord
  <2>1. PICK r, s : s = "deleteD" /\ r = [desk[rec.d] EXCEPT !.place = "gone"] /\ Step(s) /\ ChangeDesktop(r)
    BY <1>5 DEF DeleteRecord
  <2>2. rec.d \in DOMAIN desk =>
          /\ r \in DesktopRecords /\ r.id \in {desk[rec.d].id, 0}
          /\ r.place # "gone" => There(rec.d)
    BY <2>1, ChangesAre, PlacesAre DEF There
  <2>3. s \notin {"match", "queue", "add", "writeNew"} /\ s # "replace" /\ s # "forget"
    BY <2>1
  <2>a. Step(s) /\ ChangeDesktop(r)
    BY <2>1
  <2> QED BY ONLY Inv, TwinFree, <2>a, <2>2, <2>3, ChangeTwin
<1>6. CASE ForgetID
  <2>1. PICK r, s : s = "forget" /\ r = [desk[rec.d] EXCEPT !.id = 0] /\ Step(s) /\ ChangeDesktop(r)
    BY <1>6 DEF ForgetID
  <2>2. rec.d \in DOMAIN desk =>
          /\ r \in DesktopRecords /\ r.id \in {desk[rec.d].id, 0}
          /\ r.place # "gone" => There(rec.d)
          /\ r.id = 0
    BY <2>1, ChangesAre, PlacesAre DEF There
  <2>3. s \notin {"match", "queue", "add", "writeNew"} /\ s # "replace"
    BY <2>1
  <2>a. Step(s) /\ ChangeDesktop(r)
    BY <2>1
  <2> QED BY ONLY Inv, TwinFree, <2>a, <2>2, <2>3, ChangeTwin
<1> QED BY <1>1, <1>2, <1>3, <1>4, <1>5, <1>6

LEMMA SameDeskTwins ==
  ASSUME Inv, TwinFree, AddRecordQueue \/ DeleteOnDevice \/ (NotTaken /\ MergesToPilot)
  PROVE  TwinFree'
<1>1. PICK s : /\ Turning(s) /\ Continue(rec.p, rec.d, Tail(rec.steps)) /\ UNCHANGED desk
               /\ s \notin {"match", "forget"} /\ (s \in {"add", "writeNew"} => op # "Synchronize")
  <2>1. CASE AddRecordQueue
    BY <2>1, StepTurns DEF AddRecordQueue, Goes
  <2>2. CASE DeleteOnDevice
    BY <2>2, StepTurns DEF DeleteOnDevice, Goes
  <2>3. CASE NotTaken /\ MergesToPilot
    <3>1. ~Taken(Head(rec.steps), Mod)
      BY <2>3 DEF NotTaken
    <3>2. Head(rec.steps) \notin {"match", "forget"} /\ op # "Synchronize"
      BY <3>1 DEF Taken, DesktopCheck, DesktopSteps, PilotCheck, PilotSteps, Mod
    <3> QED BY <2>3, <3>2 DEF NotTaken, Turning, Goes, records
  <2> QED BY <2>1, <2>2, <2>3
<1>2. \A i \in DOMAIN desk : desk'[i].id \in {desk[i].id, 0} /\ (There(i)' => There(i))
                             /\ (There(i) => There(i)')
  BY <1>1 DEF There
<1> QED BY <1>1, <1>2, ChangeTwins

LEMMA AddRecordTwins ==
  ASSUME Inv, TwinFree, MergesToPilot, AddRecord
  PROVE  TwinFree'
<1> DEFINE t == Tail(rec.steps)
           n == Len(desk) + 1
<1>1. /\ Turning("add") /\ Continue(rec.p, rec.d, t) /\ Taken("add", Mod)
  BY StepTurns DEF AddRecord, Goes
<1>2. op = "Synchronize"
  BY <1>1 DEF Taken, DesktopCheck, DesktopSteps, Mod, MergesToPilot
<1>3. /\ DOMAIN desk' = DOMAIN desk \cup {n}
      /\ \A i \in DOMAIN desk : desk'[i] = desk[i]
      /\ desk'[n] = [id |-> rec.p.id, val |-> rec.p.val, dirty |-> FALSE, del |-> FALSE,
                     arch |-> FALSE, place |-> "live"]
  BY AddRecordInv
<1>4. /\ Turn(rec.steps, "add", t) /\ t \in Plans /\ rec.p \in PilotRecords /\ rec.d \in Nat
  BY <1>1, StepIs
<1> HIDE DEF t, n
<1>5. rec'.steps = t /\ (t # <<>> => rec'.d = rec.d)
  BY ONLY <1>1, <1>4, ContinueIs
<1>6. /\ t \notin AddPlans /\ t # <<"add", "forget", "queue", "clear">> /\ t \notin PlacePlans
      /\ rec.steps \in AddPlans \/ (rec.steps = <<"add", "forget", "queue", "clear">>
                                  /\ t = <<"forget", "queue", "clear">>)
  BY <1>4, TwinTurn
<1>7. AddsOwn' /\ AddsBeside' /\ Places'
  BY <1>5, <1>6 DEF AddsOwn, AddsBeside, Places
<1>8. ~Forgetting
  BY <1>1, NotForgetting
<1>9. ASSUME NEW i \in DOMAIN desk, There(i), desk[i].id = rec.p.id PROVE Exempt(i)'
  <2>1. rec.steps = <<"add", "forget", "queue", "clear">> /\ t = <<"forget", "queue", "clear">> /\ i = rec.d
    BY <1>2, <1>6, <1>9 DEF TwinFree, AddsOwn, AddsBeside
  <2>2. t # <<>> /\ Head(t) = "forget"
    BY <2>1
  <2>3. Forgetting' /\ rec'.d = i
    BY <1>5, <2>1, <2>2 DEF Forgetting, Running
  <2> QED BY <2>3 DEF Exempt
<1>10. ASSUME NEW i \in DOMAIN desk', NEW j \in DOMAIN desk', Twins(i, j)'
       PROVE  i = j \/ desk'[i].id = 0 \/ Exempt(i)' \/ Exempt(j)'
  <2>1. There(i)' /\ There(j)' /\ desk'[i].id = desk'[j].id
    BY <1>10 DEF Twins
  <2>2. \A k \in DOMAIN desk : desk'[k].id = desk[k].id /\ (There(k)' => There(k))
    BY <1>3 DEF There
  <2>3. desk'[n].id = rec.p.id
    BY <1>3
  <2>4. CASE i \in DOMAIN desk /\ j \in DOMAIN desk
    BY <1>8, <2>1, <2>2, <2>4 DEF TwinFree, Different, Twins, Exempt
  <2>5. CASE i = n /\ j \in DOMAIN desk
    BY <1>9, <2>1, <2>2, <2>3, <2>5
  <2>6. CASE i \in DOMAIN desk /\ j = n
    BY <1>9, <2>1, <2>2, <2>3, <2>6
  <2> QED BY <1>3, <2>4, <2>5, <2>6
<1>11. Different'
  BY <1>10 DEF Different
<1>12. pc' \notin {"wipe", "copyFrom"}
  BY <1>1 DEF TwinFree, Turning
<1> QED BY <1>7, <1>11, <1>12 DEF TwinFree

LEMMA MatchAddedTwins == ASSUME Inv, TwinFree, MatchAdded PROVE TwinFree'
<1>1. /\ Turning("match") /\ Continue(rec.p, Match(rec.p.id), Tail(rec.steps)) /\ UNCHANGED desk
  BY StepTurns DEF MatchAdded, records
<1>2. Tail(rec.steps) = <<"archive">>
  BY <1>1, StepIs, TwinTurn
<1>3. rec'.steps = <<"archive">> /\ rec'.d = Match(rec.p.id)
  <2>1. <<"archive">> # <<>>
    OBVIOUS
  <2> QED BY <1>1, <1>2, <2>1 DEF Continue
<1>4. /\ AddsOwn' /\ AddsBeside'
  BY <1>3 DEF AddsOwn, AddsBeside, AddPlans
<1>5. Places'
  <2>1. PICK d : d = Match(rec.p.id)
    OBVIOUS
  <2>2. d \in DOMAIN desk => There(d)
    BY <2>1, DeskAtIs DEF There, Inv, Types
  <2> QED BY <1>1, <1>3, <2>1, <2>2 DEF Places, There
<1>6. ~Forgetting
  BY <1>1, NotForgetting
<1>7. Different'
  BY <1>1, <1>6 DEF TwinFree, Different, Twins, There, Exempt
<1>8. pc' \notin {"wipe", "copyFrom"}
  BY <1>1 DEF TwinFree, Turning
<1> QED BY <1>4, <1>5, <1>7, <1>8 DEF TwinFree

LEMMA WriteNewTwins == ASSUME Inv, TwinFree, WriteNew PROVE TwinFree'
<1> DEFINE t == Tail(rec.steps)
           q == [rec.p EXCEPT !.id = fresh]
<1>1. /\ Turning("writeNew") /\ Continue(q, rec.d, t) /\ UNCHANGED desk
  BY StepTurns DEF WriteNew
<1>2. op # "MergeFromPilot"
  BY WriteNewInv
<1>3. /\ Turn(rec.steps, "writeNew", t) /\ t \in Plans /\ rec.p \in PilotRecords /\ rec.d \in Nat
  BY <1>1, StepIs
<1>4. /\ fresh \in Nat /\ desk \in Seq(DesktopRecords) /\ \A i \in DOMAIN desk : desk[i].id < fresh
  BY <1>2, Ready
<1>5. q \in PilotRecords /\ q.id = fresh
  BY ONLY <1>3, <1>4 DEF PilotRecords
<1> HIDE DEF t, q
<1>6. rec'.steps = t /\ (t # <<>> => rec'.p = q)
  BY ONLY <1>1, <1>3, <1>5, ContinueIs
<1>7. t # <<"add", "forget", "queue", "clear">> /\ t \notin PlacePlans
  BY <1>3, TwinTurn
<1>8. AddsBeside' /\ Places'
  BY <1>6, <1>7 DEF AddsBeside, Places
<1>9. \A i \in DOMAIN desk : desk[i].id # fresh
  <2>1. \A i \in DOMAIN desk : desk[i].id \in Nat
    BY ChangesAre
  <2> QED BY ONLY <1>4, <2>1
<1>10. AddsOwn'
  <2>1. t \in AddPlans => rec'.p.id = fresh
    BY <1>5, <1>6, NoneSpecial
  <2> QED BY <1>1, <1>6, <1>9, <2>1 DEF AddsOwn
<1>11. ~Forgetting
  BY <1>1, NotForgetting
<1>12. Different'
  BY <1>1, <1>11 DEF TwinFree, Different, Twins, There, Exempt
<1>13. pc' \notin {"wipe", "copyFrom"}
  BY <1>1 DEF TwinFree, Turning
<1> QED BY <1>8, <1>10, <1>12, <1>13 DEF TwinFree

(* No call of sync_record goes on or begins, and no desktop record changes. *)
LEMMA QuietTwins ==
  ASSUME Inv, TwinFree, UNCHANGED desk, rec'.steps = <<>>, ~Forgetting,
         pc' \notin {"wipe", "copyFrom"}
  PROVE  TwinFree'
<1>1. AddsOwn' /\ AddsBeside' /\ Places'
  BY NoneSpecial DEF AddsOwn, AddsBeside, Places
<1>2. Different'
  BY DEF TwinFree, Different, Twins, There, Exempt
<1> QED BY <1>1, <1>2 DEF TwinFree

LEMMA StepFailsTwins == ASSUME Inv, TwinFree, StepFails PROVE TwinFree'
<1>1. /\ UNCHANGED desk /\ rec'.steps = <<>> /\ pc' \in {"post", "close"}
  BY DEF StepFails, records, NotRunning, LeavesLoop, FailsAt, Abort, GoTo
<1>2. ~Forgetting
  BY DEF StepFails, MayFail, Forgetting
<1> QED BY <1>1, <1>2, QuietTwins

LEMMA StepsTwins == ASSUME Inv, TwinFree, MergesToPilot, Steps PROVE TwinFree'
BY AddRecordTwins, MatchAddedTwins, ChangesTwins, SameDeskTwins, WriteNewTwins, StepFailsTwins DEF Steps

LEMMA RuleAdds ==
  ASSUME NEW p, NEW d \in DesktopRecords \cup {NoDesktopRecord}, NEW s, Rule(p, d, s)
  PROVE  /\ s \in AddPlans => d = NoDesktopRecord
         /\ s = <<"add", "forget", "queue", "clear">> => d # NoDesktopRecord /\ p # NoPilotRecord
<1>1. ~Changed(NoPilotRecord) /\ ~Changed(NoDesktopRecord)
  BY NoRecords DEF Changed
<1>2. CASE s = <<"add">>
  BY <1>2 DEF Rule
<1>3. CASE s = <<"add", "match", "archive">>
  BY <1>3 DEF Rule
<1>4. s # <<"add", "queue", "clear">>
  BY DEF Rule
<1>5. CASE s = <<"add", "forget", "queue", "clear">>
  <2>1. Changed(p) /\ Changed(d)
    BY <1>5 DEF Rule
  <2> QED BY <1>1, <1>5, <2>1 DEF AddPlans
<1> QED BY <1>2, <1>3, <1>4, <1>5 DEF AddPlans

(* sync_record is called for a record of the device and what Match finds.  *)
LEMMA PullTwins ==
  ASSUME Inv, TwinFree, rec.steps = <<>>, UNCHANGED <<op, pc, desk>>, NEW p,
         p.id # 0, Rule(p, DeskAt(Match(p.id)), rec'.steps),
         rec'.steps # <<>> => rec'.p = p /\ rec'.d = Match(p.id)
  PROVE  TwinFree'
<1> DEFINE d == Match(p.id)
<1>1. /\ DeskAt(d) \in DesktopRecords \cup {NoDesktopRecord}
      /\ d = 0 => DeskAt(d) = NoDesktopRecord
      /\ d # 0 => /\ d \in DOMAIN desk /\ DeskAt(d) = desk[d] /\ desk[d] \in DesktopRecords
                  /\ desk[d].id = p.id /\ There(d)
  BY DeskAtIs DEF There, Inv, Types
<1>2. d = 0 => \A i \in DOMAIN desk : There(i) => desk[i].id # p.id
  <2>1. desk \in Seq(DesktopRecords) /\ 0 \notin DOMAIN desk
    BY Ready
  <2> QED BY <2>1, MatchIs DEF There
<1>3. Rule(p, DeskAt(d), rec'.steps) /\ (rec'.steps # <<>> => rec'.p = p /\ rec'.d = d)
  OBVIOUS
<1> HIDE DEF d
<1>4. /\ rec'.steps \in AddPlans => d = 0
      /\ rec'.steps = <<"add", "forget", "queue", "clear">> => d # 0
  BY <1>1, <1>3, RuleAdds, NoDesktopIs
<1>5. ~Forgetting
  BY DEF Forgetting, Running
<1>6. AddsOwn'
  BY <1>2, <1>3, <1>4, NoneSpecial DEF AddsOwn, There
<1>7. AddsBeside'
  <2>1. ASSUME rec'.steps = <<"add", "forget", "queue", "clear">>,
               NEW i \in DOMAIN desk, There(i), i # d PROVE desk[i].id # p.id
    BY <1>1, <1>4, <1>5, <2>1 DEF TwinFree, Different, Twins, Exempt
  <2> QED BY <1>3, <2>1, NoneSpecial DEF AddsBeside, There
<1>8. Places'
  <2>1. 0 \notin DOMAIN desk
    BY Ready
  <2> QED BY <1>1, <1>3, <2>1, NoneSpecial DEF Places, There
<1>9. Different'
  BY <1>5 DEF TwinFree, Different, Twins, There, Exempt
<1> QED BY <1>6, <1>7, <1>8, <1>9 DEF TwinFree

LEMMA PullsTwins == ASSUME Inv, TwinFree, PullFast \/ PullSlow PROVE TwinFree'
<1>1. rec.steps = <<>> /\ UNCHANGED <<op, pc, desk>>
  BY AtIs DEF PullFast, PullSlow, records
<1>2. \A i \in DOMAIN dev : dev[i] \in PilotRecords /\ dev[i].id # 0
  BY Ready DEF DistinctIds
<1>3. CASE PullFast
  BY <1>1, <1>2, <1>3, PullFastInv, PullTwins
<1>4. CASE PullSlow
  <2>1. PICK i \in DOMAIN dev, p \in PilotRecords :
          /\ p = Recomputed(dev[i], Match(p.id) = 0 \/ dev[i].val # DeskAt(Match(p.id)).val)
          /\ Rule(p, DeskAt(Match(p.id)), rec'.steps)
          /\ rec'.steps # <<>> => rec'.p = p /\ rec'.d = Match(p.id)
    BY <1>4, PullSlowInv
  <2>2. p.id # 0
    <3>1. PICK b \in BOOLEAN : p = Recomputed(dev[i], b)
      BY <2>1
    <3>2. dev[i] \in PilotRecords /\ dev[i].id # 0
      BY <1>2
    <3> QED BY ONLY <3>1, <3>2, RecomputedIs
  <2> QED BY <1>1, <2>1, <2>2, PullTwins
<1> QED BY <1>3, <1>4

LEMMA PushTwins == ASSUME Inv, TwinFree, Push PROVE TwinFree'
<1>1. rec.steps = <<>> /\ UNCHANGED <<op, pc>>
  BY AtIs DEF Push
<1>2. PICK d \in DOMAIN desk, p \in PilotRecords, r \in DesktopRecords :
        /\ \/ desk[d].id = 0 /\ p = NoPilotRecord
           \/ desk[d].id # 0 /\ \E i \in DOMAIN dev : p = dev[i] /\ dev[i].id = desk[d].id
        /\ desk[d].place # "gone" /\ desk[d].id = r.id /\ r.place = desk[d].place
        /\ DOMAIN desk' = DOMAIN desk
        /\ \A i \in DOMAIN desk : desk'[i] = IF i = d THEN r ELSE desk[i]
        /\ Rule(p, r, rec'.steps)
        /\ rec'.steps # <<>> => rec'.p = p /\ rec'.d = d
  BY PushInv
<1>3. \A i \in DOMAIN desk : desk'[i].id = desk[i].id /\ (There(i)' <=> There(i))
  BY <1>2 DEF There
<1>4. r # NoDesktopRecord
  BY NoDesktopIs
<1>5. /\ rec'.steps \notin AddPlans
      /\ rec'.steps = <<"add", "forget", "queue", "clear">> => p # NoPilotRecord
  BY <1>2, <1>4, RuleAdds
<1>6. ~Forgetting
  BY <1>1 DEF Forgetting, Running
<1>7. AddsOwn'
  BY <1>5 DEF AddsOwn
<1>8. AddsBeside'
  <2>1. SUFFICES ASSUME rec'.steps = <<"add", "forget", "queue", "clear">>,
                        NEW i \in DOMAIN desk, There(i), i # d PROVE desk[i].id # p.id
    BY <1>2, <1>3, NoneSpecial DEF AddsBeside
  <2>2. desk[d].id # 0 /\ p.id = desk[d].id /\ There(d)
    BY <1>2, <1>5, <2>1 DEF There
  <2> QED BY <1>6, <2>1, <2>2 DEF TwinFree, Different, Twins, Exempt
<1>9. Places'
  <2>1. There(d)'
    BY <1>2, <1>3 DEF There
  <2> QED BY <1>2, <2>1, NoneSpecial DEF Places, There
<1>10. Different'
  <2>1. ASSUME NEW i \in DOMAIN desk, NEW j \in DOMAIN desk, Twins(i, j)' PROVE i = j \/ desk[i].id = 0
    <3>1. There(i)' /\ There(j)' /\ desk'[i].id = desk'[j].id
      BY <2>1 DEF Twins
    <3>2. There(i) /\ There(j) /\ desk[i].id = desk[j].id
      BY <1>3, <3>1
    <3> QED BY <1>6, <3>2 DEF TwinFree, Different, Twins, Exempt
  <2> QED BY <1>2, <1>3, <2>1 DEF Different
<1> QED BY <1>1, <1>7, <1>8, <1>9, <1>10 DEF TwinFree

(* Storing a desktop record gives it a fresh id at most.                   *)
LEMMA StoreTwins ==
  ASSUME Inv, TwinFree, MergesToPilot, NEW d \in DOMAIN desk, Store(d) \/ StoreFails(d),
         UNCHANGED rec, rec.steps = <<>>, pc' \notin {"wipe", "copyFrom"}
  PROVE  TwinFree'
<1>1. op # "MergeFromPilot"
  BY DEF MergesToPilot
<1>2. /\ DOMAIN desk' = DOMAIN desk
      /\ \E id \in Nat :
           /\ \A i \in DOMAIN desk : desk'[i] = IF i = d THEN [desk[d] EXCEPT !.id = id] ELSE desk[i]
           /\ op # "MergeFromPilot" => id = desk[d].id \/ (id = fresh /\ fresh < fresh')
  BY StoreIs DEF StoreFails
<1>3. PICK id \in Nat :
        /\ \A i \in DOMAIN desk : desk'[i] = IF i = d THEN [desk[d] EXCEPT !.id = id] ELSE desk[i]
        /\ id = desk[d].id \/ id = fresh
  BY <1>1, <1>2
<1>4. [desk[d] EXCEPT !.id = id].id = id /\ [desk[d] EXCEPT !.id = id].place = desk[d].place
  <2>1. \A r \in DesktopRecords : [r EXCEPT !.id = id].id = id /\ [r EXCEPT !.id = id].place = r.place
    BY DEF DesktopRecords
  <2> QED BY <2>1, ChangesAre
<1>5. /\ desk'[d].id = id
      /\ \A i \in DOMAIN desk : There(i)' <=> There(i)
      /\ \A i \in DOMAIN desk : i # d => desk'[i].id = desk[i].id
  BY <1>3, <1>4 DEF There
<1>6. \A i \in DOMAIN desk : desk[i].id # fresh
  <2>1. \A i \in DOMAIN desk : desk[i].id \in Nat /\ desk[i].id < fresh
    BY <1>1, ChangesAre, Ready
  <2> QED BY ONLY <2>1, Ready, Inv
<1>7. ~Forgetting
  BY DEF Forgetting, Running
<1>8. Different'
  <2>1. ASSUME NEW i \in DOMAIN desk, NEW j \in DOMAIN desk, Twins(i, j)' PROVE i = j \/ desk'[i].id = 0
    <3>1. There(i)' /\ There(j)' /\ desk'[i].id = desk'[j].id
      BY <2>1 DEF Twins
    <3>2. i = j \/ (desk[i].id = desk[j].id /\ There(i) /\ There(j) /\ desk'[i].id = desk[i].id)
      BY <1>3, <1>5, <1>6, <3>1
    <3> QED BY <1>7, <3>2 DEF TwinFree, Different, Twins, Exempt
  <2> QED BY <1>2, <2>1 DEF Different
<1>9. AddsOwn' /\ AddsBeside' /\ Places'
  BY NoneSpecial DEF AddsOwn, AddsBeside, Places
<1> QED BY <1>8, <1>9 DEF TwinFree

LEMMA ProcessItemTwins == ASSUME Inv, TwinFree, MergesToPilot, ProcessItem PROVE TwinFree'
<1> DEFINE d == Head(queue)
<1>1. /\ pc \in {"pullQueue", "pushQueue"} /\ queue # <<>> /\ UNCHANGED <<pc, rec>>
      /\ Store(d) \/ StoreFails(d)
  BY DEF ProcessItem
<1>2. d \in DOMAIN desk
  <2>1. queue \in Seq(Nat) /\ \A i \in DOMAIN queue : queue[i] \in DOMAIN desk
    BY DEF Inv, Types, Queueing
  <2>2. 1 \in DOMAIN queue /\ d = queue[1]
    BY <1>1, <2>1
  <2> QED BY <2>1, <2>2
<1> HIDE DEF d
<1>3. rec.steps = <<>>
  BY <1>1 DEF Inv, Queueing, Running
<1> QED BY <1>1, <1>2, <1>3, StoreTwins

LEMMA CopyToPilotTwins == ASSUME Inv, TwinFree, MergesToPilot, CopyToPilot PROVE TwinFree'
<1> DEFINE d == Least(Copyable)
<1>1. /\ pc = "copyTo" /\ Copyable # {} /\ (Store(d) \/ StoreFails(d))
      /\ pc' \in {"copyTo", "close"} /\ UNCHANGED rec
  BY DEF CopyToPilot, Abort, FailsAt, GoTo
<1>2. d \in DOMAIN desk
  <2>1. Copyable \subseteq Nat
    BY Ready DEF Copyable
  <2>2. d \in Copyable
    BY <1>1, <2>1, LeastIs
  <2> QED BY <2>2 DEF Copyable
<1> HIDE DEF d
<1>3. rec.steps = <<>>
  BY <1>1 DEF Inv, Queueing, Running
<1> QED BY <1>1, <1>2, <1>3, StoreTwins

LEMMA QuietStepsTwins ==
  ASSUME Inv, TwinFree, MergesToPilot,
         \/ Open \/ PullEnds \/ MatchFails \/ ProcessEnds \/ ReadFails \/ PushEnds
         \/ CopyToEnds \/ WipeEnds \/ CopyFromEnds \/ Post \/ Close
  PROVE  TwinFree'
<1>1. rec.steps = <<>> /\ ~Forgetting
  BY AtIs DEF Inv, Queueing, Running, Forgetting, Open, PullEnds, MatchFails, ProcessEnds, ReadFails,
              PushEnds, CopyToEnds, WipeEnds, CopyFromEnds, Post, Close
<1>2. UNCHANGED <<desk, rec>>
  BY DEF records, Open, PullEnds, MatchFails, ProcessEnds, ReadFails, PushEnds, CopyToEnds, WipeEnds,
         CopyFromEnds, Post, Close
<1>3. pc' \notin {"wipe", "copyFrom"}
  <2>1. FirstLoop[op] \notin {"wipe", "copyFrom"}
    <3>1. FirstLoop["MergeToPilot"] = "push" /\ FirstLoop["Synchronize"] = "pull"
      BY DEF FirstLoop
    <3> QED BY <3>1 DEF MergesToPilot
  <2>2. ~WipeEnds
    BY DEF WipeEnds, TwinFree
  <2> QED BY <2>1, <2>2 DEF Open, PullEnds, MatchFails, ProcessEnds, ReadFails, PushEnds, CopyToEnds,
         CopyFromEnds, Post, Close, GoTo, Abort, FailsAt, LeavesLoop, AfterPull
<1> QED BY <1>1, <1>2, <1>3, QuietTwins

LEMMA NextTwins == ASSUME Inv, TwinInv, Next PROVE TwinInv'
<1>1. UNCHANGED op
  BY DEF Next, Steps, AddRecord, MatchAdded, ReplaceRecord, ArchiveRecord, Unarchive, SetStatusCleared,
         DeleteRecord, ForgetID, AddRecordQueue, WriteNew, DeleteOnDevice, NotTaken, StepFails, Step,
         Open, PullFast, PullSlow, PullEnds, MatchFails, ProcessItem, ProcessEnds, Push, ReadFails,
         PushEnds, CopyToPilot, CopyToEnds, WipeDesktop, WipeEnds, CopyFromPilot, CopyFromEnds, Post, Close
<1>2. SUFFICES ASSUME MergesToPilot, TwinFree PROVE TwinFree'
  BY <1>1 DEF TwinInv, MergesToPilot
<1>3. ~WipeDesktop /\ ~CopyFromPilot
  BY <1>2 DEF WipeDesktop, CopyFromPilot, TwinFree
<1> QED BY <1>2, <1>3, StepsTwins, PullsTwins, PushTwins, ProcessItemTwins, CopyToPilotTwins,
           QuietStepsTwins DEF Next

LEMMA InitTwins == ASSUME Init PROVE TwinInv
<1>1. rec = NotRunning /\ pc = "open"
  BY Zenon DEF Init
<1>2. rec.steps = <<>>
  BY <1>1 DEF NotRunning
<1>3. Different
  <2>1. \A i \in DOMAIN desk : desk[i].id \in {0, i}
    BY Beginning
  <2> QED BY <2>1 DEF Different, Twins
<1> QED BY <1>1, <1>2, <1>3, NoneSpecial DEF TwinInv, TwinFree, AddsOwn, AddsBeside, Places

LEMMA SpecTwins == Spec => []TwinInv
<1>1. Inv /\ TwinInv /\ [Next]_vars => TwinInv'
  <2>1. ASSUME UNCHANGED vars, TwinInv PROVE TwinInv'
    BY <2>1 DEF vars, records, TwinInv, MergesToPilot, TwinFree, Different, AddsOwn, AddsBeside, Places,
                Twins, There, Exempt, Forgetting, Running
  <2> QED BY <2>1, NextTwins
<1> QED BY InitTwins, SpecInv, <1>1, PTL DEF Spec

(* A synchronization never gives two desktop records one id: sync_record   *)
(* adds a record only when Match found none, or takes the id from the      *)
(* other, and store_record_on_pilot hands on only ids the device made new. *)
THEOREM NoTwinsCorrect == Spec => []NoTwins
<1>1. TwinInv => NoTwins
  BY DEF TwinInv, MergesToPilot, TwinFree, Different, Twins, There, Exempt, NoTwins
<1> QED BY SpecTwins, <1>1, PTL

-----------------------------------------------------------------------------
(* A merge one way.                                                        *)
(* What the macros leave out for a merge one way.                          *)
LEMMA TakenIs ==
  ASSUME NEW s, Taken(s, Mod)
  PROVE  /\ op = "MergeFromPilot" => s \notin {"deleteP", "deleteBoth", "writeNew"}
         /\ op = "MergeToPilot" => s \notin DesktopSteps
<1>1. ("deleteBoth" \in PilotSteps) = FALSE /\ "deleteP" \in PilotSteps /\ "writeNew" \in PilotSteps
  BY DEF PilotSteps
<1>2. op = "MergeFromPilot" => Mod = "DESKTOP"
  BY DEF Mod
<1>3. op = "MergeToPilot" => Mod = "PILOT"
  BY DEF Mod
<1> QED BY <1>1, <1>2, <1>3 DEF Taken, DesktopCheck, PilotCheck

LEMMA DeviceStaysSteps ==
  ASSUME Inv, op = "MergeFromPilot", Next, ~Close
  PROVE  UNCHANGED dev
<1>1. Mod = "DESKTOP"
  BY DEF Mod
<1>2. ~WriteNew /\ ~DeleteOnDevice
  BY StepTurns, TakenIs DEF WriteNew, DeleteOnDevice
<1>3. ASSUME NEW d, Store(d) \/ StoreFails(d) PROVE UNCHANGED dev
  BY <1>1, <1>3 DEF Store, StoreFails, StoresOnPilot
<1>4. CASE Steps
  BY <1>2, <1>4 DEF Steps, records, AddRecord, MatchAdded, ReplaceRecord, ArchiveRecord, Unarchive,
     SetStatusCleared, DeleteRecord, ForgetID, ChangeDesktop, AddRecordQueue, NotTaken, StepFails
<1>5. CASE ProcessItem \/ CopyToPilot
  BY <1>3, <1>5 DEF ProcessItem, CopyToPilot
<1>6. CASE Open
  BY <1>6 DEF Open
<1> QED BY <1>4, <1>5, <1>6 DEF Next, records, PullFast, PullSlow, PullEnds, MatchFails,
     ProcessEnds, Push, ReadFails, PushEnds, CopyToEnds, WipeDesktop, WipeEnds, CopyFromPilot,
     CopyFromEnds, Post

(* What close_db removes or resets was not live.                           *)
LEMMA ResetLive ==
  ASSUME NEW rs \in Seq(PilotRecords), NEW n, DistinctIds(rs, n),
         NEW s, s = ResetSyncFlags(rs)
  PROVE  {<<r.id, r.val>> : r \in {t \in Range(s) : ~t.del /\ ~t.arch}}
           = {<<r.id, r.val>> : r \in {t \in Range(rs) : ~t.del /\ ~t.arch}}
<1>1. /\ DOMAIN s = DOMAIN rs
      /\ \A i \in DOMAIN rs : s[i].val = rs[i].val /\ s[i].id = rs[i].id
                              /\ s[i].del = rs[i].del /\ s[i].arch = rs[i].arch
  BY ResetIs
<1> QED BY ONLY <1>1 DEF Range

LEMMA CleanedLive ==
  ASSUME NEW rs \in Seq(PilotRecords), NEW s \in CleanUpDatabase(rs)
  PROVE  {<<r.id, r.val>> : r \in {t \in Range(s) : ~t.del /\ ~t.arch}}
           = {<<r.id, r.val>> : r \in {t \in Range(rs) : ~t.del /\ ~t.arch}}
<1> DEFINE S == {i \in DOMAIN rs : ~rs[i].del /\ ~rs[i].arch}
<1>1. s \in Kept(rs, S) /\ S \in SUBSET DOMAIN rs
  BY DEF CleanUpDatabase
<1>2. \A k \in S : k \in DOMAIN rs /\ ~rs[k].del /\ ~rs[k].arch
  OBVIOUS
<1>3. \A k \in DOMAIN rs : ~rs[k].del /\ ~rs[k].arch => k \in S
  OBVIOUS
<1> HIDE DEF S
<1>4. PICK at \in [DOMAIN s -> S] :
        /\ \A i \in DOMAIN s : s[i] = rs[at[i]]
        /\ \A k \in S : \E i \in DOMAIN s : at[i] = k
  BY <1>1, KeptIs
<1>5. ASSUME NEW t, ~t.del /\ ~t.arch PROVE t \in Range(s) <=> t \in Range(rs)
  <2>1. ASSUME NEW i \in DOMAIN s, t = s[i] PROVE t \in Range(rs)
    <3>1. t = rs[at[i]] /\ at[i] \in DOMAIN rs
      BY <1>2, <1>4, <2>1
    <3> QED BY <3>1 DEF Range
  <2>2. ASSUME NEW k \in DOMAIN rs, t = rs[k] PROVE t \in Range(s)
    <3>1. k \in S
      BY <1>3, <1>5, <2>2
    <3>2. PICK i \in DOMAIN s : at[i] = k
      BY <1>4, <3>1
    <3>3. t = s[i]
      BY <1>4, <2>2, <3>2
    <3> QED BY <3>3 DEF Range
  <2> QED BY <2>1, <2>2 DEF Range
<1> QED BY ONLY <1>5

LEMMA CloseLive == ASSUME Inv, Close PROVE UNCHANGED LiveOnPilot
<1>1. dev \in Seq(PilotRecords) /\ DistinctIds(dev, fresh - 1) /\ fresh - 1 \in Nat
  <2>1. 0 < fresh /\ fresh \in Nat
    BY DEF Inv, Types, Ids, PilotRecords
  <2> QED BY <2>1, Ready
<1> DEFINE Live(rs) == {<<r.id, r.val>> : r \in {t \in Range(rs) : ~t.del /\ ~t.arch}}
<1>2. ASSUME NEW rs \in CleanUpDatabase(dev)
      PROVE  rs \in Seq(PilotRecords) /\ DistinctIds(rs, fresh - 1) /\ Live(rs) = Live(dev)
  BY <1>1, CleanedIs, CleanedLive
<1>3. ASSUME NEW rs \in Seq(PilotRecords), DistinctIds(rs, fresh - 1)
      PROVE  Live(ResetSyncFlags(rs)) = Live(rs)
  BY <1>3, ResetLive
<1>4. LiveOnPilot = Live(dev) /\ LiveOnPilot' = Live(dev')
  BY DEF LiveOnPilot
<1> HIDE DEF Live
<1>5. ASSUME NEW rs \in CleanUpDatabase(dev), dev' = ResetSyncFlags(rs)
      PROVE  Live(dev') = Live(dev)
  BY <1>2, <1>3, <1>5
<1>6. CASE dev' = ResetSyncFlags(dev)
  BY <1>1, <1>3, <1>4, <1>6
<1>7. CASE dev' \in CleanUpDatabase(dev)
  BY <1>2, <1>4, <1>7
<1> QED BY <1>4, <1>5, <1>6, <1>7 DEF Close

(* ContentsOnDesktop, record by record.                                    *)
SameContents ==
  /\ DOMAIN desk' = DOMAIN desk
  /\ \A i \in DOMAIN desk : desk'[i].val = desk[i].val /\ desk'[i].place = desk[i].place

LEMMA ForgetContents == ASSUME Inv, ForgetID PROVE SameContents
<1>1. PICK r : r = [desk[rec.d] EXCEPT !.id = 0] /\ ChangeDesktop(r)
  BY DEF ForgetID
<1>2. rec.d \in DOMAIN desk =>
        r \in DesktopRecords /\ r.val = desk[rec.d].val /\ r.place = desk[rec.d].place
  <2>1. ASSUME NEW q \in DesktopRecords, NEW t, t = [q EXCEPT !.id = 0]
        PROVE  t \in DesktopRecords /\ t.val = q.val /\ t.place = q.place
    BY <2>1 DEF DesktopRecords
  <2>2. rec.d \in DOMAIN desk => desk[rec.d] \in DesktopRecords
    BY Ready
  <2> QED BY <1>1, <2>1, <2>2
<1>3. /\ DOMAIN desk' = DOMAIN desk
      /\ \A i \in DOMAIN desk : desk'[i] = IF i = rec.d THEN r ELSE desk[i]
  <2>1. desk \in Seq(DesktopRecords) /\ desk' = [desk EXCEPT ![rec.d] = r]
    BY <1>1, Ready DEF ChangeDesktop
  <2> QED BY <1>2, <2>1, ChangedAt
<1> QED BY <1>2, <1>3 DEF SameContents

LEMMA PushContents == ASSUME Inv, Push PROVE SameContents
<1> DEFINE d == Least(Pending)
           p == Counterpart(desk[d].id)
           r == WithFlags(desk[d], p)
<1>1. Pending # {} /\ desk' = [desk EXCEPT ![d] = r]
  BY DEF Push
<1>2. d \in DOMAIN desk
  BY <1>1, PendingIs
<1>3. PICK q \in DesktopRecords : q = desk[d]
  BY <1>2, Ready
<1>4. r \in DesktopRecords /\ r.val = q.val /\ r.place = q.place
  <2>1. ASSUME NEW b \in BOOLEAN, NEW t, t = Recomputed(q, b)
        PROVE  t \in DesktopRecords /\ t.val = q.val /\ t.place = q.place
    BY <2>1 DEF Recomputed, DesktopRecords
  <2>2. PICK b \in BOOLEAN : b = (p = NoPilotRecord \/ p.val # q.val)
    <3>1. (p = NoPilotRecord \/ p.val # q.val) \in BOOLEAN
      OBVIOUS
    <3> QED BY ONLY <3>1, Zenon
  <2>3. r = IF slow THEN Recomputed(q, b) ELSE q
    BY <1>3, <2>2, Zenon DEF WithFlags
  <2> HIDE DEF r
  <2> QED BY ONLY <2>1, <2>3, q \in DesktopRecords
<1> HIDE DEF d, r
<1>5. /\ DOMAIN desk' = DOMAIN desk
      /\ \A i \in DOMAIN desk : desk'[i] = IF i = d THEN r ELSE desk[i]
  <2>1. desk \in Seq(DesktopRecords)
    BY Ready
  <2> QED BY <1>1, <1>4, <2>1, ChangedAt
<1> QED BY <1>3, <1>4, <1>5 DEF SameContents

LEMMA DesktopStays ==
  ASSUME Inv, TwinInv, op = "MergeToPilot", Next
  PROVE  SameContents
<1>1. Mod = "PILOT" /\ pc \notin {"wipe", "copyFrom"}
  BY DEF Mod, TwinInv, MergesToPilot, TwinFree
<1>2. ~AddRecord /\ ~ReplaceRecord /\ ~ArchiveRecord /\ ~Unarchive /\ ~SetStatusCleared /\ ~DeleteRecord
  BY StepTurns, TakenIs DEF DesktopSteps, AddRecord, ReplaceRecord, ArchiveRecord, Unarchive,
     SetStatusCleared, DeleteRecord
<1>3. UNCHANGED desk => SameContents
  BY DEF SameContents
<1>4. ASSUME NEW d, Store(d) \/ StoreFails(d) PROVE UNCHANGED desk
  BY <1>1, <1>4 DEF Store, StoreFails, SetPilotID
<1>5. CASE Steps
  BY <1>2, <1>3, <1>5, ForgetContents DEF Steps, records, MatchAdded, AddRecordQueue, WriteNew,
     DeleteOnDevice, NotTaken, StepFails
<1>6. CASE ProcessItem \/ CopyToPilot
  BY <1>3, <1>4, <1>6 DEF ProcessItem, CopyToPilot
<1>7. ~WipeDesktop /\ ~CopyFromPilot
  BY <1>1 DEF WipeDesktop, CopyFromPilot
<1> QED BY <1>3, <1>5, <1>6, <1>7, PushContents DEF Next, records, Open, PullFast, PullSlow, PullEnds,
     MatchFails, ProcessEnds, ReadFails, PushEnds, CopyToEnds, WipeEnds, CopyFromEnds, Post, Close

(* A merge one way leaves the side it reads from as it is: the macros      *)
(* PilotCheck and DesktopCheck leave out every step that would change it,  *)
(* store_record_on_pilot writes nothing, and close_db removes no live      *)
(* record.                                                                 *)
THEOREM OneWayCorrect == Spec => OneWay
<1>1. ASSUME Inv, TwinInv, [Next]_vars
      PROVE  [/\ op = "MergeFromPilot" => UNCHANGED LiveOnPilot
              /\ op = "MergeToPilot" => UNCHANGED ContentsOnDesktop]_vars
  <2>1. ASSUME Next, op = "MergeFromPilot" PROVE UNCHANGED LiveOnPilot
    <3>1. UNCHANGED dev => UNCHANGED LiveOnPilot
      BY DEF LiveOnPilot
    <3> QED BY <1>1, <2>1, <3>1, DeviceStaysSteps, CloseLive
  <2>2. ASSUME Next, op = "MergeToPilot" PROVE UNCHANGED ContentsOnDesktop
    BY <1>1, <2>2, DesktopStays DEF SameContents, ContentsOnDesktop
  <2> QED BY <1>1, <2>1, <2>2
<1> QED BY SpecInv, SpecTwins, <1>1, PTL DEF Spec, OneWay

-----------------------------------------------------------------------------
(* No edit is lost by a merge.                                             *)

(* The inductive invariant for EditsSurvive.                               *)
Merging == op \in {"Synchronize", "MergeFromPilot", "MergeToPilot"} /\ NoneArchived

AllEdits == Edits(start.dev) \cup Edits(start.desk)

(* What is left to do of decisions for records that are not archived.      *)
PlainPlans ==
  {<<>>, <<"add">>, <<"queue">>, <<"clear">>, <<"queue", "clear">>,
   <<"deleteP", "queue", "clear">>, <<"replace", "clear">>,
   <<"add", "forget", "queue", "clear">>, <<"forget", "queue", "clear">>,
   <<"deleteD", "deleteBoth", "clear">>, <<"deleteBoth", "clear">>}

(* A record deleted on one side does not hold what the other was edited to. *)
PlainDev ==
  \A i \in DOMAIN dev : /\ ~dev[i].arch
                        /\ dev[i].del => dev[i].val[2] = "erased"
                        /\ Changed(dev[i]) => dev[i].val[2] \in EditsOnPilot

Early(i) == pc = "open" \/ (pc = "pull" /\ ~Past(i))

PlainDesk ==
  \A i \in DOMAIN desk :
    /\ ~desk[i].arch
    /\ Early(i) /\ desk[i].del => desk[i].val[2] \in {"original", "desktop edit"}

Plain ==
  /\ PlainDev /\ PlainDesk /\ rec.steps \in PlainPlans
  /\ pc \notin {"copyTo", "wipe", "copyFrom"}
  /\ \A v \in AllEdits : v[2] # "erased"

(* The device has no edited record of this id.                             *)
Unedited(id) == \A i \in DOMAIN dev : dev[i].id = id => ~Changed(dev[i])

(* What is stored on the device overwrites no edit.                        *)
Overwrites ==
  op # "MergeFromPilot" =>
    /\ \A i \in DOMAIN queue : Unedited(desk[queue[i]].id)
    /\ rec.steps \in {<<"queue">>, <<"queue", "clear">>} => Unedited(desk[rec.d].id)
    /\ rec.steps = <<"deleteP", "queue", "clear">> => desk[rec.d].id = rec.p.id

(* The desktop record will be overwritten or removed by sync_record.       *)
Doomed(i) ==
  rec.d = i /\ \/ rec.steps = <<"replace", "clear">> /\ rec.p.val # desk[i].val
               \/ rec.steps = <<"deleteD", "deleteBoth", "clear">>

(* Which side an edit is safe on.                                          *)
HeldOnDesktop(i) ==
  desk[i].place # "gone" /\ ~desk[i].del /\ ~Doomed(i) /\ (Early(i) => desk[i].dirty)

HeldOnDevice(i) == pc = "done" \/ Changed(dev[i])

(* What is deleted on the device was not edited, or the desktop has it.    *)
DeletePlans ==
  {<<"deleteP", "queue", "clear">>, <<"deleteD", "deleteBoth", "clear">>,
   <<"deleteBoth", "clear">>}

Deletes ==
  rec.steps \in DeletePlans =>
    \A i \in DOMAIN dev : dev[i].id = rec.p.id /\ Changed(dev[i]) =>
       rec.d \in DOMAIN desk /\ dev[i].val = desk[rec.d].val /\ HeldOnDesktop(rec.d)

Safe ==
  \A v \in AllEdits :
    \/ \E i \in DOMAIN dev : dev[i].val = v /\ HeldOnDevice(i)
    \/ \E i \in DOMAIN desk : desk[i].val = v /\ HeldOnDesktop(i)

Surviving == Plain /\ Overwrites /\ Deletes /\ Safe
MergeInv == Merging => Surviving

LEMMA PlainTurn ==
  ASSUME NEW s \in PlainPlans, NEW h, NEW t, Turn(s, h, t)
  PROVE  /\ h \notin {"match", "archive", "unarchive", "writeNew"}
         /\ t \in {<<>>, <<"forget", "queue", "clear">>, <<"clear">>, <<"queue", "clear">>,
                   <<"deleteBoth", "clear">>}
         /\ t = <<"deleteBoth", "clear">> => h = "deleteD"
         /\ t = <<"queue", "clear">> => h \in {"deleteP", "forget"}
         /\ h = "replace" => s = <<"replace", "clear">>
         /\ h = "deleteD" => s = <<"deleteD", "deleteBoth", "clear">>
         /\ h = "deleteP" => s = <<"deleteP", "queue", "clear">>
         /\ h = "deleteBoth" => s = <<"deleteBoth", "clear">>
         /\ h = "queue" => s \in {<<"queue">>, <<"queue", "clear">>}
<1>1. h \notin {"match", "archive", "unarchive", "writeNew"}
  BY DEF PlainPlans, Turn
<1>2. t \in {<<>>, <<"forget", "queue", "clear">>, <<"clear">>, <<"queue", "clear">>,
            <<"deleteBoth", "clear">>}
  <2>1. s \notin {<<"add", "match", "archive">>, <<"replace", "archive", "clear">>}
    BY DEF PlainPlans
  <2> QED BY ONLY <1>1, <2>1, Turn(s, h, t) DEF Turn
<1>3. /\ t = <<"deleteBoth", "clear">> => h = "deleteD"
      /\ h = "deleteD" => s = <<"deleteD", "deleteBoth", "clear">>
      /\ h = "deleteBoth" => s = <<"deleteBoth", "clear">>
  BY ONLY Turn(s, h, t) DEF Turn
<1>4. t = <<"queue", "clear">> => h \in {"deleteP", "forget"}
  <2>1. s # <<"add", "queue", "clear">>
    BY DEF PlainPlans
  <2> QED BY ONLY <1>1, <2>1, Turn(s, h, t) DEF Turn
<1>5. h = "replace" => s = <<"replace", "clear">>
  <2>1. s # <<"replace", "archive", "clear">>
    BY DEF PlainPlans
  <2> QED BY ONLY <2>1, Turn(s, h, t) DEF Turn
<1>6. h = "deleteP" => s = <<"deleteP", "queue", "clear">>
  <2>1. s # <<"deleteP", "clear">>
    BY DEF PlainPlans
  <2> QED BY ONLY <2>1, Turn(s, h, t) DEF Turn
<1>7. h = "queue" => s \in {<<"queue">>, <<"queue", "clear">>}
  BY ONLY Turn(s, h, t) DEF Turn
<1> QED BY <1>1, <1>2, <1>3, <1>4, <1>5, <1>6, <1>7

LEMMA PlainNext ==
  ASSUME NEW t \in {<<>>, <<"forget", "queue", "clear">>, <<"clear">>, <<"queue", "clear">>,
                    <<"deleteBoth", "clear">>}
  PROVE  /\ t \in PlainPlans /\ t # <<"replace", "clear">>
         /\ t # <<"deleteD", "deleteBoth", "clear">> /\ t # <<"deleteP", "queue", "clear">>
         /\ t # <<"queue">> /\ (t \in DeletePlans => t = <<"deleteBoth", "clear">>)
BY DEF PlainPlans, DeletePlans

LEMMA NothingPlain ==
  /\ <<>> \in PlainPlans /\ <<>> \notin DeletePlans
  /\ <<>> \notin {<<"queue">>, <<"queue", "clear">>, <<"deleteP", "queue", "clear">>,
                  <<"replace", "clear">>, <<"deleteD", "deleteBoth", "clear">>}
BY DEF PlainPlans, DeletePlans

(* sync_record turns to its next step.                                     *)
LEMMA PlainTurning ==
  ASSUME Inv, Surviving, NEW s, Turning(s), Continue(rec.p, rec.d, Tail(rec.steps))
  PROVE  /\ s \notin {"match", "archive", "unarchive", "writeNew"}
         /\ rec'.steps \in PlainPlans
         /\ rec'.steps \notin {<<"queue">>, <<"deleteP", "queue", "clear">>}
         /\ rec'.steps = <<"queue", "clear">> => s \in {"deleteP", "forget"}
         /\ rec'.steps \in DeletePlans => s = "deleteD"
         /\ rec'.steps # <<>> => rec'.p = rec.p /\ rec'.d = rec.d
         /\ \A i : ~Doomed(i)'
         /\ pc' = pc /\ pc \in {"pull", "push"} /\ UNCHANGED <<op, start, pos, seen, slow>>
         /\ rec.d \in DOMAIN desk => ~Early(rec.d)
<1> DEFINE t == Tail(rec.steps)
<1>1. /\ Turn(rec.steps, s, t) /\ t \in Plans /\ rec.p \in PilotRecords /\ rec.d \in Nat
      /\ pc \in {"pull", "push"}
  BY StepIs
<1>2. Continue(rec.p, rec.d, t) /\ rec.steps \in PlainPlans
  BY DEF Surviving, Plain
<1> HIDE DEF t
<1>3. rec'.steps = t /\ (t # <<>> => rec'.p = rec.p /\ rec'.d = rec.d)
  BY ONLY <1>1, <1>2, ContinueIs
<1>4. /\ s \notin {"match", "archive", "unarchive", "writeNew"}
      /\ t \in {<<>>, <<"forget", "queue", "clear">>, <<"clear">>, <<"queue", "clear">>,
                <<"deleteBoth", "clear">>}
      /\ t = <<"deleteBoth", "clear">> => s = "deleteD"
      /\ t = <<"queue", "clear">> => s \in {"deleteP", "forget"}
  BY ONLY <1>1, <1>2, PlainTurn
<1>5. /\ t \in PlainPlans /\ t # <<"replace", "clear">>
      /\ t # <<"deleteD", "deleteBoth", "clear">> /\ t # <<"deleteP", "queue", "clear">>
      /\ t # <<"queue">> /\ (t \in DeletePlans => t = <<"deleteBoth", "clear">>)
  BY ONLY <1>4, PlainNext
<1>6. \A i : ~Doomed(i)'
  BY <1>3, <1>5 DEF Doomed
<1>7. pc' = pc /\ UNCHANGED <<op, start, pos, seen, slow>>
  BY DEF Turning
<1>8. rec.d \in DOMAIN desk => ~Early(rec.d)
  <2>1. desk \in Seq(DesktopRecords) /\ 0 \notin DOMAIN desk
    BY Ready
  <2>2. Running
    BY DEF Turning
  <2>3. pc = "pull" /\ rec.d # 0 => Past(rec.d)
    BY <2>2 DEF Inv, Queueing
  <2> QED BY <1>1, <2>1, <2>3 DEF Early
<1> QED BY <1>1, <1>3, <1>4, <1>5, <1>6, <1>7, <1>8

(* What a step has to do for no edit to be lost.                           *)
LEMMA Survives ==
  ASSUME Surviving, UNCHANGED <<op, start>>, pc # "done",
         \A i \in DOMAIN dev' : \/ \E j \in DOMAIN dev : dev'[i] = dev[j]
                                \/ ~dev'[i].arch /\ ~dev'[i].del /\ ~dev'[i].dirty,
         \A i \in DOMAIN dev : Changed(dev[i]) =>
            \/ \E j \in DOMAIN dev' : dev'[j] = dev[i]
            \/ \E k \in DOMAIN desk : desk[k].val = dev[i].val /\ HeldOnDesktop(k),
         DOMAIN desk \subseteq DOMAIN desk',
         \A i \in DOMAIN desk : HeldOnDesktop(i) /\ desk[i].val \in AllEdits =>
            desk'[i].val = desk[i].val /\ HeldOnDesktop(i)',
         PlainDesk', Overwrites', Deletes',
         rec'.steps \in PlainPlans, pc' \notin {"copyTo", "wipe", "copyFrom"}
  PROVE  Surviving'
<1>1. AllEdits' = AllEdits
  BY DEF AllEdits, Edits
<1>2. PlainDev'
  <2>1. PlainDev
    BY DEF Surviving, Plain
  <2> QED BY <2>1 DEF PlainDev, Changed
<1>3. Plain'
  <2>1. \A v \in AllEdits : v[2] # "erased"
    BY DEF Surviving, Plain
  <2> QED BY <1>1, <1>2, <2>1 DEF Plain
<1>4. Safe'
  <2>1. SUFFICES ASSUME NEW v \in AllEdits
                 PROVE  \/ \E i \in DOMAIN dev' : dev'[i].val = v /\ HeldOnDevice(i)'
                        \/ \E i \in DOMAIN desk' : desk'[i].val = v /\ HeldOnDesktop(i)'
    BY <1>1 DEF Safe
  <2>2. ASSUME NEW k \in DOMAIN desk, desk[k].val = v, HeldOnDesktop(k)
        PROVE  \E i \in DOMAIN desk' : desk'[i].val = v /\ HeldOnDesktop(i)'
    BY <2>2
  <2>3. ASSUME NEW i \in DOMAIN dev, dev[i].val = v, HeldOnDevice(i)
        PROVE  \/ \E j \in DOMAIN dev' : dev'[j].val = v /\ HeldOnDevice(j)'
               \/ \E j \in DOMAIN desk' : desk'[j].val = v /\ HeldOnDesktop(j)'
    <3>1. Changed(dev[i])
      BY <2>3 DEF HeldOnDevice
    <3>2. ASSUME NEW j \in DOMAIN dev', dev'[j] = dev[i]
          PROVE  dev'[j].val = v /\ HeldOnDevice(j)'
      BY <2>3, <3>1, <3>2 DEF HeldOnDevice
    <3> QED BY <2>2, <2>3, <3>1, <3>2
  <2> QED BY <2>2, <2>3 DEF Surviving, Safe
<1> QED BY <1>3, <1>4 DEF Surviving

LEMMA OverwritesKept ==
  ASSUME Inv, Overwrites, UNCHANGED op,
         \A i \in DOMAIN dev' : \/ \E j \in DOMAIN dev : dev'[i] = dev[j]
                                \/ ~dev'[i].dirty,
         \A i \in DOMAIN queue' : \E j \in DOMAIN queue :
            queue'[i] = queue[j] /\ desk'[queue[j]].id \in {desk[queue[j]].id, 0},
         rec'.steps \notin {<<"queue">>, <<"queue", "clear">>, <<"deleteP", "queue", "clear">>}
  PROVE  Overwrites'
<1>1. \A id : Unedited(id) => Unedited(id)'
  BY DEF Unedited, Changed
<1>2. Unedited(0)
  BY Ready DEF Unedited, DistinctIds
<1>3. ASSUME op # "MergeFromPilot", NEW i \in DOMAIN queue' PROVE Unedited(desk[queue[i]].id)'
  <2>1. PICK j \in DOMAIN queue : queue'[i] = queue[j] /\ desk'[queue[j]].id \in {desk[queue[j]].id, 0}
    OBVIOUS
  <2>2. Unedited(desk[queue[j]].id)
    BY <1>3 DEF Overwrites
  <2>3. PICK id : id = desk'[queue'[i]].id /\ Unedited(id)
    BY <1>2, <2>1, <2>2
  <2> QED BY <1>1, <2>3
<1> QED BY <1>3 DEF Overwrites

(* A step that changes one desktop record.                                 *)
LEMMA ChangeSurvives ==
  ASSUME Inv, Surviving, NEW s, Step(s), s \in {"replace", "clear", "deleteD", "forget"},
         NEW r, ChangeDesktop(r),
         rec.d \in DOMAIN desk =>
           /\ r \in DesktopRecords /\ r.id \in {desk[rec.d].id, 0} /\ ~r.arch
           /\ HeldOnDesktop(rec.d) => r.val = desk[rec.d].val /\ r.place # "gone" /\ ~r.del
           /\ s = "forget" => r.id = 0
  PROVE  Surviving'
<1>1. /\ Turning(s) /\ Continue(rec.p, rec.d, Tail(rec.steps))
      /\ UNCHANGED <<dev, queue, fresh>>
  BY StepTurns DEF ChangeDesktop, Goes
<1>2. /\ rec'.steps \in PlainPlans
      /\ rec'.steps \notin {<<"queue">>, <<"deleteP", "queue", "clear">>}
      /\ rec'.steps = <<"queue", "clear">> => s \in {"deleteP", "forget"}
      /\ rec'.steps \in DeletePlans => s = "deleteD"
      /\ rec'.steps # <<>> => rec'.p = rec.p /\ rec'.d = rec.d
      /\ \A i : ~Doomed(i)'
      /\ pc' = pc /\ pc \in {"pull", "push"} /\ UNCHANGED <<op, start, pos, seen, slow>>
      /\ rec.d \in DOMAIN desk => ~Early(rec.d)
  BY <1>1, PlainTurning
<1>3. /\ DOMAIN desk' = DOMAIN desk
      /\ \A i \in DOMAIN desk : desk'[i] = IF i = rec.d THEN r ELSE desk[i]
  BY ChangeDesktopInv
<1>4. \A id : Passed(id)' <=> Passed(id)
  BY <1>1, <1>2 DEF Passed
<1>5. \A i \in DOMAIN desk : desk'[i].id \in {desk[i].id, 0}
  BY <1>3
<1>6. ASSUME NEW i \in DOMAIN desk, Early(i)' PROVE Early(i) /\ i # rec.d
  <2>1. ~Past(i)' => ~Past(i)
    BY <1>4, <1>5 DEF Past
  <2>2. Early(i)
    BY <1>2, <1>6, <2>1 DEF Early
  <2> QED BY <1>2, <2>2
<1>7. PlainDesk'
  <2>1. ASSUME NEW i \in DOMAIN desk PROVE ~desk'[i].arch
    BY <1>3 DEF Surviving, Plain, PlainDesk
  <2>2. ASSUME NEW i \in DOMAIN desk, Early(i)', desk'[i].del
        PROVE  desk'[i].val[2] \in {"original", "desktop edit"}
    <3>1. Early(i) /\ desk'[i] = desk[i]
      BY <1>3, <1>6, <2>2
    <3> QED BY <2>2, <3>1 DEF Surviving, Plain, PlainDesk
  <2> QED BY <1>3, <2>1, <2>2 DEF PlainDesk
<1>8. ASSUME NEW i \in DOMAIN desk, HeldOnDesktop(i)
      PROVE  desk'[i].val = desk[i].val /\ HeldOnDesktop(i)'
  <2>1. CASE i = rec.d
    BY <1>2, <1>3, <1>6, <1>8, <2>1 DEF HeldOnDesktop
  <2>2. CASE i # rec.d
    <3>1. desk'[i] = desk[i]
      BY <1>3, <2>2
    <3> QED BY <1>2, <1>6, <1>8, <3>1 DEF HeldOnDesktop
  <2> QED BY <2>1, <2>2
<1>9. Overwrites'
  <2>1. CASE rec'.steps = <<"queue", "clear">>
    <3>1. \A id : Unedited(id) => Unedited(id)'
      BY <1>1 DEF Unedited
    <3>2. Unedited(0)
      BY Ready DEF Unedited, DistinctIds
    <3>3. op # "MergeFromPilot" => \A i \in DOMAIN queue : Unedited(desk[queue[i]].id)
      BY DEF Surviving, Overwrites
    <3>4. s = "forget" /\ rec'.d = rec.d
      <4>1. s # "deleteP"
        OBVIOUS
      <4>2. <<"queue", "clear">> # <<>>
        OBVIOUS
      <4> QED BY <1>2, <2>1, <4>1, <4>2
    <3>5. QueuePending'
      BY <2>1 DEF QueuePending, QueuePlans
    <3>6. rec.d \in DOMAIN desk
      <4>1. Inv'
        BY ChangeDesktopInv
      <4>2. rec'.d \in DOMAIN desk'
        BY <3>5, <4>1 DEF Inv, Queueing
      <4> QED BY <1>3, <3>4, <4>2
    <3>7. PICK d : d = rec'.d
      OBVIOUS
    <3>8. desk'[d].id = 0
      BY <1>3, <3>4, <3>6, <3>7
    <3>9. ASSUME op # "MergeFromPilot", NEW i \in DOMAIN queue PROVE Unedited(desk[queue[i]].id)'
      <4>1. queue[i] \in DOMAIN desk /\ queue' = queue
        BY <1>1 DEF Inv, Queueing
      <4>2. PICK id : id = desk'[queue[i]].id /\ Unedited(id)
        BY <1>5, <3>2, <3>3, <3>9, <4>1
      <4> QED BY <3>1, <4>1, <4>2
    <3>10. Unedited(desk[rec.d].id)'
      BY <3>1, <3>2, <3>7, <3>8
    <3> QED BY <1>1, <1>2, <3>9, <3>10 DEF Overwrites
  <2>2. CASE rec'.steps # <<"queue", "clear">>
    <3>1. \A i \in DOMAIN queue' : \E j \in DOMAIN queue :
            queue'[i] = queue[j] /\ desk'[queue[j]].id \in {desk[queue[j]].id, 0}
      BY <1>1, <1>5 DEF Inv, Queueing
    <3> QED BY <1>1, <1>2, <2>2, <3>1, OverwritesKept DEF Surviving
  <2> QED BY <2>1, <2>2
<1>10. Deletes'
  <2>1. SUFFICES ASSUME rec'.steps \in DeletePlans, NEW i \in DOMAIN dev, dev[i].id = rec.p.id, Changed(dev[i])
                 PROVE  FALSE
    BY <1>1, <1>2, NothingPlain DEF Deletes
  <2>2. rec.steps = <<"deleteD", "deleteBoth", "clear">>
    <3>1. s = "deleteD" /\ rec.steps \in PlainPlans /\ Turn(rec.steps, s, Tail(rec.steps))
      BY <1>1, <1>2, <2>1, StepIs DEF Surviving, Plain
    <3> QED BY <3>1, PlainTurn
  <2>3. rec.steps \in DeletePlans /\ Doomed(rec.d)
    BY <2>2 DEF DeletePlans, Doomed
  <2>4. HeldOnDesktop(rec.d)
    BY <2>1, <2>3 DEF Surviving, Deletes
  <2> QED BY <2>3, <2>4 DEF HeldOnDesktop
<1> QED BY <1>1, <1>2, <1>3, <1>7, <1>8, <1>9, <1>10, Survives

LEMMA ChangesSurvive ==
  ASSUME Inv, Surviving, ReplaceRecord \/ SetStatusCleared \/ DeleteRecord \/ ForgetID
  PROVE  Surviving'
<1>0. \A i \in DOMAIN desk : ~desk[i].arch /\ (HeldOnDesktop(i) => desk[i].place # "gone" /\ ~desk[i].del)
  BY DEF Surviving, Plain, PlainDesk, HeldOnDesktop
<1>1. CASE ReplaceRecord
  <2>1. PICK r, s : s = "replace" /\ r = [desk[rec.d] EXCEPT !.val = rec.p.val] /\ Step(s) /\ ChangeDesktop(r)
    BY <1>1 DEF ReplaceRecord
  <2>2. rec.p.val \in Values /\ Turn(rec.steps, s, Tail(rec.steps))
    BY <2>1, StepIs, StepTurns
  <2>3. rec.steps = <<"replace", "clear">>
    BY <2>1, <2>2, PlainTurn DEF Surviving, Plain
  <2>4. rec.d \in DOMAIN desk =>
          /\ r \in DesktopRecords /\ r.id = desk[rec.d].id
          /\ r.arch = desk[rec.d].arch /\ r.del = desk[rec.d].del /\ r.val = rec.p.val
          /\ r.place = desk[rec.d].place
    <3> SUFFICES ASSUME rec.d \in DOMAIN desk PROVE r \in DesktopRecords /\ r.id = desk[rec.d].id /\ r.arch = desk[rec.d].arch /\ r.del = desk[rec.d].del /\ r.val = rec.p.val /\ r.place = desk[rec.d].place
      OBVIOUS
    <3>0. PICK v \in Values : v = rec.p.val
      BY <2>2
    <3>1. PICK q \in DesktopRecords : q = desk[rec.d]
      BY Ready
    <3>2. r = [q EXCEPT !.val = v]
      BY <2>1, <3>0, <3>1
    <3>3. r \in DesktopRecords /\ r.id = q.id /\ r.arch = q.arch /\ r.del = q.del /\ r.val = v /\ r.place = q.place
      BY ONLY q \in DesktopRecords, v \in Values, <3>2 DEF DesktopRecords
    <3> QED BY <3>0, <3>1, <3>3
  <2>5. HeldOnDesktop(rec.d) => rec.p.val = desk[rec.d].val
    BY <2>3 DEF HeldOnDesktop, Doomed
  <2>6. s \in {"replace", "clear", "deleteD", "forget"} /\ s # "forget" /\ Step(s) /\ ChangeDesktop(r)
    BY <2>1
  <2> QED BY ONLY Inv, Surviving, <1>0, <2>4, <2>5, <2>6, ChangeSurvives
<1>2. CASE SetStatusCleared
  <2>1. PICK r, s : s = "clear" /\ r = Cleared(desk[rec.d]) /\ Step(s) /\ ChangeDesktop(r)
    BY <1>2 DEF SetStatusCleared
  <2>2. rec.d \in DOMAIN desk =>
          /\ r \in DesktopRecords /\ r.id = desk[rec.d].id
          /\ r.arch = FALSE /\ r.del = FALSE /\ r.val = desk[rec.d].val /\ r.place = desk[rec.d].place
    <3> SUFFICES ASSUME rec.d \in DOMAIN desk PROVE r \in DesktopRecords /\ r.id = desk[rec.d].id /\ r.arch = FALSE /\ r.del = FALSE /\ r.val = desk[rec.d].val /\ r.place = desk[rec.d].place
      OBVIOUS
    <3>1. PICK q \in DesktopRecords : q = desk[rec.d]
      BY Ready
    <3>2. r = Cleared(q)
      BY <2>1, <3>1
    <3>3. r \in DesktopRecords /\ r.id = q.id /\ r.arch = FALSE /\ r.del = FALSE /\ r.val = q.val /\ r.place = q.place
      BY ONLY q \in DesktopRecords, <3>2 DEF DesktopRecords, Cleared
    <3> QED BY <3>1, <3>3
  <2>3. s \in {"replace", "clear", "deleteD", "forget"} /\ s # "forget" /\ Step(s) /\ ChangeDesktop(r)
    BY <2>1
  <2> QED BY ONLY Inv, Surviving, <1>0, <2>2, <2>3, ChangeSurvives
<1>3. CASE DeleteRecord
  <2>1. PICK r, s : s = "deleteD" /\ r = [desk[rec.d] EXCEPT !.place = "gone"] /\ Step(s) /\ ChangeDesktop(r)
    BY <1>3 DEF DeleteRecord
  <2>2. Turn(rec.steps, s, Tail(rec.steps))
    BY <2>1, StepIs, StepTurns
  <2>3. rec.steps = <<"deleteD", "deleteBoth", "clear">>
    BY <2>1, <2>2, PlainTurn DEF Surviving, Plain
  <2>4. rec.d \in DOMAIN desk =>
          r \in DesktopRecords /\ r.id = desk[rec.d].id /\ r.arch = desk[rec.d].arch
    <3> SUFFICES ASSUME rec.d \in DOMAIN desk PROVE r \in DesktopRecords /\ r.id = desk[rec.d].id /\ r.arch = desk[rec.d].arch
      OBVIOUS
    <3>1. PICK q \in DesktopRecords : q = desk[rec.d]
      BY Ready
    <3>2. r = [q EXCEPT !.place = "gone"]
      BY <2>1, <3>1
    <3>3. r \in DesktopRecords /\ r.id = q.id /\ r.arch = q.arch
      BY ONLY q \in DesktopRecords, <3>2 DEF DesktopRecords
    <3> QED BY <3>1, <3>3
  <2>5. ~HeldOnDesktop(rec.d)
    BY <2>3 DEF HeldOnDesktop, Doomed
  <2>6. s \in {"replace", "clear", "deleteD", "forget"} /\ s # "forget" /\ Step(s) /\ ChangeDesktop(r)
    BY <2>1
  <2> QED BY ONLY Inv, Surviving, <1>0, <2>4, <2>5, <2>6, ChangeSurvives
<1>4. CASE ForgetID
  <2>1. PICK r, s : s = "forget" /\ r = [desk[rec.d] EXCEPT !.id = 0] /\ Step(s) /\ ChangeDesktop(r)
    BY <1>4 DEF ForgetID
  <2>2. rec.d \in DOMAIN desk =>
          /\ r \in DesktopRecords /\ r.id = 0
          /\ r.arch = desk[rec.d].arch /\ r.del = desk[rec.d].del /\ r.val = desk[rec.d].val
          /\ r.place = desk[rec.d].place
    <3> SUFFICES ASSUME rec.d \in DOMAIN desk PROVE r \in DesktopRecords /\ r.id = 0 /\ r.arch = desk[rec.d].arch /\ r.del = desk[rec.d].del /\ r.val = desk[rec.d].val /\ r.place = desk[rec.d].place
      OBVIOUS
    <3>1. PICK q \in DesktopRecords : q = desk[rec.d]
      BY Ready
    <3>2. r = [q EXCEPT !.id = 0]
      BY <2>1, <3>1
    <3>3. r \in DesktopRecords /\ r.id = 0 /\ r.arch = q.arch /\ r.del = q.del /\ r.val = q.val /\ r.place = q.place
      BY ONLY q \in DesktopRecords, <3>2 DEF DesktopRecords
    <3> QED BY <3>1, <3>3
  <2>3. s \in {"replace", "clear", "deleteD", "forget"} /\ Step(s) /\ ChangeDesktop(r)
    BY <2>1
  <2> QED BY ONLY Inv, Surviving, <1>0, <2>2, <2>3, ChangeSurvives
<1> QED BY <1>1, <1>2, <1>3, <1>4

LEMMA AddRecordSurvives == ASSUME Inv, Surviving, AddRecord PROVE Surviving'
<1> DEFINE new == Len(desk) + 1
<1>1. PICK s : s = "add" /\ Step(s) /\ Turning(s) /\ Continue(rec.p, rec.d, Tail(rec.steps))
               /\ UNCHANGED <<dev, queue, fresh>>
  BY StepTurns DEF AddRecord, Goes
<1>2. /\ rec'.steps \in PlainPlans
      /\ rec'.steps \notin {<<"queue">>, <<"deleteP", "queue", "clear">>, <<"queue", "clear">>}
      /\ rec'.steps \notin DeletePlans
      /\ \A i : ~Doomed(i)'
      /\ pc' = pc /\ pc \in {"pull", "push"} /\ UNCHANGED <<op, start, pos, seen, slow>>
  BY ONLY Inv, Surviving, <1>1, PlainTurning
<1>3. /\ DOMAIN desk' = DOMAIN desk \cup {new}
      /\ \A i \in DOMAIN desk : desk'[i] = desk[i]
      /\ desk'[new].arch = FALSE /\ desk'[new].del = FALSE
  BY AddRecordInv
<1> HIDE DEF new
<1>4. \A id : Passed(id)' <=> Passed(id)
  BY <1>1, <1>2 DEF Passed
<1>5. ASSUME NEW i \in DOMAIN desk, Early(i)' PROVE Early(i)
  BY <1>2, <1>3, <1>4, <1>5 DEF Early, Past
<1>6. PlainDesk'
  BY <1>3, <1>5 DEF Surviving, Plain, PlainDesk
<1>7. ASSUME NEW i \in DOMAIN desk, HeldOnDesktop(i)
      PROVE  desk'[i].val = desk[i].val /\ HeldOnDesktop(i)'
  BY <1>2, <1>3, <1>5, <1>7 DEF HeldOnDesktop
<1>8. Overwrites'
  <2>1. \A i \in DOMAIN queue' : \E j \in DOMAIN queue :
          queue'[i] = queue[j] /\ desk'[queue[j]].id \in {desk[queue[j]].id, 0}
    BY <1>1, <1>3 DEF Inv, Queueing
  <2> QED BY <1>1, <1>2, <2>1, OverwritesKept DEF Surviving
<1>9. Deletes'
  BY <1>2 DEF Deletes
<1> QED BY <1>1, <1>2, <1>3, <1>6, <1>7, <1>8, <1>9, Survives

LEMMA AddRecordQueueSurvives == ASSUME Inv, Surviving, AddRecordQueue PROVE Surviving'
<1>1. PICK s : s = "queue" /\ Step(s) /\ Turning(s) /\ Continue(rec.p, rec.d, Tail(rec.steps))
               /\ UNCHANGED <<dev, desk, fresh>> /\ queue' = <<rec.d>> \o queue
  BY StepTurns DEF AddRecordQueue, Goes
<1>2. /\ rec'.steps \in PlainPlans
      /\ rec'.steps \notin {<<"queue">>, <<"deleteP", "queue", "clear">>, <<"queue", "clear">>}
      /\ rec'.steps \notin DeletePlans
      /\ \A i : ~Doomed(i)'
      /\ pc' = pc /\ pc \in {"pull", "push"} /\ UNCHANGED <<op, start, pos, seen, slow>>
  BY ONLY Inv, Surviving, <1>1, PlainTurning
<1>3. \A i : Early(i)' => Early(i)
  BY <1>1, <1>2 DEF Early, Past, Passed
<1>4. PlainDesk'
  BY <1>1, <1>3 DEF Surviving, Plain, PlainDesk
<1>5. ASSUME NEW i \in DOMAIN desk, HeldOnDesktop(i)
      PROVE  desk'[i].val = desk[i].val /\ HeldOnDesktop(i)'
  BY <1>1, <1>2, <1>3, <1>5 DEF HeldOnDesktop
<1>6. Overwrites'
  <2>1. rec.steps \in {<<"queue">>, <<"queue", "clear">>}
    <3>1. Turn(rec.steps, s, Tail(rec.steps)) /\ rec.steps \in PlainPlans
      BY <1>1, StepIs DEF Surviving, Plain
    <3> QED BY <1>1, <3>1, PlainTurn
  <2>2. ASSUME op # "MergeFromPilot", NEW i \in DOMAIN queue' PROVE Unedited(desk[queue[i]].id)'
    <3>1. \/ queue'[i] = rec.d
          \/ \E j \in DOMAIN queue : queue'[i] = queue[j]
      <4>1. queue \in Seq(Nat) /\ queue' = <<rec.d>> \o queue
        BY <1>1 DEF Inv, Types
      <4>2. i \in 1..(Len(queue) + 1) /\ (i = 1 => queue'[i] = rec.d) /\ (i # 1 => queue'[i] = queue[i - 1])
        BY ONLY <4>1, i \in DOMAIN queue'
      <4>3. i # 1 => i - 1 \in DOMAIN queue
        BY ONLY <4>1, <4>2
      <4> QED BY ONLY <4>2, <4>3
    <3>2. /\ Unedited(desk[rec.d].id)
          /\ \A j \in DOMAIN queue : Unedited(desk[queue[j]].id)
      BY <2>1, <2>2 DEF Surviving, Overwrites
    <3>3. PICK id : id = desk[queue'[i]].id /\ Unedited(id)
      BY <3>1, <3>2
    <3>4. Unedited(id)'
      BY <1>1, <3>3 DEF Unedited
    <3> QED BY <1>1, <3>3, <3>4
  <2> QED BY <1>2, <2>2 DEF Overwrites
<1>7. Deletes'
  BY <1>2 DEF Deletes
<1> QED BY <1>1, <1>2, <1>4, <1>5, <1>6, <1>7, Survives

LEMMA DeleteOnDeviceSurvives == ASSUME Inv, Surviving, DeleteOnDevice PROVE Surviving'
<1>1. PICK s : /\ s \in {"deleteP", "deleteBoth"} /\ Step(s) /\ Turning(s)
               /\ Continue(rec.p, rec.d, Tail(rec.steps)) /\ UNCHANGED <<desk, queue, fresh>>
  BY StepTurns DEF DeleteOnDevice, Goes
<1>2. /\ rec'.steps \in PlainPlans
      /\ rec'.steps \notin {<<"queue">>, <<"deleteP", "queue", "clear">>}
      /\ rec'.steps = <<"queue", "clear">> => s = "deleteP"
      /\ rec'.steps \notin DeletePlans
      /\ rec'.steps # <<>> => rec'.d = rec.d
      /\ \A i : ~Doomed(i)'
      /\ pc' = pc /\ pc \in {"pull", "push"} /\ UNCHANGED <<op, start, pos, seen, slow>>
  BY ONLY Inv, Surviving, <1>1, PlainTurning
<1>3. /\ s = "deleteP" => rec.steps = <<"deleteP", "queue", "clear">>
      /\ rec.steps \in DeletePlans
  <2>1. Turn(rec.steps, s, Tail(rec.steps)) /\ rec.steps \in PlainPlans
    BY <1>1, StepIs DEF Surviving, Plain
  <2> QED BY <1>1, <2>1, PlainTurn DEF DeletePlans
<1>4. /\ \A i \in DOMAIN dev' : \E j \in DOMAIN dev : dev'[i] = dev[j]
      /\ \A i \in DOMAIN dev : dev[i].id # rec.p.id => \E j \in DOMAIN dev' : dev'[j] = dev[i]
      /\ \A i \in DOMAIN dev' : dev'[i].id # rec.p.id
      /\ \A id : Passed(id) => Passed(id)'
  BY DeleteOnDeviceInv
<1>5. ASSUME NEW i \in DOMAIN dev, Changed(dev[i])
      PROVE  \/ \E j \in DOMAIN dev' : dev'[j] = dev[i]
             \/ \E k \in DOMAIN desk : desk[k].val = dev[i].val /\ HeldOnDesktop(k)
  BY <1>3, <1>4, <1>5 DEF Surviving, Deletes
<1>6. \A i : Early(i)' => Early(i)
  BY <1>1, <1>2, <1>4 DEF Early, Past
<1>7. PlainDesk'
  BY <1>1, <1>6 DEF Surviving, Plain, PlainDesk
<1>8. ASSUME NEW i \in DOMAIN desk, HeldOnDesktop(i)
      PROVE  desk'[i].val = desk[i].val /\ HeldOnDesktop(i)'
  BY <1>1, <1>2, <1>6, <1>8 DEF HeldOnDesktop
<1>9. Overwrites'
  <2>1. CASE rec'.steps = <<"queue", "clear">>
    <3>1. rec'.steps # <<>>
      BY <2>1
    <3>2. \A id : Unedited(id) => Unedited(id)'
      BY <1>4 DEF Unedited
    <3>3. rec'.d = rec.d /\ rec.steps = <<"deleteP", "queue", "clear">>
      BY <1>2, <1>3, <2>1, <3>1
    <3>5. ASSUME op # "MergeFromPilot" PROVE Unedited(desk[rec.d].id)'
      <4>1. PICK id : id = rec.p.id /\ id = desk[rec.d].id
        BY <3>3, <3>5 DEF Surviving, Overwrites
      <4>2. \A i \in DOMAIN dev' : dev'[i].id # id
        BY <1>4, <4>1
      <4> QED BY <1>1, <3>3, <4>1, <4>2 DEF Unedited
    <3>6. ASSUME op # "MergeFromPilot", NEW i \in DOMAIN queue PROVE Unedited(desk[queue[i]].id)'
      <4>1. PICK id : id = desk[queue[i]].id /\ Unedited(id)
        BY <3>6 DEF Surviving, Overwrites
      <4> QED BY <1>1, <3>2, <4>1
    <3> QED BY <1>1, <1>2, <3>5, <3>6 DEF Overwrites
  <2>2. CASE rec'.steps # <<"queue", "clear">>
    <3>1. \A i \in DOMAIN queue' : \E j \in DOMAIN queue :
            queue'[i] = queue[j] /\ desk'[queue[j]].id \in {desk[queue[j]].id, 0}
      BY <1>1
    <3> QED BY <1>2, <1>4, <2>2, <3>1, OverwritesKept DEF Surviving
  <2> QED BY <2>1, <2>2
<1>10. Deletes'
  BY <1>2 DEF Deletes
<1> QED BY <1>1, <1>2, <1>4, <1>5, <1>7, <1>8, <1>9, <1>10, Survives

LEMMA NotTakenSurvives == ASSUME Inv, Surviving, NotTaken PROVE Surviving'
<1>1. PICK s : /\ Turning(s) /\ Continue(rec.p, rec.d, Tail(rec.steps)) /\ ~Taken(s, Mod)
               /\ UNCHANGED <<dev, desk, queue, fresh>>
  BY DEF NotTaken, Turning, Goes, records
<1>2. /\ rec'.steps \in PlainPlans
      /\ rec'.steps \notin {<<"queue">>, <<"deleteP", "queue", "clear">>}
      /\ rec'.steps = <<"queue", "clear">> => s \in {"deleteP", "forget"}
      /\ rec'.steps \in DeletePlans => s = "deleteD"
      /\ rec'.steps # <<>> => rec'.p = rec.p /\ rec'.d = rec.d
      /\ \A i : ~Doomed(i)'
      /\ pc' = pc /\ pc \in {"pull", "push"} /\ UNCHANGED <<op, start, pos, seen, slow>>
  BY ONLY Inv, Surviving, <1>1, PlainTurning
<1>3. s # "forget" /\ (s = "deleteP" => op = "MergeFromPilot")
  <2>1. s # "forget"
    BY <1>1 DEF Taken, DesktopCheck, DesktopSteps, PilotCheck, PilotSteps
  <2>2. s = "deleteP" => Mod \notin {"PILOT", "BOTH"}
    BY <1>1 DEF Taken, DesktopCheck, DesktopSteps, PilotCheck, PilotSteps
  <2> QED BY <2>1, <2>2 DEF Mod
<1>4. \A i : Early(i)' => Early(i)
  BY <1>1, <1>2 DEF Early, Past, Passed
<1>5. PlainDesk'
  BY <1>1, <1>4 DEF Surviving, Plain, PlainDesk
<1>6. ASSUME NEW i \in DOMAIN desk, HeldOnDesktop(i)
      PROVE  desk'[i].val = desk[i].val /\ HeldOnDesktop(i)'
  BY <1>1, <1>2, <1>4, <1>6 DEF HeldOnDesktop
<1>7. Overwrites'
  <2>1. CASE rec'.steps = <<"queue", "clear">>
    <3>1. op' = "MergeFromPilot"
      BY <1>2, <1>3, <2>1
    <3> QED BY <3>1 DEF Overwrites
  <2>2. CASE rec'.steps # <<"queue", "clear">>
    <3>1. \A i \in DOMAIN queue' : \E j \in DOMAIN queue :
            queue'[i] = queue[j] /\ desk'[queue[j]].id \in {desk[queue[j]].id, 0}
      BY <1>1
    <3> QED BY <1>1, <1>2, <2>2, <3>1, OverwritesKept DEF Surviving
  <2> QED BY <2>1, <2>2
<1>8. Deletes'
  <2>1. SUFFICES ASSUME rec'.steps \in DeletePlans, NEW i \in DOMAIN dev, dev[i].id = rec.p.id, Changed(dev[i])
                 PROVE  FALSE
    BY <1>1, <1>2, NothingPlain DEF Deletes
  <2>2. rec.steps = <<"deleteD", "deleteBoth", "clear">>
    <3>1. s = "deleteD" /\ rec.steps \in PlainPlans /\ Turn(rec.steps, s, Tail(rec.steps))
      BY <1>1, <1>2, <2>1, StepIs DEF Surviving, Plain
    <3> QED BY <3>1, PlainTurn
  <2>3. rec.steps \in DeletePlans /\ Doomed(rec.d)
    BY <2>2 DEF DeletePlans, Doomed
  <2>4. HeldOnDesktop(rec.d)
    BY <2>1, <2>3 DEF Surviving, Deletes
  <2> QED BY <2>3, <2>4 DEF HeldOnDesktop
<1> QED BY <1>1, <1>2, <1>5, <1>6, <1>7, <1>8, Survives

(* A step that leaves the records alone.                                   *)
LEMMA QuietSurvives ==
  ASSUME Inv, Surviving, UNCHANGED <<op, start, slow, dev, desk, queue, seen>>,
         rec'.steps = <<>>, pc # "done", pc' \notin {"open", "copyTo", "wipe", "copyFrom"},
         pc' = "pull" => pc = "open"
  PROVE  Surviving'
<1>1. \A i : Early(i)' => Early(i)
  BY DEF Early
<1>2. PlainDesk'
  BY <1>1 DEF Surviving, Plain, PlainDesk
<1>3. \A i : ~Doomed(i)'
  BY NothingPlain DEF Doomed
<1>4. ASSUME NEW i \in DOMAIN desk, HeldOnDesktop(i)
      PROVE  desk'[i].val = desk[i].val /\ HeldOnDesktop(i)'
  BY <1>1, <1>3, <1>4 DEF HeldOnDesktop
<1>5. Overwrites'
  <2>1. \A i \in DOMAIN queue' : \E j \in DOMAIN queue :
          queue'[i] = queue[j] /\ desk'[queue[j]].id \in {desk[queue[j]].id, 0}
    OBVIOUS
  <2> QED BY <2>1, NothingPlain, OverwritesKept DEF Surviving
<1>6. Deletes' /\ rec'.steps \in PlainPlans
  BY NothingPlain DEF Deletes
<1> QED BY <1>2, <1>4, <1>5, <1>6, Survives

LEMMA StepFailsSurvives == ASSUME Inv, Surviving, StepFails PROVE Surviving'
<1>1. pc' \in {"post", "close"} /\ rec' = NotRunning /\ UNCHANGED <<op, start, slow, dev, desk, queue, seen>>
  BY DEF StepFails, LeavesLoop, FailsAt, Abort, GoTo, records
<1>2. pc # "done"
  BY DEF StepFails, Inv, Queueing
<1> QED BY <1>1, <1>2, QuietSurvives DEF NotRunning

LEMMA LoopsEndSurvive ==
  ASSUME Inv, Surviving, \/ PullEnds \/ MatchFails \/ ProcessEnds \/ ReadFails \/ PushEnds
                         \/ CopyToEnds \/ WipeEnds \/ CopyFromEnds \/ Post
  PROVE  Surviving'
<1>1. UNCHANGED <<op, start, slow, dev, desk, queue, seen, rec>>
  BY DEF records, PullEnds, MatchFails, ProcessEnds, ReadFails, PushEnds, CopyToEnds, WipeEnds,
         CopyFromEnds, Post
<1>2. pc \in {"pull", "pullQueue", "push", "pushQueue", "post"} /\ rec.steps = <<>>
  BY AtIs DEF Surviving, Plain, Inv, Queueing, Running, PullEnds, MatchFails, ProcessEnds, ReadFails,
              PushEnds, CopyToEnds, WipeEnds, CopyFromEnds, Post
<1>3. pc' \in {"pullQueue", "push", "pushQueue", "post", "close"}
  <2>1. ~CopyToEnds /\ ~WipeEnds /\ ~CopyFromEnds
    BY DEF Surviving, Plain, CopyToEnds, WipeEnds, CopyFromEnds
  <2> QED BY <2>1 DEF PullEnds, MatchFails, ProcessEnds, ReadFails, PushEnds, Post, GoTo, Abort, FailsAt,
                      LeavesLoop, AfterPull
<1> QED BY <1>1, <1>2, <1>3, QuietSurvives

LEMMA OpenSurvives == ASSUME Inv, Surviving, Merging, Open PROVE Surviving'
<1>1. UNCHANGED <<op, start, slow, dev, desk, queue, seen, rec>> /\ pc = "open"
  BY DEF Open, Merging
<1>2. pc' \in {"pull", "push", "close", "done"}
  <2>1. FirstLoop[op] \in {"pull", "push"}
    BY DEF Merging, FirstLoop
  <2> QED BY <2>1 DEF Open, GoTo, Abort, FailsAt
<1>3. rec.steps = <<>>
  BY <1>1 DEF Inv, Queueing, Running
<1> QED BY <1>1, <1>2, <1>3, QuietSurvives

LEMMA RulePlain ==
  ASSUME NEW p, NEW d, ~p.arch, ~d.arch, NEW s, Rule(p, d, s)
  PROVE  /\ s \in PlainPlans
         /\ s = <<"queue">> => p = NoPilotRecord
         /\ s = <<"queue", "clear">> => p.del
         /\ s = <<"deleteP", "queue", "clear">> => p # NoPilotRecord /\ ~Changed(p) /\ Changed(d)
         /\ s = <<"replace", "clear">> => ~Changed(d)
         /\ s = <<"deleteD", "deleteBoth", "clear">> =>
              ~Changed(p) /\ ~Changed(d) /\ (p.del \/ d.del) /\ d # NoDesktopRecord
         /\ s \in DeletePlans => s \in {<<"deleteP", "queue", "clear">>, <<"deleteD", "deleteBoth", "clear">>}
<1>1. \/ s \in {<<>>, <<"add">>, <<"clear">>, <<"add", "forget", "queue", "clear">>}
      \/ s = <<"queue">> /\ p = NoPilotRecord
      \/ s = <<"queue", "clear">> /\ p.del
      \/ s = <<"deleteP", "queue", "clear">> /\ p # NoPilotRecord /\ ~Changed(p) /\ Changed(d)
      \/ s = <<"replace", "clear">> /\ ~Changed(d)
      \/ s = <<"deleteD", "deleteBoth", "clear">> /\ ~Changed(p) /\ ~Changed(d) /\ (p.del \/ d.del)
         /\ d # NoDesktopRecord
  BY DEF Rule
<1>2. s \in PlainPlans
  BY <1>1 DEF PlainPlans
<1>3. /\ s = <<"queue">> => p = NoPilotRecord
      /\ s = <<"queue", "clear">> => p.del
      /\ s = <<"deleteP", "queue", "clear">> => p # NoPilotRecord /\ ~Changed(p) /\ Changed(d)
  BY ONLY <1>1
<1>4. /\ s = <<"replace", "clear">> => ~Changed(d)
      /\ s = <<"deleteD", "deleteBoth", "clear">> =>
           ~Changed(p) /\ ~Changed(d) /\ (p.del \/ d.del) /\ d # NoDesktopRecord
  BY ONLY <1>1
<1>5. s \in DeletePlans => s \in {<<"deleteP", "queue", "clear">>, <<"deleteD", "deleteBoth", "clear">>}
  BY ONLY <1>1 DEF DeletePlans
<1> QED BY <1>2, <1>3, <1>4, <1>5

(* A pass of the loops over the records of the device, p being what        *)
(* sync_record is given for the record at i.                               *)
LEMMA PullSurvives ==
  ASSUME Inv, Inv', Surviving, pc = "pull", UNCHANGED <<op, start, slow, pc, dev, desk, queue>>,
         \A id : Passed(id) => Passed(id)',
         NEW i \in DOMAIN dev, NEW p, p.id = dev[i].id, p.arch = dev[i].arch, ~Passed(p.id),
         Rule(p, DeskAt(Match(p.id)), rec'.steps),
         rec'.steps # <<>> => rec'.p = p /\ rec'.d = Match(p.id),
         \/ p = dev[i]
         \/ ~p.del /\ (~Changed(p) => Match(p.id) # 0 /\ dev[i].val = DeskAt(Match(p.id)).val)
  PROVE  Surviving'
<1>0. PICK d, r : d = Match(p.id) /\ r = DeskAt(d)
  OBVIOUS
<1>1. /\ d = 0 => r = NoDesktopRecord
      /\ d # 0 => d \in DOMAIN desk /\ r = desk[d] /\ desk[d].id = p.id /\ desk[d].place # "gone"
  BY <1>0, DeskAtIs
<1>2. Rule(p, r, rec'.steps) /\ (rec'.steps # <<>> => rec'.p = p /\ rec'.d = d)
  BY <1>0
<1>3. \/ p = dev[i]
      \/ ~p.del /\ (~Changed(p) => d # 0 /\ dev[i].val = r.val)
  BY <1>0
<1>4. ~p.arch /\ ~r.arch
  <2>1. ~dev[i].arch /\ \A j \in DOMAIN desk : ~desk[j].arch
    BY DEF Surviving, Plain, PlainDev, PlainDesk
  <2> QED BY <1>1, <2>1, NoRecords
<1>5. /\ rec'.steps \in PlainPlans
      /\ rec'.steps = <<"queue">> => p = NoPilotRecord
      /\ rec'.steps = <<"queue", "clear">> => p.del
      /\ rec'.steps = <<"deleteP", "queue", "clear">> => p # NoPilotRecord /\ ~Changed(p) /\ Changed(r)
      /\ rec'.steps = <<"replace", "clear">> => ~Changed(r)
      /\ rec'.steps = <<"deleteD", "deleteBoth", "clear">> =>
           ~Changed(p) /\ ~Changed(r) /\ (p.del \/ r.del) /\ r # NoDesktopRecord
      /\ rec'.steps \in DeletePlans =>
           rec'.steps \in {<<"deleteP", "queue", "clear">>, <<"deleteD", "deleteBoth", "clear">>}
  BY ONLY <1>2, <1>4, RulePlain
<1>6. /\ p.id # 0 /\ 0 \notin DOMAIN desk
      /\ \A j \in DOMAIN dev : dev[j].id = p.id => j = i
  BY Ready DEF DistinctIds
<1>7. d # 0 => Early(d)
  BY <1>1, <1>6 DEF Early, Past
<1>8. d # 0 /\ rec'.steps # <<>> => ~Early(d)'
  <2>1. SUFFICES ASSUME d # 0, rec'.steps # <<>> PROVE ~Early(d)'
    OBVIOUS
  <2>2. rec'.d = d /\ pc' = "pull" /\ (rec.steps # <<>>)'
    BY <1>2, <2>1
  <2>3. rec'.d # 0
    BY <2>1, <2>2
  <2>4. Past(rec.d)'
    BY <2>2, <2>3 DEF Inv, Queueing, Running
  <2>5. PICK e : e = rec'.d
    OBVIOUS
  <2>6. Past(e)' /\ e = d
    BY <2>2, <2>4, <2>5 DEF Past
  <2> QED BY <2>2, <2>6 DEF Early
<1>9. \A j \in DOMAIN desk : Early(j)' => Early(j)
  BY DEF Early, Past
<1>10. PlainDesk'
  BY <1>9 DEF Surviving, Plain, PlainDesk
<1>11. ASSUME NEW j \in DOMAIN desk, HeldOnDesktop(j)
       PROVE  desk'[j].val = desk[j].val /\ HeldOnDesktop(j)'
  <2>1. ~Doomed(j)'
    <3>1. SUFFICES ASSUME Doomed(j)' PROVE FALSE
      OBVIOUS
    <3>2. /\ rec'.d = j
          /\ \/ rec'.steps = <<"replace", "clear">>
             \/ rec'.steps = <<"deleteD", "deleteBoth", "clear">>
      BY <3>1 DEF Doomed
    <3>3. rec'.steps # <<>> /\ ~Changed(r)
      <4>1. rec'.steps # <<>>
        BY ONLY <3>2, NothingPlain
      <4>2. ~Changed(r)
        BY ONLY <1>5, <3>2
      <4> QED BY <4>1, <4>2
    <3>4. j = d /\ d # 0
      BY <1>2, <1>6, <3>2, <3>3
    <3> QED BY <1>1, <1>7, <1>11, <3>3, <3>4 DEF HeldOnDesktop, Changed
  <2> QED BY <1>9, <1>11, <2>1 DEF HeldOnDesktop
<1>12. Overwrites'
  <2>1. SUFFICES ASSUME op # "MergeFromPilot"
                 PROVE  /\ \A j \in DOMAIN queue : Unedited(desk[queue[j]].id)'
                        /\ rec'.steps \in {<<"queue">>, <<"queue", "clear">>} => Unedited(desk[rec.d].id)'
                        /\ rec'.steps = <<"deleteP", "queue", "clear">> => desk'[rec'.d].id = rec'.p.id
    BY DEF Overwrites
  <2>2. \A id : Unedited(id) => Unedited(id)'
    BY DEF Unedited
  <2>3. ASSUME NEW j \in DOMAIN queue PROVE Unedited(desk[queue[j]].id)'
    <3>1. PICK id : id = desk[queue[j]].id /\ Unedited(id)
      BY <2>1 DEF Surviving, Overwrites
    <3> QED BY <2>2, <3>1
  <2>4. ASSUME rec'.steps \in {<<"queue">>, <<"queue", "clear">>, <<"deleteP", "queue", "clear">>}
        PROVE  rec'.d = d /\ d # 0 /\ rec'.p = p
    <3>1. QueuePending' /\ rec'.steps # <<>>
      BY <2>4 DEF QueuePending, QueuePlans
    <3>2. rec'.d \in DOMAIN desk
      BY <3>1 DEF Inv, Queueing
    <3> QED BY <1>2, <1>6, <3>1, <3>2
  <2>5. ASSUME rec'.steps \in {<<"queue">>, <<"queue", "clear">>} PROVE Unedited(desk[rec.d].id)'
    <3>1. p # NoPilotRecord
      BY <1>6, NoPilotIs
    <3>2. p.del
      BY <1>5, <2>5, <3>1
    <3>3. ~Changed(dev[i])
      BY <1>3, <3>2 DEF Changed
    <3>4. Unedited(p.id)
      BY <1>6, <3>3 DEF Unedited
    <3>5. PICK id : id = desk'[rec'.d].id
      OBVIOUS
    <3>6. id = p.id
      BY <1>1, <2>4, <2>5, <3>5
    <3> QED BY <2>2, <3>4, <3>5, <3>6
  <2>6. ASSUME rec'.steps = <<"deleteP", "queue", "clear">> PROVE desk'[rec'.d].id = rec'.p.id
    BY <1>1, <2>4, <2>6
  <2> QED BY <2>3, <2>5, <2>6
<1>13. Deletes'
  <2>1. SUFFICES ASSUME rec'.steps \in DeletePlans, NEW j \in DOMAIN dev, dev[j].id = rec'.p.id, Changed(dev[j])
                 PROVE  rec'.d \in DOMAIN desk /\ dev[j].val = desk[rec'.d].val /\ HeldOnDesktop(rec.d)'
    BY DEF Deletes
  <2>2. rec'.steps \in {<<"deleteP", "queue", "clear">>, <<"deleteD", "deleteBoth", "clear">>}
    BY <1>5, <2>1
  <2>3. rec'.steps # <<>> /\ ~Changed(p)
    BY <1>5, <2>2
  <2>4. rec'.p = p /\ rec'.d = d
    BY <1>2, <2>3
  <2>5. j = i /\ Changed(dev[i])
    BY <1>6, <2>1, <2>4
  <2>6. ~p.del /\ d # 0 /\ dev[i].val = r.val
    BY <1>3, <2>3, <2>5
  <2>7. d \in DOMAIN desk /\ r = desk[d] /\ desk[d].place # "gone"
    BY <1>1, <2>6
  <2>8. rec'.steps # <<"deleteD", "deleteBoth", "clear">>
    <3>1. SUFFICES ASSUME rec'.steps = <<"deleteD", "deleteBoth", "clear">> PROVE FALSE
      OBVIOUS
    <3>2. desk[d].del
      BY <1>5, <2>6, <2>7, <3>1
    <3>3. desk[d].val[2] \in {"original", "desktop edit"}
      BY <1>7, <2>6, <2>7, <3>2 DEF Surviving, Plain, PlainDesk
    <3>4. dev[i].val[2] \in {"pilot edit", "same edit"}
      BY <2>5 DEF Surviving, Plain, PlainDev, EditsOnPilot
    <3> QED BY <2>6, <2>7, <3>3, <3>4
  <2>9. rec'.steps = <<"deleteP", "queue", "clear">>
    BY <2>2, <2>8
  <2>10. ~desk[d].del
    BY <1>5, <2>7, <2>9 DEF Changed
  <2>11. ~Doomed(d)'
    BY <2>9 DEF Doomed
  <2>12. HeldOnDesktop(d)'
    BY <1>8, <2>3, <2>6, <2>7, <2>10, <2>11 DEF HeldOnDesktop
  <2>13. PICK e : e = rec'.d
    OBVIOUS
  <2>14. HeldOnDesktop(e)'
    BY <2>4, <2>12, <2>13
  <2> QED BY <2>4, <2>5, <2>6, <2>7, <2>13, <2>14
<1> QED BY <1>5, <1>10, <1>11, <1>12, <1>13, Survives

LEMMA PullsSurvive == ASSUME Inv, Surviving, PullFast \/ PullSlow PROVE Surviving'
<1>1. pc = "pull" /\ UNCHANGED <<op, start, slow, pc, dev, desk, queue>>
  BY DEF PullFast, PullSlow, At, records
<1>2. \A id : Passed(id) => Passed(id)'
  <2>1. CASE PullFast
    BY <1>1, <2>1 DEF PullFast, Passed
  <2>2. CASE PullSlow
    <3>1. slow /\ slow' /\ pos' = pos + 1 /\ dev' = dev
      BY <1>1, <2>2 DEF PullSlow, NextIndex
    <3>2. dev \in Seq(PilotRecords) /\ pos \in Nat
      BY Ready
    <3>3. \A i \in DOMAIN dev : i > pos + 1 => i > pos
      BY ONLY <3>2
    <3> QED BY <3>1, <3>3 DEF Passed
  <2> QED BY <2>1, <2>2
<1>3. CASE PullFast
  <2>1. PICK i \in DOMAIN dev :
          /\ ~Passed(dev[i].id)
          /\ Rule(dev[i], DeskAt(Match(dev[i].id)), rec'.steps)
          /\ rec'.steps # <<>> => rec'.p = dev[i] /\ rec'.d = Match(dev[i].id)
    BY <1>3, PullFastInv
  <2>2. PICK p : p = dev[i]
    OBVIOUS
  <2>3. Inv'
    BY <1>3, PullFastInv
  <2> QED BY <1>1, <1>2, <2>1, <2>2, <2>3, PullSurvives
<1>4. CASE PullSlow
  <2>1. PICK i \in DOMAIN dev, p \in PilotRecords :
          /\ p = Recomputed(dev[i], Match(p.id) = 0 \/ dev[i].val # DeskAt(Match(p.id)).val)
          /\ ~Passed(p.id) /\ Rule(p, DeskAt(Match(p.id)), rec'.steps)
          /\ rec'.steps # <<>> => rec'.p = p /\ rec'.d = Match(p.id)
    BY <1>4, PullSlowInv
  <2>2. PICK b \in BOOLEAN :
          /\ b <=> (Match(p.id) = 0 \/ dev[i].val # DeskAt(Match(p.id)).val)
          /\ p = Recomputed(dev[i], b)
    BY <2>1
  <2>3. PICK q \in PilotRecords : q = dev[i] /\ p = Recomputed(q, b)
    BY <2>2, Ready
  <2>4. p.id = dev[i].id /\ p.arch = dev[i].arch /\ p.dirty = b /\ p.del = FALSE
    <3>1. /\ Recomputed(q, b).id = q.id /\ Recomputed(q, b).arch = q.arch
          /\ Recomputed(q, b).dirty = b /\ Recomputed(q, b).del = FALSE
      BY ONLY q \in PilotRecords, b \in BOOLEAN, RecomputedIs
    <3> QED BY <2>3, <3>1
  <2>5. ~Changed(p) => Match(p.id) # 0 /\ dev[i].val = DeskAt(Match(p.id)).val
    BY <2>2, <2>4 DEF Changed
  <2>6. Inv'
    BY <1>4, PullSlowInv
  <2> QED BY <1>1, <1>2, <2>1, <2>4, <2>5, <2>6, PullSurvives
<1> QED BY <1>3, <1>4

(* A desktop record that the loop over the desktop comes to.               *)
LEMMA PushRecord ==
  ASSUME Inv, Surviving, NEW d \in DOMAIN desk, NEW p \in PilotRecords, NEW r, r = WithFlags(desk[d], p),
         desk[d].place # "gone",
         IF slow THEN ForEach(desk[d]) ELSE ForEachModified(desk[d])
  PROVE  /\ ~r.arch
         /\ slow => ~r.del
         /\ r.del => r = desk[d]
         /\ ~Changed(r) /\ ~desk[d].del => slow /\ p # NoPilotRecord /\ p.val = desk[d].val
<1>1. desk[d] \in DesktopRecords /\ ~desk[d].arch
  <2>1. desk[d] \in DesktopRecords
    BY Ready
  <2>2. \A i \in DOMAIN desk : ~desk[i].arch
    BY DEF Surviving, Plain, PlainDesk
  <2> QED BY <2>1, <2>2
<1>2. CASE slow
  <2>1. PICK b \in BOOLEAN, q \in DesktopRecords :
          /\ b <=> (p = NoPilotRecord \/ p.val # desk[d].val)
          /\ q = desk[d] /\ r = Recomputed(q, b)
    BY <1>1, <1>2 DEF WithFlags
  <2>2. r.arch = q.arch /\ r.del = FALSE /\ r.dirty = b
    <3>1. /\ Recomputed(q, b).arch = q.arch
          /\ Recomputed(q, b).dirty = b /\ Recomputed(q, b).del = FALSE
      BY ONLY q \in DesktopRecords, b \in BOOLEAN, RecomputedIs
    <3> QED BY <2>1, <3>1
  <2> QED BY <1>1, <1>2, <2>1, <2>2 DEF Changed
<1>3. CASE ~slow
  <2>1. r = desk[d]
    BY <1>3 DEF WithFlags
  <2>2. desk[d].dirty \/ desk[d].del
    BY <1>1, <1>3 DEF ForEachModified
  <2> QED BY <1>1, <1>3, <2>1, <2>2 DEF Changed
<1> QED BY <1>2, <1>3

LEMMA PushSurvives == ASSUME Inv, Surviving, Push PROVE Surviving'
<1>1. pc = "push" /\ rec.steps = <<>> /\ UNCHANGED <<op, start, slow, pc, dev, queue>>
  BY AtIs DEF Push
<1>2. PICK d \in DOMAIN desk, p \in PilotRecords, r \in DesktopRecords :
        /\ \/ desk[d].id = 0 /\ p = NoPilotRecord
           \/ desk[d].id # 0 /\ \E i \in DOMAIN dev : p = dev[i] /\ dev[i].id = desk[d].id
        /\ r = WithFlags(desk[d], p) /\ desk[d].place # "gone" /\ desk[d].id = r.id
        /\ r.place = desk[d].place /\ r.val = desk[d].val
        /\ IF slow THEN ForEach(desk[d]) ELSE ForEachModified(desk[d])
        /\ DOMAIN desk' = DOMAIN desk
        /\ \A i \in DOMAIN desk : desk'[i] = IF i = d THEN r ELSE desk[i]
        /\ Rule(p, r, rec'.steps)
        /\ rec'.steps # <<>> => rec'.p = p /\ rec'.d = d
  BY PushInv
<1>3. /\ ~r.arch
      /\ slow => ~r.del
      /\ r.del => r = desk[d]
      /\ ~Changed(r) /\ ~desk[d].del => slow /\ p # NoPilotRecord /\ p.val = desk[d].val
  BY <1>2, PushRecord
<1>4. ~p.arch
  BY <1>2, NoRecords DEF Surviving, Plain, PlainDev
<1>5. /\ rec'.steps \in PlainPlans
      /\ rec'.steps = <<"queue">> => p = NoPilotRecord
      /\ rec'.steps = <<"queue", "clear">> => p.del
      /\ rec'.steps = <<"deleteP", "queue", "clear">> => p # NoPilotRecord /\ ~Changed(p) /\ Changed(r)
      /\ rec'.steps = <<"replace", "clear">> => ~Changed(r)
      /\ rec'.steps = <<"deleteD", "deleteBoth", "clear">> =>
           ~Changed(p) /\ ~Changed(r) /\ (p.del \/ r.del) /\ r # NoDesktopRecord
      /\ rec'.steps \in DeletePlans =>
           rec'.steps \in {<<"deleteP", "queue", "clear">>, <<"deleteD", "deleteBoth", "clear">>}
  <2>1. ~r.arch /\ Rule(p, r, rec'.steps)
    BY <1>2, <1>3
  <2> QED BY ONLY <1>4, <2>1, RulePlain
<1>6. /\ \A i, j \in DOMAIN dev : dev[i].id = dev[j].id => i = j
      /\ \A i \in DOMAIN dev : dev[i].id # 0
  BY Ready DEF DistinctIds
<1>7. \A i : ~Early(i)'
  BY <1>1 DEF Early
<1>8. PlainDesk'
  <2>1. \A i \in DOMAIN desk : ~desk[i].arch
    BY DEF Surviving, Plain, PlainDesk
  <2> QED BY <1>2, <1>3, <1>7, <2>1 DEF PlainDesk
<1>9. ASSUME NEW i \in DOMAIN desk, HeldOnDesktop(i), desk[i].val \in AllEdits
      PROVE  desk'[i].val = desk[i].val /\ HeldOnDesktop(i)'
  <2>1. desk[i].place # "gone" /\ ~desk[i].del
    BY <1>9 DEF HeldOnDesktop
  <2>2. desk'[i].val = desk[i].val /\ desk'[i].place # "gone" /\ ~desk'[i].del
    BY <1>2, <1>3, <2>1
  <2>3. ~Doomed(i)'
    <3>1. SUFFICES ASSUME Doomed(i)' PROVE FALSE
      OBVIOUS
    <3>2. /\ rec'.d = i
          /\ \/ rec'.steps = <<"replace", "clear">> /\ rec'.p.val # desk'[i].val
             \/ rec'.steps = <<"deleteD", "deleteBoth", "clear">>
      BY <3>1 DEF Doomed
    <3>3. rec'.steps # <<>>
      BY ONLY <3>2, NothingPlain
    <3>4. ~Changed(r)
      BY ONLY <1>5, <3>2
    <3>5. rec'.p = p /\ d = i
      BY <1>2, <3>2, <3>3
    <3>6. slow /\ p.val = desk[d].val
      BY <1>3, <2>1, <3>4, <3>5
    <3>7. rec'.steps = <<"deleteD", "deleteBoth", "clear">>
      BY <2>2, <3>2, <3>5, <3>6
    <3>8. p.del
      BY <1>3, <1>5, <3>6, <3>7
    <3>9. p # NoPilotRecord
      BY <3>8, NoRecords
    <3>10. p.val[2] = "erased"
      BY <1>2, <3>8, <3>9 DEF Surviving, Plain, PlainDev
    <3>11. desk[i].val[2] # "erased"
      BY <1>9 DEF Surviving, Plain
    <3> QED BY <3>5, <3>6, <3>10, <3>11
  <2> QED BY <1>7, <2>2, <2>3 DEF HeldOnDesktop
<1>10. \A i \in DOMAIN desk : desk'[i].id = desk[i].id
  BY <1>2
<1>11. \A id : Unedited(id) => Unedited(id)'
  BY <1>1 DEF Unedited
<1>12. ASSUME rec'.steps \in {<<"queue">>, <<"queue", "clear">>, <<"deleteP", "queue", "clear">>}
       PROVE  rec'.d = d /\ rec'.p = p
  <2>1. rec'.steps # <<>>
    BY ONLY <1>12
  <2> QED BY <1>2, <2>1
<1>13. Overwrites'
  <2>1. SUFFICES ASSUME op # "MergeFromPilot"
                 PROVE  /\ \A j \in DOMAIN queue : Unedited(desk[queue[j]].id)'
                        /\ rec'.steps \in {<<"queue">>, <<"queue", "clear">>} => Unedited(desk[rec.d].id)'
                        /\ rec'.steps = <<"deleteP", "queue", "clear">> => desk'[rec'.d].id = rec'.p.id
    BY <1>1 DEF Overwrites
  <2>2. ASSUME NEW j \in DOMAIN queue PROVE Unedited(desk[queue[j]].id)'
    <3>1. queue[j] \in DOMAIN desk
      BY DEF Inv, Queueing
    <3>2. PICK id : id = desk'[queue[j]].id /\ Unedited(id)
      BY <1>10, <2>1, <3>1 DEF Surviving, Overwrites
    <3> QED BY <1>1, <1>11, <3>2
  <2>3. ASSUME rec'.steps \in {<<"queue">>, <<"queue", "clear">>} PROVE Unedited(desk[rec.d].id)'
    <3>1. p = NoPilotRecord \/ p.del
      BY ONLY <1>5, <2>3
    <3>2. Unedited(desk[d].id)
      <4>1. CASE desk[d].id = 0
        BY <1>6, <4>1 DEF Unedited
      <4>2. CASE desk[d].id # 0
        <5>1. PICK i \in DOMAIN dev : p = dev[i] /\ dev[i].id = desk[d].id
          BY <1>2, <4>2
        <5>2. p # NoPilotRecord
          BY <4>2, <5>1, NoPilotIs
        <5>3. ~Changed(dev[i])
          BY <3>1, <5>1, <5>2 DEF Changed
        <5> QED BY <1>6, <5>1, <5>3 DEF Unedited
      <4> QED BY <4>1, <4>2
    <3>3. PICK id : id = desk'[rec'.d].id
      OBVIOUS
    <3>4. id = desk[d].id
      BY <1>10, <1>12, <2>3, <3>3
    <3> QED BY <1>11, <3>2, <3>3, <3>4
  <2>4. ASSUME rec'.steps = <<"deleteP", "queue", "clear">> PROVE desk'[rec'.d].id = rec'.p.id
    <3>1. p # NoPilotRecord /\ p.id = desk[d].id
      BY <1>2, <1>5, <2>4
    <3> QED BY <1>10, <1>12, <2>4, <3>1
  <2> QED BY <2>2, <2>3, <2>4
<1>14. Deletes'
  <2>1. SUFFICES ASSUME rec'.steps \in DeletePlans, NEW j \in DOMAIN dev, dev[j].id = rec'.p.id, Changed(dev[j])
                 PROVE  FALSE
    BY <1>1 DEF Deletes
  <2>2. rec'.steps \in {<<"deleteP", "queue", "clear">>, <<"deleteD", "deleteBoth", "clear">>}
    BY <1>5, <2>1
  <2>3. rec'.steps # <<>>
    BY ONLY <2>2, NothingPlain
  <2>4. ~Changed(p)
    BY ONLY <1>5, <2>2
  <2>5. dev[j].id = p.id
    BY <1>2, <2>1, <2>3
  <2>6. p = dev[j]
    BY <1>2, <1>6, <2>5, NoPilotIs
  <2> QED BY <2>1, <2>4, <2>6
<1> QED BY <1>1, <1>2, <1>5, <1>8, <1>9, <1>13, <1>14, Survives

LEMMA ProcessItemSurvives == ASSUME Inv, Surviving, ProcessItem PROVE Surviving'
<1>0. PICK d : d = Head(queue)
  OBVIOUS
<1>1. /\ pc \in {"pullQueue", "pushQueue"} /\ queue # <<>> /\ queue' = Tail(queue)
      /\ \/ Store(d)
         \/ (UNCHANGED <<dev, fresh>> \/ (Mod = "BOTH" /\ StoresOnPilot(d))) /\ UNCHANGED desk
      /\ UNCHANGED <<op, start, slow, pc, seen, pos, rec>>
  BY <1>0 DEF ProcessItem, StoreFails
<1>2. queue \in Seq(Nat) /\ rec.steps = <<>>
  BY <1>1 DEF Inv, Types, Queueing, Running
<1>3. 1 \in DOMAIN queue /\ d = queue[1]
  BY <1>0, <1>1, <1>2
<1>4. ASSUME NEW i \in DOMAIN queue' PROVE i + 1 \in DOMAIN queue /\ queue'[i] = queue[i + 1] /\ i + 1 # 1
  BY <1>1, <1>2
<1>5. d \in DOMAIN desk /\ \A i \in DOMAIN queue : queue[i] = d => i = 1
  BY <1>3 DEF Inv, Queueing
<1>6. /\ DOMAIN desk' = DOMAIN desk
      /\ UNCHANGED <<dev, fresh>> \/ WriteRecord(desk[d].id, desk[d].val)
      /\ op = "MergeFromPilot" => UNCHANGED <<dev, fresh>>
  BY <1>1, <1>5, StoreIs
<1>7. PICK id \in Nat : \A i \in DOMAIN desk : desk'[i] = IF i = d THEN [desk[d] EXCEPT !.id = id] ELSE desk[i]
  BY <1>1, <1>5, StoreIs
<1>8. ASSUME NEW i \in DOMAIN desk
      PROVE  /\ desk'[i].val = desk[i].val /\ desk'[i].place = desk[i].place
             /\ desk'[i].del = desk[i].del /\ desk'[i].arch = desk[i].arch
  <2>1. PICK q \in DesktopRecords : q = desk[i]
    BY Ready
  <2>2. ASSUME NEW r, r = [q EXCEPT !.id = id]
        PROVE  r.val = q.val /\ r.place = q.place /\ r.del = q.del /\ r.arch = q.arch
    BY ONLY q \in DesktopRecords, <2>2 DEF DesktopRecords
  <2> QED BY <1>7, <2>1, <2>2
<1>9. \A i : ~Early(i)' /\ ~Doomed(i)'
  BY <1>1, <1>2, NothingPlain DEF Early, Doomed
<1>10. /\ \A i \in DOMAIN dev' : \/ \E j \in DOMAIN dev : dev'[i] = dev[j]
                                 \/ ~dev'[i].arch /\ ~dev'[i].del /\ ~dev'[i].dirty
       /\ \A i \in DOMAIN dev : Changed(dev[i]) => \E j \in DOMAIN dev' : dev'[j] = dev[i]
  <2>1. CASE UNCHANGED dev
    BY <2>1
  <2>2. CASE op # "MergeFromPilot" /\ WriteRecord(desk[d].id, desk[d].val)
    <3>1. PICK old, v : old = desk[d].id /\ v = desk[d].val
      OBVIOUS
    <3>2. old \in Nat /\ v \in Values /\ old < fresh
      BY <1>5, <2>2, <3>1, ChangesAre, Ready
    <3>3. PICK new \in PilotRecords :
            /\ new = [id |-> IF old = 0 THEN fresh ELSE old, val |-> v, dirty |-> FALSE,
                      del |-> FALSE, arch |-> FALSE]
            /\ DOMAIN dev \subseteq DOMAIN dev'
            /\ \A i \in DOMAIN dev : dev'[i] = IF dev[i].id = new.id THEN new ELSE dev[i]
            /\ \A i \in DOMAIN dev' \ DOMAIN dev : dev'[i] = new
      BY <2>2, <3>1, <3>2, WriteRecordIs
    <3>4. /\ new.id = IF old = 0 THEN fresh ELSE old
          /\ ~new.arch /\ ~new.del /\ ~new.dirty
      BY <3>3
    <3>5. Unedited(old)
      BY <1>3, <2>2, <3>1 DEF Surviving, Overwrites
    <3>6. ASSUME NEW i \in DOMAIN dev, Changed(dev[i]) PROVE dev[i].id # new.id
      <4>1. dev[i].id # old
        BY <3>5, <3>6 DEF Unedited
      <4>2. dev[i].id # fresh
        <5>1. dev[i].id \in 1..(fresh - 1) /\ fresh \in Nat
          BY Ready DEF DistinctIds
        <5> QED BY ONLY <5>1
      <4> QED BY <3>4, <4>1, <4>2
    <3> QED BY <3>3, <3>4, <3>6
  <2> QED BY <1>6, <2>1, <2>2
<1>11. PlainDesk'
  BY <1>6, <1>8, <1>9 DEF Surviving, Plain, PlainDesk
<1>12. ASSUME NEW i \in DOMAIN desk, HeldOnDesktop(i)
       PROVE  desk'[i].val = desk[i].val /\ HeldOnDesktop(i)'
  BY <1>8, <1>9, <1>12 DEF HeldOnDesktop
<1>13. Overwrites'
  <2>1. ASSUME NEW i \in DOMAIN queue'
        PROVE  \E j \in DOMAIN queue : queue'[i] = queue[j] /\ desk'[queue[j]].id \in {desk[queue[j]].id, 0}
    <3>1. PICK j \in DOMAIN queue : queue'[i] = queue[j] /\ j # 1
      BY <1>4
    <3>2. queue[j] \in DOMAIN desk /\ queue[j] # d
      BY <1>5, <3>1 DEF Inv, Queueing
    <3> QED BY <1>7, <3>1, <3>2
  <2>2. \A i \in DOMAIN dev' : \/ \E j \in DOMAIN dev : dev'[i] = dev[j]
                               \/ ~dev'[i].dirty
    BY <1>10
  <2> QED BY <1>1, <1>2, <2>1, <2>2, NothingPlain, OverwritesKept DEF Surviving
<1>14. Deletes' /\ rec'.steps \in PlainPlans
  BY <1>1, <1>2, NothingPlain DEF Deletes
<1> QED BY <1>1, <1>6, <1>10, <1>11, <1>12, <1>13, <1>14, Survives

LEMMA CleanedKeeps ==
  ASSUME NEW rs \in Seq(PilotRecords), NEW s \in CleanUpDatabase(rs)
  PROVE  /\ s \in Seq(PilotRecords)
         /\ \A i \in DOMAIN s : \E j \in DOMAIN rs : s[i] = rs[j]
         /\ \A i \in DOMAIN rs : ~rs[i].del /\ ~rs[i].arch => \E j \in DOMAIN s : s[j] = rs[i]
<1> DEFINE S == {i \in DOMAIN rs : ~rs[i].del /\ ~rs[i].arch}
<1>1. s \in Kept(rs, S) /\ S \in SUBSET DOMAIN rs
  BY DEF CleanUpDatabase
<1>2. \A k \in S : k \in DOMAIN rs
  OBVIOUS
<1>3. \A k \in DOMAIN rs : ~rs[k].del /\ ~rs[k].arch => k \in S
  OBVIOUS
<1> HIDE DEF S
<1>4. PICK at \in [DOMAIN s -> S] :
        /\ \A i \in DOMAIN s : s[i] = rs[at[i]]
        /\ \A k \in S : \E i \in DOMAIN s : at[i] = k
  BY <1>1, KeptIs
<1>5. s \in Seq(PilotRecords)
  BY <1>1, KeptIs
<1>6. \A i \in DOMAIN s : at[i] \in DOMAIN rs
  BY <1>2
<1>7. ASSUME NEW k \in DOMAIN rs, ~rs[k].del /\ ~rs[k].arch PROVE \E j \in DOMAIN s : s[j] = rs[k]
  <2>1. PICK i \in DOMAIN s : at[i] = k
    BY <1>3, <1>4, <1>7
  <2> QED BY <1>4, <2>1
<1> QED BY <1>4, <1>5, <1>6, <1>7

(* close_db resets flags and removes what is deleted or archived.          *)
LEMMA CloseKeeps ==
  ASSUME Inv, Close
  PROVE  /\ \A i \in DOMAIN dev' :
              \/ \E j \in DOMAIN dev : dev'[i] = dev[j]
              \/ /\ dev'[i].dirty = FALSE
                 /\ \E j \in DOMAIN dev : /\ dev'[i].val = dev[j].val /\ dev'[i].del = dev[j].del
                                          /\ dev'[i].arch = dev[j].arch
         /\ \A i \in DOMAIN dev : ~dev[i].del /\ ~dev[i].arch => \E j \in DOMAIN dev' : dev'[j].val = dev[i].val
<1>1. dev \in Seq(PilotRecords) /\ DistinctIds(dev, fresh - 1) /\ fresh - 1 \in Nat
  <2>1. 0 < fresh /\ fresh \in Nat
    BY DEF Inv, Types, Ids, PilotRecords
  <2> QED BY <2>1, Ready
<1>2. ASSUME NEW rs \in Seq(PilotRecords), DistinctIds(rs, fresh - 1), NEW s, s = ResetSyncFlags(rs)
      PROVE  /\ DOMAIN s = DOMAIN rs
             /\ \A i \in DOMAIN rs : /\ s[i].val = rs[i].val /\ s[i].del = rs[i].del
                                     /\ s[i].arch = rs[i].arch /\ s[i].dirty = FALSE
  BY <1>2, ResetIs
<1>3. ASSUME NEW rs \in CleanUpDatabase(dev)
      PROVE  /\ rs \in Seq(PilotRecords) /\ DistinctIds(rs, fresh - 1)
             /\ \A i \in DOMAIN rs : \E j \in DOMAIN dev : rs[i] = dev[j]
             /\ \A i \in DOMAIN dev : ~dev[i].del /\ ~dev[i].arch => \E j \in DOMAIN rs : rs[j] = dev[i]
  BY <1>1, CleanedIs, CleanedKeeps
<1>4. CASE dev' \in CleanUpDatabase(dev)
  <2>1. PICK rs \in CleanUpDatabase(dev) : dev' = rs
    BY <1>4
  <2> QED BY <1>3, <2>1
<1>5. CASE dev' = ResetSyncFlags(dev)
  <2>1. PICK s : s = dev' /\ s = ResetSyncFlags(dev)
    BY <1>5
  <2>2. /\ DOMAIN s = DOMAIN dev
        /\ \A i \in DOMAIN dev : /\ s[i].val = dev[i].val /\ s[i].del = dev[i].del
                                 /\ s[i].arch = dev[i].arch /\ s[i].dirty = FALSE
    BY ONLY <1>1, <1>2, <2>1
  <2> QED BY <2>1, <2>2
<1>6. CASE \E rs \in CleanUpDatabase(dev) : dev' = ResetSyncFlags(rs)
  <2>1. PICK rs \in CleanUpDatabase(dev) : dev' = ResetSyncFlags(rs)
    BY <1>6
  <2>2. PICK s : s = dev' /\ s = ResetSyncFlags(rs)
    BY <2>1
  <2>3. rs \in Seq(PilotRecords) /\ DistinctIds(rs, fresh - 1)
    BY <1>3
  <2>4. /\ DOMAIN s = DOMAIN rs
        /\ \A i \in DOMAIN rs : /\ s[i].val = rs[i].val /\ s[i].del = rs[i].del
                                /\ s[i].arch = rs[i].arch /\ s[i].dirty = FALSE
    BY ONLY <1>2, <2>2, <2>3
  <2> QED BY <1>3, <2>2, <2>4
<1> QED BY <1>4, <1>5, <1>6 DEF Close

LEMMA CloseSurvives == ASSUME Inv, Surviving, Close PROVE Surviving'
<1>1. pc = "close" /\ pc' = "done" /\ UNCHANGED <<op, slow, desk, queue, fresh, seen, rec, start>>
  BY DEF Close, GoTo
<1>2. rec.steps = <<>>
  BY <1>1 DEF Inv, Queueing, Running
<1>3. \A i : ~Early(i)' /\ ~Doomed(i)' /\ HeldOnDevice(i)'
  BY <1>1, <1>2, NothingPlain DEF Early, Doomed, HeldOnDevice
<1>4. AllEdits' = AllEdits
  BY <1>1 DEF AllEdits, Edits
<1>5. PlainDev'
  <2>1. PlainDev
    BY DEF Surviving, Plain
  <2>2. ASSUME NEW i \in DOMAIN dev'
        PROVE  /\ ~dev'[i].arch
               /\ dev'[i].del => dev'[i].val[2] = "erased"
               /\ dev'[i].dirty /\ ~dev'[i].del => dev'[i].val[2] \in EditsOnPilot
    <3>1. CASE \E j \in DOMAIN dev : dev'[i] = dev[j]
      BY <2>1, <3>1 DEF PlainDev, Changed
    <3>2. CASE dev'[i].dirty = FALSE /\ \E j \in DOMAIN dev :
                 dev'[i].val = dev[j].val /\ dev'[i].del = dev[j].del /\ dev'[i].arch = dev[j].arch
      BY <2>1, <3>2 DEF PlainDev
    <3> QED BY <3>1, <3>2, CloseKeeps
  <2> QED BY <2>2 DEF PlainDev, Changed
<1>6. PlainDesk'
  BY <1>1, <1>3 DEF Surviving, Plain, PlainDesk
<1>7. Plain'
  <2>1. \A v \in AllEdits : v[2] # "erased"
    BY DEF Surviving, Plain
  <2> QED BY <1>1, <1>2, <1>4, <1>5, <1>6, <2>1, NothingPlain DEF Plain
<1>8. Overwrites'
  <2>1. \A i \in DOMAIN dev' : \/ \E j \in DOMAIN dev : dev'[i] = dev[j]
                               \/ ~dev'[i].dirty
    BY CloseKeeps
  <2>2. \A i \in DOMAIN queue' : \E j \in DOMAIN queue :
          queue'[i] = queue[j] /\ desk'[queue[j]].id \in {desk[queue[j]].id, 0}
    BY <1>1
  <2> QED BY <1>1, <1>2, <2>1, <2>2, NothingPlain, OverwritesKept DEF Surviving
<1>9. Deletes'
  BY <1>1, <1>2, NothingPlain DEF Deletes
<1>10. Safe'
  <2>1. SUFFICES ASSUME NEW v \in AllEdits
                 PROVE  \/ \E i \in DOMAIN dev' : dev'[i].val = v /\ HeldOnDevice(i)'
                        \/ \E i \in DOMAIN desk' : desk'[i].val = v /\ HeldOnDesktop(i)'
    BY <1>4 DEF Safe
  <2>2. ASSUME NEW i \in DOMAIN dev, dev[i].val = v, HeldOnDevice(i)
        PROVE  \E j \in DOMAIN dev' : dev'[j].val = v
    <3>1. ~dev[i].del /\ ~dev[i].arch
      BY <1>1, <2>2 DEF HeldOnDevice, Changed, Surviving, Plain, PlainDev
    <3> QED BY <2>2, <3>1, CloseKeeps
  <2>3. ASSUME NEW i \in DOMAIN desk, desk[i].val = v, HeldOnDesktop(i)
        PROVE  desk'[i].val = v /\ HeldOnDesktop(i)'
    BY <1>1, <1>3, <2>3 DEF HeldOnDesktop
  <2> QED BY <1>1, <1>3, <2>2, <2>3 DEF Surviving, Safe
<1> QED BY <1>7, <1>8, <1>9, <1>10 DEF Surviving

(* No archived record: sync_record never comes to these steps.             *)
LEMMA NotPlain ==
  ASSUME Inv, Surviving
  PROVE  /\ ~MatchAdded /\ ~ArchiveRecord /\ ~Unarchive /\ ~WriteNew
         /\ ~CopyToPilot /\ ~CopyToEnds /\ ~WipeDesktop /\ ~WipeEnds /\ ~CopyFromPilot /\ ~CopyFromEnds
<1>1. ASSUME NEW s, Step(s) PROVE s \notin {"match", "archive", "unarchive", "writeNew"}
  <2>1. Turn(rec.steps, s, Tail(rec.steps)) /\ rec.steps \in PlainPlans
    BY <1>1, StepIs, StepTurns DEF Surviving, Plain
  <2> QED BY <2>1, PlainTurn
<1>2. ~Step("match") /\ ~Step("archive") /\ ~Step("unarchive") /\ ~Step("writeNew")
  BY <1>1
<1> QED BY <1>2 DEF Surviving, Plain, MatchAdded, ArchiveRecord, Unarchive, WriteNew, CopyToPilot, CopyToEnds,
                    WipeDesktop, WipeEnds, CopyFromPilot, CopyFromEnds

LEMMA SameOperation == Next => UNCHANGED <<op, start>>
BY DEF Next, Steps, Step, AddRecord, MatchAdded, ReplaceRecord, ArchiveRecord, Unarchive, SetStatusCleared,
       DeleteRecord, ForgetID, AddRecordQueue, WriteNew, DeleteOnDevice, NotTaken, StepFails, Open, PullFast,
       PullSlow, PullEnds, MatchFails, ProcessItem, ProcessEnds, Push, ReadFails, PushEnds, CopyToPilot,
       CopyToEnds, WipeDesktop, WipeEnds, CopyFromPilot, CopyFromEnds, Post, Close

LEMMA NextMerge == ASSUME Inv, MergeInv, Next PROVE MergeInv'
<1>1. SUFFICES ASSUME Merging' PROVE Surviving'
  BY DEF MergeInv
<1>2. Merging
  BY <1>1, SameOperation DEF Merging, NoneArchived
<1>3. Surviving
  BY <1>2 DEF MergeInv
<1>4. CASE Steps
  BY <1>3, <1>4, NotPlain, AddRecordSurvives, ChangesSurvive, AddRecordQueueSurvives, DeleteOnDeviceSurvives,
     NotTakenSurvives, StepFailsSurvives DEF Steps
<1>5. CASE ~Steps
  BY <1>2, <1>3, <1>5, NotPlain, OpenSurvives, PullsSurvive, LoopsEndSurvive, ProcessItemSurvives,
     PushSurvives, CloseSurvives DEF Next
<1> QED BY <1>4, <1>5

LEMMA StutterMerge == ASSUME MergeInv, UNCHANGED vars PROVE MergeInv'
<1>1. UNCHANGED <<op, slow, pc, dev, desk, queue, fresh, seen, pos, rec, start>>
  BY DEF vars, records
<1>2. \A i : Past(i)' <=> Past(i)
  BY <1>1 DEF Past, Passed
<1>3. \A i : Early(i)' <=> Early(i)
  BY <1>1, <1>2 DEF Early
<1>4. \A i : HeldOnDesktop(i)' <=> HeldOnDesktop(i)
  BY <1>1, <1>3 DEF HeldOnDesktop, Doomed
<1>5. AllEdits' = AllEdits
  BY <1>1 DEF AllEdits, Edits
<1>6. Plain => Plain'
  BY <1>1, <1>3, <1>5 DEF Plain, PlainDev, PlainDesk, Changed
<1>7. Overwrites => Overwrites'
  <2>1. \A id : Unedited(id) => Unedited(id)'
    BY <1>1 DEF Unedited
  <2>2. PICK d : d = rec.d /\ d = rec'.d
    BY <1>1
  <2>3. Unedited(desk[rec.d].id) => Unedited(desk[rec.d].id)'
    BY <1>1, <2>1
  <2>4. ASSUME NEW i \in DOMAIN queue, Unedited(desk[queue[i]].id) PROVE Unedited(desk[queue[i]].id)'
    BY <1>1, <2>1, <2>4
  <2> QED BY <1>1, <2>3, <2>4 DEF Overwrites
<1>8. Deletes => Deletes'
  <2>1. HeldOnDesktop(rec.d) => HeldOnDesktop(rec.d)'
    BY <1>1, <1>4
  <2> QED BY <1>1, <2>1 DEF Deletes
<1>9. Safe => Safe'
  BY <1>1, <1>4, <1>5 DEF Safe, HeldOnDevice
<1>10. Merging' => Merging
  BY <1>1 DEF Merging, NoneArchived
<1> QED BY <1>6, <1>7, <1>8, <1>9, <1>10 DEF MergeInv, Surviving

LEMMA InitMerge == ASSUME Init PROVE MergeInv
<1>1. SUFFICES ASSUME Merging PROVE Surviving
  BY DEF MergeInv
<1>2. /\ dev \in Seq(GivenOnPilot) /\ desk \in Seq(GivenOnDesktop)
  BY Beginning
<1>3. /\ pc = "open" /\ queue = <<>> /\ rec = NotRunning /\ start = [dev |-> dev, desk |-> desk]
  BY Zenon DEF Init
<1>4. start.dev = dev /\ start.desk = desk /\ rec.steps = <<>>
  BY <1>3 DEF NotRunning
<1>5. ASSUME NEW i \in DOMAIN dev
      PROVE  /\ ~dev[i].arch
             /\ dev[i].del => dev[i].val[2] = "erased"
             /\ Changed(dev[i]) => dev[i].val[2] \in EditsOnPilot
  <2>1. dev[i] \in GivenOnPilot
    BY <1>2
  <2>2. dev[i] \in Range(start.dev)
    BY <1>4 DEF Range
  <2> QED BY <1>1, <2>1, <2>2 DEF GivenOnPilot, Merging, NoneArchived
<1>6. ASSUME NEW i \in DOMAIN desk
      PROVE  /\ ~desk[i].arch /\ desk[i].place # "gone"
             /\ desk[i].del => desk[i].val[2] \in {"original", "desktop edit"}
             /\ Changed(desk[i]) => desk[i].val[2] \in {"desktop edit", "same edit"}
  <2>1. desk[i] \in GivenOnDesktop
    BY <1>2
  <2>2. desk[i] \in Range(start.desk)
    BY <1>4 DEF Range
  <2> QED BY <1>1, <2>1, <2>2 DEF GivenOnDesktop, Merging, NoneArchived
<1>7. ASSUME NEW v \in AllEdits
      PROVE  \/ \E i \in DOMAIN dev : dev[i].val = v /\ Changed(dev[i])
             \/ \E i \in DOMAIN desk : desk[i].val = v /\ Changed(desk[i])
  BY <1>4 DEF AllEdits, Edits, Range, Changed
<1>8. ASSUME NEW v \in AllEdits PROVE v[2] # "erased"
  BY <1>5, <1>6, <1>7 DEF EditsOnPilot
<1>9. Plain
  BY <1>3, <1>4, <1>5, <1>6, <1>8, NothingPlain DEF Plain, PlainDev, PlainDesk
<1>10. Overwrites /\ Deletes
  BY <1>3, <1>4, NothingPlain DEF Overwrites, Deletes
<1>11. ASSUME NEW i \in DOMAIN desk, Changed(desk[i]) PROVE HeldOnDesktop(i)
  <2>1. ~Doomed(i)
    BY <1>4, NothingPlain DEF Doomed
  <2> QED BY <1>6, <1>11, <2>1 DEF HeldOnDesktop, Changed
<1>12. Safe
  BY <1>7, <1>11 DEF Safe, HeldOnDevice
<1> QED BY <1>9, <1>10, <1>12 DEF Surviving

LEMMA SpecMerge == Spec => []MergeInv
<1>1. Inv /\ MergeInv /\ [Next]_vars => MergeInv'
  BY NextMerge, StutterMerge
<1> QED BY <1>1, InitMerge, SpecInv, PTL DEF Spec

(* An edit of a user that a merge or a synchronization began with is at    *)
(* every moment on the device or the desktop: sync_record gives up neither *)
(* version of a record in conflict, deletes no edited record, and nothing  *)
(* it queues overwrites an edit on the device.                             *)
THEOREM EditsSurviveCorrect == Spec => []EditsSurvive
<1>1. MergeInv => EditsSurvive
  <2>1. SUFFICES ASSUME MergeInv, Merging, NEW r \in Range(start.dev) \cup Range(start.desk), r.dirty, ~r.del
                 PROVE  r.val \in KeptValues
    BY DEF EditsSurvive, Merging
  <2>2. r.val \in AllEdits
    BY <2>1 DEF AllEdits, Edits
  <2>3. \/ \E i \in DOMAIN dev : dev[i].val = r.val
        \/ \E i \in DOMAIN desk : desk[i].val = r.val /\ desk[i].place # "gone"
    BY <2>1, <2>2 DEF MergeInv, Surviving, Safe, HeldOnDesktop
  <2> QED BY <2>3 DEF KeptValues, Range
<1> QED BY <1>1, SpecMerge, PTL
=============================================================================
