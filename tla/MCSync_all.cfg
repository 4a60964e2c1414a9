SPECIFICATION FairSpec
CONSTANTS
  Base = 1
  Ops = {"CopyToPilot", "CopyFromPilot", "MergeFromPilot", "MergeToPilot", "Synchronize"}
  Slow = {FALSE, TRUE}
  NewOnes = TRUE
  MaxFails = 2
  Junk = {0, 9}
INVARIANTS
  TypeOK
  EditsSurvive
  NoTwins
  Delivered
PROPERTIES
  
  Returns
CHECK_DEADLOCK FALSE
