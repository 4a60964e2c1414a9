SPECIFICATION Spec
CONSTANTS
  DBs = {"memo", "prefs"}
  OldDevice = TRUE
  MaxFailures = 2
  Unsaved = {"prefs"}
  Excluded = {"memo"}
  NRecs = 2
  MaxClock = 3
  MaxOps = 2
INVARIANTS
  TypeOK
  UnchangedIsStored
  Complete
  RemovedAreGone
  InstallAllOrNothing
  MergeAdds
