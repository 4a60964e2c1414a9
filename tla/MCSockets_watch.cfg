SPECIFICATION FairSpec
CONSTANTS
  t1 = t1
  t2 = t2
  s1 = s1
  s2 = s2
  Threads = {t1, t2}
  Sockets = {s1, s2}
  Owner <- EachItsOwn
  Interval = 2
  MaxWatch = 1
  AlarmAnywhere = FALSE
INVARIANTS
  TypeOK
  NoUseAfterFree
  KeptAlive
PROPERTIES
  WatchedAreTickled
  MutexesReleased
CHECK_DEADLOCK FALSE
