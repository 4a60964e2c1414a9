SPECIFICATION FairSpec
CONSTANTS
  t1 = t1
  t2 = t2
  s1 = s1
  s2 = s2
  Threads = {t1}
  Sockets = {s1, s2}
  Owner <- BothOfOne
  Interval = 2
  MaxWatch = 1
  AlarmAnywhere = TRUE
PROPERTIES
  WatchedAreTickled
CHECK_DEADLOCK FALSE
