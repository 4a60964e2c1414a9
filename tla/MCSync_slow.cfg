SPECIFICATION Spec
CONSTANTS
  Base = 1
  Ops = {"Synchronize"}
  Slow = {TRUE}
  NewOnes = TRUE
  MaxFails = 0
  Junk = {0, 9}
INVARIANTS
  Converged
CHECK_DEADLOCK FALSE
