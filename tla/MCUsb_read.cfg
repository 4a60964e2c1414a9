SPECIFICATION Spec
CONSTANTS
  MaxConns = 2
  LoudConns = 1
  MaxItems = 3
  MaxOps = 3
  ReadLens = {1, 2}
INVARIANTS
  TypeOK
  InOrder
  NoLostWakeup
PROPERTIES
  TimedReadsReturn
