SPECIFICATION Spec
CONSTANTS
  MaxConns = 2
  LoudConns = 2
  MaxItems = 1
  MaxOps = 1
  ReadLens = {1}
CHECK_DEADLOCK FALSE
PROPERTIES
  AcceptReturns
