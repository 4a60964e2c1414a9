SPECIFICATION Spec
CONSTANTS
  MaxPackets = 3
  Payloads <- MCPayloads
  HeaderRest = 3
  Room = 3
  MaxLine = 0
  MaxHarms = 1
  MaxAlarms = 1
INVARIANTS
  TypeOK
  InOrder
  LossBounded
PROPERTIES
  TimedReadsReturn
