SPECIFICATION Spec
CONSTANTS
  MaxCalls = 2
  ReqLens = {2}
  RespLens = {2}
  TxidWrap = 3
  PacketMax = 2
  Lenient = {2}
  MaxAlarms = 1
  MaxTickles = 1
  MaxFaults = 1
  MaxCloses = 1
INVARIANTS
  TypeOK
  OwnResponse
  CloseHonest
  CallsSucceed
PROPERTIES
  ImplementsRpc
  
