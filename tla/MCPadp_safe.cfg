SPECIFICATION WFairSpec
CONSTANTS
  MaxCalls = 3
  ReqFrags = {1, 2}
  RespFrags = {1, 2}
  TxRetries = 2
  TxidWrap = 6
  ChanCap = 3
  MaxLosses = 2
  MaxTickles = 1
  MaxMemErrs = 1
  DevTries = 1
  DevStrictAcks = TRUE
  Patient = FALSE
  HonorRxTimeout = TRUE
  FlushDiscards = TRUE
  GoesOn = FALSE
  MaxAlarms = 0
  InHandler = FALSE
INVARIANTS
  TypeOK
  OwnResponse
  WholeResponse
  AtMostOnce
PROPERTIES
  ImplementsRpc
  CallReturns
