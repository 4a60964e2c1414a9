SPECIFICATION WSpec
CONSTANTS
  MaxCalls = 3
  ReqFrags = {1}
  RespFrags = {1, 3}
  TxRetries = 4
  TxidWrap = 6
  ChanCap = 5
  MaxLosses = 3
  MaxTickles = 0
  MaxMemErrs = 0
  DevTries = 3
  DevStrictAcks = TRUE
  Patient = TRUE
  HonorRxTimeout = TRUE
  FlushDiscards = TRUE
  GoesOn = FALSE
  MaxAlarms = 2
  InHandler = FALSE
INVARIANTS
  
  NoNeedlessRetry
  TicklesHarmless
