SPECIFICATION LinkSpec
CONSTANTS
  Calls = {1, 2, 3, 4, 5}
  Blocks = {1, 2, 3}
  Inf <- ResponseInf
  IFSCs = {1}
  MaxLen = 3
  MaxRecoveryCnt = 2
  MaxBlkRetryCnt = 1
  MaxWTXCnt = 8
  RxCapacity = 7
  TimeoutFirst = FALSE
  MaxCalls = 5
  MaxFaults = 6
  MaxHostFaults = 1
  MaxWait = 1
  RspBlocks = 3
  ResetAfterFailure = TRUE
CHECK_DEADLOCK FALSE
INVARIANTS
  OwnResponseIfClean
  ExecutedOnce
  CommandIntact
PROPERTIES
  ExchangeEnds
  OneFaultIsMasked
