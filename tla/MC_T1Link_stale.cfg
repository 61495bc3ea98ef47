SPECIFICATION LinkSpec
CONSTANTS
  Calls = {1, 2, 3, 4}
  Blocks = {1, 2}
  Inf <- ResponseInf
  IFSCs = {1}
  MaxLen = 3
  MaxRecoveryCnt = 3
  MaxBlkRetryCnt = 1
  MaxWTXCnt = 8
  RxCapacity = 8
  TimeoutFirst = FALSE
  MaxCalls = 4
  MaxFaults = 6
  MaxHostFaults = 2
  MaxWait = 1
  RspBlocks = 2
  ResetAfterFailure = TRUE
CHECK_DEADLOCK FALSE
INVARIANT
  OwnResponse
