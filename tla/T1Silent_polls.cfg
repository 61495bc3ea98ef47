SPECIFICATION SilentSpec
CONSTANTS
  Inf = {"a"}
  IFSCs = {1}
  MaxLen = 2
  MaxRecoveryCnt = 1
  MaxBlkRetryCnt = 1
  MaxWTXCnt = 1
  RxCapacity = 1
  TimeoutFirst = FALSE
INVARIANTS
  TypeOK
  RetriesBounded
  CommandBlocksOnly
  KeptPieceIsConsistent
PROPERTIES
  EscalationIsLastResort
  CallEndsWhenSilent
  NoRetryIsRefunded
