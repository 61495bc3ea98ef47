SPECIFICATION Spec
CONSTANTS
  MaxCalls = 3
  MaxRetry = 1
  MaxSilent = 1
  MaxNtf = 2
  MaxWire = 1
CHECK_DEADLOCK FALSE
INVARIANTS
  OwnAnswer
  StackHears
