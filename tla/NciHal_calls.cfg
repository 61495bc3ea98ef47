SPECIFICATION HalSpec
CONSTANTS
  Kinds = {"cmd", "data", "local", "config", "reset"}
  Losses = {"rsp"}
  MaxCalls = 3
  MaxEvents = 1
  MaxRetry = 1
  Overlap = FALSE
INVARIANTS OneCommandAtNfcc StackSeesItsPackets WindowComesBack ExtOwnAnswer
PROPERTY CallsReturn
CHECK_DEADLOCK FALSE
