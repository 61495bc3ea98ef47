SPECIFICATION TmlSpec
CONSTANTS
  MaxPackets = 2
  MaxWrites = 1
  MaxResets = 1
  Downloads = TRUE
CHECK_DEADLOCK FALSE
INVARIANTS
  EnabledReadIsServed
  PacketsOnceInOrder
  CloseFreesLast
PROPERTIES
  HalCallsReturn
  EveryPacketArrives
