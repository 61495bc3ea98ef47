SPECIFICATION Spec
CONSTANTS
  PatchFiles <- Patches
  RcvFile <- Recovery
  ChipBase = "020100"
  BaseVer = 20
  HeadLines = 9
  VerChkDiff = TRUE
  ErasureProtection = TRUE
  ShortTime = 1
  LongTime = 2
  ShortCount = 2
  LongCount = 3
  MaxTime = 3
  MaxCrashes = 1
INVARIANTS
  RecoveredInTimeIsWhole
  OperandsOutliveThread
PROPERTIES
  PatchUpdate
  CallReturns
