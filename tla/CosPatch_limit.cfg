SPECIFICATION Spec
CONSTANTS
  PatchFiles <- OnePatch
  RcvFile <- ShortRecovery
  ChipBase = "020100"
  BaseVer = 20
  HeadLines = 9
  VerChkDiff = TRUE
  ErasureProtection = TRUE
  ShortTime = 1
  LongTime = 2
  ShortCount = 2
  LongCount = 3
  MaxTime = 6
  MaxCrashes = 1
INVARIANT
  WithinLimit
