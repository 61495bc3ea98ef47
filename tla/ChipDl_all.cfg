SPECIFICATION Spec
CONSTANTS
  Scenes <- AllScenes
  VenToggle = TRUE
  ChkVer = TRUE
  MaxFaults = 1
CHECK_DEADLOCK FALSE
INVARIANTS
  PinReleased
  NothingKept
PROPERTIES
  FwUpdate
  DownloadsEnd
