SPECIFICATION ServiceSpec
CONSTANTS
  Visitors = {c, r}
  Holders = {}
  Loaders = {}
  OpenMayFail = FALSE
  MemoryMayFail = FALSE
  MaxOpened = 3
  Client = c
  Retrier = r
  Channels = {0, 1, 2, 3}
  MaxTries = 2
  MaxCounted = 4
  ExchangeMayFail = TRUE
  AnswerMayBeLost = FALSE
  InitMayFail = TRUE
  ClientMayDie = TRUE
  Careful = TRUE
  Patient = TRUE
INVARIANTS
  CountIsChannels
  ClosesWithoutChannels
PROPERTIES
  LastCloseReleases
  CallReturns
CHECK_DEADLOCK FALSE
