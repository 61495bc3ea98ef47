SPECIFICATION ServiceSpec
CONSTANTS
  Visitors = {c, r}
  Holders = {h}
  Loaders = {}
  OpenMayFail = FALSE
  MemoryMayFail = FALSE
  MaxOpened = 2
  Client = c
  Retrier = r
  Channels = {0, 1}
  MaxTries = 2
  MaxCounted = 1
  ExchangeMayFail = TRUE
  AnswerMayBeLost = TRUE
  InitMayFail = FALSE
  ClientMayDie = TRUE
  Careful = FALSE
  Patient = TRUE
INVARIANTS
  HolderKeepsLibrary
CHECK_DEADLOCK FALSE
