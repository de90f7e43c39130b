\* What has to happen eventually.
SPECIFICATION FairSpec
CONSTANTS
  Nr <- PlainNr
  Kind <- PlainKind
  Table <- SYS_TABLE
  Signals = {"TRAP", "TSTP", "TERM"}
  Fatal = {"TERM"}
  Stopping = {"TSTP"}
  Continuing = {}
  ExitCodes = {0}
  EarlyCont = FALSE
  KillsChild = TRUE
  MaxEvents = 2
  UserSends = {"INT"}
  KillsTracer = TRUE
PROPERTIES
  StopsAreAnswered
  DeathEndsTracer
  InterruptEnds
  SetupEnds
