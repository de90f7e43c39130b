\* README.md: the tracer hands on how its child ended.
SPECIFICATION Spec
CONSTANTS
  Nr <- PlainNr
  Kind <- PlainKind
  Table <- SYS_TABLE
  Signals = {"TRAP"}
  Fatal = {}
  Stopping = {}
  Continuing = {}
  ExitCodes = {0, 1}
  EarlyCont = FALSE
  KillsChild = TRUE
  MaxEvents = 2
  UserSends = {}
  KillsTracer = FALSE
INVARIANTS
  HandsOnTheEnd
