\* The line that names the signal the child died of.
SPECIFICATION Spec
CONSTANTS
  Nr <- PlainNr
  Kind <- PlainKind
  Table <- SYS_TABLE
  Signals = {"TRAP"}
  Fatal = {}
  Stopping = {}
  Continuing = {}
  ExitCodes = {0, 1}
  EarlyCont = FALSE
  KillsChild = FALSE
  MaxEvents = 2
  UserSends = {"TERM"}
  KillsTracer = FALSE
INVARIANTS
  KilledLineIsTrue
