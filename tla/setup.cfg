\* fork, SIGSTOP, seizure and all three handlers, with an early SIGCONT.
SPECIFICATION Spec
CONSTANTS
  Nr <- StartNr
  Kind <- StartKind
  Table <- SYS_TABLE
  Signals = {"TRAP", "CONT", "TERM"}
  Fatal = {"TERM"}
  Stopping = {}
  Continuing = {"CONT"}
  ExitCodes = {0}
  EarlyCont = TRUE
  KillsChild = TRUE
  MaxEvents = 2
  UserSends = {"INT", "TERM"}
  KillsTracer = TRUE
INVARIANTS
  NoChildLeftBehind
  NothingEscapes
  KillsItsChild
