\* System calls of both ABIs, and execve from one to the other.
SPECIFICATION Spec
CONSTANTS
  Nr <- MCNr
  Kind <- MCKind
  Table <- SYS_TABLE
  Signals = {"TRAP"}
  Fatal = {}
  Stopping = {}
  Continuing = {}
  ExitCodes = {0, 1}
  EarlyCont = FALSE
  KillsChild = TRUE
  MaxEvents = 7
  UserSends = {}
  KillsTracer = FALSE
INVARIANTS
  CallLineComplete
  DecodedInTime
  ModeAnnounced
