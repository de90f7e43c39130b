\* Every interleaving of the trace loop with signals, stops and SIGKILLs.
SPECIFICATION Spec
CONSTANTS
  Nr <- PlainNr
  Kind <- PlainKind
  Table <- SYS_TABLE
  Signals = {"TRAP", "TERM", "TSTP", "CONT"}
  Fatal = {"TERM"}
  Stopping = {"TSTP"}
  Continuing = {"CONT"}
  ExitCodes = {0, 1}
  EarlyCont = FALSE
  KillsChild = TRUE
  MaxEvents = 3
  UserSends = {"INT"}
  KillsTracer = TRUE
INVARIANTS
  StraceTypeOK
  ToggleInStep
  InjectsWhatItTook
  SignalsConserved
  FailOnlyIfKilled
PROPERTIES
  RecordsTheChild
  SeizedDiesWithTracer
