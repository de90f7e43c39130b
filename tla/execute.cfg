\* One command, two descendants, two pipes.
SPECIFICATION Spec
CONSTANTS
  Leader = leader
  Descendants = {p, q}
  PipeSize = 1
  MaxWritten = 2
INVARIANTS
  TypeOK
  OutputWhole
  OwnStatus
  GroupDies
PROPERTIES
  CaptureEnds
