\* The two tables, read by the generator and by ft_strace.  The generator ends.
SPECIFICATION Spec
CONSTANTS
  Sources <- MCSources
  ArgTypes = {"0", "NONE", "INT", "STR", "VSTR", "INPUT_BYTES", "OUTPUT_BYTES"}
  MaxArgs <- ArgTypeSlots
INVARIANTS
  TypeOK
  GapsExact
  RecognisedAsListed
  ArgumentsTyped
CHECK_DEADLOCK FALSE
