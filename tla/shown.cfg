\* Buffers, strings, vectors, numbers and results of both ABIs.
SPECIFICATION Spec
CONSTANTS
  Base = 8
  PageSize = 2
  Cases <- MCCases
  MaxWrites = 2
  ByteCap = 4
  StringCap = 3
  ArgvCap = 2
  MaxErrno = 3
  Printable = {1, 3, 4, 5, 6, 7}
  Quote = 1
  Backslash = 3
  Digits <- MCDigits
INVARIANTS
  TypeOK
  RegistersTrue
  BuffersTrue
  StringsTrue
  VectorsTrue
  QuotesDelimit
  NumbersTrue
  ErrorsTrue
