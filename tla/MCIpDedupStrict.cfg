\* -s and a network of prefix length 0 with host bits.
CONSTANTS
  W = 2
  Lines <- ZeroLine
  Options = {"s"}
  FileArgs = {"-"}
  LenArgs = {0}
  GuessedModes <- Names
  MayFail = {}
  MaxOptions = 2
  MaxFiles = 1
  MaxLines = 2
SPECIFICATION Spec
INVARIANTS
  StrictRejectsHostBits
