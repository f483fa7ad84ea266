\* -B with a number above the maximum.
CONSTANTS
  W = 2
  Lines <- OneLine
  Options = {"B", "C"}
  FileArgs = {"-"}
  LenArgs = {0, 200}
  GuessedModes <- Names
  MayFail = {}
  MaxOptions = 2
  MaxFiles = 1
  MaxLines = 2
SPECIFICATION Spec
INVARIANTS
  CollapseLenRejected
