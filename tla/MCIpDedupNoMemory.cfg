\* Memory runs out.
CONSTANTS
  W = 2
  Lines <- OneLine
  Options = {"i", "p", "l"}
  FileArgs = {"-"}
  LenArgs = {0}
  GuessedModes <- Names
  MayFail = {"memory"}
  MaxOptions = 2
  MaxFiles = 1
  MaxLines = 2
SPECIFICATION Spec
INVARIANTS
  NoMemoryIs71
