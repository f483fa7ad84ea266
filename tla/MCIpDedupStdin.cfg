\* Standard input as input and as purge file.
CONSTANTS
  W = 2
  Lines <- OneLine
  Options = {"p"}
  FileArgs = {"-"}
  LenArgs = {0}
  GuessedModes <- Names
  MayFail = {}
  MaxOptions = 2
  MaxFiles = 1
  MaxLines = 2
SPECIFICATION Spec
INVARIANTS
  StdinReadOnce
