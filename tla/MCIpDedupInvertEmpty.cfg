\* -i and an empty input.
CONSTANTS
  W = 2
  Lines <- OneLine
  Options = {"i"}
  FileArgs = {"-"}
  LenArgs = {0}
  GuessedModes <- Names
  MayFail = {}
  MaxOptions = 2
  MaxFiles = 1
  MaxLines = 2
SPECIFICATION Spec
INVARIANTS
  InvertListsTheRest
