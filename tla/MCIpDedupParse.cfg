\* Lines of every kind, in up to two files, for one builder or both.
CONSTANTS
  W = 2
  Lines <- ParseLines
  Options = {"4", "6", "k", "s", "p"}
  FileArgs = {"-", "f"}
  LenArgs = {0}
  GuessedModes <- AllModes
  MayFail = {}
  MaxOptions = 3
  MaxFiles = 2
  MaxLines = 3
SPECIFICATION Spec
INVARIANTS
  OutputIsDedup
  KeepGoingPerFile
  IInv
