\* Everything main_run() does after the input, with every kind of failure.
CONSTANTS
  W = 2
  Lines <- FewLines
  Options = {"a", "B", "C", "c", "i", "p", "o", "D", "l", "r", "J", "h", "L"}
  FileArgs = {"", "-", "@", "@f"}
  LenArgs = {1, 200, 256}
  GuessedModes <- Names
  MayFail = {"memory", "read", "open", "create"}
  MaxOptions = 3
  MaxFiles = 1
  MaxLines = 2
SPECIFICATION Spec
INVARIANTS
  TypeOK
  OutputIsDedup
  OutfileAfterInput
  IInv
