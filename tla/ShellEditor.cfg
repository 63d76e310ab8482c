CONSTANTS
  Space = sp
  NUL = nul
  Chars = {a, sp}
  CmdlineLen = 3
  HistoryLen = 5
SPECIFICATION Spec
INVARIANTS
  TypeOK
  LineTerminated
  HistoryWellFormed
  IndexInHistory
PROPERTIES
  ImplementsCommandLine
  ImplementsCommandHistory
