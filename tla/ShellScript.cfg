CONSTANTS
  Buffers = {b1, b2}
  Static = static
  None = none
  Texts <- MCTexts
  MaxWords = 2
SPECIFICATION Spec
SYMMETRY Symmetric
INVARIANTS
  TypeOK
  ScriptOwned
  ErrorStops
PROPERTIES
  DataNeverRuns
