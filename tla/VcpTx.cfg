SPECIFICATION Spec
CONSTANTS
  Bytes = {a, b}
  None = None
  QLen = 1
  BLen = 2
INVARIANTS TypeOK PermissionOwned
PROPERTIES SendsInOrder OutputFlows
