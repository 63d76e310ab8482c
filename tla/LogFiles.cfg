CONSTANTS
  Level = 2
  MaxGen = 5
  Faults = {"remove", "rename"}
  None = none
SPECIFICATION Spec
INVARIANTS
  TypeOK
  OldestLast
  SavedOldestLast
  DeletionTold
PROPERTIES
  OnlyOldestLost
