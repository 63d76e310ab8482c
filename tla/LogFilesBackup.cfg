CONSTANTS
  Level = 2
  MaxGen = 5
  Faults = {}
  None = none
SPECIFICATION Spec
INVARIANT BackupTold
