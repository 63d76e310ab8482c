SPECIFICATION Spec
CONSTANTS
  old = old
  new = new
  Images = {old, new}
  Offered = {new}
  Size <- MCSize
  AppWords = 3
  UpWords = 3
  SectorWords <- MCSectorWords
  Segment = 2
  Erased = Erased
  Garbage = Garbage
  None = None
INVARIANTS TypeOK RunsWhole Recoverable
PROPERTIES UpgradeCompletes
