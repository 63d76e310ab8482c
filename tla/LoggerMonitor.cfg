CONSTANTS
  Producers = {p1}
  Bufs = {b1, b2}
  Const = const
  None = none
  QLen = 1
  MLen = 1
  Limit = 1
  MaxSize = 4
  Faults = {FALSE, TRUE}
SPECIFICATION Spec
INVARIANT MonitorLeavesNothing
