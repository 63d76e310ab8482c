SPECIFICATION Spec
CONSTANTS
  Bytes = {a}
  None = None
  QLen = 1
  BLen = 1
PROPERTY AdaptsBack
