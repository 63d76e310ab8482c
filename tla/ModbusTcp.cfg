CONSTANTS
  Conns = {c1, c2}
  Records = {r1, r2}
  ClientNum = 1
  Retry = 1
  ErrCount = 0
  NetQueue = 2
  LinkRetry = 1
  ModbusQueue = 3
  Disturbances = 2
  Null = Null
  Closed = Closed
SPECIFICATION ModbusSpec
INVARIANT ClientsConsistent
PROPERTY Serves
