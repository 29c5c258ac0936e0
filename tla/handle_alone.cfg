SPECIFICATION Spec
CONSTANTS
  sender = sender
  api1 = api1
  api2 = api2
  Caller = {sender}
  Op = {"publish", "update", "select", "get"}
  MaxConn = 3
  MaxCalls = 5
INVARIANTS
  TypeOK
  NoDanglingUse
  FailedNotReused
  OneConnection
  ReportIsOwn
CHECK_DEADLOCK FALSE
