SPECIFICATION Spec
CONSTANTS
  sender = sender
  api1 = api1
  api2 = api2
  Caller = {sender, api1}
  Op = {"publish"}
  MaxConn = 3
  MaxCalls = 4
INVARIANTS
  UnwrapFindsClient
CHECK_DEADLOCK FALSE
