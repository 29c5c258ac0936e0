SPECIFICATION Spec
CONSTANTS
  sender = sender
  api1 = api1
  api2 = api2
  Caller = {sender, api1, api2}
  Op = {"publish", "select"}
  MaxConn = 3
  MaxCalls = 3
SYMMETRY CallerSymmetry
INVARIANTS
  SafeUntilFailure
CHECK_DEADLOCK FALSE
