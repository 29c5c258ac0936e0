SPECIFICATION Spec
CONSTANTS
  r1 = r1
  p1 = p1
  p2 = p2
  Rust = {}
  Python = {p1, p2}
  Deployments = {{p1, p2}}
  NumRows = 1
  IntKey = {}
  QuotedKey = {}
  Refused = {}
  Malformed = {}
  Touchable = {}
  PollLimit = 2
  StatementsMayFail = FALSE
  MaxCrashes = 0
  MaxRuns = 3
INVARIANTS
  AvoidsDuplicates
CHECK_DEADLOCK FALSE
