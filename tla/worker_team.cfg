SPECIFICATION Spec
CONSTANTS
  r1 = r1
  p1 = p1
  p2 = p2
  Rust = {r1}
  Python = {p1, p2}
  Deployments = {{r1, p1}, {p1, p2}}
  NumRows = 3
  IntKey = {}
  QuotedKey = {}
  Refused = {}
  Malformed = {1}
  Touchable = {3}
  PollLimit = 2
  StatementsMayFail = FALSE
  MaxCrashes = 1
  MaxRuns = 5
INVARIANTS
  RunsBounded
PROPERTIES
  ImplementsFeed
CHECK_DEADLOCK FALSE
