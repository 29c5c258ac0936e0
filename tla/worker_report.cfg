SPECIFICATION FairSpec
CONSTANTS
  r1 = r1
  p1 = p1
  p2 = p2
  Rust = {}
  Python = {p1}
  Deployments = {{p1}}
  NumRows = 1
  IntKey = {}
  QuotedKey = {}
  Refused = {}
  Malformed = {}
  Touchable = {}
  PollLimit = 2
  StatementsMayFail = TRUE
  MaxCrashes = 0
  MaxRuns = 3
PROPERTIES
  ResultWrittenBack
CHECK_DEADLOCK FALSE
