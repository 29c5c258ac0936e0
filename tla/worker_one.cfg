SPECIFICATION FairSpec
CONSTANTS
  r1 = r1
  p1 = p1
  p2 = p2
  Rust = {r1}
  Python = {p1}
  Deployments = {{r1}, {p1}}
  NumRows = 5
  IntKey = {1}
  QuotedKey = {3}
  Refused = {4}
  Malformed = {2}
  Touchable = {5}
  PollLimit = 4
  StatementsMayFail = FALSE
  MaxCrashes = 1
  MaxRuns = 3
INVARIANTS
  TypeOK
  RunsBounded
  RunIsClaimed
  DoneWasRun
PROPERTIES
  ImplementsFeed
  ResultKept
  PollSettles
CHECK_DEADLOCK FALSE
