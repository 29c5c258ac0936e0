SPECIFICATION FairSpec
CONSTANTS
  t1 = t1
  t2 = t2
  first = first
  second = second
  Thread = {t1, t2}
  Callback = {first, second}
  Nested <- CommandCallback
  Urls <- AllForms
  Listening = {8000, 443}
  Buffers = {0, 1, 3}
INVARIANTS
  TypeOK
  OnlyRegisteredRuns
  HolderCanStep
  NulInside
  SameHostAsReal
PROPERTIES
  ConnectsWhereNamed
  CallsReturn
CHECK_DEADLOCK FALSE
