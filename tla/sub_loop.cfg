SPECIFICATION FairSpec
CONSTANTS
  call = call
  hangup = hangup
  play = play
  route = route
  Command = {call, hangup, play, route}
  Capital = {hangup}
  NumberKey = {play}
  QuotedKey = {route}
  Refused = {call}
  Unprintable = {}
  Nestings = {{}, {"open_client"}, {"open_client", "surreal_update"}}
  MaxTasks = 2
  MaxEvents = 3
INVARIANTS
  TypeOK
  OfferedThenRun
  LastCommandOnly
  NothingAbandoned
PROPERTIES
  ImplementsFeed
  UnsubscribedEnds
CHECK_DEADLOCK FALSE
