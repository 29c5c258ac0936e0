SPECIFICATION FairSpec
CONSTANTS
  call = call
  hangup = hangup
  play = play
  route = route
  Command = {call, hangup, play}
  Capital = {hangup}
  NumberKey = {play}
  QuotedKey = {}
  Refused = {call}
  Unprintable = {}
  Nestings = {{}}
  MaxTasks = 1
  MaxEvents = 3
PROPERTIES
  StreamStarts
CHECK_DEADLOCK FALSE
