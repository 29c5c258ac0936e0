SPECIFICATION Spec
CONSTANTS
  hangup = hangup
  dtmf = dtmf
  dtmf2 = dtmf2
  d1 = d1
  d2 = d2
  NoMsg = NoMsg
  Event = {hangup, dtmf}
  Hangup = {hangup}
  EventFilter <- AllFilter
  Dispatcher = {d1, d2}
  SendQueueSize = 1
  CircuitBreaker = 1
  MaxTime = 2
PROPERTIES
  CdrDestroyedOnceWritten
CHECK_DEADLOCK FALSE
