SPECIFICATION FairSpec
CONSTANTS
  hangup = hangup
  dtmf = dtmf
  dtmf2 = dtmf2
  d1 = d1
  d2 = d2
  NoMsg = NoMsg
  Event = {hangup, dtmf, dtmf2}
  Hangup = {hangup}
  EventFilter <- AllFilter
  Dispatcher = {d1, d2}
  SendQueueSize = 2
  CircuitBreaker = 1
  MaxTime = 2
INVARIANTS
  TypeOK
  IInv
  HeapAccounted
  OneOwner
  NothingLeaks
  QueueOutlivesHandlers
  SenderOutlived
  BoundIsServed
  BreakerBounded
PROPERTIES
  ImplementsFifo
  SettlesQueued
  ShutdownCompletes
CHECK_DEADLOCK FALSE
