\* Three clients, one byte at a time.
CONSTANTS
  maxfd = 7
  Listen = 3
  Bytes = {x}
  BufSize = 1
  MaxOut = 1
  MaxInbox = 1
  MaxBacklog = 1
SPECIFICATION Spec
CHECK_DEADLOCK FALSE
INVARIANTS TableOK NeverWaits
PROPERTIES ImplementsRelay FairToAll
