\* Three descriptors for clients, four connections in all.
CONSTANTS
  MAX_CLIENTS = 4
  serversocket = 3
  LastFd = 6
  Bytes = {x}
  BufferSize = 1
  MaxOut = 1
  MaxInbox = 1
  MaxBacklog = 1
SPECIFICATION Spec
CHECK_DEADLOCK FALSE
INVARIANTS SetsOK
PROPERTIES ImplementsRelay KeepsServing
