\* Three connections and the listening socket.
CONSTANTS
  Fds <- MCFds3
  Listen = 3
  MaxPending = 1
SPECIFICATION LoopSpec
CHECK_DEADLOCK FALSE
INVARIANTS PollSetOK NoStaleEvent
PROPERTIES FairToAll SignalHeeded
