\* SignalHandler.cpp: "ctrl c exit signal".
CONSTANTS
  Fds <- MCFds
  Listen = 3
  MaxPending = 1
SPECIFICATION LoopSpec
CHECK_DEADLOCK FALSE
PROPERTY CtrlCExits
