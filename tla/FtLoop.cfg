\* Two connections at a time, on sockets that wait and on sockets that do not,
\* and a vector that outgrows what poll() takes.
CONSTANTS
  Fds = {1, 2}
  Limit = 4
  MaxSends = 2
SPECIFICATION Spec
CHECK_DEADLOCK FALSE
INVARIANTS PollFdsOK NeverWaits
PROPERTIES Served SignalEnds
