\* Two connections at two addresses, one channel; members may be freed.
CONSTANTS
  a1 = a1
  a2 = a2
  a3 = a3
  h1 = h1
  h2 = h2
  Fds <- MCFds2
  Addrs <- MCAddrs2
  Nicks = {n1}
  Hosts <- MCHosts1
  Chans = {chan}
  Limits = {}
  Star = Star
  Lost = Lost
  NoFd = 0
  Null = Null
  MaxMembers = 2
SPECIFICATION Spec
SYMMETRY Alike
CHECK_DEADLOCK FALSE
CONSTRAINT Short
INVARIANTS TypeOK OperatorsAreMembers RosterExact StaleCause
