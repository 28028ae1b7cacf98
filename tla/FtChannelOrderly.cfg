\* Three connections and two hosts, while nobody misbehaves.
CONSTANTS
  a1 = a1
  a2 = a2
  a3 = a3
  h1 = h1
  h2 = h2
  Fds <- MCFds3
  Addrs <- MCAddrs3
  Nicks = {n1}
  Hosts <- MCHosts2
  Chans = {chan}
  Limits = {2}
  Star = Star
  Lost = Lost
  NoFd = 0
  Null = Null
  MaxMembers = 3
SPECIFICATION Spec
SYMMETRY Alike
CHECK_DEADLOCK FALSE
CONSTRAINT Orderly
INVARIANTS RightsEarned LimitKept BanKept
PROPERTY InviteKept
