\* Two connections at two addresses, one channel.  No keys: a key only makes
\* JOIN refuse, which leaves all as it is.
CONSTANTS
  a1 = a1
  a2 = a2
  Fds <- MCFds2
  Addrs <- MCAddrs2
  Nicks = {n1, BotNICK}
  Chans = {chan}
  Keys = {}
  Topics = {topic}
  BotNick = BotNICK
  NoFd = 0
  NoNick = NoNick
  NoKey = NoKey
  NoTopic = NoTopic
  UserLimit = 2
  MaxNickList = 3
SPECIFICATION Spec
SYMMETRY Alike
CHECK_DEADLOCK FALSE
INVARIANTS TypeOK RegistrationOrder RosterExact OperatorOnChannel Routing
PROPERTIES CrashCause ImplementsRegistry
