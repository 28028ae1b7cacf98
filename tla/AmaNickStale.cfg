\* Nick.cpp on an entry of the nick list: "Nickname already using."
CONSTANTS
  a1 = a1
  a2 = a2
  Fds <- MCFds2
  Addrs <- MCAddrs2
  Nicks = {n1, BotNICK}
  Chans = {chan}
  Keys = {}
  Topics = {topic}
  BotNick = BotNICK
  NoFd = 0
  NoNick = NoNick
  NoKey = NoKey
  NoTopic = NoTopic
  UserLimit = 2
  MaxNickList = 3
SPECIFICATION Spec
SYMMETRY Alike
CHECK_DEADLOCK FALSE
INVARIANT TakenMeansInUse
