\* Three connections and two nicks.
CONSTANTS
  Fds = {4, 5, 6}
  Nicks = {n1, n2}
  Star = Star
  NoFd = 0
SPECIFICATION Spec
CHECK_DEADLOCK FALSE
INVARIANTS TypeOK UserIsLoggedIn LoginPath
PROPERTY ImplementsRegistry
