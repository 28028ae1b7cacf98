---------------------------- MODULE NickRegistry -----------------------------
(***************************************************************************)
(* What the server promises about nicks: a nick is held by at most one     *)
(* connection, a connection holds at most one nick, and a nick changes     *)
(* hands only after its holder took another one or went away.              *)
(* AmaServer and FtSessions implement this (their Registry).               *)
(***************************************************************************)
CONSTANTS Fds, Nicks

VARIABLE held   \* pairs <<connection, nick>>

Init == held = {}

Free(n) == \A p \in held : p[2] # n

Claim(f, n) ==
  /\ Free(n)
  /\ held' = {p \in held : p[1] # f} \cup {<<f, n>>}

Release(f) == held' = {p \in held : p[1] # f}

Next == \E f \in Fds : Release(f) \/ \E n \in Nicks : Claim(f, n)

Spec == Init /\ [][Next]_held
=============================================================================
