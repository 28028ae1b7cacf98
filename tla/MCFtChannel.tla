---------------------------- MODULE MCFtChannel -----------------------------
(* Instances of FtChannel for TLC. *)
EXTENDS FtChannel

CONSTANTS a1, a2, a3, h1, h2

MCAddrs2 == {a1, a2}
MCAddrs3 == {a1, a2, a3}
MCFds2 == {4, 5}
MCFds3 == {4, 5, 6}

\* At most one ban and one invitation on a channel.
Short ==
  \A c \in DOMAIN channels : Len(channels[c].bans) < 2 /\ Len(channels[c].invites) < 2

\* Only behaviours in which nobody vanishes, joins twice, or goes while it is
\* banned or invited, and no command is half done.
Orderly == Short /\ deeds = {}

MCHosts1 == {h1}
MCHosts2 == {h1, h2}

\* Addresses, and hosts, are only compared for equality.
Alike == Permutations(Addrs) \cup Permutations(Hosts)
=============================================================================
