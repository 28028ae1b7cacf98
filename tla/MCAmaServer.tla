----------------------------- MODULE MCAmaServer -----------------------------
(* Instances of AmaServer for TLC. *)
EXTENDS AmaServer

CONSTANTS a1, a2

MCAddrs2 == {a1, a2}
MCFds2 == {4, 5}

\* Addresses are only compared for equality.
Alike == Permutations({a1, a2})
=============================================================================
