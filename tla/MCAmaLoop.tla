------------------------------ MODULE MCAmaLoop ------------------------------
(* Instances of AmaLoop for TLC. *)
EXTENDS AmaLoop

MCFds == {4, 5}
MCFds3 == {4, 5, 6}
=============================================================================
