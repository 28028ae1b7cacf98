-------------------------------- MODULE Relay --------------------------------
(***************************************************************************)
(* What bircd and server_a.c promise: an atomic broadcast.  What one       *)
(* client says is taken in order, loses nothing, and is put at once and in *)
(* one piece behind everything the other clients were sent before, for     *)
(* each client that is connected at that moment, and not for the sender.   *)
(* Hence all clients see the same order.  Implemented by Bircd and         *)
(* TcpBroadcast (the instance Broadcast of each).                          *)
(***************************************************************************)
EXTENDS Naturals, Sequences

CONSTANTS Clients, Bytes

VARIABLES
  members,   \* connected clients
  outbox,    \* what each client has said and nobody was sent yet
  inbox      \* what each of them has still to read, each byte with its sender

vars == <<members, outbox, inbox>>

Silence == [c \in Clients |-> <<>>]

Init == members = {} /\ outbox = Silence /\ inbox = Silence

Enter(c) ==
  /\ c \notin members
  /\ outbox[c] = <<>>
  /\ members' = members \cup {c}
  /\ UNCHANGED <<outbox, inbox>>

\* What a client said before it left may still be posted.
Leave(c) ==
  /\ members' = members \ {c}
  /\ inbox' = [inbox EXCEPT ![c] = <<>>]
  /\ UNCHANGED outbox

Say(c, b) ==
  /\ c \in members
  /\ outbox' = [outbox EXCEPT ![c] = Append(@, b)]
  /\ UNCHANGED <<members, inbox>>

Post(s, n) ==
  /\ outbox' = [outbox EXCEPT ![s] = SubSeq(@, n + 1, Len(@))]
  /\ inbox' = [c \in Clients |->
                 IF c \in members \ {s}
                 THEN inbox[c] \o [k \in 1..n |-> <<s, outbox[s][k]>>]
                 ELSE inbox[c]]
  /\ UNCHANGED members

Hear(c) ==
  /\ inbox[c] # <<>>
  /\ inbox' = [inbox EXCEPT ![c] = Tail(@)]
  /\ UNCHANGED <<members, outbox>>

Next ==
  \E c \in Clients :
    \/ Enter(c) \/ Leave(c) \/ Hear(c)
    \/ \E b \in Bytes : Say(c, b)
    \/ \E n \in 1..Len(outbox[c]) : Post(c, n)

Spec == Init /\ [][Next]_vars
=============================================================================
