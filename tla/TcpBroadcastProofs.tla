------------------------- MODULE TcpBroadcastProofs -------------------------
(* Theorems about TcpBroadcast, for every value of its constants. *)
EXTENDS TcpBroadcast, SharedLemmas

(***************************************************************************)
(* What stays true from step to step.  The loop of sends has nobody left   *)
(* when it is not running, a descriptor that is not connected has said     *)
(* nothing, maxfd is above all that are, and whatever bit is still in      *)
(* front of the loop, during the sends too, is one of an open connection   *)
(* that can be read.                                                       *)
(***************************************************************************)
AheadOK ==
  /\ pc = "scan" => \A s \in read_set : s >= fd => s \in current /\ Readable(s)
  /\ pc = "send" => \A s \in read_set : s > fd => s \in current /\ Readable(s)

SInv ==
  /\ TypeOK
  /\ AheadOK
  /\ pc \in {"select", "scan", "overrun"} => todo = {}
  /\ pc \in {"send", "killed"} => fd \in Clients
  /\ \A c \in Clients \ Connected : outbox[c] = <<>>
  /\ \A c \in Connected : c <= maxfd

LEMMA InitInvariant == Init => SInv
<1> SUFFICES ASSUME Init PROVE SInv
  OBVIOUS
<1>1. Connected = {}
  BY DEF Init, Connected
<1>2. TypeOK
  BY <1>1, TcpConstants, EmptySeq DEF Init, TypeOK, Clients, Mail
<1> QED
  BY <1>1, <1>2 DEF Init, SInv, AheadOK

LEMMA Ranges ==
  ASSUME SInv
  PROVE  /\ Clients \subseteq Nat /\ serversocket \notin Clients
         /\ fd \in Nat /\ maxfd \in Nat /\ serversocket \in Nat
         /\ \A c \in Clients : c > serversocket
         /\ \A s \in read_set : s \in Nat /\ (s = serversocket \/ s \in Clients)
         /\ \A c \in Clients : outbox[c] \in Seq(Bytes) /\ inbox[c] \in Mail
<1>1. serversocket \in Nat /\ LastFd \in Nat /\ serversocket < LastFd
  BY TcpConstants
<1> QED
  BY <1>1 DEF SInv, TypeOK, Clients

-----------------------------------------------------------------------------
(* The steps keep it. *)

LEMMA WorldKeeps ==
  ASSUME SInv, World
  PROVE  SInv'
<1> USE Ranges
<1>1. CASE Connect
  <2>1. backlog' \in 0..MaxBacklog /\ backlog' > 0
    BY <1>1, TcpConstants DEF Connect, SInv, TypeOK
  <2>2. Connected' = Connected
    BY <1>1 DEF Connect, server, Connected
  <2>3. TypeOK'
    BY <1>1, <2>1, <2>2 DEF Connect, server, SInv, TypeOK
  <2>4. AheadOK'
    BY <1>1, <2>1 DEF Connect, server, SInv, AheadOK, Readable
  <2> QED
    BY <1>1, <2>2, <2>3, <2>4 DEF Connect, server, SInv
<1>2. ASSUME NEW c \in Clients, Hear(c) PROVE SInv'
  <2>1. Tail(inbox[c]) \in Mail
    BY <1>2, HeadTailProperties DEF Hear, Mail
  <2>2. Connected' = Connected
    BY <1>2 DEF Hear, server, Connected
  <2>3. TypeOK'
    BY <1>2, <2>1, <2>2 DEF Hear, server, SInv, TypeOK
  <2>4. AheadOK'
    BY <1>2 DEF Hear, server, SInv, AheadOK, Readable
  <2> QED
    BY <1>2, <2>2, <2>3, <2>4 DEF Hear, server, SInv
<1>3. ASSUME NEW c \in Clients, HangUp(c) PROVE SInv'
  <2>1. <<>> \in Mail
    BY EmptySeq DEF Mail
  <2>2. Connected' = Connected
    BY <1>3 DEF HangUp, server, Connected
  <2>3. TypeOK'
    BY <1>3, <2>1, <2>2 DEF HangUp, server, SInv, TypeOK
  <2>4. \A d \in Clients : peer[d] # "up" => peer'[d] # "up"
    BY <1>3 DEF HangUp, SInv, TypeOK
  <2>5. AheadOK'
    BY <1>3, <2>4 DEF HangUp, server, SInv, AheadOK, Readable
  <2> QED
    BY <1>3, <2>2, <2>3, <2>5 DEF HangUp, server, SInv
<1>4. ASSUME NEW c \in Clients, NEW b \in Bytes, Say(c, b) PROVE SInv'
  <2>1. Append(outbox[c], b) \in Seq(Bytes) /\ Append(outbox[c], b) # <<>>
    BY AppendProperties
  <2>2. Connected' = Connected /\ c \in Connected
    BY <1>4 DEF Say, server, Connected
  <2>3. TypeOK'
    BY <1>4, <2>1, <2>2 DEF Say, server, SInv, TypeOK
  <2>4. outbox' \in [Clients -> Seq(Bytes)] /\ outbox'[c] # <<>>
        /\ \A d \in Clients \ {c} : outbox'[d] = outbox[d]
    BY <1>4, <2>1 DEF Say, SInv, TypeOK
  <2>5. AheadOK'
    BY <1>4, <2>4 DEF Say, server, SInv, AheadOK, Readable
  <2> QED
    BY <1>4, <2>2, <2>3, <2>4, <2>5 DEF Say, server, SInv
<1> QED
  BY <1>1, <1>2, <1>3, <1>4 DEF World

LEMMA AcceptKeeps ==
  ASSUME SInv, Accept
  PROVE  SInv'
<1> USE Ranges
<1>0. /\ pc = "scan" /\ fd = serversocket /\ fd \in read_set /\ todo = {}
      /\ backlog \in 1..MaxBacklog /\ fd + 1 \in 0..LastFd + 1
  BY TcpConstants DEF Accept, At, SInv, AheadOK, Readable, TypeOK
<1>1. ASSUME NEW c \in Clients \ Connected, InArray(i),
             current' = current \cup {c}, maxfd' = Higher(c), i' = i + 1,
             backlog' = backlog - 1, peer' = [peer EXCEPT ![c] = "up"],
             fd' = fd + 1, pc' = pc
      PROVE SInv'
  <2>0. UNCHANGED <<read_set, buf, todo, outbox, inbox>>
    BY DEF Accept
  <2>1. Connected' = Connected \cup {c}
    BY <1>1 DEF Connected
  <2>2. maxfd' = IF c >= maxfd THEN c ELSE maxfd
    BY <1>1, MaxOfTwo DEF Higher
  <2>3. maxfd' \in serversocket..LastFd
    BY <1>1, <2>2, TcpConstants DEF SInv, TypeOK, Clients
  <2>4. i' \in 0..MAX_CLIENTS
    BY <1>1, TcpConstants DEF SInv, TypeOK, InArray
  <2>5. backlog' \in 0..MaxBacklog
    BY <1>0, <1>1, TcpConstants
  <2>6. TypeOK'
    BY <1>0, <1>1, <2>0, <2>1, <2>3, <2>4, <2>5 DEF SInv, TypeOK
  <2>7. \A s \in read_set : s >= fd => s \in current /\ Readable(s)
    BY <1>0 DEF SInv, AheadOK
  <2>8. AheadOK'
    <3>1. ASSUME NEW s \in read_set, s >= fd + 1 PROVE s \in current /\ Readable(s)'
      <4>1. s \in current /\ Readable(s) /\ s # serversocket /\ s \in Clients
        BY <1>0, <2>7, <3>1
      <4>2. s # c
        BY <4>1 DEF Connected
      <4> QED
        BY <1>1, <2>0, <4>1, <4>2 DEF Readable, SInv, TypeOK
    <3> QED
      BY <1>0, <1>1, <2>0, <3>1 DEF AheadOK
  <2>9. \A d \in Connected' : d <= maxfd'
    <3>1. \A d \in Connected : d <= maxfd /\ d \in Nat
      BY DEF SInv, TypeOK
    <3> QED
      BY <2>1, <2>2, <3>1
  <2>10. \A d \in Clients \ Connected' : outbox'[d] = <<>>
    BY <2>0, <2>1 DEF SInv
  <2> QED
    BY <1>0, <1>1, <2>0, <2>6, <2>8, <2>9, <2>10 DEF SInv
<1>2. CASE /\ Connected # Clients /\ ~InArray(i)
           /\ pc' = "overrun"
           /\ UNCHANGED <<current, maxfd, i, backlog, peer, fd>>
  <2>1. Connected' = Connected
    BY <1>2 DEF Connected
  <2> QED
    BY <1>0, <1>2, <2>1 DEF Accept, SInv, TypeOK, AheadOK
<1>3. CASE /\ Connected = Clients
           /\ fd' = fd + 1
           /\ UNCHANGED <<pc, current, maxfd, i, backlog, peer>>
  <2>1. Connected' = Connected
    BY <1>3 DEF Connected
  <2>2. AheadOK'
    BY <1>0, <1>3 DEF Accept, SInv, AheadOK, Readable
  <2> QED
    BY <1>0, <1>3, <2>1, <2>2 DEF Accept, SInv, TypeOK
<1> QED
  BY <1>1, <1>2, <1>3 DEF Accept, Advance

LEMMA ReadKeeps ==
  ASSUME SInv, NEW c \in Clients, Read(c)
  PROVE  SInv'
<1> USE Ranges
<1> DEFINE n == Min({BufferSize, Len(outbox[c])})
<1>0. pc = "scan" /\ fd = c /\ fd \in read_set
  BY DEF Read, At
<1>1. /\ n \in 1..Len(outbox[c]) /\ n <= BufferSize
      /\ buf' = SubSeq(outbox[c], 1, n)
      /\ outbox' = [outbox EXCEPT ![c] = SubSeq(@, n + 1, Len(@))]
  <2>1. Len(outbox[c]) \in Nat \ {0}
    BY EmptySeq DEF Read
  <2>2. n = IF BufferSize <= Len(outbox[c]) THEN BufferSize ELSE Len(outbox[c])
    BY <2>1, MinOfTwo, TcpConstants
  <2>3. /\ buf' = SubSeq(outbox[c], 1, n)
        /\ outbox' = [outbox EXCEPT ![c] = SubSeq(@, n + 1, Len(@))]
    BY DEF Read
  <2> HIDE DEF n
  <2> QED
    BY <2>1, <2>2, <2>3, TcpConstants
<1> HIDE DEF n
<1>2. /\ buf' \in Seq(Bytes) /\ Len(buf') <= BufferSize
      /\ SubSeq(outbox[c], n + 1, Len(outbox[c])) \in Seq(Bytes)
  BY <1>1, Cut
<1>3. Connected' = Connected /\ todo' \subseteq Connected
  BY DEF Read, Connected, Audience
<1>4. TypeOK'
  <2>1. outbox' \in [Clients -> Seq(Bytes)]
    BY <1>1, <1>2 DEF SInv, TypeOK
  <2>2. /\ pc' = "send"
        /\ UNCHANGED <<current, read_set, maxfd, fd, i, inbox, peer, backlog>>
    BY DEF Read
  <2> QED
    BY <1>2, <1>3, <2>1, <2>2 DEF SInv, TypeOK
<1>5. AheadOK'
  <2>1. ASSUME NEW s \in read_set, s > fd PROVE s \in current /\ Readable(s)'
    <3>1. s \in current /\ Readable(s) /\ s # c
      BY <1>0, <2>1 DEF SInv, AheadOK
    <3>2. UNCHANGED <<peer, backlog>> /\ (s \in Clients => outbox'[s] = outbox[s])
      BY <1>1, <3>1 DEF Read, SInv, TypeOK
    <3>3. s = serversocket \/ s \in Clients
      BY <2>1
    <3> QED
      BY <3>1, <3>2, <3>3 DEF Readable
  <2> QED
    BY <2>1 DEF Read, AheadOK
<1>6. c \in Connected
  BY <1>0 DEF SInv, AheadOK, Connected
<1> QED
  BY <1>0, <1>1, <1>3, <1>4, <1>5, <1>6 DEF Read, SInv, TypeOK

LEMMA SendKeeps ==
  ASSUME SInv, Send
  PROVE  SInv'
<1> USE Ranges
<1> DEFINE d == Min(todo)
<1>0. pc = "send" /\ fd \in Clients
  BY DEF Send, SInv
<1>1. d \in todo /\ d \in Connected /\ d \in Clients
  BY MinProperties DEF Send, SInv, TypeOK
<1>2. Connected' = Connected /\ todo' \subseteq Connected
  BY DEF Send, Connected, SInv, TypeOK
<1> HIDE DEF d
<1>3. inbox' \in [Clients -> Mail]
  <2>1. Tagged \in Mail
    BY <1>0, TaggedProperties DEF Tagged, SInv, TypeOK, Mail
  <2>2. inbox[d] \o Tagged \in Mail
    BY <1>1, <2>1, ConcatProperties DEF Mail
  <2>3. inbox' \in {inbox, [inbox EXCEPT ![d] = inbox[d] \o Tagged]}
    BY DEF Send, d
  <2> QED
    BY <1>1, <2>2, <2>3 DEF SInv, TypeOK
<1>4. /\ peer' \in [Clients -> {"up", "closed", "broken"}]
      /\ \A c \in Clients : peer[c] # "up" => peer'[c] # "up"
  <2>1. peer' \in {peer, [peer EXCEPT ![d] = "broken"]}
    BY DEF Send, d
  <2> QED
    BY <1>1, <2>1 DEF SInv, TypeOK
<1>5. pc' \in {"send", "killed"}
  BY <1>0 DEF Send
<1>6. UNCHANGED <<current, read_set, maxfd, fd, i, buf, outbox, backlog>>
  BY DEF Send
<1>7. TypeOK'
  BY <1>2, <1>3, <1>4, <1>5, <1>6 DEF SInv, TypeOK
<1>8. AheadOK'
  BY <1>0, <1>4, <1>5, <1>6 DEF SInv, AheadOK, Readable
<1> QED
  BY <1>0, <1>2, <1>5, <1>6, <1>7, <1>8 DEF SInv

LEMMA ThreadKeeps ==
  ASSUME SInv, Thread
  PROVE  SInv'
<1> USE Ranges
<1>1. CASE Select
  <2>1. Connected' = Connected /\ todo = {}
    BY <1>1 DEF Select, Connected, SInv
  <2>2. /\ read_set' = {s \in current : s <= maxfd /\ Readable(s)}
        /\ pc' = "scan" /\ fd' = 0
        /\ UNCHANGED <<current, maxfd, i, buf, todo, outbox, inbox, peer, backlog>>
    BY <1>1 DEF Select
  <2>3. read_set' \subseteq serversocket..LastFd
    <3>1. current \subseteq serversocket..LastFd
      BY TcpConstants DEF SInv, TypeOK, Connected, Clients
    <3> QED
      BY <2>2, <3>1
  <2>4. TypeOK'
    BY <2>1, <2>2, <2>3, TcpConstants DEF SInv, TypeOK
  <2>5. AheadOK'
    BY <2>2 DEF AheadOK, Readable
  <2> QED
    BY <2>1, <2>2, <2>4, <2>5 DEF SInv
<1>2. CASE Skip
  <2>1. Connected' = Connected
    BY <1>2 DEF Skip, Connected
  <2>2. fd' = fd + 1 /\ fd + 1 \in 0..LastFd + 1
    BY <1>2, TcpConstants DEF Skip, Advance, SInv, TypeOK
  <2>3. TypeOK'
    BY <1>2, <2>1, <2>2 DEF Skip, SInv, TypeOK
  <2>4. AheadOK'
    BY <1>2, <2>2 DEF Skip, SInv, AheadOK, Readable
  <2> QED
    BY <1>2, <2>1, <2>3, <2>4 DEF Skip, SInv
<1>3. CASE EndOfScan
  <2>1. Connected' = Connected
    BY <1>3 DEF EndOfScan, Connected
  <2> QED
    BY <1>3, <2>1 DEF EndOfScan, SInv, TypeOK, AheadOK
<1>4. CASE Accept
  BY <1>4, AcceptKeeps
<1>5. CASE Send
  BY <1>5, SendKeeps
<1>6. CASE EndOfSend
  <2>1. Connected' = Connected
    BY <1>6 DEF EndOfSend, Connected
  <2>2. fd' = fd + 1 /\ fd + 1 \in 0..LastFd + 1 /\ fd \in Clients
    BY <1>6, TcpConstants DEF EndOfSend, Advance, SInv, TypeOK, Clients
  <2>3. TypeOK'
    BY <1>6, <2>1, <2>2, EmptySeq, TcpConstants DEF EndOfSend, SInv, TypeOK
  <2>4. AheadOK'
    BY <1>6, <2>2 DEF EndOfSend, SInv, AheadOK, Readable
  <2> QED
    BY <1>6, <2>1, <2>3, <2>4 DEF EndOfSend, SInv
<1>7. ASSUME NEW c \in Clients, Gone(c) PROVE SInv'
  <2>1. Connected' = Connected \ {c}
    BY <1>7 DEF Gone, Connected
  <2>2. fd = c /\ fd' = fd + 1 /\ fd + 1 \in 0..LastFd + 1 /\ pc = "scan" /\ todo = {}
    BY <1>7, TcpConstants DEF Gone, At, Advance, SInv, TypeOK, Clients
  <2>3. TypeOK'
    BY <1>7, <2>1, <2>2 DEF Gone, SInv, TypeOK
  <2>4. AheadOK'
    BY <1>7, <2>2 DEF Gone, SInv, AheadOK, Readable
  <2> QED
    BY <1>7, <2>1, <2>2, <2>3, <2>4 DEF Gone, SInv
<1>8. ASSUME NEW c \in Clients, Read(c) PROVE SInv'
  BY <1>8, ReadKeeps
<1> QED
  BY <1>1, <1>2, <1>3, <1>4, <1>5, <1>6, <1>7, <1>8 DEF Thread

THEOREM BroadcastInvariant == Spec => []SInv
<1>1. SInv /\ [Next]_vars => SInv'
  <2> SUFFICES ASSUME SInv, [Next]_vars PROVE SInv'
    OBVIOUS
  <2>1. CASE UNCHANGED vars
    <3>1. Connected' = Connected
      BY <2>1 DEF vars, Connected
    <3> QED
      BY <2>1, <3>1 DEF vars, SInv, TypeOK, AheadOK, Readable
  <2> QED
    BY <2>1, ThreadKeeps, WorldKeeps DEF Next
<1> QED
  BY <1>1, InitInvariant, PTL DEF Spec

\* The sets keep their types, and no recv() of server_a.c is for a socket with nothing to be
\* read: for any number of descriptors, any array and any buffers.
THEOREM SetsAreOK == Spec => []SetsOK
<1>1. SInv => SetsOK
  BY DEF SInv, AheadOK, SetsOK, NeverWaits
<1> QED
  BY <1>1, BroadcastInvariant, PTL

-----------------------------------------------------------------------------
(* The refinement. *)

\* What Relay sees in a client's inbox, the sends still to be made included.
Sent == [c \in Clients |-> IF c \in todo \cap Members THEN inbox[c] \o Tagged ELSE inbox[c]]

LEMMA TaggedInMail ==
  ASSUME SInv, todo # {}
  PROVE  Tagged \in Mail
<1>1. fd \in Clients /\ buf \in Seq(Bytes)
  BY DEF SInv, TypeOK
<1> QED
  BY <1>1, TaggedProperties DEF Tagged, Mail

LEMMA HearIsHear ==
  ASSUME SInv, NEW c \in Clients, Hear(c)
  PROVE  Broadcast!Hear(c)
<1>1. UNCHANGED <<Members, todo, outbox, Tagged>>
  BY DEF Hear, server, Members, Connected, Tagged
<1>2. inbox \in [Clients -> Mail] /\ inbox[c] # <<>> /\ inbox' = [inbox EXCEPT ![c] = Tail(@)]
  BY DEF Hear, SInv, TypeOK
<1>3. ASSUME c \in todo \cap Members
      PROVE  Sent[c] # <<>> /\ Sent'[c] = Tail(Sent[c])
  <2>1. Sent[c] = inbox[c] \o Tagged /\ Sent'[c] = inbox'[c] \o Tagged
    BY <1>1, <1>3 DEF Sent
  <2>2. Tagged \in Mail /\ inbox[c] \in Mail
    BY <1>2, <1>3, TaggedInMail
  <2>3. Tail(inbox[c] \o Tagged) = Tail(inbox[c]) \o Tagged /\ inbox[c] \o Tagged # <<>>
    BY <1>2, <2>2, TailOfConcat DEF Mail
  <2> QED
    BY <1>2, <2>1, <2>3
<1>4. Sent[c] # <<>> /\ Sent'[c] = Tail(Sent[c])
  <2>1. CASE c \notin todo \cap Members
    BY <1>1, <1>2, <2>1 DEF Sent
  <2> QED
    BY <1>3, <2>1
<1>5. Sent' = [Sent EXCEPT ![c] = Tail(@)]
  BY <1>1, <1>2, <1>4 DEF Sent
<1> QED
  BY <1>1, <1>4, <1>5 DEF Broadcast!Hear, Sent

LEMMA HangUpIsLeave ==
  ASSUME SInv, NEW c \in Clients, HangUp(c)
  PROVE  Broadcast!Leave(c)
<1>1. UNCHANGED <<todo, outbox, Tagged>>
  BY DEF HangUp, server, Tagged
<1>2. Members' = Members \ {c}
  BY DEF HangUp, server, Members, Connected, SInv, TypeOK
<1>3. inbox' = [inbox EXCEPT ![c] = <<>>] /\ inbox \in [Clients -> Mail]
  BY DEF HangUp, SInv, TypeOK
<1>4. Sent' = [Sent EXCEPT ![c] = <<>>]
  BY <1>1, <1>2, <1>3 DEF Sent
<1> QED
  BY <1>1, <1>2, <1>4 DEF Broadcast!Leave, Sent

LEMMA SayIsSay ==
  ASSUME SInv, NEW c \in Clients, NEW b \in Bytes, Say(c, b)
  PROVE  Broadcast!Say(c, b)
<1>1. UNCHANGED <<Members, todo, inbox, Tagged>>
  BY DEF Say, server, Members, Connected, Tagged
<1>2. c \in Members /\ outbox' = [outbox EXCEPT ![c] = Append(@, b)]
  BY DEF Say, Members
<1> QED
  BY <1>1, <1>2 DEF Broadcast!Say, Sent

LEMMA AcceptIsEnter ==
  ASSUME SInv, Accept
  PROVE  \/ \E c \in Clients : Broadcast!Enter(c)
         \/ UNCHANGED <<Members, outbox, Sent>>
<1>1. UNCHANGED <<todo, buf, inbox, outbox>> /\ todo = {}
  BY DEF Accept, At, SInv
<1>2. UNCHANGED Sent
  BY <1>1 DEF Sent
<1>3. ASSUME NEW c \in Clients \ Connected,
             current' = current \cup {c}, peer' = [peer EXCEPT ![c] = "up"]
      PROVE  Broadcast!Enter(c)
  <2>1. Members' = Members \cup {c} /\ c \notin Members
    BY <1>3 DEF Members, Connected, Clients, SInv, TypeOK
  <2>2. outbox[c] = <<>>
    BY <1>3 DEF SInv
  <2> QED
    BY <1>1, <1>2, <2>1, <2>2 DEF Broadcast!Enter, Sent
<1>4. CASE UNCHANGED <<current, peer>>
  BY <1>1, <1>2, <1>4 DEF Members, Connected
<1> QED
  BY <1>3, <1>4 DEF Accept

LEMMA ReadIsPost ==
  ASSUME SInv, NEW c \in Clients, Read(c)
  PROVE  \E n \in 1..Len(outbox[c]) : Broadcast!Post(c, n)
<1>1. PICK n \in 1..Len(outbox[c]) :
        /\ buf' = SubSeq(outbox[c], 1, n)
        /\ outbox' = [outbox EXCEPT ![c] = SubSeq(@, n + 1, Len(@))]
  <2> DEFINE m == Min({BufferSize, Len(outbox[c])})
  <2>1. Len(outbox[c]) \in Nat \ {0}
    BY EmptySeq DEF Read, SInv, TypeOK
  <2>2. m = IF BufferSize <= Len(outbox[c]) THEN BufferSize ELSE Len(outbox[c])
    BY <2>1, MinOfTwo, TcpConstants
  <2>3. /\ buf' = SubSeq(outbox[c], 1, m)
        /\ outbox' = [outbox EXCEPT ![c] = SubSeq(@, m + 1, Len(@))]
    BY DEF Read
  <2> HIDE DEF m
  <2>4. m \in 1..Len(outbox[c])
    BY <2>1, <2>2, TcpConstants
  <2> QED
    BY <2>3, <2>4
<1>2. Len(buf') = n /\ \A k \in 1..n : buf'[k] = outbox[c][k]
  <2>1. outbox[c] \in Seq(Bytes) /\ n \in 0..Len(outbox[c])
    BY <1>1 DEF SInv, TypeOK
  <2> QED
    BY <1>1, <2>1, Cut
<1>3. fd' = c /\ todo = {} /\ UNCHANGED <<inbox, Members>>
  BY DEF Read, At, Members, Connected, SInv
<1>4. todo' \cap Members' = Members \ {c}
  BY <1>3 DEF Read, Audience, Members, SInv
<1>5. Tagged' = [k \in 1..n |-> <<c, outbox[c][k]>>]
  BY <1>2, <1>3 DEF Tagged
<1>6. Sent = inbox
  BY <1>3 DEF Sent, SInv, TypeOK
<1>7. Sent' = [d \in Clients |-> IF d \in Members \ {c}
                                THEN Sent[d] \o [k \in 1..n |-> <<c, outbox[c][k]>>]
                                ELSE Sent[d]]
  BY <1>3, <1>4, <1>5, <1>6 DEF Sent
<1>8. Broadcast!Post(c, n)
  BY <1>1, <1>3, <1>7 DEF Broadcast!Post, Sent
<1> QED
  BY <1>8

\* A send was already seen when its loop began.
LEMMA SendIsUnseen ==
  ASSUME SInv, Send
  PROVE  UNCHANGED <<Members, outbox, Sent>>
<1> DEFINE d == Min(todo)
<1>1. d \in todo /\ d \in Connected /\ d \in Clients
  BY MinProperties, Ranges DEF Send, SInv, TypeOK
<1>2. todo' = todo \ {d} /\ UNCHANGED <<outbox, current, Tagged>>
  BY DEF Send, Tagged
<1>3. \/ peer[d] = "up" /\ peer' = peer /\ inbox' = [inbox EXCEPT ![d] = @ \o Tagged]
      \/ peer[d] # "up" /\ peer' \in {peer, [peer EXCEPT ![d] = "broken"]} /\ inbox' = inbox
  BY DEF Send
<1> HIDE DEF d
<1>4. Members' = Members
  BY <1>1, <1>2, <1>3 DEF Members, Connected, SInv, TypeOK
<1>5. inbox \in [Clients -> Mail]
  BY DEF SInv, TypeOK
<1>6. d \in Members <=> peer[d] = "up"
  BY <1>1 DEF Members
<1>7. Sent' = Sent
  <2>1. \A c \in Clients : Sent'[c] = Sent[c]
    BY <1>1, <1>2, <1>3, <1>4, <1>5, <1>6 DEF Sent
  <2> QED
    BY <2>1 DEF Sent
<1> QED
  BY <1>2, <1>4, <1>7

LEMMA RelayStep == SInv /\ [Next]_vars => [Broadcast!Next]_<<Members, outbox, Sent>>
<1> SUFFICES ASSUME SInv, [Next]_vars
             PROVE  Broadcast!Next \/ UNCHANGED <<Members, outbox, Sent>>
  OBVIOUS
<1>1. CASE World
  <2>1. CASE Connect
    BY <2>1 DEF Connect, server, Members, Connected, Sent, Tagged
  <2> QED
    BY <1>1, <2>1, HearIsHear, HangUpIsLeave, SayIsSay DEF World, Broadcast!Next
<1>2. CASE Select \/ Skip \/ EndOfScan
  <2>1. todo = {} /\ UNCHANGED <<current, todo, outbox, inbox, peer>>
    BY <1>2 DEF Select, Skip, EndOfScan, SInv
  <2> QED
    BY <2>1 DEF Members, Connected, Sent
<1>3. CASE Accept
  BY <1>3, AcceptIsEnter DEF Broadcast!Next
<1>4. CASE Send
  BY <1>4, SendIsUnseen
<1>5. CASE EndOfSend
  <2>1. todo = {} /\ UNCHANGED <<current, todo, outbox, inbox, peer>>
    BY <1>5 DEF EndOfSend
  <2> QED
    BY <2>1 DEF Members, Connected, Sent
<1>6. ASSUME NEW c \in Clients, Gone(c) PROVE UNCHANGED <<Members, outbox, Sent>>
  <2>1. peer[c] # "up" /\ todo = {} /\ current' = current \ {c}
        /\ UNCHANGED <<todo, outbox, inbox, peer>>
    BY <1>6 DEF Gone, At, SInv
  <2> QED
    BY <2>1 DEF Members, Connected, Sent
<1>7. ASSUME NEW c \in Clients, Read(c) PROVE Broadcast!Next
  BY <1>7, ReadIsPost DEF Broadcast!Next
<1>8. CASE UNCHANGED vars
  BY <1>8 DEF vars, Members, Connected, Sent, Tagged
<1> QED
  BY <1>1, <1>2, <1>3, <1>4, <1>5, <1>6, <1>7, <1>8 DEF Next, Thread

\* server_a.c implements Relay: its loop of blocking sends, interrupted by whatever its
\* clients do, is an atomic broadcast to those that were connected when it began.
THEOREM RelayIsImplemented == Spec => ImplementsRelay
<1>1. Init => Broadcast!Init
  BY DEF Init, Broadcast!Init, Broadcast!Silence, Members, Connected
<1>2. [Broadcast!Next]_<<Members, outbox, Sent>> => [Broadcast!Next]_(Broadcast!vars)
  BY DEF Broadcast!vars, Sent
<1> QED
  BY <1>1, <1>2, RelayStep, BroadcastInvariant, PTL
     DEF Spec, ImplementsRelay, Broadcast!Spec
=============================================================================
