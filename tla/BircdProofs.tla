----------------------------- MODULE BircdProofs -----------------------------
(* Theorems about Bircd, for every value of its constants. *)
EXTENDS Bircd, SharedLemmas, FiniteSetTheorems

(***************************************************************************)
(* What stays true from step to step: r counts the bits that are left, the *)
(* loop of sends has nobody left when it is not running, a free slot has   *)
(* said nothing, and whatever bit is still in front of check_fd, during    *)
(* the sends too, is one of a slot in use that can be read.                *)
(***************************************************************************)
AheadOK ==
  /\ pc = "scan" => \A s \in fd_read : s >= i => Ready(s)
  /\ pc = "send" => \A s \in fd_read : s > i => Ready(s)

SInv ==
  /\ TypeOK
  /\ CountExact
  /\ AheadOK
  /\ \A s \in Slots : type[s] = "SERV" <=> s = Listen
  /\ pc \in {"select", "scan", "exited"} => todo = {}
  /\ pc \in {"send", "killed"} => i \in Clients
  /\ pc = "send" => i \in fd_read
  /\ \A c \in Clients \ Connected : outbox[c] = <<>>

LEMMA Ranges ==
  /\ Slots \subseteq Nat /\ Clients \subseteq Slots /\ Listen \in Slots
  /\ Listen \notin Clients /\ maxfd \in Nat
  /\ \A s \in Slots : s < maxfd
BY BircdConstants DEF Slots, Clients

LEMMA InitInvariant == Init => SInv
<1> SUFFICES ASSUME Init PROVE SInv
  OBVIOUS
<1> USE Ranges
<1>1. Connected = {}
  BY DEF Init, Connected
<1>2. TypeOK
  BY <1>1, BircdConstants, EmptySeq DEF Init, TypeOK, Mail, Peers
<1> QED
  BY <1>1, <1>2 DEF Init, SInv, AheadOK, CountExact

-----------------------------------------------------------------------------
(* The count. *)

\* The bits from k on.
Left(k) == {s \in fd_read : s >= k}

LEMMA LeftIsFinite ==
  ASSUME SInv, NEW k \in Nat
  PROVE  /\ IsFiniteSet(Left(k)) /\ Cardinality(Left(k)) \in Nat
         /\ Cardinality(Left(k)) <= maxfd
<1>1. IsFiniteSet(Slots) /\ Cardinality(Slots) = maxfd
  BY FS_Interval, Ranges DEF Slots
<1>2. Left(k) \in SUBSET Slots
  BY DEF Left, SInv, TypeOK
<1> QED
  BY <1>1, <1>2, FS_Subset, FS_CardinalityType

\* One step of check_fd takes off what stands at i, if anything.
LEMMA AdvanceCounts ==
  ASSUME SInv, pc \in {"scan", "send"}, Advance, UNCHANGED fd_read, i < maxfd
  PROVE  i' = i + 1 /\ i' \in 0..maxfd /\ r' \in 0..maxfd /\ r' = Cardinality(Left(i)')
<1>1. i \in Nat /\ maxfd \in Nat /\ fd_read \subseteq Nat /\ i' = i + 1
  BY Ranges DEF SInv, TypeOK, Advance
<1>2. r = Cardinality(Left(i))
  BY DEF SInv, CountExact, Left
<1>3. Left(i)' = Left(i) \ {i}
  <2>1. \A s \in fd_read : s >= i + 1 <=> s >= i /\ s # i
    BY <1>1
  <2>2. Left(i)' = {s \in fd_read : s >= i + 1}
    BY <1>1 DEF Left
  <2> QED
    BY <2>1, <2>2 DEF Left
<1>4. /\ IsFiniteSet(Left(i)) /\ Cardinality(Left(i)) \in Nat
      /\ Cardinality(Left(i)) <= maxfd
  BY <1>1, LeftIsFinite
<1>5. Cardinality(Left(i) \ {i}) = IF i \in Left(i) THEN Cardinality(Left(i)) - 1
                                                  ELSE Cardinality(Left(i))
  BY <1>4, FS_RemoveElement
<1>6. i \in Left(i) <=> i \in fd_read
  BY <1>1 DEF Left
<1>7. i \in Left(i) => Cardinality(Left(i)) # 0
  BY <1>4, FS_EmptySet
<1> DEFINE n == Cardinality(Left(i))
           m == Cardinality(Left(i)')
<1>8. n \in 0..maxfd /\ m = IF i \in fd_read THEN n - 1 ELSE n
  <2>1. m = IF i \in fd_read THEN n - 1 ELSE n
    BY <1>3, <1>5, <1>6
  <2>2. n \in Nat /\ n <= maxfd
    BY <1>4
  <2> HIDE DEF n, m
  <2> QED
    BY <1>1, <2>1, <2>2
<1>9. i \in fd_read => n # 0
  BY <1>6, <1>7
<1>10. r = n /\ r' = IF i \in fd_read THEN r - 1 ELSE r
  BY <1>2 DEF Advance
<1> HIDE DEF n, m
<1>11. i' = i + 1 /\ i' \in 0..maxfd /\ r' = m /\ r' \in 0..maxfd
  BY <1>1, <1>8, <1>9, <1>10
<1> QED
  BY <1>11 DEF m

-----------------------------------------------------------------------------
(* The steps keep it. *)

LEMMA WorldKeeps ==
  ASSUME SInv, World
  PROVE  SInv'
<1> USE Ranges
<1>1. CASE Connect
  <2>1. backlog' \in 0..MaxBacklog /\ backlog' > 0
    BY <1>1, BircdConstants DEF Connect, SInv, TypeOK
  <2>2. Connected' = Connected
    BY <1>1 DEF Connect, server, Connected
  <2>3. TypeOK'
    BY <1>1, <2>1, <2>2 DEF Connect, server, SInv, TypeOK
  <2>4. AheadOK'
    BY <1>1, <2>1, <2>2 DEF Connect, server, SInv, AheadOK, Ready
  <2> QED
    BY <1>1, <2>2, <2>3, <2>4 DEF Connect, server, SInv, CountExact
<1>2. ASSUME NEW c \in Clients, Hear(c) PROVE SInv'
  <2>1. Tail(inbox[c]) \in Mail
    BY <1>2, HeadTailProperties DEF Hear, Mail, SInv, TypeOK
  <2>2. Connected' = Connected
    BY <1>2 DEF Hear, server, Connected
  <2>3. TypeOK'
    BY <1>2, <2>1, <2>2 DEF Hear, server, SInv, TypeOK
  <2>4. AheadOK'
    BY <1>2, <2>2 DEF Hear, server, SInv, AheadOK, Ready
  <2> QED
    BY <1>2, <2>2, <2>3, <2>4 DEF Hear, server, SInv, CountExact
<1>3. ASSUME NEW c \in Clients, HangUp(c) PROVE SInv'
  <2>1. <<>> \in Mail
    BY EmptySeq DEF Mail
  <2>2. Connected' = Connected
    BY <1>3 DEF HangUp, server, Connected
  <2>3. TypeOK'
    BY <1>3, <2>1, <2>2 DEF HangUp, server, SInv, TypeOK, Peers
  <2>4. \A d \in Clients : peer[d] # "up" => peer'[d] # "up"
    BY <1>3 DEF HangUp, SInv, TypeOK
  <2>5. AheadOK'
    BY <1>3, <2>2, <2>4 DEF HangUp, server, SInv, AheadOK, Ready, Connected
  <2> QED
    BY <1>3, <2>2, <2>3, <2>5 DEF HangUp, server, SInv, CountExact
<1>4. ASSUME NEW c \in Clients, NEW b \in Bytes, Say(c, b) PROVE SInv'
  <2>0. outbox[c] \in Seq(Bytes)
    BY DEF SInv, TypeOK
  <2>1. Append(outbox[c], b) \in Seq(Bytes) /\ Append(outbox[c], b) # <<>>
    BY <2>0, AppendProperties
  <2>2. Connected' = Connected /\ c \in Connected
    BY <1>4 DEF Say, server, Connected
  <2>3. TypeOK'
    BY <1>4, <2>1, <2>2 DEF Say, server, SInv, TypeOK
  <2>4. outbox' \in [Clients -> Seq(Bytes)] /\ outbox'[c] # <<>>
        /\ \A d \in Clients \ {c} : outbox'[d] = outbox[d]
    BY <1>4, <2>1 DEF Say, SInv, TypeOK
  <2>5. AheadOK'
    BY <1>4, <2>2, <2>4 DEF Say, server, SInv, AheadOK, Ready, Connected
  <2> QED
    BY <1>4, <2>2, <2>3, <2>4, <2>5 DEF Say, server, SInv, CountExact
<1> QED
  BY <1>1, <1>2, <1>3, <1>4 DEF World

\* Where check_fd stands.
LEMMA AtBit ==
  ASSUME SInv, NEW s, At(s)
  PROVE  /\ pc = "scan" /\ i = s /\ i < maxfd /\ s \in fd_read /\ s \in Slots
         /\ Ready(s) /\ todo = {} /\ r = Cardinality(Left(i))
BY Ranges DEF At, Scanning, SInv, AheadOK, TypeOK, CountExact, Left

LEMMA AcceptKeeps ==
  ASSUME SInv, Accept
  PROVE  SInv'
<1> USE Ranges
<1>0. /\ pc = "scan" /\ i = Listen /\ i < maxfd /\ todo = {} /\ backlog \in 1..MaxBacklog
      /\ \A s \in fd_read : s >= i => Ready(s)
  <2>1. Ready(Listen) /\ pc = "scan" /\ i = Listen /\ i < maxfd /\ todo = {}
    BY AtBit DEF Accept
  <2> QED
    BY <2>1, BircdConstants DEF Ready, SInv, TypeOK, AheadOK
<1>1. ASSUME NEW c \in Clients \ Connected,
             type' = [type EXCEPT ![c] = "CLIENT"],
             backlog' = backlog - 1, peer' = [peer EXCEPT ![c] = "up"],
             Advance, pc' = pc
      PROVE SInv'
  <2>0. UNCHANGED <<fd_read, chunk, todo, outbox, inbox>>
    BY DEF Accept
  <2>1. Connected' = Connected \cup {c}
    BY <1>1 DEF Connected, SInv, TypeOK
  <2>2. /\ i' = i + 1 /\ i' \in 0..maxfd /\ r' \in 0..maxfd
        /\ r' = Cardinality(Left(i)')
    BY <1>0, <1>1, <2>0, AdvanceCounts
  <2>3. backlog' \in 0..MaxBacklog
    BY <1>0, <1>1, BircdConstants
  <2>4. TypeOK'
    BY <1>0, <1>1, <2>0, <2>1, <2>2, <2>3 DEF SInv, TypeOK, Peers
  <2>5. AheadOK'
    <3>1. ASSUME NEW s \in fd_read, s >= i + 1 PROVE Ready(s)'
      <4>1. s # Listen /\ Ready(s) /\ s \in Nat
        BY <1>0, <3>1 DEF SInv, TypeOK
      <4>2. s # c
        BY <4>1 DEF Ready
      <4> QED
        BY <1>1, <2>0, <2>1, <4>1, <4>2 DEF Ready, SInv, TypeOK, Connected
    <3> QED
      BY <1>0, <1>1, <2>0, <2>2, <3>1 DEF AheadOK
  <2>6. CountExact'
    BY <2>2 DEF CountExact, Left
  <2>7. \A s \in Slots : type'[s] = "SERV" <=> s = Listen
    BY <1>1 DEF SInv, TypeOK
  <2>8. \A d \in Clients \ Connected' : outbox'[d] = <<>>
    BY <2>0, <2>1 DEF SInv
  <2> QED
    BY <1>0, <1>1, <2>0, <2>4, <2>5, <2>6, <2>7, <2>8 DEF SInv
<1>2. CASE /\ Connected = Clients
           /\ pc' = "exited"
           /\ UNCHANGED <<type, backlog, peer, i, r>>
  <2>1. Connected' = Connected
    BY <1>2 DEF Connected
  <2> QED
    BY <1>0, <1>2, <2>1 DEF Accept, SInv, TypeOK, AheadOK, CountExact
<1> QED
  BY <1>1, <1>2 DEF Accept

\* What one recv() of client_read takes.
LEMMA ReadTakes ==
  ASSUME SInv, NEW c \in Clients, Read(c)
  PROVE  \E n \in 1..Len(outbox[c]) :
           /\ n <= BufSize
           /\ chunk' = SubSeq(outbox[c], 1, n)
           /\ outbox' = [outbox EXCEPT ![c] = SubSeq(@, n + 1, Len(@))]
<1> DEFINE m == Min({BufSize, Len(outbox[c])})
<1>1. Len(outbox[c]) \in Nat \ {0}
  BY EmptySeq DEF Read, SInv, TypeOK
<1>2. m = IF BufSize <= Len(outbox[c]) THEN BufSize ELSE Len(outbox[c])
  BY <1>1, MinOfTwo, BircdConstants
<1>3. /\ chunk' = SubSeq(outbox[c], 1, m)
      /\ outbox' = [outbox EXCEPT ![c] = SubSeq(@, m + 1, Len(@))]
  BY DEF Read
<1> HIDE DEF m
<1>4. m \in 1..Len(outbox[c]) /\ m <= BufSize
  BY <1>1, <1>2, BircdConstants
<1> QED
  BY <1>3, <1>4

LEMMA ReadKeeps ==
  ASSUME SInv, NEW c \in Clients, Read(c)
  PROVE  SInv'
<1> USE Ranges
<1>0. /\ pc = "scan" /\ i = c /\ i \in fd_read /\ c \in Connected
      /\ \A s \in fd_read : s >= i => Ready(s)
  <2>1. Ready(c) /\ pc = "scan" /\ i = c /\ c \in fd_read
    BY AtBit DEF Read
  <2> QED
    BY <2>1 DEF Ready, SInv, AheadOK
<1>1. PICK n \in 1..Len(outbox[c]) :
        /\ n <= BufSize
        /\ chunk' = SubSeq(outbox[c], 1, n)
        /\ outbox' = [outbox EXCEPT ![c] = SubSeq(@, n + 1, Len(@))]
  BY ReadTakes
<1>2. /\ chunk' \in Seq(Bytes) /\ Len(chunk') <= BufSize
      /\ SubSeq(outbox[c], n + 1, Len(outbox[c])) \in Seq(Bytes)
  <2>1. outbox[c] \in Seq(Bytes) /\ n \in 0..Len(outbox[c])
    BY <1>1 DEF SInv, TypeOK
  <2> QED
    BY <1>1, <2>1, Cut
<1>3. Connected' = Connected /\ todo' \subseteq Connected
  BY DEF Read, Connected, Audience
<1>4. TypeOK'
  <2>1. outbox' \in [Clients -> Seq(Bytes)]
    BY <1>1, <1>2 DEF SInv, TypeOK
  <2>2. chunk' \in Seq(Bytes) /\ Len(chunk') <= BufSize
    BY <1>2
  <2>3. /\ pc' = "send" /\ todo' \subseteq Connected'
        /\ UNCHANGED <<type, fd_read, r, i, inbox, peer, backlog>>
    BY <1>3 DEF Read
  <2> QED
    BY <2>1, <2>2, <2>3 DEF SInv, TypeOK
<1>5. AheadOK'
  <2>1. ASSUME NEW s \in fd_read, s > i PROVE Ready(s)'
    <3>1. Ready(s) /\ s # c
      BY <1>0, <2>1 DEF SInv, TypeOK
    <3> QED
      BY <1>1, <1>3, <3>1 DEF Read, Ready, SInv, TypeOK
  <2> QED
    BY <2>1 DEF Read, AheadOK
<1> QED
  BY <1>0, <1>1, <1>3, <1>4, <1>5 DEF Read, SInv, TypeOK, CountExact

LEMMA FirstOfTodo ==
  ASSUME SInv, todo # {}
  PROVE  Min(todo) \in todo /\ Min(todo) \in Connected /\ Min(todo) \in Clients
<1>1. todo \subseteq Connected /\ Connected \subseteq Clients
  BY DEF SInv, TypeOK, Connected
<1>2. todo \in SUBSET Nat
  BY <1>1, Ranges
<1>3. Min(todo) \in todo
  BY <1>2, MinProperties
<1> QED
  BY <1>1, <1>3

LEMMA SendKeeps ==
  ASSUME SInv, Send
  PROVE  SInv'
<1> USE Ranges
<1> DEFINE d == Min(todo)
<1>0. pc = "send" /\ i \in Clients
  BY DEF Send, SInv
<1>1. d \in todo /\ d \in Connected /\ d \in Clients
  BY FirstOfTodo DEF Send
<1>2. Connected' = Connected /\ todo' \subseteq Connected
  BY DEF Send, Connected, SInv, TypeOK
<1> HIDE DEF d
<1>3. inbox' \in [Clients -> Mail]
  <2>0. inbox[d] \in Mail
    BY <1>1 DEF SInv, TypeOK
  <2>1. Tagged \in Mail
    BY <1>0, TaggedProperties DEF Tagged, SInv, TypeOK, Mail
  <2>2. inbox[d] \o Tagged \in Mail
    BY <1>1, <2>0, <2>1, ConcatProperties DEF Mail
  <2>3. inbox' \in {inbox, [inbox EXCEPT ![d] = inbox[d] \o Tagged]}
    BY DEF Send, d
  <2> QED
    BY <1>1, <2>2, <2>3 DEF SInv, TypeOK
<1>4. /\ peer' \in [Clients -> Peers]
      /\ \A c \in Clients : peer[c] # "up" => peer'[c] # "up"
  <2>1. peer' \in {peer, [peer EXCEPT ![d] = "broken"]}
    BY DEF Send, d
  <2> QED
    BY <1>1, <2>1 DEF SInv, TypeOK, Peers
<1>5. pc' \in {"send", "killed"}
  BY <1>0 DEF Send
<1>6. UNCHANGED <<type, fd_read, r, i, chunk, outbox, backlog>>
  BY DEF Send
<1>7. TypeOK'
  BY <1>2, <1>3, <1>4, <1>5, <1>6 DEF SInv, TypeOK
<1>8. AheadOK'
  <2>1. ASSUME NEW s \in fd_read, s > i PROVE Ready(s)'
    <3>1. Ready(s)
      BY <1>0, <2>1 DEF SInv, AheadOK
    <3> QED
      BY <1>2, <1>4, <1>6, <3>1 DEF Ready, Connected
  <2> QED
    BY <1>5, <1>6, <2>1 DEF AheadOK
<1> QED
  BY <1>0, <1>2, <1>5, <1>6, <1>7, <1>8 DEF SInv, CountExact

LEMMA SelectKeeps ==
  ASSUME SInv, Select
  PROVE  SInv'
<1> USE Ranges
<1>1. /\ fd_read' = {s \in Slots : type[s] # "FREE" /\ Ready(s)} /\ r' = Cardinality(fd_read')
      /\ pc' = "scan" /\ i' = 0 /\ todo = {}
      /\ UNCHANGED <<type, chunk, todo, outbox, inbox, peer, backlog>>
  BY DEF Select, SInv
<1>2. Connected' = Connected
  BY <1>1 DEF Connected
<1>3. fd_read' \in SUBSET Slots
  BY <1>1
<1>4. r' \in 0..maxfd
  <2>1. IsFiniteSet(Slots) /\ Cardinality(Slots) = maxfd
    BY FS_Interval DEF Slots
  <2> HIDE DEF Slots
  <2> QED
    BY <1>1, <1>3, <2>1, FS_Subset, FS_CardinalityType
<1>5. TypeOK'
  BY <1>1, <1>2, <1>3, <1>4 DEF SInv, TypeOK
<1>6. CountExact'
  <2>1. \A s \in fd_read' : s >= 0
    BY <1>3
  <2> QED
    BY <1>1, <2>1 DEF CountExact
<1>7. AheadOK'
  BY <1>1, <1>2 DEF AheadOK, Ready
<1> QED
  BY <1>1, <1>2, <1>5, <1>6, <1>7 DEF SInv

LEMMA ThreadKeeps ==
  ASSUME SInv, Thread
  PROVE  SInv'
<1> USE Ranges
<1>1. CASE Select
  BY <1>1, SelectKeeps
<1>2. CASE Skip
  <2>1. Connected' = Connected
    BY <1>2 DEF Skip, Connected
  <2>2. /\ i' = i + 1 /\ i' \in 0..maxfd /\ r' \in 0..maxfd
        /\ r' = Cardinality(Left(i)')
    BY <1>2, AdvanceCounts DEF Skip, Scanning
  <2>3. TypeOK'
    BY <1>2, <2>1, <2>2 DEF Skip, SInv, TypeOK
  <2>4. AheadOK'
    BY <1>2, <2>1, <2>2 DEF Skip, Scanning, SInv, AheadOK, Ready, TypeOK
  <2>5. CountExact'
    BY <2>2 DEF CountExact, Left
  <2> QED
    BY <1>2, <2>1, <2>3, <2>4, <2>5 DEF Skip, Scanning, SInv
<1>3. CASE EndOfScan
  <2>1. Connected' = Connected
    BY <1>3 DEF EndOfScan, Connected
  <2> QED
    BY <1>3, <2>1 DEF EndOfScan, SInv, TypeOK, AheadOK, CountExact
<1>4. CASE Accept
  BY <1>4, AcceptKeeps
<1>5. CASE Send
  BY <1>5, SendKeeps
<1>6. CASE EndOfSend
  <2>1. Connected' = Connected
    BY <1>6 DEF EndOfSend, Connected
  <2>2. /\ i' = i + 1 /\ i' \in 0..maxfd /\ r' \in 0..maxfd
        /\ r' = Cardinality(Left(i)')
    BY <1>6, AdvanceCounts DEF EndOfSend, SInv
  <2>3. TypeOK'
    BY <1>6, <2>1, <2>2, EmptySeq, BircdConstants DEF EndOfSend, SInv, TypeOK
  <2>4. AheadOK'
    BY <1>6, <2>1, <2>2 DEF EndOfSend, SInv, AheadOK, Ready, TypeOK
  <2>5. CountExact'
    BY <2>2 DEF CountExact, Left
  <2> QED
    BY <1>6, <2>1, <2>3, <2>4, <2>5 DEF EndOfSend, SInv
<1>7. ASSUME NEW c \in Clients, Gone(c) PROVE SInv'
  <2>1. Connected' = Connected \ {c}
    BY <1>7 DEF Gone, Connected, SInv, TypeOK
  <2>2. pc = "scan" /\ i = c /\ i < maxfd /\ todo = {} /\ \A s \in fd_read : s >= i => Ready(s)
    BY <1>7, AtBit DEF Gone, SInv, AheadOK
  <2>3. /\ i' = i + 1 /\ i' \in 0..maxfd /\ r' \in 0..maxfd
        /\ r' = Cardinality(Left(i)')
    BY <1>7, <2>2, AdvanceCounts DEF Gone
  <2>4. TypeOK'
    BY <1>7, <2>1, <2>2, <2>3 DEF Gone, SInv, TypeOK
  <2>5. AheadOK'
    BY <1>7, <2>1, <2>2, <2>3 DEF Gone, AheadOK, Ready, SInv, TypeOK
  <2>6. CountExact'
    BY <2>3 DEF CountExact, Left
  <2>7. \A s \in Slots : type'[s] = "SERV" <=> s = Listen
    BY <1>7 DEF Gone, SInv, TypeOK
  <2>8. \A d \in Clients \ Connected' : outbox'[d] = <<>>
    BY <1>7, <2>1 DEF Gone, SInv
  <2> QED
    BY <1>7, <2>2, <2>4, <2>5, <2>6, <2>7, <2>8 DEF Gone, SInv
<1>8. ASSUME NEW c \in Clients, Read(c) PROVE SInv'
  BY <1>8, ReadKeeps
<1> QED
  BY <1>1, <1>2, <1>3, <1>4, <1>5, <1>6, <1>7, <1>8 DEF Thread

THEOREM BroadcastInvariant == Spec => []SInv
<1>1. SInv /\ [Next]_vars => SInv'
  <2> SUFFICES ASSUME SInv, [Next]_vars PROVE SInv'
    OBVIOUS
  <2>1. CASE UNCHANGED vars
    <3>1. Connected' = Connected
      BY <2>1 DEF vars, Connected
    <3> QED
      BY <2>1, <3>1 DEF vars, SInv, TypeOK, AheadOK, Ready, CountExact
  <2> QED
    BY <2>1, ThreadKeeps, WorldKeeps DEF Next
<1> QED
  BY <1>1, InitInvariant, PTL DEF Spec

\* check_fd stops when its count is used up and has then handled every bit: r is exactly the
\* number of bits in front of it, for any number of slots.
THEOREM TableIsOK == Spec => []TableOK
<1>1. SInv => TableOK
  BY DEF SInv, TableOK
<1> QED
  BY <1>1, BroadcastInvariant, PTL

\* No handler of bircd is called through a free slot or for a socket with nothing to be read.
THEOREM ServerNeverWaits == Spec => []NeverWaits
<1>1. SInv => NeverWaits
  <2> SUFFICES ASSUME SInv, pc = "scan", NEW s \in fd_read, s >= i
               PROVE  type[s] # "FREE" /\ Ready(s)
    BY DEF NeverWaits
  <2>1. Ready(s) /\ s \in Slots
    BY DEF SInv, AheadOK, TypeOK
  <2> QED
    BY <2>1, Ranges DEF Ready, Connected, SInv
<1> QED
  BY <1>1, BroadcastInvariant, PTL

-----------------------------------------------------------------------------
(* The refinement. *)

\* What Relay sees in a client's inbox, the sends still to be made included.
Sent == [c \in Clients |-> IF c \in todo \cap Members THEN inbox[c] \o Tagged ELSE inbox[c]]

LEMMA TaggedInMail ==
  ASSUME SInv, todo # {}
  PROVE  Tagged \in Mail
<1>1. i \in Clients /\ chunk \in Seq(Bytes)
  BY DEF SInv, TypeOK
<1> QED
  BY <1>1, TaggedProperties DEF Tagged, Mail

LEMMA HearIsHear ==
  ASSUME SInv, NEW c \in Clients, Hear(c)
  PROVE  Broadcast!Hear(c)
<1>1. UNCHANGED <<Members, todo, outbox, Tagged>>
  BY DEF Hear, server, Members, Connected, Tagged
<1>2. inbox \in [Clients -> Mail] /\ inbox[c] # <<>> /\ inbox' = [inbox EXCEPT ![c] = Tail(@)]
  BY DEF Hear, SInv, TypeOK
<1>3. ASSUME c \in todo \cap Members
      PROVE  Sent[c] # <<>> /\ Sent'[c] = Tail(Sent[c])
  <2>1. Sent[c] = inbox[c] \o Tagged /\ Sent'[c] = inbox'[c] \o Tagged
    BY <1>1, <1>3 DEF Sent
  <2>2. Tagged \in Mail /\ inbox[c] \in Mail
    BY <1>2, <1>3, TaggedInMail
  <2>3. Tail(inbox[c] \o Tagged) = Tail(inbox[c]) \o Tagged /\ inbox[c] \o Tagged # <<>>
    BY <1>2, <2>2, TailOfConcat DEF Mail
  <2> QED
    BY <1>2, <2>1, <2>3
<1>4. Sent[c] # <<>> /\ Sent'[c] = Tail(Sent[c])
  <2>1. CASE c \notin todo \cap Members
    BY <1>1, <1>2, <2>1 DEF Sent
  <2> QED
    BY <1>3, <2>1
<1>5. Sent' = [Sent EXCEPT ![c] = Tail(@)]
  BY <1>1, <1>2, <1>4 DEF Sent
<1> QED
  BY <1>1, <1>4, <1>5 DEF Broadcast!Hear, Sent

LEMMA HangUpIsLeave ==
  ASSUME SInv, NEW c \in Clients, HangUp(c)
  PROVE  Broadcast!Leave(c)
<1>1. UNCHANGED <<todo, outbox, Tagged>>
  BY DEF HangUp, server, Tagged
<1>2. Members' = Members \ {c}
  BY DEF HangUp, server, Members, Connected, SInv, TypeOK
<1>3. inbox' = [inbox EXCEPT ![c] = <<>>] /\ inbox \in [Clients -> Mail]
  BY DEF HangUp, SInv, TypeOK
<1>4. Sent' = [Sent EXCEPT ![c] = <<>>]
  BY <1>1, <1>2, <1>3 DEF Sent
<1> QED
  BY <1>1, <1>2, <1>4 DEF Broadcast!Leave, Sent

LEMMA SayIsSay ==
  ASSUME SInv, NEW c \in Clients, NEW b \in Bytes, Say(c, b)
  PROVE  Broadcast!Say(c, b)
<1>1. UNCHANGED <<Members, todo, inbox, Tagged>>
  BY DEF Say, server, Members, Connected, Tagged
<1>2. c \in Members /\ outbox' = [outbox EXCEPT ![c] = Append(@, b)]
  BY DEF Say, Members
<1> QED
  BY <1>1, <1>2 DEF Broadcast!Say, Sent

LEMMA AcceptIsEnter ==
  ASSUME SInv, Accept
  PROVE  \/ \E c \in Clients : Broadcast!Enter(c)
         \/ UNCHANGED <<Members, outbox, Sent>>
<1>1. UNCHANGED <<todo, chunk, inbox, outbox>> /\ todo = {}
  BY DEF Accept, At, Scanning, SInv
<1>2. UNCHANGED Sent
  BY <1>1 DEF Sent
<1>3. ASSUME NEW c \in Clients \ Connected,
             type' = [type EXCEPT ![c] = "CLIENT"], peer' = [peer EXCEPT ![c] = "up"]
      PROVE  Broadcast!Enter(c)
  <2>1. Members' = Members \cup {c} /\ c \notin Members
    BY <1>3, Ranges DEF Members, Connected, SInv, TypeOK
  <2>2. outbox[c] = <<>>
    BY <1>3 DEF SInv
  <2> QED
    BY <1>1, <1>2, <2>1, <2>2 DEF Broadcast!Enter, Sent
<1>4. CASE UNCHANGED <<type, peer>>
  BY <1>1, <1>2, <1>4 DEF Members, Connected
<1> QED
  BY <1>3, <1>4 DEF Accept

LEMMA ReadIsPost ==
  ASSUME SInv, NEW c \in Clients, Read(c)
  PROVE  \E n \in 1..Len(outbox[c]) : Broadcast!Post(c, n)
<1>1. PICK n \in 1..Len(outbox[c]) :
        /\ chunk' = SubSeq(outbox[c], 1, n)
        /\ outbox' = [outbox EXCEPT ![c] = SubSeq(@, n + 1, Len(@))]
  BY ReadTakes
<1>2. Len(chunk') = n /\ \A k \in 1..n : chunk'[k] = outbox[c][k]
  <2>1. outbox[c] \in Seq(Bytes) /\ n \in 0..Len(outbox[c])
    BY <1>1 DEF SInv, TypeOK
  <2> QED
    BY <1>1, <2>1, Cut
<1>3. i' = c /\ todo = {} /\ UNCHANGED <<inbox, Members>>
  BY DEF Read, At, Scanning, Members, Connected, SInv
<1>4. todo' \cap Members' = Members \ {c}
  BY <1>3 DEF Read, Audience, Members, SInv
<1>5. Tagged' = [k \in 1..n |-> <<c, outbox[c][k]>>]
  BY <1>2, <1>3 DEF Tagged
<1>6. Sent = inbox
  BY <1>3 DEF Sent, SInv, TypeOK
<1>7. Sent' = [d \in Clients |-> IF d \in Members \ {c}
                                THEN Sent[d] \o [k \in 1..n |-> <<c, outbox[c][k]>>]
                                ELSE Sent[d]]
  BY <1>3, <1>4, <1>5, <1>6 DEF Sent
<1>8. Broadcast!Post(c, n)
  BY <1>1, <1>3, <1>7 DEF Broadcast!Post, Sent
<1> QED
  BY <1>8

\* A send was already seen when its loop began.
LEMMA SendIsUnseen ==
  ASSUME SInv, Send
  PROVE  UNCHANGED <<Members, outbox, Sent>>
<1> DEFINE d == Min(todo)
<1>1. d \in todo /\ d \in Connected /\ d \in Clients
  BY FirstOfTodo DEF Send
<1>2. todo' = todo \ {d} /\ UNCHANGED <<outbox, type, Tagged>>
  BY DEF Send, Tagged
<1>3. \/ peer[d] = "up" /\ peer' = peer /\ inbox' = [inbox EXCEPT ![d] = @ \o Tagged]
      \/ peer[d] # "up" /\ peer' \in {peer, [peer EXCEPT ![d] = "broken"]} /\ inbox' = inbox
  BY DEF Send
<1> HIDE DEF d
<1>4. Members' = Members
  BY <1>1, <1>2, <1>3 DEF Members, Connected, SInv, TypeOK
<1>5. inbox \in [Clients -> Mail]
  BY DEF SInv, TypeOK
<1>6. d \in Members <=> peer[d] = "up"
  BY <1>1 DEF Members
<1>7. Sent' = Sent
  <2>1. \A c \in Clients : Sent'[c] = Sent[c]
    BY <1>1, <1>2, <1>3, <1>4, <1>5, <1>6 DEF Sent
  <2> QED
    BY <2>1 DEF Sent
<1> QED
  BY <1>2, <1>4, <1>7

LEMMA RelayStep == SInv /\ [Next]_vars => [Broadcast!Next]_<<Members, outbox, Sent>>
<1> SUFFICES ASSUME SInv, [Next]_vars
             PROVE  Broadcast!Next \/ UNCHANGED <<Members, outbox, Sent>>
  OBVIOUS
<1>1. CASE World
  <2>1. CASE Connect
    BY <2>1 DEF Connect, server, Members, Connected, Sent, Tagged
  <2> QED
    BY <1>1, <2>1, HearIsHear, HangUpIsLeave, SayIsSay DEF World, Broadcast!Next
<1>2. CASE Select \/ Skip \/ EndOfScan
  <2>1. todo = {} /\ UNCHANGED <<type, todo, outbox, inbox, peer>>
    BY <1>2 DEF Select, Skip, Scanning, EndOfScan, SInv
  <2> QED
    BY <2>1 DEF Members, Connected, Sent
<1>3. CASE Accept
  BY <1>3, AcceptIsEnter DEF Broadcast!Next
<1>4. CASE Send
  BY <1>4, SendIsUnseen
<1>5. CASE EndOfSend
  <2>1. todo = {} /\ UNCHANGED <<type, todo, outbox, inbox, peer>>
    BY <1>5 DEF EndOfSend
  <2> QED
    BY <2>1 DEF Members, Connected, Sent
<1>6. ASSUME NEW c \in Clients, Gone(c) PROVE UNCHANGED <<Members, outbox, Sent>>
  <2>1. peer[c] # "up" /\ todo = {} /\ type' = [type EXCEPT ![c] = "FREE"]
        /\ UNCHANGED <<todo, outbox, inbox, peer>>
    BY <1>6 DEF Gone, At, Scanning, SInv
  <2> QED
    BY <2>1, Ranges DEF Members, Connected, Sent, SInv, TypeOK
<1>7. ASSUME NEW c \in Clients, Read(c) PROVE Broadcast!Next
  BY <1>7, ReadIsPost DEF Broadcast!Next
<1>8. CASE UNCHANGED vars
  BY <1>8 DEF vars, Members, Connected, Sent, Tagged
<1> QED
  BY <1>1, <1>2, <1>3, <1>4, <1>5, <1>6, <1>7, <1>8 DEF Next, Thread

\* bircd implements Relay: client_read's loop of blocking sends, interrupted by whatever its
\* clients do, is an atomic broadcast to those that were connected when it began.
THEOREM RelayIsImplemented == Spec => ImplementsRelay
<1>1. Init => Broadcast!Init
  BY Ranges DEF Init, Broadcast!Init, Broadcast!Silence, Members, Connected
<1>2. [Broadcast!Next]_<<Members, outbox, Sent>> => [Broadcast!Next]_(Broadcast!vars)
  BY DEF Broadcast!vars, Sent
<1> QED
  BY <1>1, <1>2, RelayStep, BroadcastInvariant, PTL
     DEF Spec, ImplementsRelay, Broadcast!Spec
=============================================================================
