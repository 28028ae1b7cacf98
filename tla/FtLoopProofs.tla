----------------------------- MODULE FtLoopProofs -----------------------------
(* Theorems about FtLoop, for every value of its constants. *)
EXTENDS FtLoop, SharedLemmas

(***************************************************************************)
(* What lastClientSize means, as long as nobody has left in a pass that    *)
(* accepted somebody.  In a pass that did not, everybody is polled and the *)
(* number has at most fallen; in one that did, everybody is but the new    *)
(* client, which is the last and stands behind the position.               *)
(***************************************************************************)
LastMeans ==
  ~missed =>
    /\ ~joined => Open \subseteq ToSet(pollFds) /\ Len(clients) <= last
    /\ joined => /\ pc \in {"pass", "send", "top", "ended"}
                 /\ Len(clients) = last + 1
                 /\ \A k \in 1..last : clients[k] \in ToSet(pollFds)
    /\ pc \in {"poll", "accept"} => ~joined /\ Len(clients) = last

\* The events that the pass has not come to are not over.
AheadOK ==
  pc \in {"accept", "pass", "send"} /\ IsInjective(pollFds) =>
    \A j \in revents :
      j >= i /\ (pc = "send" => j # i) => pollFds[j] \in Open /\ Ready(pollFds[j])

\* The handler that sends works for an entry.
SenderOK == pc = "send" => i \in 1..Len(pollFds)

\* An entry of the vector, and each client behind the position, stands for a
\* connection that was accepted.
GrowthOK ==
  accepted < Limit =>
    /\ Len(pollFds) <= accepted
    /\ Len(pollFds) + Len(clients) <= accepted + last

SInv == TypeOK /\ LastMeans /\ AheadOK /\ SenderOK /\ GrowthOK

LEMMA InitInvariant == Init => SInv
<1> SUFFICES ASSUME Init PROVE SInv
  OBVIOUS
<1>1. <<>> \in Seq(Fds) /\ Len(<<>>) = 0 /\ DOMAIN <<>> = {}
  BY EmptySeq, LenProperties
<1>2. Open = {}
  BY <1>1 DEF Init, Open, ToSet
<1>3. /\ clients \in Seq(Fds) /\ pollFds \in Seq(Fds)
      /\ IsInjective(clients) /\ Len(pollFds) = 0
  BY <1>1 DEF Init, IsInjective
<1>4. i \in 1..Len(pollFds) + 1 /\ last \in Nat
  BY <1>3 DEF Init
<1>5. TypeOK
  <2>1. accepted \in 0..Limit
    BY FtLoopConstants DEF Init
  <2>2. revents \subseteq 1..Len(pollFds) /\ unread \cup gone \cup full \subseteq Open
    BY DEF Init
  <2>3. todo \in Seq(Fds)
    BY <1>1 DEF Init
  <2>4. {inherits, terminate, backlog, joined, missed} \subseteq BOOLEAN
    BY DEF Init
  <2>5. pc = "top"
    BY DEF Init
  <2> QED
    BY <1>3, <1>4, <2>1, <2>2, <2>3, <2>4, <2>5 DEF TypeOK
<1>6. GrowthOK
  BY <1>1 DEF Init, GrowthOK
<1> QED
  BY <1>1, <1>2, <1>5, <1>6 DEF Init, SInv, LastMeans, AheadOK, SenderOK

\* Of both vectors.
LEMMA Vectors ==
  ASSUME SInv
  PROVE  /\ Len(clients) \in Nat /\ DOMAIN clients = 1..Len(clients)
         /\ Len(pollFds) \in Nat /\ DOMAIN pollFds = 1..Len(pollFds)
         /\ \A k \in 1..Len(clients) : clients[k] \in Fds /\ clients[k] \in Open
         /\ \A k \in 1..Len(pollFds) : pollFds[k] \in Fds
         /\ Open \subseteq Fds
<1>1. /\ Len(clients) \in Nat /\ DOMAIN clients = 1..Len(clients)
      /\ Len(pollFds) \in Nat /\ DOMAIN pollFds = 1..Len(pollFds)
      /\ \A k \in 1..Len(clients) : clients[k] \in Fds
      /\ \A k \in 1..Len(pollFds) : pollFds[k] \in Fds
  BY LenProperties, ElementOfSeq DEF SInv, TypeOK
<1> QED
  BY <1>1 DEF Open, ToSet

-----------------------------------------------------------------------------
(* The steps keep it. *)

\* What happens outside of the server only makes more readable.
LEMMA WorldKeeps ==
  ASSUME SInv,
         UNCHANGED <<inherits, clients, pollFds, revents, i, last, joined, missed, accepted>>,
         terminate' \in BOOLEAN, backlog' \in BOOLEAN, todo' \in Seq(Fds),
         pc' \in {pc, "ended"}, unread \subseteq unread', gone \subseteq gone',
         unread' \cup gone' \cup full' \subseteq Open
  PROVE  SInv'
<1>1. Open' = Open
  BY DEF Open
<1>2. TypeOK'
  BY <1>1 DEF SInv, TypeOK
<1>3. LastMeans'
  BY <1>1 DEF SInv, LastMeans
<1>4. AheadOK'
  BY <1>1 DEF SInv, AheadOK, Ready
<1>5. SenderOK' /\ GrowthOK'
  BY <1>1 DEF SInv, SenderOK, GrowthOK
<1> QED
  BY <1>2, <1>3, <1>4, <1>5 DEF SInv

\* A handler sends to members of Fds.
LEMMA TodoIsShorter ==
  ASSUME SInv, todo # <<>>
  PROVE  Tail(todo) \in Seq(Fds)
BY HeadTailProperties DEF SInv, TypeOK

LEMMA TopKeeps ==
  ASSUME SInv, Top
  PROVE  SInv'
<1> DEFINE new == SubSeq(clients, last + 1, Len(clients))
<1>1. /\ pc = "top" /\ pc' = "poll" /\ pollFds' = pollFds \o new
      /\ last' = Len(clients) /\ joined' = FALSE
      /\ UNCHANGED <<clients, revents, i, terminate, todo, inherits, backlog, unread, gone,
                     full, missed, accepted>>
  BY DEF Top, world
<1>2. last \in Nat /\ clients \in Seq(Fds) /\ pollFds \in Seq(Fds)
  BY DEF SInv, TypeOK
<1>3. /\ new \in Seq(Fds)
      /\ Len(new) = IF last + 1 <= Len(clients) THEN Len(clients) - last ELSE 0
      /\ \A k \in 1..Len(clients) - last : new[k] = clients[last + k]
  <2>1. \A k \in last + 1..Len(clients) : clients[k] \in Fds
    BY <1>2, Vectors
  <2>2. /\ new \in Seq(Fds)
        /\ Len(new) = IF last + 1 <= Len(clients) THEN Len(clients) - (last + 1) + 1 ELSE 0
        /\ \A k \in 1..Len(clients) - (last + 1) + 1 : new[k] = clients[(last + 1) + k - 1]
    BY <1>2, <2>1, Vectors, SubSeqProperties
  <2> HIDE DEF new
  <2>3. Len(clients) \in Nat
    BY Vectors
  <2>4. Len(clients) - (last + 1) + 1 = Len(clients) - last
    BY <1>2, <2>3
  <2>5. ASSUME NEW k \in 1..Len(clients) - last PROVE new[k] = clients[last + k]
    <3>1. (last + 1) + k - 1 = last + k
      BY <1>2
    <3>2. k \in 1..Len(clients) - (last + 1) + 1
      BY <2>4
    <3> QED
      BY <2>2, <3>1, <3>2
  <2> QED
    BY <2>2, <2>4, <2>5
<1> HIDE DEF new
<1>4. /\ pollFds' \in Seq(Fds) /\ Len(pollFds') = Len(pollFds) + Len(new)
      /\ \A k \in 1..Len(pollFds) + Len(new) :
           pollFds'[k] = IF k <= Len(pollFds) THEN pollFds[k] ELSE new[k - Len(pollFds)]
  BY <1>1, <1>2, <1>3, ConcatProperties
<1>5. DOMAIN pollFds' = 1..Len(pollFds) + Len(new) /\ Len(new) \in Nat
  BY <1>3, <1>4, LenProperties
<1>6. /\ \A k \in 1..Len(pollFds) : pollFds[k] \in ToSet(pollFds')
      /\ \A k \in 1..Len(new) : new[k] \in ToSet(pollFds')
  <2>1. \A k \in 1..Len(pollFds) : k \in DOMAIN pollFds' /\ pollFds'[k] = pollFds[k]
    BY <1>4, <1>5, Vectors
  <2>2. \A k \in 1..Len(new) : /\ Len(pollFds) + k \in DOMAIN pollFds'
                               /\ pollFds'[Len(pollFds) + k] = new[k]
    <3>1. Len(pollFds) \in Nat
      BY Vectors
    <3>2. SUFFICES ASSUME NEW k \in 1..Len(new)
                   PROVE  /\ Len(pollFds) + k \in DOMAIN pollFds'
                          /\ pollFds'[Len(pollFds) + k] = new[k]
      OBVIOUS
    <3> DEFINE n == Len(pollFds) + k
    <3>3. n \in 1..Len(pollFds) + Len(new) /\ ~(n <= Len(pollFds)) /\ n - Len(pollFds) = k
      BY <1>5, <3>1
    <3> HIDE DEF n
    <3>4. n \in DOMAIN pollFds' /\ pollFds'[n] = new[k]
      BY <1>4, <1>5, <3>3
    <3> QED
      BY <3>4 DEF n
  <2> QED
    BY <2>1, <2>2 DEF ToSet
<1>7. Open' = Open
  BY <1>1 DEF Open
<1>8. TypeOK'
  <2>1. Len(pollFds') \in Nat /\ Len(pollFds) <= Len(pollFds') /\ last' \in Nat
    BY <1>1, <1>4, <1>5, Vectors
  <2>2. revents' \subseteq 1..Len(pollFds') /\ i' \in 1..Len(pollFds') + 1
    BY <1>1, <2>1, Vectors DEF SInv, TypeOK
  <2> QED
    BY <1>1, <1>4, <1>7, <2>1, <2>2 DEF SInv, TypeOK
<1>9. ~missed => Open \subseteq ToSet(pollFds')
  <2>1. ToSet(pollFds) \subseteq ToSet(pollFds')
    BY <1>6, Vectors DEF ToSet
  <2>2. CASE ~missed /\ joined
    <3>1. ASSUME NEW k \in 1..Len(clients) PROVE clients[k] \in ToSet(pollFds')
      <4>1. CASE k <= last
        BY <1>2, <2>1, <2>2, <3>1, <4>1, Vectors DEF SInv, LastMeans
      <4>2. CASE k > last
        <5>1. k - last \in 1..Len(new) /\ new[k - last] = clients[k]
          <6>1. Len(clients) \in Nat /\ last + 1 <= Len(clients)
            BY <1>2, <4>2, Vectors
          <6>2. k - last \in 1..Len(clients) - last /\ last + (k - last) = k
            BY <1>2, <4>2, <6>1
          <6> QED
            BY <1>3, <6>1, <6>2
        <5> QED
          BY <1>6, <5>1
      <4> QED
        BY <1>2, <3>1, <4>1, <4>2
    <3> QED
      BY <3>1, Vectors DEF Open, ToSet
  <2>3. CASE ~missed /\ ~joined
    BY <2>1, <2>3 DEF SInv, LastMeans
  <2> QED
    BY <2>2, <2>3 DEF SInv, TypeOK
<1>10. LastMeans'
  BY <1>1, <1>7, <1>9, Vectors DEF LastMeans
<1>11. AheadOK' /\ SenderOK'
  BY <1>1 DEF AheadOK, SenderOK
<1>12. GrowthOK'
  <2>1. /\ Len(pollFds) \in Nat /\ Len(clients) \in Nat /\ accepted \in Nat /\ Limit \in Nat
        /\ Len(pollFds') = Len(pollFds) + Len(new)
        /\ Len(new) = IF last + 1 <= Len(clients) THEN Len(clients) - last ELSE 0
    BY <1>3, <1>4, Vectors, FtLoopConstants DEF SInv, TypeOK
  <2> QED
    BY <1>1, <1>2, <2>1 DEF SInv, GrowthOK
<1> QED
  BY <1>8, <1>10, <1>11, <1>12 DEF SInv

LEMMA PollReturnsKeeps ==
  ASSUME SInv, PollReturns
  PROVE  SInv'
<1>1. /\ revents' = Events /\ i' = 1 /\ pc = "poll" /\ pc' \in {"accept", "pass"}
      /\ pc' = "pass" => ~backlog
      /\ UNCHANGED <<clients, pollFds, last, terminate, todo, inherits, backlog, unread, gone,
                     full, joined, missed, accepted>>
  BY DEF PollReturns, Polls, world, history
<1>2. Open' = Open
  BY <1>1 DEF Open
<1>3. TypeOK'
  BY <1>1, <1>2, Vectors DEF SInv, TypeOK, Events
<1>4. LastMeans'
  BY <1>1, <1>2 DEF SInv, LastMeans
<1>5. AheadOK' /\ SenderOK'
  BY <1>1, <1>2 DEF AheadOK, SenderOK, Events, Ready
<1>6. GrowthOK'
  BY <1>1 DEF SInv, GrowthOK
<1> QED
  BY <1>3, <1>4, <1>5, <1>6 DEF SInv

LEMMA AcceptKeeps ==
  ASSUME SInv, Accept
  PROVE  SInv'
<1>0. /\ pc = "accept"
      /\ UNCHANGED <<pollFds, revents, i, last, terminate, todo, inherits, unread, gone, full,
                     missed>>
  BY DEF Accept
<1>1. ASSUME NEW f \in Fds \ Open, clients' = Append(clients, f), backlog' = FALSE,
             joined' = TRUE, pc' = "pass",
             accepted' = IF accepted < Limit THEN accepted + 1 ELSE accepted
      PROVE  SInv'
  <2>1. /\ clients' \in Seq(Fds) /\ Len(clients') = Len(clients) + 1
        /\ \A k \in 1..Len(clients) : clients'[k] = clients[k]
        /\ clients'[Len(clients) + 1] = f
    BY <1>1, AppendProperties, Vectors DEF SInv, TypeOK
  <2>2. DOMAIN clients' = 1..Len(clients) + 1
    BY <2>1, LenProperties
  <2>3. Open' = Open \cup {f}
    BY <2>1, <2>2, Vectors DEF Open, ToSet
  <2>4. IsInjective(clients')
    BY <1>1, <2>1, <2>2, Vectors DEF SInv, TypeOK, IsInjective
  <2>5. TypeOK'
    <3>1. accepted' \in 0..Limit
      BY <1>1, FtLoopConstants DEF SInv, TypeOK
    <3> QED
      BY <1>0, <1>1, <2>1, <2>3, <2>4, <3>1 DEF SInv, TypeOK
  <2>6. LastMeans'
    <3>1. ASSUME ~missed
          PROVE  Len(clients) = last /\ \A k \in 1..last : clients[k] \in ToSet(pollFds)
      BY <1>0, <3>1, Vectors DEF SInv, LastMeans
    <3> QED
      BY <1>0, <1>1, <2>1, <3>1 DEF LastMeans
  <2>7. AheadOK' /\ SenderOK'
    BY <1>0, <1>1, <2>3 DEF SInv, AheadOK, SenderOK, Ready
  <2>8. GrowthOK'
    BY <1>0, <1>1, <2>1, Vectors, FtLoopConstants DEF SInv, TypeOK, GrowthOK
  <2> QED
    BY <2>5, <2>6, <2>7, <2>8 DEF SInv
<1>2. CASE pc' = "ended" /\ UNCHANGED <<clients, backlog, joined, accepted>>
  <2>1. /\ backlog' \in BOOLEAN /\ terminate' \in BOOLEAN /\ todo' \in Seq(Fds)
        /\ unread' \cup gone' \cup full' \subseteq Open
    BY <1>0, <1>2 DEF SInv, TypeOK
  <2> QED
    BY <1>0, <1>2, <2>1, WorldKeeps
<1> QED
  BY <1>1, <1>2 DEF Accept

\* Steps of the pass that leave the clients alone.
LEMMA PassKeeps ==
  ASSUME SInv, Skip \/ ReadFails
  PROVE  SInv'
<1>1. /\ pc = "pass" /\ i <= Len(pollFds) /\ i' = i + 1
      /\ UNCHANGED <<pc, clients, pollFds, revents, last, terminate, todo, inherits, backlog,
                     unread, gone, full, joined, missed, accepted>>
  BY DEF Skip, ReadFails, InPass, world, history
<1>2. Open' = Open
  BY <1>1 DEF Open
<1>3. i' \in 1..Len(pollFds) + 1 /\ \A j \in 1..Len(pollFds) : j >= i' => j >= i
  BY <1>1, Vectors DEF SInv, TypeOK
<1>4. TypeOK'
  BY <1>1, <1>2, <1>3 DEF SInv, TypeOK
<1>5. LastMeans'
  BY <1>1, <1>2 DEF SInv, LastMeans
<1>6. AheadOK' /\ SenderOK'
  BY <1>1, <1>2, <1>3 DEF SInv, AheadOK, SenderOK, Ready, TypeOK
<1>7. GrowthOK'
  BY <1>1 DEF SInv, GrowthOK
<1> QED
  BY <1>4, <1>5, <1>6, <1>7 DEF SInv

\* The client of entry i is removed, at the end of its connection or by one of
\* its commands.
LEMMA RemovalKeeps ==
  ASSUME SInv, i \in 1..Len(pollFds), pollFds[i] \in Open, RemoveClient(pollFds[i]),
         \/ pc = "pass" /\ pc' = "pass" /\ i' = i + 1
         \/ pc = "send" /\ UNCHANGED <<pc, i>>,
         UNCHANGED <<pollFds, revents, last, terminate, todo, inherits, backlog, joined,
                     accepted>>
  PROVE  SInv'
<1> DEFINE f == pollFds[i]
<1>1. f \in Open /\ f \in Fds
  BY Vectors
<1>2. /\ i' \in 1..Len(pollFds) + 1
      /\ \A j \in 1..Len(pollFds) : j >= i' /\ (pc' = "send" => j # i') => j >= i /\ j # i
  BY Vectors
<1>3. IsInjective(pollFds) =>
        \A j \in revents : j >= i' /\ (pc' = "send" => j # i') => pollFds[j] # f
  BY <1>2, Vectors DEF IsInjective, SInv, TypeOK
<1>4. /\ clients' = RemoveFirst(clients, f)
      /\ unread' = unread \ {f} /\ gone' = gone \ {f} /\ full' = full \ {f}
      /\ missed' = (missed \/ joined)
  BY DEF RemoveClient
<1> HIDE DEF f
<1>5. /\ clients' \in Seq(Fds) /\ Len(clients') = Len(clients) - 1 /\ IsInjective(clients')
      /\ Open' = Open \ {f}
  BY <1>1, <1>4, RemoveFirstProperties DEF SInv, TypeOK, Open
<1>6. TypeOK'
  BY <1>1, <1>2, <1>4, <1>5 DEF SInv, TypeOK
<1>7. LastMeans'
  <2>1. SUFFICES ASSUME ~missed, ~joined
                 PROVE  Open' \subseteq ToSet(pollFds) /\ Len(clients') <= last
    BY <1>1, <1>4 DEF LastMeans
  <2> QED
    BY <1>5, <2>1, Vectors DEF SInv, LastMeans, TypeOK
<1>8. AheadOK'
  BY <1>1, <1>2, <1>3, <1>4, <1>5 DEF SInv, AheadOK, Ready, TypeOK
<1>9. SenderOK' /\ GrowthOK'
  BY <1>5, Vectors DEF SInv, TypeOK, SenderOK, GrowthOK
<1> QED
  BY <1>6, <1>7, <1>8, <1>9 DEF SInv

LEMMA ReadKeeps ==
  ASSUME SInv, Read
  PROVE  SInv'
<1> DEFINE f == pollFds[i]
<1>1. /\ pc = "pass" /\ i \in 1..Len(pollFds) /\ f \in Open /\ f \in Fds
      /\ UNCHANGED <<pollFds, revents, last, terminate, inherits, backlog, joined, accepted>>
  BY Vectors DEF Read, InPass, SInv, TypeOK
<1>2. IsInjective(pollFds) => \A j \in revents : j # i => pollFds[j] # f
  BY <1>1, Vectors DEF IsInjective, SInv, TypeOK
<1>3. CASE /\ unread' = unread \ {f} /\ pc' = "send" /\ todo' \in SeqOf(Fds, MaxSends)
           /\ UNCHANGED <<clients, i, gone, full, missed>>
  <2> HIDE DEF f
  <2>1. Open' = Open
    BY <1>3 DEF Open
  <2>2. todo' \in Seq(Fds)
    BY <1>3, FtLoopConstants DEF SeqOf
  <2>3. TypeOK'
    BY <1>1, <1>3, <2>1, <2>2 DEF SInv, TypeOK
  <2>4. LastMeans'
    BY <1>1, <1>3, <2>1 DEF SInv, LastMeans
  <2>5. AheadOK'
    BY <1>1, <1>2, <1>3, <2>1 DEF SInv, AheadOK, Ready, TypeOK
  <2>6. SenderOK' /\ GrowthOK'
    BY <1>1, <1>3, <2>1 DEF SInv, SenderOK, GrowthOK, f
  <2> QED
    BY <2>3, <2>4, <2>5, <2>6 DEF SInv
<1>4. CASE RemoveClient(f) /\ i' = i + 1 /\ UNCHANGED <<pc, todo>>
  BY <1>1, <1>4, RemovalKeeps
<1> QED
  BY <1>3, <1>4 DEF Read

LEMMA SendToKeeps ==
  ASSUME SInv, SendTo
  PROVE  SInv'
<1>1. /\ todo # <<>> /\ todo' = Tail(todo) /\ pc' \in {pc, "ended"}
      /\ UNCHANGED <<clients, pollFds, revents, i, last, terminate, inherits, backlog, unread,
                     gone, joined, missed, accepted>>
  BY DEF SendTo, history
<1>2. full' \subseteq Open
  BY DEF SendTo, SInv, TypeOK
<1>3. /\ todo' \in Seq(Fds) /\ terminate' \in BOOLEAN /\ backlog' \in BOOLEAN
      /\ unread' \cup gone' \cup full' \subseteq Open
  BY <1>1, <1>2, TodoIsShorter DEF SInv, TypeOK
<1> QED
  BY <1>1, <1>3, WorldKeeps

LEMMA EndOfHandlerKeeps ==
  ASSUME SInv, EndOfHandler
  PROVE  SInv'
<1>1. /\ pc = "send" /\ i \in 1..Len(pollFds)
      /\ UNCHANGED <<clients, pollFds, revents, last, terminate, todo, inherits, backlog,
                     unread, gone, full, joined, missed, accepted>>
  BY DEF EndOfHandler, SInv, SenderOK, world, history
<1>2. CASE pc' = "pass" /\ i' = i + 1
  <2>1. Open' = Open
    BY <1>1 DEF Open
  <2>2. i' \in 1..Len(pollFds) + 1 /\ \A j \in 1..Len(pollFds) : j >= i' => j >= i /\ j # i
    BY <1>1, <1>2, Vectors
  <2>3. TypeOK'
    BY <1>1, <1>2, <2>1, <2>2 DEF SInv, TypeOK
  <2>4. LastMeans'
    BY <1>1, <1>2, <2>1 DEF SInv, LastMeans
  <2>5. AheadOK'
    BY <1>1, <1>2, <2>1, <2>2 DEF SInv, AheadOK, Ready, TypeOK
  <2>6. SenderOK' /\ GrowthOK'
    BY <1>1, <1>2 DEF SInv, SenderOK, GrowthOK
  <2> QED
    BY <2>3, <2>4, <2>5, <2>6 DEF SInv
<1>3. CASE pc' = "ended" /\ UNCHANGED i
  <2>1. /\ terminate' \in BOOLEAN /\ backlog' \in BOOLEAN /\ todo' \in Seq(Fds)
        /\ unread' \cup gone' \cup full' \subseteq Open
    BY <1>1 DEF SInv, TypeOK
  <2> QED
    BY <1>1, <1>3, <2>1, WorldKeeps
<1> QED
  BY <1>2, <1>3 DEF EndOfHandler

LEMMA LeaveKeeps ==
  ASSUME SInv, Leave
  PROVE  SInv'
BY RemovalKeeps DEF Leave, SInv, SenderOK

LEMMA NextKeeps == SInv /\ [Next]_vars => SInv'
<1> SUFFICES ASSUME SInv, [Next]_vars PROVE SInv'
  OBVIOUS
<1>0. /\ terminate \in BOOLEAN /\ backlog \in BOOLEAN /\ todo \in Seq(Fds)
      /\ unread \cup gone \cup full \subseteq Open
  BY DEF SInv, TypeOK
<1>1. CASE Connect
  BY <1>0, <1>1, WorldKeeps DEF Connect, history
<1>2. ASSUME NEW f \in Fds, Send(f) \/ Hear(f) \/ HangUp(f) PROVE SInv'
  BY <1>0, <1>2, WorldKeeps DEF Send, Hear, HangUp, history
<1>3. CASE Signal
  <2>1. /\ terminate' = TRUE /\ pc' \in {pc, "ended"}
        /\ UNCHANGED <<inherits, clients, pollFds, revents, i, last, backlog, unread, gone,
                       full, joined, missed, accepted>>
    BY <1>3 DEF Signal, world, history
  <2>2. todo' \in Seq(Fds)
    BY <1>0, <1>3, TodoIsShorter DEF Signal, SendWaits
  <2> QED
    BY <1>0, <2>1, <2>2, WorldKeeps
<1>4. CASE Terminate \/ PollFails
  BY <1>0, <1>4, WorldKeeps DEF Terminate, PollFails, world, history
<1>5. CASE PollTimeout \/ EndOfPass
  <2>1. /\ pc' = "top"
        /\ UNCHANGED <<clients, pollFds, revents, i, last, terminate, todo, inherits, backlog,
                       unread, gone, full, joined, missed, accepted>>
    BY <1>5 DEF PollTimeout, EndOfPass, world, history
  <2>2. Open' = Open
    BY <2>1 DEF Open
  <2> QED
    BY <2>1, <2>2 DEF SInv, TypeOK, LastMeans, AheadOK, SenderOK, GrowthOK
<1>6. CASE UNCHANGED vars
  BY <1>0, <1>6, WorldKeeps DEF vars
<1> QED
  BY <1>1, <1>2, <1>3, <1>4, <1>5, <1>6, TopKeeps, PollReturnsKeeps, AcceptKeeps, PassKeeps,
     ReadKeeps, SendToKeeps, LeaveKeeps, EndOfHandlerKeeps
     DEF Next, Thread

THEOREM LoopInvariant == Spec => []SInv
BY InitInvariant, NextKeeps, PTL DEF Spec

\* Whenever ft_irc calls poll(), every client is in pollFds, unless one ever left in a pass that
\* accepted another: so lastClientSize works for any number of clients.  And poll() does not refuse
\* pollFds, which only grows, before as many connections were accepted as it takes entries.
THEOREM PollFdsAreOK == Spec => []PollFdsOK
<1>1. SInv => EveryoneIsPolled
  BY DEF SInv, LastMeans, EveryoneIsPolled
<1>2. SInv => GrowsSlowly
  <2> SUFFICES ASSUME SInv, pc = "poll", accepted < Limit PROVE Polls
    BY DEF GrowsSlowly
  <2>1. Len(pollFds) \in Nat /\ accepted \in Nat /\ Len(pollFds) <= accepted
    BY Vectors, FtLoopConstants DEF SInv, TypeOK, GrowthOK
  <2> QED
    BY <2>1, FtLoopConstants DEF Polls
<1>3. SInv => PollFdsOK
  BY <1>1, <1>2 DEF SInv, PollFdsOK
<1> QED
  BY <1>3, LoopInvariant, PTL

\* While no descriptor has two entries, no recv() of ft_irc waits for a client.
THEOREM LoopNeverWaits == Spec => []NeverWaits
<1>1. SInv => NeverWaits
  <2> SUFFICES ASSUME SInv, IsInjective(pollFds), RecvWaits PROVE FALSE
    BY DEF NeverWaits
  <2>1. i \in Nat /\ i \in revents /\ pc = "pass" /\ ~Ready(pollFds[i])
    BY Vectors DEF SInv, TypeOK, RecvWaits, InPass
  <2> QED
    BY <2>1 DEF SInv, AheadOK
<1> QED
  BY <1>1, LoopInvariant, PTL
=============================================================================
