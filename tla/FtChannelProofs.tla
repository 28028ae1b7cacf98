--------------------------- MODULE FtChannelProofs ----------------------------
(* Theorems about FtChannel, for every value of its constants.             *)
(*                                                                         *)
(* No property of the channels is inductive by itself, because they are    *)
(* about pointers: what a list says of a client depends on whether the     *)
(* Client is alive and on what the histories say of it.  FInv collects, of *)
(* each channel, what one command needs of the others.                     *)
EXTENDS FtChannel, SharedLemmas, FiniteSetTheorems

-----------------------------------------------------------------------------
(* The invariant *)

\* The types, save those of the channels; live clients differ in address, in
\* descriptor and, when they have one, in nick.
ClientsOK ==
  /\ clients \in Seq(Addrs)
  /\ heap \in [Addrs -> Client]
  /\ \A i, j \in 1..Len(clients) :
       /\ heap[clients[i]].fd # NoFd
       /\ heap[clients[i]].fd = heap[clients[j]].fd => i = j

HistoryOK ==
  /\ status \in {"running", "null", "stale", "torn", "ended"}
  /\ roster \cup chiefs \cup guests \subseteq Fds \X Chans
  /\ deeds \subseteq Deeds
  /\ \A p \in roster : p[2] \in DOMAIN channels

NicksDiffer ==
  \A a, b \in Live : heap[a].nick = heap[b].nick => a = b \/ heap[a].nick = Star

Fields(c) == channels[c] \in Channel

Ranks(c) ==
  /\ Operators(c) \subseteq Members(c)
  /\ IsInjective(channels[c].operators)

\* Who was told that it joined is on the list, ...
Seated(c) ==
  \A f \in Fds : <<f, c>> \in roster => \E a \in Members(c) \cap Live : heap[a].fd = f

\* ... and the list has no others.
Rostered(c) ==
  Done({"vanish", "rejoin"}) \/
    /\ \A a \in Members(c) : a \in Live /\ <<heap[a].fd, c>> \in roster
    /\ IsInjective(channels[c].members)

Earned(c) ==
  Done({"vanish", "rejoin"}) \/ \A a \in Operators(c) : <<heap[a].fd, c>> \in chiefs

Within(c) ==
  Done({"overfull"}) \/
    (channels[c].limit # 0 => Len(channels[c].members) <= channels[c].limit)

BansLive(c) ==
  Done({"vanish", "rejoin", "unlisted"}) \/ Bans(c) \subseteq Live

Obeyed(c) ==
  Done({"vanish", "rejoin", "unlisted", "halfban"}) \/
    \A b \in Bans(c), a \in Members(c) : heap[a].host # heap[b].host

Invited(c) ==
  Done({"unlisted"}) \/ \A a \in Invites(c) : a \in Live /\ <<heap[a].fd, c>> \in guests

ChannelGood(c) ==
  /\ Fields(c) /\ Ranks(c) /\ Seated(c) /\ Rostered(c) /\ Earned(c)
  /\ Within(c) /\ BansLive(c) /\ Obeyed(c) /\ Invited(c)

FInv ==
  /\ ClientsOK /\ HistoryOK /\ NicksDiffer /\ StaleCause
  /\ DOMAIN channels \subseteq Chans
  /\ \A c \in DOMAIN channels : ChannelGood(c)

-----------------------------------------------------------------------------
(* The lookups *)

\* A loop that returns the first match returns one, or there is none.
LEMMA FirstProperties ==
  ASSUME NEW s \in Seq(Addrs), NEW A
  PROVE  \/ First(s, A) \in ToSet(s) /\ First(s, A) \in A /\ First(s, A) # Null
         \/ First(s, A) = Null /\ ToSet(s) \cap A = {}
<1> DEFINE I == {i \in 1..Len(s) : s[i] \in A}
           k == CHOOSE i \in I : \A j \in I : i <= j
<1>0. Len(s) \in Nat /\ DOMAIN s = 1..Len(s) /\ \A i \in 1..Len(s) : s[i] \in Addrs
  BY LenProperties, ElementOfSeq
<1>1. CASE I = {}
  BY <1>0, <1>1 DEF First, ToSet
<1>2. CASE I # {}
  <2>1. I \in SUBSET Nat
    BY <1>0
  <2>2. \E i \in I : \A j \in I : i <= j
    <3> HIDE DEF I
    <3> QED
      BY <1>2, <2>1, MinProperties
  <2>3. k \in I
    BY <2>2
  <2>4. First(s, A) = s[k]
    BY <1>2 DEF First
  <2>5. k \in 1..Len(s) /\ s[k] \in A
    BY <2>3
  <2> HIDE DEF k, I
  <2> QED
    BY <1>0, <2>4, <2>5, FtChannelConstants DEF ToSet
<1> QED
  BY <1>1, <1>2

LEMMA LiveProperties ==
  ASSUME ClientsOK
  PROVE  /\ \A a \in Live : a \in Addrs /\ heap[a] \in Client /\ heap[a].fd \in Fds
         /\ \A a, b \in Live : heap[a].fd = heap[b].fd => a = b
         /\ IsInjective(clients)
<1>1. /\ DOMAIN clients = 1..Len(clients)
      /\ \A i \in 1..Len(clients) : clients[i] \in Addrs
  BY LenProperties, ElementOfSeq DEF ClientsOK
<1>2. \A a \in Live : \E i \in 1..Len(clients) : a = clients[i]
  BY <1>1 DEF Live, ToSet
<1>3. \A a \in Live : a \in Addrs /\ heap[a] \in Client /\ heap[a].fd # NoFd
  BY <1>1, <1>2 DEF ClientsOK
<1>4. \A a \in Live : heap[a].fd \in Fds
  BY <1>3 DEF Client
<1>5. \A a, b \in Live : heap[a].fd = heap[b].fd => a = b
  BY <1>2 DEF ClientsOK
<1>6. IsInjective(clients)
  BY <1>1 DEF ClientsOK, IsInjective
<1> QED
  BY <1>3, <1>4, <1>5, <1>6

\* getClient(fd) finds the client that has the descriptor.
LEMMA PtrProperties ==
  ASSUME ClientsOK, NEW f
  PROVE  /\ f \in Open => Ptr(f) \in Live /\ heap[Ptr(f)].fd = f
         /\ \A a \in Live : heap[a].fd = f => Ptr(f) = a /\ f \in Open
         /\ f \in Open => f \in Fds /\ Ptr(f) \in Addrs /\ Ptr(f) # Null
<1>1. \/ Ptr(f) \in ToSet(clients) /\ Ptr(f) \in WithFd(f) /\ Ptr(f) # Null
      \/ Ptr(f) = Null /\ ToSet(clients) \cap WithFd(f) = {}
  BY FirstProperties DEF ClientsOK, Ptr
<1>2. /\ \A a \in Live : a \in Addrs /\ heap[a].fd \in Fds
      /\ \A a, b \in Live : heap[a].fd = heap[b].fd => a = b
  BY LiveProperties
<1>3. \A a \in Live : heap[a].fd = f => a \in WithFd(f) /\ f \in Open
  BY <1>2 DEF WithFd, Open
<1>4. f \in Open => \E a \in Live : heap[a].fd = f
  BY DEF Open
<1>5. \A a \in WithFd(f) : heap[a].fd = f
  BY DEF WithFd
<1> QED
  BY <1>1, <1>2, <1>3, <1>4, <1>5 DEF Live

-----------------------------------------------------------------------------
(* What the functions of Channel do to its lists. *)

LEMMA FieldsProperties ==
  ASSUME NEW ch \in Channel
  PROVE  /\ ch.members \in Seq(Addrs) /\ ch.operators \in Seq(Addrs)
         /\ ch.bans \in Seq(Addrs) /\ ch.invites \in Seq(Addrs)
         /\ ch.limit \in Limits \cup {0} /\ ch.limit \in Nat /\ ch.inviteOnly \in BOOLEAN
         /\ ToSet(ch.members) \subseteq Addrs /\ ToSet(ch.operators) \subseteq Addrs
         /\ ToSet(ch.bans) \subseteq Addrs /\ ToSet(ch.invites) \subseteq Addrs
         /\ Len(ch.members) \in Nat
<1>1. /\ ch.members \in Seq(Addrs) /\ ch.operators \in Seq(Addrs)
      /\ ch.bans \in Seq(Addrs) /\ ch.invites \in Seq(Addrs)
      /\ ch.limit \in Limits \cup {0} /\ ch.inviteOnly \in BOOLEAN
  BY DEF Channel
<1>2. ch.limit \in Nat
  <2>1. ch.limit \in Limits \/ ch.limit = 0
    BY <1>1
  <2>2. \A l \in Limits : l \in Nat
    BY FtChannelConstants
  <2> QED
    BY <2>1, <2>2
<1>3. ASSUME NEW s \in Seq(Addrs) PROVE ToSet(s) \subseteq Addrs /\ Len(s) \in Nat
  BY LenProperties, ElementOfSeq DEF ToSet
<1> QED
  BY <1>1, <1>2, <1>3

\* One channel without the client at a: what of the lists r keeps of ch's.
Removed(ch, r, a) ==
  /\ r \in Channel
  /\ ToSet(r.members) \subseteq ToSet(ch.members)
  /\ ToSet(ch.members) \ {a} \subseteq ToSet(r.members)
  /\ Len(r.members) <= Len(ch.members)
  /\ IsInjective(ch.members) => IsInjective(r.members) /\ a \notin ToSet(r.members)
  /\ ToSet(r.operators) = ToSet(ch.operators) \ {a}
  /\ IsInjective(r.operators)
  /\ ToSet(r.operators) \subseteq ToSet(r.members)
  /\ r.bans = ch.bans /\ r.invites = ch.invites
  /\ r.limit = ch.limit /\ r.inviteOnly = ch.inviteOnly

LEMMA RemoveClientProperties ==
  ASSUME NEW ch \in Channel, NEW a,
         ToSet(ch.operators) \subseteq ToSet(ch.members), IsInjective(ch.operators)
  PROVE  Removed(ch, RemoveClient(ch, a), a)
<1> DEFINE r == RemoveClient(ch, a)
           m == RemoveFirst(ch.members, a)
           o == RemoveFirst(ch.operators, a)
<1>0. /\ ch.members \in Seq(Addrs) /\ ch.operators \in Seq(Addrs)
      /\ Len(ch.members) \in Nat
  BY FieldsProperties
<1>1. CASE a \notin ToSet(ch.members)
  <2>1. r = ch
    BY <1>1 DEF RemoveClient
  <2>2. ToSet(ch.operators) = ToSet(ch.operators) \ {a}
    BY <1>1
  <2> HIDE DEF r
  <2> QED
    BY <1>0, <1>1, <2>1, <2>2 DEF Removed, r
<1>2. CASE a \in ToSet(ch.members)
  <2>1. r = [ch EXCEPT !.members = m, !.operators = o]
    BY <1>2 DEF RemoveClient
  <2>2. /\ m \in Seq(Addrs) /\ Len(m) = Len(ch.members) - 1
        /\ ToSet(m) \subseteq ToSet(ch.members)
        /\ ToSet(ch.members) \ {a} \subseteq ToSet(m)
        /\ IsInjective(ch.members) => IsInjective(m) /\ a \notin ToSet(m)
    BY <1>0, <1>2, RemoveFirstSet
  <2>3. /\ o \in Seq(Addrs) /\ IsInjective(o)
        /\ ToSet(o) \subseteq ToSet(ch.operators)
        /\ ToSet(ch.operators) \ {a} \subseteq ToSet(o)
        /\ a \notin ToSet(o)
    BY <1>0, RemoveFirstSet
  <2> HIDE DEF m, o, r
  <2>4. /\ r \in Channel /\ r.members = m /\ r.operators = o
        /\ r.bans = ch.bans /\ r.invites = ch.invites
        /\ r.limit = ch.limit /\ r.inviteOnly = ch.inviteOnly
    BY <2>1, <2>2, <2>3 DEF Channel
  <2>5. ToSet(o) = ToSet(ch.operators) \ {a} /\ ToSet(o) \subseteq ToSet(m)
    BY <2>2, <2>3
  <2>6. Len(m) <= Len(ch.members)
    BY <1>0, <2>2
  <2> QED
    BY <2>2, <2>3, <2>4, <2>5, <2>6 DEF Removed, r
<1> QED
  BY <1>1, <1>2

LEMMA AddClientProperties ==
  ASSUME NEW ch \in Channel, NEW a \in Addrs,
         ToSet(ch.operators) \subseteq ToSet(ch.members), IsInjective(ch.operators)
  PROVE  /\ AddClient(ch, a) \in Channel
         /\ ToSet(AddClient(ch, a).members) = ToSet(ch.members) \cup {a}
         /\ Len(AddClient(ch, a).members) = Len(ch.members) + 1
         /\ IsInjective(ch.members) /\ a \notin ToSet(ch.members) =>
              IsInjective(AddClient(ch, a).members)
         /\ IsInjective(AddClient(ch, a).operators)
         /\ \/ ToSet(AddClient(ch, a).operators) = ToSet(ch.operators)
            \/ ch.members = <<>> /\ ToSet(AddClient(ch, a).operators) = {a}
         /\ AddClient(ch, a).bans = ch.bans /\ AddClient(ch, a).invites = ch.invites
         /\ AddClient(ch, a).limit = ch.limit
<1> DEFINE r == AddClient(ch, a)
           m == Append(ch.members, a)
           o == IF ch.members = <<>> THEN Append(ch.operators, a) ELSE ch.operators
<1>0. ch.members \in Seq(Addrs) /\ ch.operators \in Seq(Addrs)
  BY FieldsProperties
<1>1. /\ m \in Seq(Addrs) /\ Len(m) = Len(ch.members) + 1
      /\ ToSet(m) = ToSet(ch.members) \cup {a}
      /\ IsInjective(ch.members) /\ a \notin ToSet(ch.members) => IsInjective(m)
  BY <1>0, AppendSet
<1>2. /\ o \in Seq(Addrs) /\ IsInjective(o)
      /\ \/ ToSet(o) = ToSet(ch.operators)
         \/ ch.members = <<>> /\ ToSet(o) = {a}
  <2>1. CASE ch.members = <<>>
    <3>1. ToSet(ch.members) = {}
      BY <2>1, EmptySeq DEF ToSet
    <3>2. ToSet(ch.operators) = {}
      BY <3>1
    <3>3. /\ Append(ch.operators, a) \in Seq(Addrs)
          /\ ToSet(Append(ch.operators, a)) = {a}
          /\ IsInjective(Append(ch.operators, a))
      BY <1>0, <3>2, AppendSet
    <3> QED
      BY <2>1, <3>3
  <2>2. CASE ch.members # <<>>
    BY <1>0, <2>2
  <2> QED
    BY <2>1, <2>2
<1>3. r = [ch EXCEPT !.members = m, !.operators = o]
  BY DEF AddClient
<1> HIDE DEF m, o, r
<1>4. /\ r \in Channel /\ r.members = m /\ r.operators = o
      /\ r.bans = ch.bans /\ r.invites = ch.invites /\ r.limit = ch.limit
  BY <1>1, <1>2, <1>3 DEF Channel
<1> QED
  BY <1>1, <1>2, <1>4 DEF r
-----------------------------------------------------------------------------
(* What the invariant says as long as nothing went wrong. *)

\* Unless a connection ended on a channel, a client joined twice, or a listed
\* one went, every list names live clients.
LEMMA ListsLive ==
  ASSUME FInv, NEW c \in DOMAIN channels
  PROVE  /\ ~ Done({"vanish", "rejoin"}) => Members(c) \cup Operators(c) \subseteq Live
         /\ ~ Done({"vanish", "rejoin", "unlisted"}) =>
              /\ Bans(c) \cup Invites(c) \subseteq Live
              /\ Members(c) \cup Operators(c) \subseteq Live
              /\ Tested(c) \subseteq Live
<1>1. Ranks(c) /\ Rostered(c) /\ BansLive(c) /\ Invited(c)
  BY DEF FInv, ChannelGood
<1>2. /\ Done({"vanish", "rejoin"}) => Done({"vanish", "rejoin", "unlisted"})
      /\ Done({"unlisted"}) => Done({"vanish", "rejoin", "unlisted"})
  BY DEF Done
<1>3. ~ Done({"vanish", "rejoin"}) => Members(c) \cup Operators(c) \subseteq Live
  BY <1>1 DEF Ranks, Rostered
<1>4. ~ Done({"vanish", "rejoin", "unlisted"}) => Bans(c) \cup Invites(c) \subseteq Live
  BY <1>1, <1>2 DEF BansLive, Invited
<1>5. Tested(c) \subseteq Bans(c) \cup Invites(c)
  BY DEF Tested
<1> QED
  BY <1>2, <1>3, <1>4, <1>5

\* What a deed excuses stays excused.
LEMMA DoneStays ==
  ASSUME deeds \subseteq deeds'
  PROVE  \A d : Done(d) => Done(d)'
BY DEF Done

\* A command that reads lists of one channel.
LEMMA ReadsLive ==
  ASSUME FInv, NEW S, status' \in Reading(S, Live), deeds \subseteq deeds',
         ~ Done({"vanish", "rejoin", "unlisted"}) => S \subseteq Live
  PROVE  /\ status' \in {"running", "stale"}
         /\ status' = "stale" => Done({"vanish", "rejoin", "unlisted"})'
<1>1. Done({"vanish", "rejoin", "unlisted"}) => Done({"vanish", "rejoin", "unlisted"})'
  BY DoneStays
<1> QED
  BY <1>1 DEF Reading

-----------------------------------------------------------------------------
(* Steps that change no channel *)

\* The histories and the channels stay, and the live clients keep descriptor
\* and host: a client may be new, or may have another nick.
LEMMA Undisturbed ==
  ASSUME FInv, ClientsOK', NicksDiffer', StaleCause',
         status' \in {"running", "null", "stale", "torn", "ended"},
         Live \subseteq Live',
         \A a \in Live : heap'[a].fd = heap[a].fd /\ heap'[a].host = heap[a].host,
         UNCHANGED <<channels, roster, chiefs, guests, deeds>>
  PROVE  FInv'
<1>1. HistoryOK' /\ DOMAIN channels' \subseteq Chans
  BY DEF FInv, HistoryOK
<1>2. ASSUME NEW c \in DOMAIN channels'
      PROVE  ChannelGood(c)'
  <2>0. c \in DOMAIN channels /\ ChannelGood(c)
    BY <1>2 DEF FInv
  <2>1. \A d : Done(d) <=> Done(d)'
    BY DEF Done
  <2>2. /\ ~ Done({"vanish", "rejoin"}) => Members(c) \cup Operators(c) \subseteq Live
        /\ ~ Done({"vanish", "rejoin", "unlisted"}) =>
              Bans(c) \subseteq Live /\ Members(c) \subseteq Live
    BY <2>0, ListsLive
  <2>3. /\ Members(c)' = Members(c) /\ Operators(c)' = Operators(c)
        /\ Bans(c)' = Bans(c) /\ Invites(c)' = Invites(c)
    BY DEF Members, Operators, Bans, Invites
  <2>4. Fields(c)' /\ Ranks(c)'
    BY <2>0, <2>3 DEF ChannelGood, Fields, Ranks
  <2>5. Seated(c)'
    BY <2>0, <2>3 DEF ChannelGood, Seated
  <2>6. Rostered(c)' /\ Earned(c)'
    BY <2>0, <2>1, <2>2, <2>3 DEF ChannelGood, Rostered, Earned
  <2>7. Within(c)' /\ BansLive(c)'
    BY <2>0, <2>1, <2>3 DEF ChannelGood, Within, BansLive
  <2>8. Obeyed(c)'
    <3>1. SUFFICES ASSUME ~ Done({"vanish", "rejoin", "unlisted", "halfban"})'
                   PROVE  \A b \in Bans(c), a \in Members(c) : heap'[a].host # heap'[b].host
      BY <2>3 DEF Obeyed
    <3>2. /\ ~ Done({"vanish", "rejoin", "unlisted", "halfban"})
          /\ ~ Done({"vanish", "rejoin", "unlisted"})
      BY <3>1 DEF Done
    <3> QED
      BY <2>0, <2>2, <3>2 DEF ChannelGood, Obeyed
  <2>9. Invited(c)'
    BY <2>0, <2>1, <2>3 DEF ChannelGood, Invited
  <2> QED
    BY <2>4, <2>5, <2>6, <2>7, <2>8, <2>9 DEF ChannelGood
<1> QED
  BY <1>1, <1>2 DEF FInv

\* A command that changes nothing but what the server reads, or dies of.
LEMMA Quiet ==
  ASSUME FInv, UNCHANGED <<server, told, deeds>>,
         status' \in {"running", "null", "stale", "torn", "ended"}, StaleCause'
  PROVE  FInv'
<1>1. UNCHANGED <<clients, heap, channels, roster, chiefs, guests, deeds>>
  BY DEF server, told
<1>2. ClientsOK' /\ NicksDiffer' /\ Live' = Live
  BY <1>1 DEF FInv, ClientsOK, NicksDiffer, Live
<1> QED
  BY <1>1, <1>2, Undisturbed

-----------------------------------------------------------------------------
(* Steps that change one channel *)

\* The parts of ChannelGood that a command leaves as they are when it leaves
\* alone what they are about.
LEMMA PartsKept ==
  ASSUME FInv, NEW c \in DOMAIN channels, UNCHANGED <<clients, heap>>,
         deeds \subseteq deeds'
  PROVE  /\ (/\ channels'[c].members = channels[c].members
             /\ channels'[c].operators = channels[c].operators
             /\ UNCHANGED <<roster, chiefs>>)
            => Ranks(c)' /\ Seated(c)' /\ Rostered(c)' /\ Earned(c)'
         /\ (/\ channels'[c].limit = channels[c].limit
             /\ channels[c] \in Channel /\ channels'[c] \in Channel
             /\ Len(channels'[c].members) <= Len(channels[c].members))
            => Within(c)'
         /\ channels'[c].bans = channels[c].bans => BansLive(c)'
         /\ (/\ channels'[c].bans = channels[c].bans
             /\ Members(c)' \subseteq Members(c))
            => Obeyed(c)'
         /\ (/\ channels'[c].invites = channels[c].invites
             /\ guests' = guests)
            => Invited(c)'
<1>0. ChannelGood(c) /\ Live' = Live
  BY DEF FInv, Live
<1>1. \A d : Done(d) => Done(d)'
  BY DoneStays
<1>2. ASSUME channels'[c].members = channels[c].members,
             channels'[c].operators = channels[c].operators,
             UNCHANGED <<roster, chiefs>>
      PROVE  Ranks(c)' /\ Seated(c)' /\ Rostered(c)' /\ Earned(c)'
  <2>1. Members(c)' = Members(c) /\ Operators(c)' = Operators(c)
    BY <1>2 DEF Members, Operators
  <2>2. Ranks(c)' /\ Seated(c)'
    BY <1>0, <1>2, <2>1 DEF ChannelGood, Ranks, Seated
  <2>3. Rostered(c)' /\ Earned(c)'
    BY <1>0, <1>1, <1>2, <2>1 DEF ChannelGood, Rostered, Earned
  <2> QED
    BY <2>2, <2>3
<1>3. ASSUME channels'[c].limit = channels[c].limit,
             channels[c] \in Channel, channels'[c] \in Channel,
             Len(channels'[c].members) <= Len(channels[c].members)
      PROVE  Within(c)'
  <2>1. /\ channels[c].limit \in Nat /\ Len(channels[c].members) \in Nat
        /\ Len(channels'[c].members) \in Nat
    BY <1>3, FieldsProperties
  <2> QED
    BY <1>0, <1>1, <1>3, <2>1 DEF ChannelGood, Within
<1>4. channels'[c].bans = channels[c].bans => BansLive(c)'
  BY <1>0, <1>1 DEF ChannelGood, BansLive, Bans
<1>5. channels'[c].bans = channels[c].bans /\ Members(c)' \subseteq Members(c) => Obeyed(c)'
  BY <1>0, <1>1 DEF ChannelGood, Obeyed, Bans
<1>6. channels'[c].invites = channels[c].invites /\ guests' = guests => Invited(c)'
  BY <1>0, <1>1 DEF ChannelGood, Invited, Invites
<1> QED
  BY <1>2, <1>3, <1>4, <1>5, <1>6

\* A history that changes in what it says of channel c.
Differs(H, G, c) == \A p \in Fds \X Chans : p[2] # c => (p \in H <=> p \in G)

LEMMA OneChannel ==
  ASSUME FInv, NEW c \in Chans, UNCHANGED <<clients, heap>>,
         DOMAIN channels' = DOMAIN channels \cup {c},
         \A d \in DOMAIN channels \ {c} : channels'[d] = channels[d],
         roster' \cup chiefs' \cup guests' \subseteq Fds \X Chans,
         Differs(roster, roster', c), Differs(chiefs, chiefs', c),
         Differs(guests, guests', c),
         deeds \subseteq deeds', deeds' \subseteq Deeds,
         status' \in {"running", "null", "stale", "torn", "ended"}, StaleCause',
         ChannelGood(c)'
  PROVE  FInv'
<1>1. ClientsOK' /\ NicksDiffer' /\ Live' = Live
  BY DEF FInv, ClientsOK, NicksDiffer, Live
<1>2. DOMAIN channels' \subseteq Chans
  BY DEF FInv
<1>3. HistoryOK'
  <2>1. ASSUME NEW p \in roster' PROVE p[2] \in DOMAIN channels'
    <3>1. p \in Fds \X Chans
      BY <2>1
    <3>2. CASE p[2] # c
      BY <2>1, <3>1, <3>2 DEF Differs, FInv, HistoryOK
    <3> QED
      BY <3>2
  <2> QED
    BY <2>1 DEF HistoryOK
<1>4. \A d : Done(d) => Done(d)'
  BY DoneStays
<1>5. ASSUME NEW d \in DOMAIN channels', d # c
      PROVE  ChannelGood(d)'
  <2>0. d \in DOMAIN channels /\ channels'[d] = channels[d] /\ ChannelGood(d) /\ d \in Chans
    BY <1>5 DEF FInv
  <2>1. /\ Members(d)' = Members(d) /\ Operators(d)' = Operators(d)
        /\ Bans(d)' = Bans(d) /\ Invites(d)' = Invites(d)
    BY <2>0 DEF Members, Operators, Bans, Invites
  <2>2. \A f \in Fds : /\ <<f, d>> \in roster <=> <<f, d>> \in roster'
                       /\ <<f, d>> \in chiefs <=> <<f, d>> \in chiefs'
                       /\ <<f, d>> \in guests <=> <<f, d>> \in guests'
    <3>1. ASSUME NEW f \in Fds
          PROVE  <<f, d>> \in Fds \X Chans /\ <<f, d>>[2] # c
      BY <1>5, <2>0
    <3> QED
      BY <3>1 DEF Differs
  <2>3. \A a \in Live : heap[a].fd \in Fds
    BY LiveProperties DEF FInv
  <2>4. ~ Done({"vanish", "rejoin"}) => Operators(d) \subseteq Live
    BY <2>0, ListsLive
  <2>5. Fields(d)' /\ Ranks(d)'
    BY <2>0, <2>1 DEF ChannelGood, Fields, Ranks
  <2>6. Seated(d)'
    BY <1>1, <2>0, <2>1, <2>2 DEF ChannelGood, Seated
  <2>7. Rostered(d)'
    BY <1>1, <1>4, <2>0, <2>1, <2>2, <2>3 DEF ChannelGood, Rostered
  <2>8. Earned(d)'
    BY <1>1, <1>4, <2>0, <2>1, <2>2, <2>3, <2>4 DEF ChannelGood, Earned
  <2>9. Within(d)' /\ BansLive(d)' /\ Obeyed(d)'
    BY <1>1, <1>4, <2>0, <2>1 DEF ChannelGood, Within, BansLive, Obeyed
  <2>10. Invited(d)'
    BY <1>1, <1>4, <2>0, <2>1, <2>2, <2>3 DEF ChannelGood, Invited
  <2> QED
    BY <2>5, <2>6, <2>7, <2>8, <2>9, <2>10 DEF ChannelGood
<1>6. \A d \in DOMAIN channels' : ChannelGood(d)'
  BY <1>5
<1> QED
  BY <1>1, <1>2, <1>3, <1>6 DEF FInv

\* The client that sends a command is a live one.
LEMMA Actor ==
  ASSUME FInv, NEW f, Commands(f)
  PROVE  /\ f \in Fds /\ Ptr(f) \in Live /\ Ptr(f) \in Addrs
         /\ heap[Ptr(f)].fd = f /\ status = "running"
BY PtrProperties DEF FInv, Commands

LEMMA Types ==
  ASSUME FInv, NEW c \in DOMAIN channels
  PROVE  /\ c \in Chans
         /\ channels[c] \in Channel
         /\ Operators(c) \subseteq Members(c)
         /\ ToSet(channels[c].operators) \subseteq ToSet(channels[c].members)
         /\ IsInjective(channels[c].operators)
         /\ Live \subseteq Addrs
         /\ \A a \in Live : heap[a].fd \in Fds
         /\ \A a, b \in Live : heap[a].fd = heap[b].fd => a = b
<1>1. Fields(c) /\ Ranks(c)
  BY DEF FInv, ChannelGood
<1>2. /\ \A a \in Live : a \in Addrs /\ heap[a].fd \in Fds
      /\ \A a, b \in Live : heap[a].fd = heap[b].fd => a = b
  BY LiveProperties DEF FInv
<1> QED
  BY <1>1, <1>2 DEF FInv, Fields, Ranks, Operators, Members

\* A client, or whoever was at a, is taken off the list of c, and what was told
\* about it is struck.
LEMMA Taken ==
  ASSUME FInv, NEW c \in DOMAIN channels, NEW a, UNCHANGED <<clients, heap>>,
         deeds \subseteq deeds',
         NEW ch \in Channel,
         ch.members = channels[c].members, ch.operators = channels[c].operators,
         Removed(ch, channels'[c], a),
         roster' = roster \ About(roster, a, c),
         chiefs' = chiefs \ About(chiefs, a, c)
  PROVE  /\ Ranks(c)' /\ Seated(c)' /\ Rostered(c)' /\ Earned(c)'
         /\ Members(c)' \subseteq Members(c)
         /\ Len(channels'[c].members) <= Len(channels[c].members)
         /\ ~ Done({"vanish", "rejoin"}) =>
              a \notin Members(c)' /\ IsInjective(channels[c].members)
         /\ Differs(roster, roster', c) /\ Differs(chiefs, chiefs', c)
<1>0. /\ ChannelGood(c) /\ Live' = Live
      /\ ToSet(ch.members) = Members(c) /\ ToSet(ch.operators) = Operators(c)
  BY DEF FInv, Live, Members, Operators
<1>1. \A d : Done(d) => Done(d)'
  BY DoneStays
<1>2. /\ Operators(c) \subseteq Members(c)
      /\ \A b \in Live : heap[b].fd \in Fds
      /\ \A b1, b2 \in Live : heap[b1].fd = heap[b2].fd => b1 = b2
  BY Types
<1>3. /\ Members(c)' \subseteq Members(c)
      /\ Members(c) \ {a} \subseteq Members(c)'
      /\ IsInjective(channels[c].members) =>
           IsInjective(channels'[c].members) /\ a \notin Members(c)'
      /\ Operators(c)' = Operators(c) \ {a}
      /\ IsInjective(channels'[c].operators)
      /\ Operators(c)' \subseteq Members(c)'
      /\ Len(channels'[c].members) <= Len(channels[c].members)
  BY <1>0 DEF Removed, Members, Operators
<1>4. ~ Done({"vanish", "rejoin"}) =>
        /\ IsInjective(channels[c].members)
        /\ a \notin Members(c)'
        /\ \A b \in Members(c) : b \in Live /\ <<heap[b].fd, c>> \in roster
        /\ \A b \in Operators(c) : b \in Live /\ <<heap[b].fd, c>> \in chiefs
  BY <1>0, <1>2, <1>3 DEF ChannelGood, Rostered, Earned
<1>5. ASSUME NEW H
      PROVE  /\ a \in Live => <<heap[a].fd, c>> \notin H \ About(H, a, c)
             /\ \A b \in Live : b # a /\ <<heap[b].fd, c>> \in H
                  => <<heap[b].fd, c>> \in H \ About(H, a, c)
             /\ Differs(H, H \ About(H, a, c), c)
  <2>1. a \in Live => <<heap[a].fd, c>> \notin H \ About(H, a, c)
    BY DEF About
  <2>2. ASSUME NEW b \in Live, b # a
        PROVE  <<heap[b].fd, c>> \notin About(H, a, c)
    BY <1>2, <2>2 DEF About
  <2>3. Differs(H, H \ About(H, a, c), c)
    BY DEF About, Differs
  <2> QED
    BY <2>1, <2>2, <2>3
<1>6. Ranks(c)'
  BY <1>3 DEF Ranks
<1>7. Seated(c)'
  <2>1. ASSUME NEW g \in Fds, <<g, c>> \in roster'
        PROVE  \E b \in Members(c)' \cap Live : heap[b].fd = g
    <3>1. PICK b \in Members(c) \cap Live : heap[b].fd = g
      BY <1>0, <2>1 DEF ChannelGood, Seated
    <3>2. b # a
      BY <1>5, <2>1, <3>1
    <3> QED
      BY <1>3, <3>1, <3>2
  <2> QED
    BY <1>0, <2>1 DEF Seated
<1>8. ~ Done({"vanish", "rejoin"}) =>
        /\ \A b \in Members(c)' : b \in Live /\ <<heap[b].fd, c>> \in roster'
        /\ \A b \in Operators(c)' : <<heap[b].fd, c>> \in chiefs'
  <2>1. SUFFICES ASSUME ~ Done({"vanish", "rejoin"})
                 PROVE /\ \A b \in Members(c)' : b \in Live /\ <<heap[b].fd, c>> \in roster'
                       /\ \A b \in Operators(c)' : <<heap[b].fd, c>> \in chiefs'
    OBVIOUS
  <2>2. \A b \in Members(c)' : b # a /\ b \in Members(c)
    BY <1>3, <1>4, <2>1
  <2>3. \A b \in Members(c)' : b \in Live /\ <<heap[b].fd, c>> \in roster'
    BY <1>4, <1>5, <2>1, <2>2
  <2>4. \A b \in Operators(c)' : b \in Operators(c) /\ b # a
    BY <1>3
  <2>5. \A b \in Operators(c)' : <<heap[b].fd, c>> \in chiefs'
    BY <1>4, <1>5, <2>1, <2>4
  <2> QED
    BY <2>3, <2>5
<1>9. Rostered(c)'
  BY <1>0, <1>1, <1>3, <1>4, <1>8 DEF Rostered
<1>10. Earned(c)'
  BY <1>0, <1>1, <1>8 DEF Earned
<1> QED
  BY <1>3, <1>4, <1>5, <1>6, <1>7, <1>9, <1>10

LEMMA CreateKeeps ==
  ASSUME FInv, NEW f \in Fds, NEW c \in Chans, Create(f, c)
  PROVE  FInv'
<1> DEFINE a == Ptr(f)
<1>1. /\ a \in Live /\ a \in Addrs /\ heap[a].fd = f
      /\ c \notin DOMAIN channels
  BY Actor DEF Create
<1>2. /\ DOMAIN channels' = DOMAIN channels \cup {c}
      /\ channels'[c] = NewChannel(a)
      /\ \A d \in DOMAIN channels \ {c} : channels'[d] = channels[d]
  BY <1>1 DEF Create, Put
<1>3. /\ UNCHANGED <<clients, heap, status, guests, deeds>>
      /\ roster' = roster \cup {<<f, c>>} /\ chiefs' = chiefs \cup {<<f, c>>}
  BY DEF Create
<1>4. Live' = Live
  BY <1>3 DEF Live
<1> HIDE DEF a
<1>5. /\ channels'[c] \in Channel
      /\ Members(c)' = {a} /\ Operators(c)' = {a}
      /\ Bans(c)' = {} /\ Invites(c)' = {} /\ channels'[c].limit = 0
      /\ IsInjective(channels'[c].members) /\ IsInjective(channels'[c].operators)
  <2>1. /\ <<a>> \in Seq(Addrs) /\ <<>> \in Seq(Addrs)
        /\ ToSet(<<a>>) = {a} /\ ToSet(<<>>) = {} /\ IsInjective(<<a>>)
    BY <1>1 DEF ToSet, IsInjective
  <2>2. /\ channels'[c].members = <<a>> /\ channels'[c].operators = <<a>>
        /\ channels'[c].bans = <<>> /\ channels'[c].invites = <<>>
        /\ channels'[c].limit = 0
    BY <1>2 DEF NewChannel
  <2>3. channels'[c] \in Channel
    BY <1>2, <2>1 DEF NewChannel, Channel
  <2> QED
    BY <2>1, <2>2, <2>3 DEF Members, Operators, Bans, Invites
<1>6. \A g \in Fds : <<g, c>> \notin roster
  BY <1>1 DEF FInv, HistoryOK
<1>7. Fields(c)' /\ Ranks(c)'
  BY <1>5 DEF Fields, Ranks
<1>8. Seated(c)'
  BY <1>1, <1>3, <1>4, <1>5, <1>6 DEF Seated
<1>9. Rostered(c)' /\ Earned(c)'
  BY <1>1, <1>3, <1>4, <1>5 DEF Rostered, Earned
<1>10. Within(c)' /\ BansLive(c)' /\ Obeyed(c)' /\ Invited(c)'
  BY <1>5 DEF Within, BansLive, Obeyed, Invited
<1>11. ChannelGood(c)'
  BY <1>7, <1>8, <1>9, <1>10 DEF ChannelGood
<1>12. /\ roster' \cup chiefs' \cup guests' \subseteq Fds \X Chans
       /\ deeds' \subseteq Deeds
       /\ status' \in {"running", "null", "stale", "torn", "ended"} /\ StaleCause'
  BY <1>3 DEF FInv, HistoryOK, StaleCause, Done
<1>13. /\ Differs(roster, roster', c) /\ Differs(chiefs, chiefs', c)
       /\ Differs(guests, guests', c)
  BY <1>3 DEF Differs
<1> QED
  BY <1>2, <1>3, <1>11, <1>12, <1>13, OneChannel

LEMMA JoinKeeps ==
  ASSUME FInv, NEW f \in Fds, NEW c \in Chans, Join(f, c)
  PROVE  FInv'
<1> DEFINE a == Ptr(f)
           ch == channels[c]
           r == AddClient(ch, a)
<1>1. /\ a \in Live /\ a \in Addrs /\ heap[a].fd = f
      /\ c \in DOMAIN channels /\ Admits(ch, a)
  BY Actor DEF Join
<1>2. /\ DOMAIN channels' = DOMAIN channels \cup {c}
      /\ channels'[c] = r
      /\ \A d \in DOMAIN channels \ {c} : channels'[d] = channels[d]
  BY <1>1 DEF Join
<1>3. /\ UNCHANGED <<clients, heap, guests>>
      /\ roster' = roster \cup {<<f, c>>}
      /\ chiefs' = IF ch.members = <<>> THEN chiefs \cup {<<f, c>>} ELSE chiefs
      /\ status' \in Reading(Tested(c) \cup Members(c) \cup Operators(c), Live)
      /\ deeds' = deeds \cup (IF a \in Members(c) THEN {"rejoin"} ELSE {})
  BY DEF Join
<1>4. Live' = Live /\ deeds \subseteq deeds' /\ \A d : Done(d) => Done(d)'
  BY <1>3 DEF Live, Done
<1>5. /\ ch \in Channel /\ Operators(c) \subseteq Members(c)
      /\ ToSet(ch.operators) \subseteq ToSet(ch.members) /\ IsInjective(ch.operators)
      /\ \A b \in Live : heap[b].fd \in Fds
  BY <1>1, Types
<1>6. ChannelGood(c)
  BY <1>1 DEF FInv
<1> HIDE DEF r, a
<1>7. /\ r \in Channel
      /\ ToSet(r.members) = ToSet(ch.members) \cup {a}
      /\ Len(r.members) = Len(ch.members) + 1
      /\ IsInjective(ch.members) /\ a \notin ToSet(ch.members) => IsInjective(r.members)
      /\ IsInjective(r.operators)
      /\ \/ ToSet(r.operators) = ToSet(ch.operators)
         \/ ch.members = <<>> /\ ToSet(r.operators) = {a}
      /\ r.bans = ch.bans /\ r.invites = ch.invites /\ r.limit = ch.limit
  <2> HIDE DEF ch
  <2> QED
    BY <1>1, <1>5, AddClientProperties DEF r
<1>8. /\ Members(c)' = Members(c) \cup {a} /\ Bans(c)' = Bans(c)
      /\ \/ Operators(c)' = Operators(c)
         \/ ch.members = <<>> /\ Operators(c)' = {a}
      /\ IsInjective(channels'[c].operators)
  BY <1>2, <1>7 DEF Members, Operators, Bans
<1>9. Fields(c)' /\ Ranks(c)'
  BY <1>2, <1>5, <1>7, <1>8 DEF Fields, Ranks
<1>10. Seated(c)'
  BY <1>1, <1>3, <1>4, <1>6, <1>8 DEF Seated, ChannelGood
<1>11. Rostered(c)'
  <2>1. SUFFICES ASSUME ~ Done({"vanish", "rejoin"})'
                 PROVE  /\ \A b \in Members(c)' : b \in Live /\ <<heap[b].fd, c>> \in roster'
                        /\ IsInjective(channels'[c].members)
    BY <1>3, <1>4 DEF Rostered
  <2>2. a \notin Members(c) /\ ~ Done({"vanish", "rejoin"})
    BY <1>3, <1>4, <2>1 DEF Done
  <2>3. /\ \A b \in Members(c) : b \in Live /\ <<heap[b].fd, c>> \in roster
        /\ IsInjective(ch.members)
    BY <1>6, <2>2 DEF Rostered, ChannelGood
  <2>4. IsInjective(channels'[c].members)
    BY <1>2, <1>7, <2>2, <2>3 DEF Members
  <2> QED
    BY <1>1, <1>3, <1>8, <2>3, <2>4
<1>12. Earned(c)'
  BY <1>1, <1>3, <1>4, <1>6, <1>8 DEF Earned, ChannelGood
<1>13. Within(c)'
  <2>1. /\ ch.limit \in Nat /\ Len(ch.members) \in Nat
        /\ ch.limit # 0 => Len(ch.members) # ch.limit
    BY <1>1, <1>5, FieldsProperties DEF Admits
  <2>2. channels'[c].limit = ch.limit /\ Len(channels'[c].members) = Len(ch.members) + 1
    BY <1>2, <1>7
  <2>3. Done({"overfull"})' \/ (ch.limit # 0 => Len(ch.members) <= ch.limit)
    BY <1>4, <1>6 DEF Within, ChannelGood
  <2> HIDE DEF ch
  <2>4. Done({"overfull"})' \/ (ch.limit # 0 => Len(ch.members) + 1 <= ch.limit)
    BY <2>1, <2>3
  <2> QED
    BY <2>2, <2>4 DEF Within
<1>14. BansLive(c)' /\ Invited(c)'
  BY <1>1, <1>2, <1>3, <1>4, <1>7, PartsKept
<1>15. Obeyed(c)'
  <2>1. \A b \in Bans(c) : b \in Addrs
    BY <1>5, FieldsProperties DEF Bans
  <2>2. \A b \in Bans(c) : heap[a].host # heap[b].host
    BY <1>1, <2>1 DEF Admits, From, Bans
  <2> QED
    BY <1>3, <1>4, <1>6, <1>8, <2>2 DEF Obeyed, ChannelGood
<1>16. ChannelGood(c)'
  BY <1>9, <1>10, <1>11, <1>12, <1>13, <1>14, <1>15 DEF ChannelGood
<1>17. /\ roster' \cup chiefs' \cup guests' \subseteq Fds \X Chans
       /\ deeds' \subseteq Deeds
  BY <1>3 DEF FInv, HistoryOK, Deeds
<1>18. status' \in {"running", "null", "stale", "torn", "ended"} /\ StaleCause'
  <2>1. ~ Done({"vanish", "rejoin", "unlisted"}) =>
          Tested(c) \cup Members(c) \cup Operators(c) \subseteq Live
    BY <1>1, ListsLive
  <2>2. /\ status' \in {"running", "stale"}
        /\ status' = "stale" => Done({"vanish", "rejoin", "unlisted"})'
    BY <1>3, <1>4, <2>1, ReadsLive
  <2> QED
    BY <2>2 DEF StaleCause
<1>19. /\ Differs(roster, roster', c) /\ Differs(chiefs, chiefs', c)
       /\ Differs(guests, guests', c)
  BY <1>3 DEF Differs
<1> QED
  BY <1>1, <1>2, <1>3, <1>4, <1>16, <1>17, <1>18, <1>19, OneChannel

\* A command that reads bans, members and operators of a channel.
LEMMA ReadsAll ==
  ASSUME FInv, NEW c \in DOMAIN channels, deeds \subseteq deeds',
         NEW S \in SUBSET (Bans(c) \cup Members(c) \cup Operators(c)),
         status' \in Reading(S, Live)
  PROVE  status' \in {"running", "null", "stale", "torn", "ended"} /\ StaleCause'
<1>1. ~ Done({"vanish", "rejoin", "unlisted"}) => S \subseteq Live
  BY ListsLive
<1>2. /\ status' \in {"running", "stale"}
      /\ status' = "stale" => Done({"vanish", "rejoin", "unlisted"})'
  BY <1>1, ReadsLive
<1> QED
  BY <1>2 DEF StaleCause

\* OneChannel, for a command of an operator of a channel that exists.
LEMMA ExistingChannel ==
  ASSUME FInv, NEW c \in DOMAIN channels, UNCHANGED <<clients, heap>>,
         DOMAIN channels' = DOMAIN channels,
         \A d \in DOMAIN channels \ {c} : channels'[d] = channels[d],
         roster' \subseteq roster, chiefs' \cup guests' \subseteq Fds \X Chans,
         Differs(roster, roster', c), Differs(chiefs, chiefs', c),
         Differs(guests, guests', c),
         deeds \subseteq deeds', deeds' \subseteq Deeds,
         NEW S \in SUBSET (Bans(c) \cup Members(c) \cup Operators(c)),
         status' \in Reading(S, Live),
         ChannelGood(c)'
  PROVE  FInv'
<1>1. c \in Chans /\ DOMAIN channels' = DOMAIN channels \cup {c}
  BY Types
<1>2. roster' \cup chiefs' \cup guests' \subseteq Fds \X Chans
  BY DEF FInv, HistoryOK
<1>3. status' \in {"running", "null", "stale", "torn", "ended"} /\ StaleCause'
  BY ReadsAll
<1> QED
  BY <1>1, <1>2, <1>3, OneChannel

LEMMA PartKeeps ==
  ASSUME FInv, NEW f \in Fds, NEW c \in Chans, Part(f, c)
  PROVE  FInv'
<1> DEFINE a == Ptr(f)
<1>1. /\ a \in Live /\ heap[a].fd = f /\ c \in DOMAIN channels
  BY Actor DEF Part
<1>2. /\ channels'[c] = RemoveClient(channels[c], a)
      /\ DOMAIN channels' = DOMAIN channels
      /\ \A d \in DOMAIN channels \ {c} : channels'[d] = channels[d]
  BY <1>1 DEF Part
<1>3. /\ UNCHANGED <<clients, heap, guests, deeds>>
      /\ roster' = roster \ {<<f, c>>} /\ chiefs' = chiefs \ {<<f, c>>}
      /\ status' \in Reading(Members(c), Live)
  BY DEF Part
<1>4. /\ channels[c] \in Channel
      /\ ToSet(channels[c].operators) \subseteq ToSet(channels[c].members)
      /\ IsInjective(channels[c].operators)
  BY <1>1, Types
<1> HIDE DEF a
<1>5. Removed(channels[c], channels'[c], a)
  BY <1>2, <1>4, RemoveClientProperties
<1>6. ASSUME NEW H, H \subseteq Fds \X Chans
      PROVE  H \ {<<f, c>>} = H \ About(H, a, c)
  <2>1. About(H, a, c) = H \cap {<<f, c>>}
    BY <1>1, <1>6 DEF About
  <2> QED
    BY <2>1
<1>7. roster \subseteq Fds \X Chans /\ chiefs \subseteq Fds \X Chans
      /\ guests \subseteq Fds \X Chans /\ deeds \subseteq Deeds
  BY DEF FInv, HistoryOK
<1>8. roster' = roster \ About(roster, a, c) /\ chiefs' = chiefs \ About(chiefs, a, c)
  BY <1>3, <1>6, <1>7
<1>9. /\ Ranks(c)' /\ Seated(c)' /\ Rostered(c)' /\ Earned(c)'
      /\ Members(c)' \subseteq Members(c)
      /\ Len(channels'[c].members) <= Len(channels[c].members)
      /\ Differs(roster, roster', c) /\ Differs(chiefs, chiefs', c)
  BY <1>1, <1>3, <1>4, <1>5, <1>8, Taken
<1>10. /\ channels'[c] \in Channel
       /\ channels'[c].bans = channels[c].bans
       /\ channels'[c].invites = channels[c].invites
       /\ channels'[c].limit = channels[c].limit
  BY <1>5 DEF Removed
<1>11. Within(c)' /\ BansLive(c)' /\ Obeyed(c)' /\ Invited(c)'
  BY <1>1, <1>3, <1>4, <1>9, <1>10, PartsKept
<1>12. ChannelGood(c)'
  BY <1>9, <1>10, <1>11 DEF ChannelGood, Fields
<1>13. Differs(guests, guests', c)
  BY <1>3 DEF Differs
<1> QED
  BY <1>1, <1>2, <1>3, <1>7, <1>9, <1>12, <1>13, ExistingChannel

LEMMA KickKeeps ==
  ASSUME FInv, NEW f \in Fds, NEW c \in Chans, NEW n, Kick(f, c, n)
  PROVE  FInv'
<1> DEFINE a == First(channels[c].members, Called(n))
<1>1. c \in DOMAIN channels
  BY DEF Kick, Operates
<1>2. /\ channels'[c] = RemoveClient(channels[c], a)
      /\ DOMAIN channels' = DOMAIN channels
      /\ \A d \in DOMAIN channels \ {c} : channels'[d] = channels[d]
  BY <1>1 DEF Kick
<1>3. /\ UNCHANGED <<clients, heap, guests, deeds>>
      /\ roster' = roster \ About(roster, a, c)
      /\ chiefs' = chiefs \ About(chiefs, a, c)
      /\ status' \in Reading(Members(c) \cup Operators(c), Live)
  BY DEF Kick, ReadsLists
<1>4. /\ channels[c] \in Channel
      /\ ToSet(channels[c].operators) \subseteq ToSet(channels[c].members)
      /\ IsInjective(channels[c].operators)
  BY <1>1, Types
<1> HIDE DEF a
<1>5. Removed(channels[c], channels'[c], a)
  BY <1>2, <1>4, RemoveClientProperties
<1>6. /\ Ranks(c)' /\ Seated(c)' /\ Rostered(c)' /\ Earned(c)'
      /\ Members(c)' \subseteq Members(c)
      /\ Len(channels'[c].members) <= Len(channels[c].members)
      /\ Differs(roster, roster', c) /\ Differs(chiefs, chiefs', c)
  BY <1>1, <1>3, <1>4, <1>5, Taken
<1>7. /\ channels'[c] \in Channel
      /\ channels'[c].bans = channels[c].bans
      /\ channels'[c].invites = channels[c].invites
      /\ channels'[c].limit = channels[c].limit
  BY <1>5 DEF Removed
<1>8. Within(c)' /\ BansLive(c)' /\ Obeyed(c)' /\ Invited(c)'
  BY <1>1, <1>3, <1>4, <1>6, <1>7, PartsKept
<1>9. ChannelGood(c)'
  BY <1>6, <1>7, <1>8 DEF ChannelGood, Fields
<1>10. Differs(guests, guests', c)
  BY <1>3 DEF Differs
<1>11. chiefs' \cup guests' \subseteq Fds \X Chans /\ deeds' \subseteq Deeds
  BY <1>3 DEF FInv, HistoryOK
<1> QED
  BY <1>1, <1>2, <1>3, <1>6, <1>9, <1>10, <1>11, ExistingChannel

LEMMA GrantKeeps ==
  ASSUME FInv, NEW f \in Fds, NEW c \in Chans, NEW n, Grant(f, c, n)
  PROVE  FInv'
<1> DEFINE a == First(channels[c].members, Called(n))
           new == About({<<g, c>> : g \in Fds}, a, c)
<1>1. c \in DOMAIN channels
  BY DEF Grant, Operates
<1>2. /\ channels[c] \in Channel /\ Operators(c) \subseteq Members(c)
      /\ IsInjective(channels[c].operators) /\ ChannelGood(c)
      /\ \A b \in Live : heap[b].fd \in Fds
  BY <1>1, Types DEF FInv
<1>3. UNCHANGED <<clients, heap, roster, guests, deeds>>
  BY DEF Grant
<1>4. roster \cup chiefs \cup guests \subseteq Fds \X Chans /\ deeds \subseteq Deeds
  BY DEF FInv, HistoryOK
<1>5. CASE a = Null
  <2>1. UNCHANGED <<channels, chiefs>> /\ status' = "null"
    BY <1>5 DEF Grant
  <2>2. StaleCause'
    BY <2>1 DEF StaleCause
  <2> QED
    BY <1>3, <2>1, <2>2, Quiet DEF server, told
<1>6. CASE a # Null
  <2>1. /\ channels' = IF a \in Operators(c) THEN channels
                       ELSE [channels EXCEPT ![c].operators = Append(@, a)]
        /\ chiefs' = chiefs \cup new
        /\ status' \in Reading(Members(c) \cup Operators(c), Live)
    BY <1>6 DEF Grant, ReadsLists
  <2>2. a \in Members(c) /\ a \in Addrs
    <3>1. channels[c].members \in Seq(Addrs) /\ ToSet(channels[c].members) \subseteq Addrs
      BY <1>2, FieldsProperties
    <3>2. a \in ToSet(channels[c].members)
      BY <1>6, <3>1, FirstProperties
    <3> QED
      BY <3>1, <3>2 DEF Members
  <2> HIDE DEF a
  <2>3. PICK o : /\ o \in Seq(Addrs) /\ IsInjective(o)
                 /\ ToSet(o) = Operators(c) \cup {a}
                 /\ channels'[c] = [channels[c] EXCEPT !.operators = o]
                 /\ DOMAIN channels' = DOMAIN channels
                 /\ \A d \in DOMAIN channels \ {c} : channels'[d] = channels[d]
    <3>1. channels[c].operators \in Seq(Addrs)
      BY <1>2, FieldsProperties
    <3>2. CASE a \in Operators(c)
      <4> WITNESS channels[c].operators
      <4>1. channels[c] = [channels[c] EXCEPT !.operators = channels[c].operators]
        BY <1>2 DEF Channel
      <4> QED
        BY <1>2, <2>1, <3>1, <3>2, <4>1 DEF Operators
    <3>3. CASE a \notin Operators(c)
      <4>1. /\ Append(channels[c].operators, a) \in Seq(Addrs)
            /\ ToSet(Append(channels[c].operators, a)) = Operators(c) \cup {a}
            /\ IsInjective(Append(channels[c].operators, a))
        BY <1>2, <2>2, <3>1, <3>3, AppendSet DEF Operators
      <4> QED
        BY <1>1, <2>1, <3>3, <4>1
    <3> QED
      BY <3>2, <3>3
  <2>4. /\ channels'[c] \in Channel
        /\ channels'[c].operators = o
        /\ channels'[c].members = channels[c].members
        /\ channels'[c].bans = channels[c].bans
        /\ channels'[c].invites = channels[c].invites
        /\ channels'[c].limit = channels[c].limit
    BY <1>1, <1>2, <2>3 DEF Channel
  <2>5. Members(c)' = Members(c) /\ Operators(c)' = Operators(c) \cup {a} /\ Live' = Live
    BY <1>3, <2>3, <2>4 DEF Members, Operators, Live
  <2>6. Ranks(c)'
    BY <1>2, <2>2, <2>3, <2>4, <2>5 DEF Ranks
  <2>7. Seated(c)' /\ Rostered(c)'
    BY <1>2, <1>3, <2>4, <2>5 DEF ChannelGood, Seated, Rostered, Done
  <2>8. Earned(c)'
    <3>1. SUFFICES ASSUME ~ Done({"vanish", "rejoin"})
                   PROVE  \A b \in Operators(c) \cup {a} : <<heap[b].fd, c>> \in chiefs'
      BY <1>3, <2>5 DEF Earned, Done
    <3>2. \A b \in Operators(c) : <<heap[b].fd, c>> \in chiefs
      BY <1>2, <3>1 DEF ChannelGood, Earned
    <3>3. a \in Live
      BY <1>2, <2>2, <3>1 DEF ChannelGood, Rostered
    <3>4. <<heap[a].fd, c>> \in new
      BY <1>2, <3>3 DEF About
    <3> QED
      BY <2>1, <3>2, <3>4
  <2>9. /\ Len(channels[c].members) <= Len(channels[c].members)
    BY <1>2, FieldsProperties
  <2>10. Within(c)' /\ BansLive(c)' /\ Obeyed(c)' /\ Invited(c)'
    BY <1>1, <1>2, <1>3, <2>4, <2>5, <2>9, PartsKept
  <2>11. ChannelGood(c)'
    BY <2>4, <2>6, <2>7, <2>8, <2>10 DEF ChannelGood, Fields
  <2>12. new \subseteq Fds \X {c}
    BY DEF About
  <2>13. c \in Chans /\ chiefs' \cup guests' \subseteq Fds \X Chans
    BY <1>1, <1>3, <1>4, <2>1, <2>12, Types
  <2>14. /\ Differs(roster, roster', c) /\ Differs(chiefs, chiefs', c)
         /\ Differs(guests, guests', c)
    BY <1>3, <2>1, <2>12 DEF Differs
  <2> QED
    BY <1>1, <1>3, <1>4, <2>1, <2>3, <2>11, <2>13, <2>14, ExistingChannel
<1> QED
  BY <1>5, <1>6

LEMMA RevokeKeeps ==
  ASSUME FInv, NEW f \in Fds, NEW c \in Chans, NEW n, Revoke(f, c, n)
  PROVE  FInv'
<1> DEFINE a == First(channels[c].members, Called(n))
           o == RemoveFirst(channels[c].operators, a)
<1>1. c \in DOMAIN channels
  BY DEF Revoke, Operates
<1>2. /\ channels[c] \in Channel /\ Operators(c) \subseteq Members(c)
      /\ IsInjective(channels[c].operators) /\ ChannelGood(c)
      /\ \A b \in Live : heap[b].fd \in Fds
      /\ \A b1, b2 \in Live : heap[b1].fd = heap[b2].fd => b1 = b2
  BY <1>1, Types DEF FInv
<1>3. /\ UNCHANGED <<clients, heap, roster, guests, deeds>>
      /\ chiefs' = chiefs \ About(chiefs, a, c)
      /\ status' \in Reading(Members(c) \cup Operators(c), Live)
      /\ channels' = [channels EXCEPT ![c].operators = o]
  BY DEF Revoke, ReadsLists
<1>4. /\ o \in Seq(Addrs) /\ IsInjective(o) /\ ToSet(o) = Operators(c) \ {a}
  <2>1. channels[c].operators \in Seq(Addrs)
    BY <1>2, FieldsProperties
  <2> HIDE DEF a
  <2>2. /\ o \in Seq(Addrs) /\ IsInjective(o) /\ a \notin ToSet(o)
        /\ ToSet(o) \subseteq Operators(c) /\ Operators(c) \ {a} \subseteq ToSet(o)
    BY <1>2, <2>1, RemoveFirstSet DEF Operators
  <2> QED
    BY <2>2
<1> HIDE DEF a, o
<1>5. /\ channels'[c] \in Channel
      /\ channels'[c].operators = o
      /\ channels'[c].members = channels[c].members
      /\ channels'[c].bans = channels[c].bans
      /\ channels'[c].invites = channels[c].invites
      /\ channels'[c].limit = channels[c].limit
      /\ DOMAIN channels' = DOMAIN channels
      /\ \A d \in DOMAIN channels \ {c} : channels'[d] = channels[d]
  BY <1>1, <1>2, <1>3, <1>4 DEF Channel
<1>6. Members(c)' = Members(c) /\ Operators(c)' = Operators(c) \ {a} /\ Live' = Live
  BY <1>3, <1>4, <1>5 DEF Members, Operators, Live
<1>7. Ranks(c)'
  BY <1>2, <1>4, <1>5, <1>6 DEF Ranks
<1>8. Seated(c)' /\ Rostered(c)'
  BY <1>2, <1>3, <1>5, <1>6 DEF ChannelGood, Seated, Rostered, Done
<1>9. Earned(c)'
  <2>1. SUFFICES ASSUME ~ Done({"vanish", "rejoin"}), NEW b \in Operators(c), b # a
                 PROVE  <<heap[b].fd, c>> \in chiefs \ About(chiefs, a, c)
    BY <1>3, <1>6 DEF Earned, Done
  <2>2. <<heap[b].fd, c>> \in chiefs /\ b \in Live
    BY <1>2, <2>1 DEF ChannelGood, Earned, Rostered
  <2>3. <<heap[b].fd, c>> \notin About(chiefs, a, c)
    BY <1>2, <2>1, <2>2 DEF About
  <2> QED
    BY <2>2, <2>3
<1>10. Len(channels[c].members) <= Len(channels[c].members)
  BY <1>2, FieldsProperties
<1>11. Within(c)' /\ BansLive(c)' /\ Obeyed(c)' /\ Invited(c)'
  BY <1>1, <1>2, <1>3, <1>5, <1>6, <1>10, PartsKept
<1>12. ChannelGood(c)'
  BY <1>5, <1>7, <1>8, <1>9, <1>11 DEF ChannelGood, Fields
<1>13. chiefs' \cup guests' \subseteq Fds \X Chans /\ deeds' \subseteq Deeds
  BY <1>3 DEF FInv, HistoryOK
<1>14. /\ Differs(roster, roster', c) /\ Differs(chiefs, chiefs', c)
       /\ Differs(guests, guests', c)
  BY <1>3 DEF Differs, About
<1> QED
  BY <1>1, <1>3, <1>5, <1>12, <1>13, <1>14, ExistingChannel

LEMMA InviteKeeps ==
  ASSUME FInv, NEW f \in Fds, NEW c \in Chans, NEW n, Invite(f, c, n)
  PROVE  FInv'
<1> DEFINE a == First(clients, Called(n))
           v == Append(channels[c].invites, a)
<1>1. /\ c \in DOMAIN channels
      /\ UNCHANGED <<clients, heap, roster, chiefs, deeds>>
  BY DEF Invite, Operates
<1>2. a \in Live
  <2>1. clients \in Seq(Addrs) /\ a # Null
    BY DEF FInv, ClientsOK, Invite
  <2> QED
    BY <2>1, FirstProperties DEF Live
<1>3. CASE a \in Invites(c)
  <2>1. UNCHANGED <<channels, guests>> /\ status' = "ended"
    BY <1>3 DEF Invite
  <2>2. StaleCause'
    BY <2>1 DEF StaleCause
  <2> QED
    BY <1>1, <2>1, <2>2, Quiet DEF server, told
<1>4. CASE a \notin Invites(c)
  <2>1. /\ channels' = [channels EXCEPT ![c].invites = v]
        /\ guests' = guests \cup {<<heap[a].fd, c>>}
        /\ status' \in Reading(Members(c) \cup Operators(c), Live)
    BY <1>4 DEF Invite, ReadsLists
  <2>2. /\ channels[c] \in Channel /\ ChannelGood(c) /\ a \in Addrs /\ heap[a].fd \in Fds
    BY <1>1, <1>2, Types DEF FInv
  <2> HIDE DEF a
  <2>3. v \in Seq(Addrs) /\ ToSet(v) = Invites(c) \cup {a}
    <3>1. channels[c].invites \in Seq(Addrs)
      BY <2>2, FieldsProperties
    <3> QED
      BY <2>2, <3>1, AppendSet DEF Invites
  <2> HIDE DEF v
  <2>4. /\ channels'[c] \in Channel
        /\ channels'[c].invites = v
        /\ channels'[c].members = channels[c].members
        /\ channels'[c].operators = channels[c].operators
        /\ channels'[c].bans = channels[c].bans
        /\ channels'[c].limit = channels[c].limit
        /\ DOMAIN channels' = DOMAIN channels
        /\ \A d \in DOMAIN channels \ {c} : channels'[d] = channels[d]
    BY <1>1, <2>1, <2>2, <2>3 DEF Channel
  <2>5. /\ Members(c)' = Members(c) /\ Live' = Live
        /\ Len(channels'[c].members) <= Len(channels[c].members)
    BY <1>1, <2>2, <2>4, FieldsProperties DEF Members, Live
  <2>6. /\ Ranks(c)' /\ Seated(c)' /\ Rostered(c)' /\ Earned(c)'
        /\ Within(c)' /\ BansLive(c)' /\ Obeyed(c)'
    BY <1>1, <2>2, <2>4, <2>5, PartsKept
  <2>7. Invited(c)'
    BY <1>1, <1>2, <2>1, <2>2, <2>3, <2>4, <2>5 DEF ChannelGood, Invited, Invites, Done
  <2>8. ChannelGood(c)'
    BY <2>4, <2>6, <2>7 DEF ChannelGood, Fields
  <2>9. chiefs' \cup guests' \subseteq Fds \X Chans /\ deeds' \subseteq Deeds
    BY <1>1, <2>1, <2>2 DEF FInv, HistoryOK
  <2>10. /\ Differs(roster, roster', c) /\ Differs(chiefs, chiefs', c)
         /\ Differs(guests, guests', c)
    BY <1>1, <2>1 DEF Differs
  <2> QED
    BY <1>1, <2>1, <2>4, <2>8, <2>9, <2>10, ExistingChannel
<1> QED
  BY <1>3, <1>4

\* Two different entries of a finite list.
LEMMA MoreThanOne ==
  ASSUME NEW N \in Nat, NEW S \in SUBSET (1..N), NEW i \in S, NEW j \in S, i # j
  PROVE  Cardinality(S) > 1
<1>1. IsFiniteSet(1..N)
  BY FS_Interval
<1>2. IsFiniteSet(S) /\ Cardinality(S) \in Nat
  BY <1>1, FS_Subset, FS_CardinalityType
<1>3. IsFiniteSet({i}) /\ Cardinality({i}) = 1
  BY FS_Singleton
<1>4. Cardinality({i} \cup {j}) = 2
  BY <1>3, FS_AddElement
<1>5. Cardinality({i} \cup {j}) <= Cardinality(S)
  BY <1>2, FS_Subset
<1> QED
  BY <1>2, <1>4, <1>5

LEMMA BanKeeps ==
  ASSUME FInv, NEW f \in Fds, NEW c \in Chans, NEW h, Ban(f, c, h)
  PROVE  FInv'
<1> DEFINE ch == channels[c]
           there == {i \in 1..Len(ch.members) : ch.members[i] \in From(h)}
           a == First(ch.members, From(h))
           new == there # {} /\ Bans(c) \cap From(h) = {}
           bans == Append(ch.bans, a)
           banned == [ch EXCEPT !.bans = bans]
<1>1. c \in DOMAIN channels /\ UNCHANGED <<clients, heap, guests>>
  BY DEF Ban, Operates
<1>2. /\ channels' = IF new THEN [channels EXCEPT ![c] = RemoveClient(banned, a)] ELSE channels
      /\ roster' = IF new THEN roster \ About(roster, a, c) ELSE roster
      /\ chiefs' = IF new THEN chiefs \ About(chiefs, a, c) ELSE chiefs
      /\ status' \in Reading(Bans(c) \cup Members(c) \cup Operators(c), Live)
      /\ deeds' = deeds \cup (IF Cardinality(there) > 1 THEN {"halfban"} ELSE {})
  BY DEF Ban, AddBan
<1>3. /\ c \in Chans /\ ch \in Channel
      /\ ToSet(ch.operators) \subseteq ToSet(ch.members) /\ IsInjective(ch.operators)
      /\ ChannelGood(c) /\ Live' = Live
  BY <1>1, Types DEF FInv, Live
<1>4. /\ ch.members \in Seq(Addrs) /\ ch.bans \in Seq(Addrs)
      /\ Len(ch.members) \in Nat /\ ToSet(ch.members) \subseteq Addrs
  BY <1>3, FieldsProperties
<1>5. /\ deeds \subseteq deeds' /\ deeds' \subseteq Deeds
      /\ \A d : Done(d) => Done(d)'
  BY <1>2 DEF FInv, HistoryOK, Deeds, Done
<1>6. chiefs' \cup guests' \subseteq Fds \X Chans /\ roster' \subseteq roster
  BY <1>1, <1>2 DEF FInv, HistoryOK
<1>7. Differs(guests, guests', c)
  BY <1>1 DEF Differs
<1>8. CASE ~ new
  <2>1. UNCHANGED <<channels, roster, chiefs>>
    BY <1>2, <1>8
  <2>2. Members(c)' \subseteq Members(c) /\ Len(ch.members) <= Len(ch.members)
    BY <1>4, <2>1 DEF Members
  <2>3. /\ Ranks(c)' /\ Seated(c)' /\ Rostered(c)' /\ Earned(c)'
        /\ Within(c)' /\ BansLive(c)' /\ Obeyed(c)' /\ Invited(c)'
    BY <1>1, <1>3, <1>5, <2>1, <2>2, PartsKept
  <2>4. ChannelGood(c)'
    BY <1>3, <2>1, <2>3 DEF ChannelGood, Fields
  <2>5. Differs(roster, roster', c) /\ Differs(chiefs, chiefs', c)
    BY <2>1 DEF Differs
  <2> QED
    BY <1>1, <1>2, <1>5, <1>6, <1>7, <2>1, <2>4, <2>5, ExistingChannel
<1>9. CASE new
  <2>1. /\ a \in Members(c) /\ a \in Addrs /\ heap[a].host = h
    <3>1. PICK i \in 1..Len(ch.members) : ch.members[i] \in From(h)
      BY <1>9
    <3>2. ch.members[i] \in ToSet(ch.members)
      BY <1>4, <3>1, LenProperties DEF ToSet
    <3>3. a \in ToSet(ch.members) /\ a \in From(h)
      BY <1>4, <3>1, <3>2, FirstProperties
    <3> QED
      BY <1>4, <3>3 DEF Members, From
  <2>2. /\ channels'[c] = RemoveClient(banned, a)
        /\ DOMAIN channels' = DOMAIN channels
        /\ \A d \in DOMAIN channels \ {c} : channels'[d] = channels[d]
        /\ roster' = roster \ About(roster, a, c)
        /\ chiefs' = chiefs \ About(chiefs, a, c)
    BY <1>1, <1>2, <1>9
  <2> HIDE DEF a
  <2>3. bans \in Seq(Addrs) /\ ToSet(bans) = Bans(c) \cup {a}
    BY <1>4, <2>1, AppendSet DEF Bans
  <2> HIDE DEF bans
  <2>4. /\ banned \in Channel /\ banned.members = ch.members
        /\ banned.operators = ch.operators /\ banned.bans = bans
        /\ banned.invites = ch.invites /\ banned.limit = ch.limit
    BY <1>3, <2>3 DEF Channel
  <2> HIDE DEF banned
  <2>5. Removed(banned, channels'[c], a)
    BY <1>3, <2>2, <2>4, RemoveClientProperties
  <2>6. /\ Ranks(c)' /\ Seated(c)' /\ Rostered(c)' /\ Earned(c)'
        /\ Members(c)' \subseteq Members(c)
        /\ Len(channels'[c].members) <= Len(ch.members)
        /\ ~ Done({"vanish", "rejoin"}) =>
             a \notin Members(c)' /\ IsInjective(ch.members)
        /\ Differs(roster, roster', c) /\ Differs(chiefs, chiefs', c)
    BY <1>1, <1>5, <2>2, <2>4, <2>5, Taken
  <2>7. /\ channels'[c] \in Channel
        /\ channels'[c].bans = bans
        /\ channels'[c].invites = ch.invites
        /\ channels'[c].limit = ch.limit
    BY <2>4, <2>5 DEF Removed
  <2>8. Within(c)' /\ Invited(c)'
    BY <1>1, <1>3, <1>5, <2>6, <2>7, PartsKept
  <2>9. BansLive(c)'
    <3>1. SUFFICES ASSUME ~ Done({"vanish", "rejoin", "unlisted"})'
                   PROVE  Bans(c) \cup {a} \subseteq Live
      BY <1>3, <2>3, <2>7 DEF BansLive, Bans
    <3>2. ~ Done({"vanish", "rejoin", "unlisted"})
      BY <1>5, <3>1
    <3> QED
      BY <1>1, <2>1, <3>2, ListsLive
  <2>10. Obeyed(c)'
    <3>1. SUFFICES ASSUME ~ Done({"vanish", "rejoin", "unlisted", "halfban"})',
                          NEW b \in Bans(c) \cup {a}, NEW m \in Members(c)'
                   PROVE  heap[m].host # heap[b].host
      BY <1>1, <2>3, <2>7 DEF Obeyed, Bans
    <3>2. /\ ~ Done({"vanish", "rejoin"}) /\ m \in Members(c)
          /\ ~ Done({"vanish", "rejoin", "unlisted", "halfban"})
          /\ Cardinality(there) > 1 => FALSE
      BY <1>2, <2>6, <3>1 DEF Done
    <3>3. CASE b \in Bans(c)
      BY <1>3, <3>2, <3>3 DEF ChannelGood, Obeyed
    <3>4. CASE b = a
      <4>1. m # a
        BY <2>6, <3>1, <3>2
      <4>2. PICK i, j \in 1..Len(ch.members) : ch.members[i] = m /\ ch.members[j] = a
        BY <1>4, <2>1, <3>2, LenProperties DEF Members, ToSet
      <4>3. m \in Addrs
        BY <1>4, <3>2 DEF Members
      <4>4. ~ (heap[m].host = h)
        <5>1. SUFFICES ASSUME heap[m].host = h PROVE FALSE
          OBVIOUS
        <5>2. i \in there /\ j \in there /\ i # j
          BY <2>1, <4>1, <4>2, <4>3, <5>1 DEF From
        <5>3. there \in SUBSET (1..Len(ch.members))
          OBVIOUS
        <5> HIDE DEF there
        <5>4. Cardinality(there) > 1
          BY <1>4, <5>2, <5>3, MoreThanOne
        <5> QED
          BY <3>2, <5>4
      <4> QED
        BY <2>1, <3>4, <4>4
    <3> QED
      BY <3>3, <3>4
  <2>11. ChannelGood(c)'
    BY <2>6, <2>7, <2>8, <2>9, <2>10 DEF ChannelGood, Fields
  <2> QED
    BY <1>1, <1>2, <1>5, <1>6, <1>7, <2>2, <2>6, <2>11, ExistingChannel
<1> QED
  BY <1>8, <1>9

LEMMA UnbanKeeps ==
  ASSUME FInv, NEW f \in Fds, NEW c \in Chans, NEW h, Unban(f, c, h)
  PROVE  FInv'
<1> DEFINE b == First(channels[c].bans, From(h))
           t == RemoveFirst(channels[c].bans, b)
<1>1. /\ c \in DOMAIN channels
      /\ UNCHANGED <<clients, heap, roster, chiefs, guests, deeds>>
  BY DEF Unban, Operates, told
<1>2. CASE b = Null /\ channels[c].bans # <<>>
  <2>1. UNCHANGED channels /\ status' = "null"
    BY <1>2 DEF Unban
  <2>2. StaleCause'
    BY <2>1 DEF StaleCause
  <2> QED
    BY <1>1, <2>1, <2>2, Quiet DEF server, told
<1>3. CASE ~ (b = Null /\ channels[c].bans # <<>>)
  <2>1. /\ channels' = [channels EXCEPT ![c].bans = t]
        /\ status' \in Reading(Bans(c) \cup Members(c) \cup Operators(c), Live)
    BY <1>3 DEF Unban
  <2>2. channels[c] \in Channel /\ ChannelGood(c)
    BY <1>1, Types DEF FInv
  <2> HIDE DEF b
  <2>3. t \in Seq(Addrs) /\ ToSet(t) \subseteq Bans(c)
    <3>1. channels[c].bans \in Seq(Addrs)
      BY <2>2, FieldsProperties
    <3> QED
      BY <3>1, RemoveFirstSet DEF Bans
  <2> HIDE DEF t
  <2>4. /\ channels'[c] \in Channel
        /\ channels'[c].bans = t
        /\ channels'[c].members = channels[c].members
        /\ channels'[c].operators = channels[c].operators
        /\ channels'[c].invites = channels[c].invites
        /\ channels'[c].limit = channels[c].limit
        /\ DOMAIN channels' = DOMAIN channels
        /\ \A d \in DOMAIN channels \ {c} : channels'[d] = channels[d]
    BY <1>1, <2>1, <2>2, <2>3 DEF Channel
  <2>5. /\ Members(c)' = Members(c) /\ Live' = Live /\ Bans(c)' \subseteq Bans(c)
        /\ Len(channels'[c].members) <= Len(channels[c].members)
    BY <1>1, <2>2, <2>3, <2>4, FieldsProperties DEF Members, Live, Bans
  <2>6. /\ Ranks(c)' /\ Seated(c)' /\ Rostered(c)' /\ Earned(c)'
        /\ Within(c)' /\ Invited(c)'
    BY <1>1, <2>2, <2>4, <2>5, PartsKept
  <2>7. BansLive(c)' /\ Obeyed(c)'
    BY <1>1, <2>2, <2>5 DEF ChannelGood, BansLive, Obeyed, Done
  <2>8. ChannelGood(c)'
    BY <2>4, <2>6, <2>7 DEF ChannelGood, Fields
  <2>9. chiefs' \cup guests' \subseteq Fds \X Chans /\ deeds' \subseteq Deeds
    BY <1>1 DEF FInv, HistoryOK
  <2>10. /\ Differs(roster, roster', c) /\ Differs(chiefs, chiefs', c)
         /\ Differs(guests, guests', c)
    BY <1>1 DEF Differs
  <2> QED
    BY <1>1, <2>1, <2>4, <2>8, <2>9, <2>10, ExistingChannel
<1> QED
  BY <1>2, <1>3

\* What MODE l and MODE i change.
LEMMA SettingKeeps ==
  ASSUME FInv, NEW c \in DOMAIN channels, NEW l \in Limits \cup {0}, NEW on \in BOOLEAN,
         channels' = [channels EXCEPT ![c].limit = l]
           \/ channels' = [channels EXCEPT ![c].inviteOnly = on],
         UNCHANGED <<clients, heap, roster, chiefs, guests>>,
         deeds \subseteq deeds', deeds' \subseteq Deeds,
         status' \in Reading(Members(c) \cup Operators(c), Live),
         Within(c)'
  PROVE  FInv'
<1>1. channels[c] \in Channel
  BY Types
<1>2. /\ channels'[c] \in Channel
      /\ channels'[c].bans = channels[c].bans
      /\ channels'[c].members = channels[c].members
      /\ channels'[c].operators = channels[c].operators
      /\ channels'[c].invites = channels[c].invites
      /\ DOMAIN channels' = DOMAIN channels
      /\ \A d \in DOMAIN channels \ {c} : channels'[d] = channels[d]
  BY <1>1 DEF Channel
<1>3. Members(c)' = Members(c)
  BY <1>2 DEF Members
<1>4. /\ Ranks(c)' /\ Seated(c)' /\ Rostered(c)' /\ Earned(c)'
      /\ BansLive(c)' /\ Obeyed(c)' /\ Invited(c)'
  BY <1>1, <1>2, <1>3, PartsKept
<1>5. ChannelGood(c)'
  BY <1>2, <1>4 DEF ChannelGood, Fields
<1>6. chiefs' \cup guests' \subseteq Fds \X Chans
  BY DEF FInv, HistoryOK
<1>7. /\ Differs(roster, roster', c) /\ Differs(chiefs, chiefs', c)
      /\ Differs(guests, guests', c)
  BY DEF Differs
<1> QED
  BY <1>2, <1>5, <1>6, <1>7, ExistingChannel

LEMMA SetLimitKeeps ==
  ASSUME FInv, NEW f \in Fds, NEW c \in Chans, NEW l \in Limits \cup {0}, SetLimit(f, c, l)
  PROVE  FInv'
<1>1. /\ c \in DOMAIN channels
      /\ UNCHANGED <<clients, heap, roster, chiefs, guests>>
      /\ channels' = [channels EXCEPT ![c].limit = l]
      /\ status' \in Reading(Members(c) \cup Operators(c), Live)
      /\ deeds' = deeds \cup (IF l # 0 /\ Len(channels[c].members) > l
                              THEN {"overfull"} ELSE {})
  BY DEF SetLimit, Operates, ReadsLists, told
<1>2. channels[c] \in Channel
  BY <1>1, Types
<1>3. channels'[c].limit = l /\ channels'[c].members = channels[c].members
  BY <1>1, <1>2 DEF Channel
<1>4. l \in Nat /\ Len(channels[c].members) \in Nat
  <2>1. \A x \in Limits : x \in Nat
    BY FtChannelConstants
  <2>2. l \in Limits \/ l = 0
    OBVIOUS
  <2> QED
    BY <1>2, <2>1, <2>2, FieldsProperties
<1>5. Within(c)'
  <2>1. CASE l # 0 /\ Len(channels[c].members) > l
    BY <1>1, <2>1 DEF Within, Done
  <2>2. CASE ~ (l # 0 /\ Len(channels[c].members) > l)
    BY <1>3, <1>4, <2>2 DEF Within
  <2> QED
    BY <2>1, <2>2
<1>6. deeds \subseteq deeds' /\ deeds' \subseteq Deeds
  BY <1>1 DEF FInv, HistoryOK, Deeds
<1>7. TRUE \in BOOLEAN
  OBVIOUS
<1> QED
  BY <1>1, <1>5, <1>6, <1>7, SettingKeeps

LEMMA SetInviteOnlyKeeps ==
  ASSUME FInv, NEW f \in Fds, NEW c \in Chans, NEW on \in BOOLEAN, SetInviteOnly(f, c, on)
  PROVE  FInv'
<1>1. /\ c \in DOMAIN channels
      /\ UNCHANGED <<clients, heap, roster, chiefs, guests, deeds>>
      /\ channels' = [channels EXCEPT ![c].inviteOnly = on]
      /\ status' \in Reading(Members(c) \cup Operators(c), Live)
  BY DEF SetInviteOnly, Operates, ReadsLists, told
<1>2. channels[c] \in Channel /\ ChannelGood(c)
  BY <1>1, Types DEF FInv
<1>3. /\ channels'[c].limit = channels[c].limit
      /\ channels'[c].members = channels[c].members
  BY <1>1, <1>2 DEF Channel
<1>4. Within(c)'
  BY <1>1, <1>2, <1>3 DEF ChannelGood, Within, Done
<1>5. deeds \subseteq deeds' /\ deeds' \subseteq Deeds
  BY <1>1 DEF FInv, HistoryOK
<1>6. 0 \in Limits \cup {0}
  OBVIOUS
<1> QED
  BY <1>1, <1>4, <1>5, <1>6, SettingKeeps

\* The commands that change no list.
LEMMA QuietKeeps ==
  ASSUME FInv, NEW f \in Fds, NEW c \in Chans,
         \/ JoinRefused(f, c) \/ Talk(f, c) \/ Whois(f, c) \/ Who(f, c) \/ CutShort(f)
         \/ NoSuchChannel(f, c) \/ NotOperator(f, c) \/ ListBans(f, c)
         \/ \E colon \in BOOLEAN : Describe(f, c, colon)
  PROVE  FInv'
<1>1. UNCHANGED <<server, told, deeds>>
  BY DEF JoinRefused, Talk, Whois, Who, CutShort, NoSuchChannel, NotOperator, ListBans,
         Describe
<1>2. ASSUME c \in DOMAIN channels, NEW S,
             ~ Done({"vanish", "rejoin", "unlisted"}) => S \subseteq Live,
             status' \in Reading(S, Live)
      PROVE  status' \in {"running", "null", "stale", "torn", "ended"} /\ StaleCause'
  <2>1. deeds \subseteq deeds'
    BY <1>1
  <2>2. /\ status' \in {"running", "stale"}
        /\ status' = "stale" => Done({"vanish", "rejoin", "unlisted"})'
    BY <1>2, <2>1, ReadsLive
  <2> QED
    BY <2>2 DEF StaleCause
<1>3. ASSUME status' \in {"null", "torn"}
      PROVE  status' \in {"running", "null", "stale", "torn", "ended"} /\ StaleCause'
  BY <1>3 DEF StaleCause
<1>4. c \in DOMAIN channels /\ ~ Done({"vanish", "rejoin", "unlisted"}) =>
        /\ Tested(c) \subseteq Live
        /\ Bans(c) \cup Members(c) \cup Operators(c) \subseteq Live
  BY ListsLive
<1>5. CASE JoinRefused(f, c)
  BY <1>1, <1>2, <1>4, <1>5, Quiet DEF JoinRefused
<1>6. CASE Talk(f, c) \/ Whois(f, c) \/ NotOperator(f, c) \/ ListBans(f, c)
  <2>1. PICK S \in SUBSET (Bans(c) \cup Members(c) \cup Operators(c)) :
          c \in DOMAIN channels /\ status' \in Reading(S, Live)
    <3>1. CASE Talk(f, c)
      BY <3>1 DEF Talk
    <3>2. CASE Whois(f, c)
      BY <3>2 DEF Whois
    <3>3. CASE NotOperator(f, c)
      BY <3>3 DEF NotOperator
    <3>4. CASE ListBans(f, c)
      BY <3>4 DEF ListBans, Operates
    <3> QED
      BY <1>6, <3>1, <3>2, <3>3, <3>4
  <2> QED
    BY <1>1, <1>2, <1>4, <2>1, Quiet
<1>7. CASE Who(f, c)
  <2>1. /\ c \in DOMAIN channels
        /\ status' = "null" \/ status' \in Reading(Members(c) \cup Operators(c), Live)
    BY <1>7 DEF Who
  <2> QED
    BY <1>1, <1>2, <1>3, <1>4, <2>1, Quiet
<1>8. CASE CutShort(f) \/ NoSuchChannel(f, c)
  BY <1>1, <1>3, <1>8, Quiet DEF CutShort, NoSuchChannel
<1>9. CASE \E colon \in BOOLEAN : Describe(f, c, colon)
  <2>1. /\ c \in DOMAIN channels
        /\ status' = "torn" \/ status' \in Reading(Members(c) \cup Operators(c), Live)
    BY <1>9 DEF Describe, Operates
  <2> QED
    BY <1>1, <1>2, <1>3, <1>4, <2>1, Quiet
<1> QED
  BY <1>5, <1>6, <1>7, <1>8, <1>9

-----------------------------------------------------------------------------
(* Connections *)

LEMMA ArriveKeeps ==
  ASSUME FInv, NEW h \in Hosts, Arrive(h)
  PROVE  FInv'
<1>1. PICK f \in Fds \ Open, a \in Addrs \ Live :
        /\ clients' = Append(clients, a)
        /\ heap' = [heap EXCEPT ![a] = [fd |-> f, nick |-> Star, host |-> h]]
  BY DEF Arrive
<1>2. /\ status = "running" /\ status' = "running"
      /\ UNCHANGED <<channels, roster, chiefs, guests, deeds>>
  BY DEF Arrive
<1>3. /\ clients \in Seq(Addrs) /\ heap \in [Addrs -> Client] /\ ClientsOK /\ NicksDiffer
  BY DEF FInv, ClientsOK
<1>4. /\ \A b \in Live : b \in Addrs /\ heap[b].fd \in Fds
      /\ \A b1, b2 \in Live : heap[b1].fd = heap[b2].fd => b1 = b2
      /\ IsInjective(clients)
  BY <1>3, LiveProperties
<1>5. /\ clients' \in Seq(Addrs) /\ Live' = Live \cup {a} /\ IsInjective(clients')
  BY <1>1, <1>3, <1>4, AppendSet DEF Live
<1>6. /\ heap' \in [Addrs -> Client]
      /\ heap'[a].fd = f /\ heap'[a].nick = Star
      /\ \A b \in Live : heap'[b] = heap[b]
  <2>1. [fd |-> f, nick |-> Star, host |-> h] \in Client
    BY <1>1 DEF Client
  <2> QED
    BY <1>1, <1>3, <1>4, <2>1
<1>7. \A b \in Live : heap[b].fd # f
  BY <1>1 DEF Open
<1>8. /\ \A b \in Live' : heap'[b].fd # NoFd
      /\ \A b1, b2 \in Live' : heap'[b1].fd = heap'[b2].fd => b1 = b2
  BY <1>1, <1>4, <1>5, <1>6, <1>7, FtChannelConstants
<1>9. \A i, j \in 1..Len(clients') :
        /\ heap'[clients'[i]].fd # NoFd
        /\ heap'[clients'[i]].fd = heap'[clients'[j]].fd => i = j
  <2>1. \A i \in 1..Len(clients') : clients'[i] \in Live'
    BY <1>5, LenProperties DEF ToSet, Live
  <2>2. \A i, j \in 1..Len(clients') : clients'[i] = clients'[j] => i = j
    BY <1>5, LenProperties DEF IsInjective
  <2> QED
    BY <1>8, <2>1, <2>2
<1>10. ClientsOK'
  BY <1>5, <1>6, <1>9 DEF ClientsOK
<1>11. NicksDiffer'
  BY <1>3, <1>5, <1>6 DEF NicksDiffer
<1>12. StaleCause'
  BY <1>2 DEF StaleCause
<1> QED
  BY <1>2, <1>5, <1>6, <1>10, <1>11, <1>12, Undisturbed

LEMMA NickKeeps ==
  ASSUME FInv, NEW f \in Fds, NEW n \in Nicks \cup {Star}, Nick(f, n)
  PROVE  FInv'
<1> DEFINE a == Ptr(f)
<1>1. /\ status = "running" /\ f \in Open /\ First(clients, Called(n)) = Null
      /\ heap' = [heap EXCEPT ![a].nick = n]
      /\ UNCHANGED <<clients, channels, status, roster, chiefs, guests, deeds>>
  BY DEF Nick
<1>2. /\ clients \in Seq(Addrs) /\ heap \in [Addrs -> Client] /\ ClientsOK /\ NicksDiffer
  BY DEF FInv, ClientsOK
<1>3. /\ a \in Live /\ a \in Addrs
  BY <1>1, <1>2, PtrProperties
<1>4. \A b \in Live : b \in Addrs
  BY <1>2, LiveProperties
<1>5. \A b \in Live : heap[b].nick # n
  <2>1. ToSet(clients) \cap Called(n) = {}
    BY <1>1, <1>2, FirstProperties
  <2> QED
    BY <1>4, <2>1 DEF Live, Called
<1> HIDE DEF a
<1>6. /\ heap' \in [Addrs -> Client] /\ Live' = Live
      /\ heap'[a].nick = n
      /\ \A b \in Addrs : heap'[b].fd = heap[b].fd /\ heap'[b].host = heap[b].host
      /\ \A b \in Addrs \ {a} : heap'[b].nick = heap[b].nick
  BY <1>1, <1>2, <1>3 DEF Client, Live
<1>7. ClientsOK'
  <2>1. \A i \in 1..Len(clients) : clients[i] \in Addrs
    BY <1>2, ElementOfSeq
  <2> QED
    BY <1>1, <1>2, <1>6, <2>1 DEF ClientsOK
<1>8. NicksDiffer'
  BY <1>2, <1>4, <1>5, <1>6 DEF NicksDiffer
<1>9. StaleCause' /\ status' \in {"running", "null", "stale", "torn", "ended"}
  BY <1>1 DEF StaleCause
<1> QED
  BY <1>1, <1>4, <1>6, <1>7, <1>8, <1>9, Undisturbed

\* A channel ch that the client at p is deleted from: r is what becomes of it.
Without(ch, r, p) ==
  /\ r \in Channel
  /\ ToSet(r.members) \subseteq ToSet(ch.members)
  /\ (ToSet(ch.members) \cap Live) \ {p} \subseteq ToSet(r.members)
  /\ Len(r.members) <= Len(ch.members)
  /\ IsInjective(ch.members) => IsInjective(r.members)
  /\ ToSet(r.operators) \subseteq ToSet(ch.operators)
  /\ IsInjective(r.operators)
  /\ ToSet(r.operators) \subseteq ToSet(r.members)
  /\ r.bans = ch.bans /\ r.invites = ch.invites /\ r.limit = ch.limit

\* A client is deleted: its list entries go, what is said of the others stays.
LEMMA Departs ==
  ASSUME FInv, NEW f \in Open,
         clients' = RemoveFirst(clients, Ptr(f)),
         NEW o \in Client, heap' = [heap EXCEPT ![Ptr(f)] = o],
         DOMAIN channels' = DOMAIN channels,
         \A c \in DOMAIN channels : Without(channels[c], channels'[c], Ptr(f)),
         roster' = Gone(roster, f), chiefs' = Gone(chiefs, f), guests' = Gone(guests, f),
         deeds \subseteq deeds', deeds' \subseteq Deeds,
         ~ Done({"vanish", "rejoin"})' => \A c \in DOMAIN channels : Ptr(f) \notin Members(c)',
         Listed(Ptr(f)) => "unlisted" \in deeds',
         status' \in {"running", "null", "stale", "torn", "ended"}, StaleCause'
  PROVE  FInv'
<1> DEFINE p == Ptr(f)
<1>1. /\ clients \in Seq(Addrs) /\ heap \in [Addrs -> Client] /\ ClientsOK /\ NicksDiffer
  BY DEF FInv, ClientsOK
<1>2. /\ p \in Live /\ heap[p].fd = f /\ p \in Addrs
  BY <1>1, PtrProperties
<1>3. /\ \A b \in Live : b \in Addrs /\ heap[b].fd \in Fds
      /\ \A b1, b2 \in Live : heap[b1].fd = heap[b2].fd => b1 = b2
      /\ IsInjective(clients)
  BY <1>1, LiveProperties
<1>4. /\ clients' \in Seq(Addrs) /\ Live' = Live \ {p} /\ IsInjective(clients')
  BY <1>1, <1>2, <1>3, RemoveFirstProperties DEF Live
<1>5. /\ heap' \in [Addrs -> Client] /\ \A b \in Live \ {p} : heap'[b] = heap[b]
  BY <1>1, <1>2, <1>3
<1>6. \A b \in Live \ {p} : heap[b].fd # f
  BY <1>2, <1>3
<1> HIDE DEF p
<1>7. ClientsOK'
  <2>1. /\ \A b \in ToSet(clients') : heap'[b].fd # NoFd
        /\ \A b1, b2 \in ToSet(clients') : heap'[b1].fd = heap'[b2].fd => b1 = b2
    BY <1>3, <1>4, <1>5, FtChannelConstants DEF Live
  <2>2. \A i, j \in 1..Len(clients') :
          /\ heap'[clients'[i]].fd # NoFd
          /\ heap'[clients'[i]].fd = heap'[clients'[j]].fd => i = j
    <3>1. \A i \in 1..Len(clients') : clients'[i] \in ToSet(clients')
      BY <1>4, LenProperties DEF ToSet
    <3>2. \A i, j \in 1..Len(clients') : clients'[i] = clients'[j] => i = j
      BY <1>4, LenProperties DEF IsInjective
    <3> QED
      BY <2>1, <3>1, <3>2
  <2> QED
    BY <1>4, <1>5, <2>2 DEF ClientsOK
<1>8. NicksDiffer'
  BY <1>1, <1>4, <1>5 DEF NicksDiffer
<1>9. HistoryOK' /\ DOMAIN channels' \subseteq Chans
  BY DEF FInv, HistoryOK, Gone
<1>10. \A d : Done(d) => Done(d)'
  BY DoneStays
<1>11. ASSUME NEW c \in DOMAIN channels
       PROVE  ChannelGood(c)'
  <2>0. ChannelGood(c) /\ c \in Chans
    BY DEF FInv
  <2>1. Without(channels[c], channels'[c], p)
    BY <1>11 DEF p
  <2>2. /\ channels'[c] \in Channel
        /\ Members(c)' \subseteq Members(c)
        /\ (Members(c) \cap Live) \ {p} \subseteq Members(c)'
        /\ IsInjective(channels[c].members) => IsInjective(channels'[c].members)
        /\ Operators(c)' \subseteq Operators(c)
        /\ IsInjective(channels'[c].operators)
        /\ Operators(c)' \subseteq Members(c)'
        /\ Bans(c)' = Bans(c) /\ Invites(c)' = Invites(c)
        /\ channels'[c].limit = channels[c].limit
        /\ Len(channels'[c].members) <= Len(channels[c].members)
    BY <2>1 DEF Without, Members, Operators, Bans, Invites
  <2>3. ~ Done({"vanish", "rejoin"})' =>
          /\ ~ Done({"vanish", "rejoin"})
          /\ Members(c)' \subseteq Live \ {p}
          /\ \A m \in Members(c) : m \in Live /\ <<heap[m].fd, c>> \in roster
          /\ IsInjective(channels[c].members)
          /\ \A m \in Operators(c) : <<heap[m].fd, c>> \in chiefs
    BY <1>10, <1>11, <2>0, <2>2 DEF p, ChannelGood, Rostered, Earned
  <2>4. ~ Done({"unlisted"})' =>
          /\ ~ Done({"unlisted"})
          /\ p \notin Bans(c) \cup Invites(c)
    <3>1. p \in Bans(c) \cup Invites(c) => "unlisted" \in deeds'
      BY <1>11 DEF Listed, p
    <3> QED
      BY <1>10, <3>1 DEF Done
  <2>5. /\ Done({"vanish", "rejoin"})' => Done({"vanish", "rejoin", "unlisted"})'
        /\ Done({"unlisted"})' => Done({"vanish", "rejoin", "unlisted"})'
        /\ Done({"vanish", "rejoin", "unlisted"})'
             => Done({"vanish", "rejoin", "unlisted", "halfban"})'
    BY DEF Done
  <2>6. \A b \in Live \ {p} :
          /\ <<heap[b].fd, c>> \in roster => <<heap'[b].fd, c>> \in roster'
          /\ <<heap[b].fd, c>> \in chiefs => <<heap'[b].fd, c>> \in chiefs'
          /\ <<heap[b].fd, c>> \in guests => <<heap'[b].fd, c>> \in guests'
    BY <1>5, <1>6 DEF Gone
  <2>7. Fields(c)' /\ Ranks(c)'
    BY <2>2 DEF Fields, Ranks
  <2>8. Seated(c)'
    <3>1. ASSUME NEW g \in Fds, <<g, c>> \in roster'
          PROVE  \E a \in Members(c)' \cap Live' : heap'[a].fd = g
      <4>1. <<g, c>> \in roster /\ g # f
        BY <3>1 DEF Gone
      <4>2. PICK a \in Members(c) \cap Live : heap[a].fd = g
        BY <2>0, <4>1 DEF ChannelGood, Seated
      <4>3. a # p
        BY <1>2, <4>1, <4>2
      <4> QED
        BY <1>4, <1>5, <2>2, <4>2, <4>3
    <3> QED
      BY <3>1 DEF Seated
  <2>9. Rostered(c)'
    <3>1. SUFFICES ASSUME ~ Done({"vanish", "rejoin"})'
                   PROVE  /\ \A a \in Members(c)' : a \in Live' /\ <<heap'[a].fd, c>> \in roster'
                          /\ IsInjective(channels'[c].members)
      BY DEF Rostered
    <3> QED
      BY <1>4, <2>2, <2>3, <2>6, <3>1
  <2>10. Earned(c)'
    <3>1. SUFFICES ASSUME ~ Done({"vanish", "rejoin"})'
                   PROVE  \A a \in Operators(c)' : <<heap'[a].fd, c>> \in chiefs'
      BY DEF Earned
    <3> QED
      BY <2>2, <2>3, <2>6, <3>1
  <2>11. Within(c)'
    <3>1. /\ channels[c].limit \in Nat /\ Len(channels[c].members) \in Nat
          /\ Len(channels'[c].members) \in Nat
      BY <2>0, <2>2, FieldsProperties DEF ChannelGood, Fields
    <3> QED
      BY <1>10, <2>0, <2>2, <3>1 DEF ChannelGood, Within
  <2>12. BansLive(c)'
    BY <1>4, <1>10, <2>0, <2>2, <2>4, <2>5 DEF ChannelGood, BansLive
  <2>13. Obeyed(c)'
    <3>1. SUFFICES ASSUME ~ Done({"vanish", "rejoin", "unlisted", "halfban"})',
                          NEW b \in Bans(c), NEW m \in Members(c)'
                   PROVE  heap'[m].host # heap'[b].host
      BY <2>2 DEF Obeyed
    <3>2. /\ ~ Done({"vanish", "rejoin", "unlisted", "halfban"})
          /\ ~ Done({"vanish", "rejoin", "unlisted"})
          /\ ~ Done({"unlisted"})' /\ ~ Done({"vanish", "rejoin"})'
      BY <1>10, <2>5, <3>1
    <3>3. b \in Live \ {p} /\ m \in Live \ {p} /\ m \in Members(c)
      BY <2>0, <2>2, <2>3, <2>4, <3>1, <3>2 DEF ChannelGood, BansLive
    <3>4. heap[m].host # heap[b].host
      BY <2>0, <3>2, <3>3 DEF ChannelGood, Obeyed
    <3> QED
      BY <1>5, <3>3, <3>4
  <2>14. Invited(c)'
    <3>1. SUFFICES ASSUME ~ Done({"unlisted"})', NEW a \in Invites(c)
                   PROVE  a \in Live' /\ <<heap'[a].fd, c>> \in guests'
      BY <2>2 DEF Invited
    <3>2. a \in Live \ {p} /\ <<heap[a].fd, c>> \in guests
      BY <2>0, <2>4, <3>1 DEF ChannelGood, Invited
    <3> QED
      BY <1>4, <2>6, <3>2
  <2> QED
    BY <2>7, <2>8, <2>9, <2>10, <2>11, <2>12, <2>13, <2>14 DEF ChannelGood
<1> QED
  BY <1>7, <1>8, <1>9, <1>11 DEF FInv

\* What Server::removeClient does to the channels, when it finds them as QUIT,
\* or the end of the connection, left them.
LEMMA Forgotten ==
  ASSUME FInv, NEW f \in Open, NEW chs, Forget(f, chs),
         DOMAIN chs = DOMAIN channels,
         \A c \in DOMAIN channels : Without(channels[c], chs[c], Ptr(f))
  PROVE  /\ clients' = RemoveFirst(clients, Ptr(f))
         /\ \E o \in Client : heap' = [heap EXCEPT ![Ptr(f)] = o]
         /\ DOMAIN channels' = DOMAIN channels
         /\ \A c \in DOMAIN channels :
              /\ Without(channels[c], channels'[c], Ptr(f))
              /\ ToSet(channels'[c].members) \subseteq ToSet(chs[c].members)
         /\ roster' = Gone(roster, f) /\ chiefs' = Gone(chiefs, f) /\ guests' = Gone(guests, f)
<1> DEFINE p == Ptr(f)
           x(c) == First(chs[c].members, {a \in Addrs : heap'[a].fd = f})
<1>1. /\ p \in Live /\ heap[p].fd = f /\ heap[p] \in Client
      /\ \A b \in Live : b \in Addrs /\ heap[b].fd \in Fds
      /\ \A b1, b2 \in Live : heap[b1].fd = heap[b2].fd => b1 = b2
      /\ heap \in [Addrs -> Client]
  BY PtrProperties, LiveProperties DEF FInv, ClientsOK
<1>2. PICK o \in Remains(p, chs) : heap' = [heap EXCEPT ![p] = o]
  BY DEF Forget
<1>3. o \in Client
  <2> HIDE DEF p
  <2> QED
    BY <1>1, <1>2 DEF Remains, Client, Nobody
<1>4. /\ clients' = RemoveFirst(clients, p)
      /\ channels' = [c \in DOMAIN chs |-> RemoveClient(chs[c], x(c))]
      /\ roster' = Gone(roster, f) /\ chiefs' = Gone(chiefs, f) /\ guests' = Gone(guests, f)
  BY DEF Forget
<1>5. \A b \in Live \ {p} : heap'[b].fd # f
  BY <1>1, <1>2
<1>6. ASSUME NEW c \in DOMAIN channels
      PROVE  /\ Without(channels[c], channels'[c], p)
             /\ ToSet(channels'[c].members) \subseteq ToSet(chs[c].members)
  <2>1. /\ Without(channels[c], chs[c], p)
        /\ channels'[c] = RemoveClient(chs[c], x(c))
    BY <1>4, <1>6
  <2>2. /\ chs[c] \in Channel
        /\ ToSet(chs[c].operators) \subseteq ToSet(chs[c].members)
        /\ IsInjective(chs[c].operators)
    BY <2>1 DEF Without
  <2>3. chs[c].members \in Seq(Addrs) /\ Len(chs[c].members) \in Nat
    BY <2>2, FieldsProperties
  <2>4. x(c) \notin Live \ {p}
    <3> DEFINE A == {a \in Addrs : heap'[a].fd = f}
    <3>1. x(c) \in A \/ x(c) = Null
      BY <2>3, FirstProperties
    <3>2. \A b \in Live \ {p} : b \notin A /\ b # Null
      BY <1>1, <1>5, FtChannelConstants
    <3> HIDE DEF A, x
    <3> QED
      BY <3>1, <3>2
  <2> HIDE DEF x, p
  <2>5. Removed(chs[c], channels'[c], x(c))
    BY <2>1, <2>2, RemoveClientProperties
  <2>6. /\ channels'[c] \in Channel
        /\ ToSet(channels'[c].members) \subseteq ToSet(chs[c].members)
        /\ ToSet(chs[c].members) \ {x(c)} \subseteq ToSet(channels'[c].members)
        /\ Len(channels'[c].members) <= Len(chs[c].members)
        /\ IsInjective(chs[c].members) => IsInjective(channels'[c].members)
        /\ ToSet(channels'[c].operators) \subseteq ToSet(chs[c].operators)
        /\ IsInjective(channels'[c].operators)
        /\ ToSet(channels'[c].operators) \subseteq ToSet(channels'[c].members)
        /\ channels'[c].bans = chs[c].bans /\ channels'[c].invites = chs[c].invites
        /\ channels'[c].limit = chs[c].limit
    BY <2>5 DEF Removed
  <2>7. Len(channels'[c].members) <= Len(channels[c].members)
    <3>1. channels[c] \in Channel
      BY <1>6, Types
    <3>2. Len(channels[c].members) \in Nat /\ Len(channels'[c].members) \in Nat
      BY <2>6, <3>1, FieldsProperties
    <3>3. Len(chs[c].members) <= Len(channels[c].members)
      BY <2>1 DEF Without
    <3> QED
      BY <2>3, <2>6, <3>2, <3>3
  <2> QED
    BY <2>1, <2>4, <2>6, <2>7 DEF Without
<1>7. DOMAIN channels' = DOMAIN channels
  BY <1>4
<1> QED
  BY <1>2, <1>3, <1>4, <1>6, <1>7

LEMMA HangupKeeps ==
  ASSUME FInv, NEW f \in Fds, Hangup(f)
  PROVE  FInv'
<1> DEFINE p == Ptr(f)
<1>1. /\ f \in Open /\ Forget(f, channels)
      /\ status' \in Reading(MembersOf(channels), Live \ {p})
      /\ deeds' = deeds \cup (IF p \in MembersOf(channels) THEN {"vanish"} ELSE {})
                        \cup (IF Listed(p) THEN {"unlisted"} ELSE {})
  BY DEF Hangup
<1>2. ASSUME NEW c \in DOMAIN channels
      PROVE  Without(channels[c], channels[c], p)
  <2>1. /\ channels[c] \in Channel
        /\ ToSet(channels[c].operators) \subseteq ToSet(channels[c].members)
        /\ IsInjective(channels[c].operators)
    BY <1>2, Types
  <2>2. Len(channels[c].members) <= Len(channels[c].members)
    BY <2>1, FieldsProperties
  <2> QED
    BY <2>1, <2>2 DEF Without
<1>3. /\ clients' = RemoveFirst(clients, p)
      /\ DOMAIN channels' = DOMAIN channels
      /\ \A c \in DOMAIN channels :
           /\ Without(channels[c], channels'[c], p)
           /\ ToSet(channels'[c].members) \subseteq ToSet(channels[c].members)
      /\ roster' = Gone(roster, f) /\ chiefs' = Gone(chiefs, f) /\ guests' = Gone(guests, f)
  BY <1>1, <1>2, Forgotten
<1>4. PICK o \in Client : heap' = [heap EXCEPT ![p] = o]
  BY <1>1, <1>2, Forgotten
<1>5. /\ deeds \subseteq deeds' /\ deeds' \subseteq Deeds
      /\ Listed(p) => "unlisted" \in deeds'
      /\ p \in MembersOf(channels) => Done({"vanish", "rejoin"})'
  BY <1>1 DEF FInv, HistoryOK, Deeds, Done
<1>6. \A d : Done(d) => Done(d)'
  BY <1>5, DoneStays
<1>7. ~ Done({"vanish", "rejoin"})' => \A c \in DOMAIN channels : p \notin Members(c)'
  BY <1>3, <1>5 DEF Members, MembersOf
<1>8. status' \in {"running", "null", "stale", "torn", "ended"} /\ StaleCause'
  <2>1. ~ Done({"vanish", "rejoin"})' => MembersOf(channels) \subseteq Live \ {p}
    <3>1. \A c \in DOMAIN channels : ~ Done({"vanish", "rejoin"}) => Members(c) \subseteq Live
      BY ListsLive
    <3>2. MembersOf(channels) = UNION {Members(c) : c \in DOMAIN channels}
      BY DEF MembersOf, Members
    <3> QED
      BY <1>5, <1>6, <3>1, <3>2
  <2>2. Done({"vanish", "rejoin"})' => Done({"vanish", "rejoin", "unlisted"})'
    BY DEF Done
  <2> QED
    BY <1>1, <2>1, <2>2 DEF Reading, StaleCause
<1> QED
  BY <1>1, <1>3, <1>4, <1>5, <1>7, <1>8, Departs

LEMMA QuitKeeps ==
  ASSUME FInv, NEW f \in Fds, NEW colon \in BOOLEAN, Quit(f, colon)
  PROVE  FInv'
<1> DEFINE p == Ptr(f)
           chs == Quitted(f)
<1>1. /\ f \in Open /\ Forget(f, chs)
      /\ \/ status' \in Reading(MembersOf(channels), Live)
         \/ status' \in Reading(MembersOf(chs), Live \ {p})
         \/ status' = "torn"
      /\ deeds' = deeds \cup (IF Listed(p) THEN {"unlisted"} ELSE {})
  BY DEF Quit
<1>2. /\ DOMAIN chs = DOMAIN channels
      /\ \A c \in DOMAIN channels : chs[c] = RemoveClient(channels[c], p)
  BY DEF Quitted
<1> HIDE DEF chs
<1>3. ASSUME NEW c \in DOMAIN channels
      PROVE  /\ Without(channels[c], chs[c], p)
             /\ IsInjective(channels[c].members) => p \notin ToSet(chs[c].members)
             /\ ToSet(chs[c].members) \subseteq ToSet(channels[c].members)
  <2>1. /\ channels[c] \in Channel
        /\ ToSet(channels[c].operators) \subseteq ToSet(channels[c].members)
        /\ IsInjective(channels[c].operators)
    BY <1>3, Types
  <2> HIDE DEF p
  <2>2. Removed(channels[c], chs[c], p)
    BY <1>2, <2>1, RemoveClientProperties
  <2> QED
    BY <2>2 DEF Removed, Without
<1>4. /\ clients' = RemoveFirst(clients, p)
      /\ DOMAIN channels' = DOMAIN channels
      /\ \A c \in DOMAIN channels :
           /\ Without(channels[c], channels'[c], p)
           /\ ToSet(channels'[c].members) \subseteq ToSet(chs[c].members)
      /\ roster' = Gone(roster, f) /\ chiefs' = Gone(chiefs, f) /\ guests' = Gone(guests, f)
  BY <1>1, <1>2, <1>3, Forgotten
<1>5. PICK o \in Client : heap' = [heap EXCEPT ![p] = o]
  BY <1>1, <1>2, <1>3, Forgotten
<1>6. /\ deeds \subseteq deeds' /\ deeds' \subseteq Deeds
      /\ Listed(p) => "unlisted" \in deeds'
  BY <1>1 DEF FInv, HistoryOK, Deeds
<1>7. \A d : Done(d) => Done(d)'
  BY <1>6, DoneStays
<1>8. ASSUME NEW c \in DOMAIN channels, ~ Done({"vanish", "rejoin"})
      PROVE  ToSet(chs[c].members) \subseteq Live \ {p} /\ Members(c) \subseteq Live
  <2>1. Members(c) \subseteq Live
    BY <1>8, ListsLive
  <2>2. IsInjective(channels[c].members)
    BY <1>8 DEF FInv, ChannelGood, Rostered
  <2> QED
    BY <1>3, <2>1, <2>2 DEF Members
<1>9. ~ Done({"vanish", "rejoin"})' => \A c \in DOMAIN channels : p \notin Members(c)'
  BY <1>4, <1>7, <1>8 DEF Members
<1>10. status' \in {"running", "null", "stale", "torn", "ended"} /\ StaleCause'
  <2>1. ~ Done({"vanish", "rejoin"}) =>
          MembersOf(channels) \subseteq Live /\ MembersOf(chs) \subseteq Live \ {p}
    BY <1>2, <1>8 DEF MembersOf, Members
  <2>2. Done({"vanish", "rejoin"})' => Done({"vanish", "rejoin", "unlisted"})'
    BY DEF Done
  <2>3. status' \in {"running", "stale", "torn"}
    BY <1>1 DEF Reading
  <2>4. status' = "stale" => Done({"vanish", "rejoin"})
    BY <1>1, <2>1 DEF Reading
  <2> QED
    BY <1>7, <2>2, <2>3, <2>4 DEF StaleCause
<1> QED
  BY <1>1, <1>4, <1>5, <1>6, <1>9, <1>10, Departs

-----------------------------------------------------------------------------
(* The theorems *)

LEMMA FInvInit == Init => FInv
<1> SUFFICES ASSUME Init PROVE FInv
  OBVIOUS
<1>1. clients = <<>> /\ Len(clients) = 0 /\ Live = {} /\ DOMAIN channels = {}
  BY EmptySeq DEF Init, Live, ToSet
<1>2. Nobody \in Client
  BY DEF Nobody, Client
<1>3. heap \in [Addrs -> Client]
  BY <1>2 DEF Init
<1>4. ClientsOK
  BY <1>1, <1>3 DEF ClientsOK
<1>5. HistoryOK /\ StaleCause
  BY DEF Init, HistoryOK, StaleCause
<1>6. NicksDiffer
  BY <1>1 DEF NicksDiffer
<1> QED
  BY <1>1, <1>4, <1>5, <1>6 DEF FInv

LEMMA FInvStep == FInv /\ [Next]_vars => FInv'
<1> SUFFICES ASSUME FInv, [Next]_vars PROVE FInv'
  OBVIOUS
<1>1. CASE UNCHANGED vars
  <2>1. UNCHANGED <<server, told, deeds>> /\ status' = status
    BY <1>1 DEF vars, server, told
  <2>2. status' \in {"running", "null", "stale", "torn", "ended"} /\ StaleCause'
    BY <2>1 DEF FInv, HistoryOK, StaleCause, Done
  <2> QED
    BY <2>1, <2>2, Quiet
<1>2. ASSUME NEW h \in Hosts, Arrive(h) PROVE FInv'
  BY <1>2, ArriveKeeps
<1>3. ASSUME NEW f \in Fds, Hangup(f) PROVE FInv'
  BY <1>3, HangupKeeps
<1>4. ASSUME NEW f \in Fds, CutShort(f) PROVE FInv'
  <2>1. UNCHANGED <<server, told, deeds>> /\ status' = "torn"
    BY <1>4 DEF CutShort
  <2> QED
    BY <2>1, Quiet DEF StaleCause
<1>5. ASSUME NEW f \in Fds, NEW colon \in BOOLEAN, Quit(f, colon) PROVE FInv'
  BY <1>5, QuitKeeps
<1>6. ASSUME NEW f \in Fds, NEW n \in Nicks \cup {Star}, Nick(f, n) PROVE FInv'
  BY <1>6, NickKeeps
<1>7. ASSUME NEW f \in Fds, NEW c \in Chans, Command(f, c) PROVE FInv'
  <2>1. CASE Create(f, c)
    BY <2>1, CreateKeeps
  <2>2. CASE Join(f, c)
    BY <2>2, JoinKeeps
  <2>3. CASE Part(f, c)
    BY <2>3, PartKeeps
  <2>4. CASE \/ JoinRefused(f, c) \/ Talk(f, c) \/ Whois(f, c) \/ Who(f, c)
             \/ NoSuchChannel(f, c) \/ NotOperator(f, c) \/ ListBans(f, c)
             \/ \E colon \in BOOLEAN : Describe(f, c, colon)
    BY <2>4, QuietKeeps
  <2>5. ASSUME NEW n, Kick(f, c, n) PROVE FInv'
    BY <2>5, KickKeeps
  <2>6. ASSUME NEW n, Invite(f, c, n) PROVE FInv'
    BY <2>6, InviteKeeps
  <2>7. CASE Mode(f, c)
    <3>1. ASSUME NEW n, Grant(f, c, n) PROVE FInv'
      BY <3>1, GrantKeeps
    <3>2. ASSUME NEW n, Revoke(f, c, n) PROVE FInv'
      BY <3>2, RevokeKeeps
    <3>3. ASSUME NEW h, Ban(f, c, h) PROVE FInv'
      BY <3>3, BanKeeps
    <3>4. ASSUME NEW h, Unban(f, c, h) PROVE FInv'
      BY <3>4, UnbanKeeps
    <3>5. ASSUME NEW l \in Limits \cup {0}, SetLimit(f, c, l) PROVE FInv'
      BY <3>5, SetLimitKeeps
    <3>6. ASSUME NEW on \in BOOLEAN, SetInviteOnly(f, c, on) PROVE FInv'
      BY <3>6, SetInviteOnlyKeeps
    <3> QED
      BY <2>4, <2>7, <3>1, <3>2, <3>3, <3>4, <3>5, <3>6 DEF Mode
  <2> QED
    BY <1>7, <2>1, <2>2, <2>3, <2>4, <2>5, <2>6, <2>7 DEF Command
<1> QED
  BY <1>1, <1>2, <1>3, <1>4, <1>5, <1>6, <1>7 DEF Next

\* In every behaviour, the channels are what the invariant says of them.
THEOREM ChannelsStayGood == Spec => []FInv
<1>1. Init => FInv
  BY FInvInit
<1>2. FInv /\ [Next]_vars => FInv'
  BY FInvStep
<1> QED
  BY <1>1, <1>2, PTL DEF Spec

\* Type correctness of the server: the lists hold addresses, the limit is one
\* that was set, and no two clients have a descriptor in common.
THEOREM TypeCorrect == Spec => []TypeOK
<1>1. FInv => TypeOK
  BY DEF FInv, ClientsOK, HistoryOK, ChannelGood, Fields, TypeOK
<1> QED
  BY <1>1, ChannelsStayGood, PTL

\* Whatever was deleted, kicked, banned or promoted, Channel's operators are
\* among its members, once each.
THEOREM OperatorsStayMembers == Spec => []OperatorsAreMembers
<1>1. FInv => OperatorsAreMembers
  BY DEF FInv, ChannelGood, Ranks, OperatorsAreMembers
<1> QED
  BY <1>1, ChannelsStayGood, PTL

\* Channel::_members is exactly the clients that were told that they are on it,
\* and never misses one, whoever vanished.
THEOREM MembersAreTheRoster == Spec => []RosterExact
<1>1. FInv => RosterExact
  <2> SUFFICES ASSUME FInv PROVE RosterExact
    OBVIOUS
  <2>1. ASSUME NEW p \in roster
        PROVE  /\ Ptr(p[1]) # Null /\ Ptr(p[1]) \in Members(p[2])
               /\ p[2] \in DOMAIN channels
    <3>1. p[1] \in Fds /\ p = <<p[1], p[2]>> /\ p[2] \in DOMAIN channels
      BY DEF FInv, HistoryOK
    <3>2. PICK a \in Members(p[2]) \cap Live : heap[a].fd = p[1]
      BY <3>1 DEF FInv, ChannelGood, Seated
    <3>3. Ptr(p[1]) = a /\ Ptr(p[1]) # Null
      BY <3>2, PtrProperties DEF FInv
    <3> QED
      BY <3>1, <3>2, <3>3
  <2>2. RosterKept
    BY <2>1 DEF RosterKept
  <2>3. ASSUME ~ Done({"vanish", "rejoin"}), NEW c \in DOMAIN channels
        PROVE  /\ Members(c) = {Ptr(p[1]) : p \in {q \in roster : q[2] = c}}
               /\ IsInjective(channels[c].members)
    <3>1. /\ \A a \in Members(c) : a \in Live /\ <<heap[a].fd, c>> \in roster
          /\ IsInjective(channels[c].members)
      BY <2>3 DEF FInv, ChannelGood, Rostered
    <3>2. \A a \in Members(c) : Ptr(heap[a].fd) = a
      BY <3>1, PtrProperties DEF FInv
    <3>3. Members(c) \subseteq {Ptr(p[1]) : p \in {q \in roster : q[2] = c}}
      <4>1. ASSUME NEW a \in Members(c)
            PROVE  \E p \in {q \in roster : q[2] = c} : a = Ptr(p[1])
        <5>1. <<heap[a].fd, c>> \in {q \in roster : q[2] = c}
          BY <3>1
        <5> QED
          BY <3>2, <5>1
      <4> QED
        BY <4>1
    <3>4. {Ptr(p[1]) : p \in {q \in roster : q[2] = c}} \subseteq Members(c)
      BY <2>1
    <3> QED
      BY <3>1, <3>3, <3>4
  <2>4. MembersJoined
    BY <2>3 DEF MembersJoined
  <2> QED
    BY <2>2, <2>4 DEF RosterExact
<1> QED
  BY <1>1, ChannelsStayGood, PTL

\* Freed memory is read only after a connection ended on a channel, a client
\* joined twice, or one that a channel had banned or invited went away.
THEOREM StaleHasACause == Spec => []StaleCause
<1>1. FInv => StaleCause
  BY DEF FInv
<1> QED
  BY <1>1, ChannelsStayGood, PTL

\* getOperator(fd) answers for nobody who was not made an operator, as long as
\* no pointer in its list outlived its client.
THEOREM RightsAreEarned == Spec => []RightsEarned
<1>1. FInv => RightsEarned
  <2> SUFFICES ASSUME FInv, ~ Done({"vanish", "rejoin"}),
                      NEW c \in DOMAIN channels, NEW f \in Open, IsOperator(f, c)
               PROVE  <<f, c>> \in chiefs
    BY DEF RightsEarned
  <2>1. channels[c].operators \in Seq(Addrs)
    BY Types, FieldsProperties
  <2>2. PICK a \in Operators(c) : a \in WithFd(f)
    BY <2>1, FirstProperties DEF IsOperator, Operators
  <2>3. <<heap[a].fd, c>> \in chiefs
    BY <2>2 DEF FInv, ChannelGood, Earned
  <2> QED
    BY <2>2, <2>3 DEF WithFd
<1> QED
  BY <1>1, ChannelsStayGood, PTL

\* The test for equality in addClient keeps a channel within its limit until
\* MODE +l itself sets one that is exceeded.
THEOREM LimitsAreKept == Spec => []LimitKept
<1>1. FInv => LimitKept
  BY DEF FInv, ChannelGood, Within, LimitKept
<1> QED
  BY <1>1, ChannelsStayGood, PTL

\* Nobody from a banned host is on the channel, while the clients its bans name
\* stay connected and no host had two members when it was banned.
THEOREM BansAreKept == Spec => []BanKept
<1>1. FInv => BanKept
  <2> SUFFICES ASSUME FInv, ~ Done({"vanish", "rejoin", "unlisted", "halfban"}),
                      NEW c \in DOMAIN channels, NEW b \in Addrs, b \in Bans(c)
               PROVE  Members(c) \cap From(heap[b].host) = {}
    BY DEF BanKept
  <2>1. \A a \in Members(c) : heap[a].host # heap[b].host
    BY DEF FInv, ChannelGood, Obeyed
  <2> QED
    BY <2>1 DEF From
<1> QED
  BY <1>1, ChannelsStayGood, PTL

\* addClient lets nobody onto an invite-only channel whom INVITE did not name,
\* save clients without a nick, while the invited stay connected.
THEOREM InvitationsAreKept == Spec => InviteKept
<1> DEFINE Entered ==
             \A p \in roster' \ roster :
               /\ p[2] \in DOMAIN channels
               /\ channels[p[2]].inviteOnly
               /\ ~ Done({"unlisted"})
               => p \in guests \/ heap[Ptr(p[1])].nick = Star
<1>1. FInv /\ [Next]_vars => [Entered]_vars
  <2> SUFFICES ASSUME FInv, Next, NEW p \in roster' \ roster,
                      p[2] \in DOMAIN channels, channels[p[2]].inviteOnly,
                      ~ Done({"unlisted"})
               PROVE  p \in guests \/ heap[Ptr(p[1])].nick = Star
    OBVIOUS
  <2>1. PICK f \in Fds, c \in Chans : Create(f, c) \/ Join(f, c)
    <3>1. ~ (roster' \subseteq roster)
      OBVIOUS
    <3>2. ASSUME NEW h \in Hosts, Arrive(h) PROVE roster' \subseteq roster
      BY <3>2 DEF Arrive
    <3>3. ASSUME NEW f \in Fds,
                 \/ Hangup(f) \/ CutShort(f)
                 \/ \E colon \in BOOLEAN : Quit(f, colon)
                 \/ \E n \in Nicks \cup {Star} : Nick(f, n)
          PROVE  roster' \subseteq roster
      BY <3>3 DEF Hangup, CutShort, Quit, Nick, Forget, Gone, told
    <3>4. ASSUME NEW f \in Fds, NEW c \in Chans, Command(f, c),
                 ~ Create(f, c), ~ Join(f, c)
          PROVE  roster' \subseteq roster
      <4>1. ASSUME \/ JoinRefused(f, c) \/ Talk(f, c) \/ Whois(f, c) \/ Who(f, c)
                   \/ NoSuchChannel(f, c) \/ NotOperator(f, c)
                   \/ \E colon \in BOOLEAN : Describe(f, c, colon)
            PROVE  roster' \subseteq roster
        BY <4>1 DEF JoinRefused, Talk, Whois, Who, NoSuchChannel, NotOperator,
                    Describe, told
      <4>2. ASSUME \/ Part(f, c)
                   \/ \E n \in Nicks \cup {Star} : Kick(f, c, n) \/ Invite(f, c, n)
            PROVE  roster' \subseteq roster
        BY <4>2 DEF Part, Kick, Invite
      <4>3. ASSUME Mode(f, c) PROVE roster' \subseteq roster
        <5>1. ASSUME NEW h \in Hosts, Ban(f, c, h) PROVE roster' \subseteq roster
          BY <5>1 DEF Ban
        <5>2. ASSUME \/ \E n \in Nicks \cup {Star} : Grant(f, c, n) \/ Revoke(f, c, n)
                     \/ \E h \in Hosts : Unban(f, c, h)
                     \/ ListBans(f, c)
                     \/ \E l \in Limits \cup {0} : SetLimit(f, c, l)
                     \/ \E on \in BOOLEAN : SetInviteOnly(f, c, on)
              PROVE  roster' \subseteq roster
          BY <5>2 DEF Grant, Revoke, Unban, ListBans, SetLimit, SetInviteOnly, told
        <5> QED
          BY <4>3, <5>1, <5>2 DEF Mode
      <4> QED
        BY <3>4, <4>1, <4>2, <4>3 DEF Command
    <3> QED
      BY <3>1, <3>2, <3>3, <3>4 DEF Next
  <2>2. p = <<f, c>>
    BY <2>1 DEF Create, Join
  <2>3. c \in DOMAIN channels /\ channels[c].inviteOnly
    BY <2>2
  <2>4. Join(f, c)
    BY <2>1, <2>3 DEF Create
  <2>5. Ptr(f) \in Live /\ heap[Ptr(f)].fd = f
    BY <2>4, Actor DEF Join
  <2>6. PICK b \in Invites(c) : heap[b].nick = heap[Ptr(f)].nick
    BY <2>3, <2>4 DEF Join, Admits, Invites, Called
  <2>7. b \in Live /\ <<heap[b].fd, c>> \in guests
    BY <2>3, <2>6 DEF FInv, ChannelGood, Invited
  <2>8. b = Ptr(f) \/ heap[b].nick = Star
    BY <2>5, <2>6, <2>7 DEF FInv, NicksDiffer
  <2> QED
    BY <2>2, <2>5, <2>6, <2>7, <2>8
<1>2. Spec => []FInv
  BY ChannelsStayGood
<1> QED
  BY <1>1, <1>2, PTL DEF Spec, InviteKept
=============================================================================
