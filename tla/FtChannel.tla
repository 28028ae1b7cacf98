------------------------------ MODULE FtChannel ------------------------------
(***************************************************************************)
(* The channels of src/42-Ft_irc-main and the clients on them: JOIN, PART, *)
(* KICK, INVITE, MODE, QUIT, NICK and connections that end.  An action is  *)
(* one line of a client executed to the end, or a connection accepted or   *)
(* ended; the server is one thread.                                        *)
(*                                                                         *)
(* A Channel keeps four vectors of POINTERS to Clients.  Server::          *)
(* removeClient deletes the Client first and then asks every channel for   *)
(* it by descriptor, through the pointers just freed; bans and invites are *)
(* not looked at.  A later Client may get the address.  What a freed       *)
(* Client reads as is decided when it is freed: each field as it was, or   *)
(* something that equals nothing (Lost, NoFd); and a line that reads freed *)
(* memory may crash instead.  The other lists are searched by descriptor   *)
(* (operators), by nick (invites) and by host (bans).                      *)
(*                                                                         *)
(* Abstracted: registration (FtSessions): a client that is not logged in   *)
(* is one that sends no command; the topic, which decides nothing; the     *)
(* password of a channel: JOIN with a wrong one changes nothing, and       *)
(* whoever joins here is taken to know the right one.                      *)
(***************************************************************************)
EXTENDS Integers, Sequences, FiniteSets, SequencesExt

CONSTANTS
  Fds,         \* descriptors accept() may return
  Addrs,       \* addresses a Client may live at
  Nicks, Hosts, Chans,
  Limits,      \* numbers MODE +l may set
  Star,        \* "*", the nick of a client that has none
  Lost, NoFd,  \* what a freed field may read as
  Null,        \* the null pointer
  MaxMembers   \* bound of the model on the members of a channel

ASSUME FtChannelConstants ==
  /\ Fds \subseteq Nat
  /\ NoFd \notin Fds
  /\ Star \notin Nicks
  /\ Lost \notin Nicks \cup {Star} \cup Hosts
  /\ Null \notin Addrs
  /\ Limits \subseteq Nat

VARIABLES
  clients,   \* Server::_clients
  heap,      \* contents of the Client at each address, freed or not
  channels,  \* Server::_channels, by name: never removed
  status,    \* "running"; "null": a null pointer was read; "stale": freed
             \* memory was read; "torn": a vector was read past its end;
             \* "ended": an exception reached main()
  roster,    \* history: <<f, c>>, as JOIN, PART, KICK and the ban told
  chiefs,    \* history: <<f, c>>, who was made operator of c
  guests,    \* history: <<f, c>>, who was invited to c
  deeds      \* history: which of Deeds have happened so far

vars == <<clients, heap, channels, status, roster, chiefs, guests, deeds>>
server == <<clients, heap, channels>>
told == <<roster, chiefs, guests>>

(***************************************************************************)
(* vanish    a connection ended on a channel, without QUIT or PART          *)
(* rejoin    JOIN of a channel the client is on                             *)
(* unlisted  a client that a channel had banned or invited went away        *)
(* overfull  MODE +l set a limit below the number of members                *)
(* halfban   MODE +b on a host of which several are on the channel          *)
(***************************************************************************)
Deeds == {"vanish", "rejoin", "unlisted", "overfull", "halfban"}

Client == [fd : Fds \cup {NoFd}, nick : Nicks \cup {Star, Lost},
           host : Hosts \cup {Lost}]

Nobody == [fd |-> NoFd, nick |-> Lost, host |-> Lost]

Put(m, k, v) == [x \in DOMAIN m \cup {k} |-> IF x = k THEN v ELSE m[x]]

Live == ToSet(clients)
WithFd(f) == {a \in Addrs : heap[a].fd = f}
Called(n) == {a \in Addrs : heap[a].nick = n}
From(h) == {a \in Addrs : heap[a].host = h}

\* The first element of the sequence s that is in A, or Null: the loops of
\* all the functions named get...
First(s, A) ==
  LET I == {i \in 1..Len(s) : s[i] \in A}
  IN IF I = {} THEN Null ELSE s[CHOOSE i \in I : \A j \in I : i <= j]

Ptr(f) == First(clients, WithFd(f))   \* Server::getClient(fd)
Open == {heap[a].fd : a \in Live}

Members(c) == ToSet(channels[c].members)
Operators(c) == ToSet(channels[c].operators)
Bans(c) == ToSet(channels[c].bans)
Invites(c) == ToSet(channels[c].invites)

\* Reading through the pointers in S while those in L are alive.
Reading(S, L) == IF S \subseteq L THEN {"running"} ELSE {"running", "stale"}

Init ==
  /\ clients = <<>>
  /\ heap = [a \in Addrs |-> Nobody]
  /\ channels = [c \in {} |-> 0]
  /\ status = "running"
  /\ roster = {} /\ chiefs = {} /\ guests = {}
  /\ deeds = {}
-----------------------------------------------------------------------------
(* Channel *)

NewChannel(a) ==
  [members |-> <<a>>, operators |-> <<a>>, bans |-> <<>>, invites |-> <<>>,
   limit |-> 0, inviteOnly |-> FALSE]

\* Channel::addClient, once it has not thrown.
AddClient(ch, a) ==
  [ch EXCEPT !.members = Append(@, a),
             !.operators = IF ch.members = <<>> THEN Append(@, a) ELSE @]

\* The limit is tested one too late; bans, or invites, are not looked at.
Admits_OffByOne(ch, a) ==
  /\ ToSet(ch.bans) \cap From(heap[a].host) = {}
  /\ ~ (ch.limit # 0 /\ Len(ch.members) = ch.limit + 1)
  /\ ch.inviteOnly => ToSet(ch.invites) \cap Called(heap[a].nick) # {}
Admits_Banned(ch, a) ==
  /\ ~ (ch.limit # 0 /\ Len(ch.members) = ch.limit)
  /\ ch.inviteOnly => ToSet(ch.invites) \cap Called(heap[a].nick) # {}
Admits_AnyInvite(ch, a) ==
  /\ ToSet(ch.bans) \cap From(heap[a].host) = {}
  /\ ~ (ch.limit # 0 /\ Len(ch.members) = ch.limit)
  /\ ch.inviteOnly => ch.invites # <<>>

\* The three tests at the start of Channel::addClient.  The limit is compared
\* for equality.
Admits(ch, a) ==
  /\ ToSet(ch.bans) \cap From(heap[a].host) = {}
  /\ ~ (ch.limit # 0 /\ Len(ch.members) = ch.limit)
  /\ ch.inviteOnly => ToSet(ch.invites) \cap Called(heap[a].nick) # {}

\* The operators keep the pointer; the front goes instead of the client.
RemoveClient_KeepOp(ch, a) == [ch EXCEPT !.members = RemoveFirst(@, a)]
RemoveClient_Front(ch, a) ==
  IF a \notin ToSet(ch.members) THEN ch
  ELSE [ch EXCEPT !.members = Tail(@), !.operators = RemoveFirst(@, a)]

\* Channel::removeClient: one entry of each vector.  (The operator of the
\* client's nick that it looks for exists when the client is an operator.)
RemoveClient(ch, a) ==
  IF a \notin ToSet(ch.members) THEN ch
  ELSE [ch EXCEPT !.members = RemoveFirst(@, a),
                  !.operators = RemoveFirst(@, a)]

\* Channel::addBan, once it has not thrown.
AddBan(ch, a) == RemoveClient([ch EXCEPT !.bans = Append(@, a)], a)
\* What those tests read through.
Tested(c) == Bans(c) \cup IF channels[c].inviteOnly THEN Invites(c) ELSE {}
-----------------------------------------------------------------------------
(* Connections *)

\* accept() and Server::listen(fd, hostName): the kernel returns the lowest
\* free descriptor, the allocator any free address.
Arrive(h) ==
  /\ status = "running"
  /\ \E f \in Fds \ Open, a \in Addrs \ Live :
       /\ \A g \in Fds \ Open : f <= g
       /\ clients' = Append(clients, a)
       /\ heap' = [heap EXCEPT ![a] = [fd |-> f, nick |-> Star, host |-> h]]
  /\ UNCHANGED <<channels, status, roster, chiefs, guests, deeds>>

\* What the Client at a may read as once it is freed, its strings alike.  To
\* what no channel points nobody will look.
Remains(a, chs) ==
  LET o == heap[a]
  IN IF \E c \in DOMAIN chs : a \in UNION {ToSet(chs[c].members), ToSet(chs[c].bans),
                                            ToSet(chs[c].invites)}
     THEN {[o EXCEPT !.fd = x] : x \in {o.fd, NoFd}} \cup {[Nobody EXCEPT !.fd = o.fd], Nobody}
     ELSE {Nobody}

Gone(H, f) == {p \in H : p[1] # f}

\* Server::removeClient, when chs are the channels: the Client is deleted,
\* then looked for in every channel by its descriptor.
Forget(f, chs) ==
  /\ clients' = RemoveFirst(clients, Ptr(f))
  /\ \E o \in Remains(Ptr(f), chs) : heap' = [heap EXCEPT ![Ptr(f)] = o]
  /\ channels' =
       [c \in DOMAIN chs |->
          RemoveClient(chs[c],
            First(chs[c].members, {a \in Addrs : heap'[a].fd = f}))]
  /\ roster' = Gone(roster, f)
  /\ chiefs' = Gone(chiefs, f)
  /\ guests' = Gone(guests, f)

\* What Server::removeClient reads.
MembersOf(chs) == UNION {ToSet(chs[c].members) : c \in DOMAIN chs}
Listed(a) ==
  \E c \in DOMAIN channels : a \in Bans(c) \cup Invites(c)

\* recv() returned 0.
Hangup(f) ==
  /\ status = "running"
  /\ f \in Open
  /\ Forget(f, channels)
  /\ status' \in Reading(MembersOf(channels), Live \ {Ptr(f)})
  /\ deeds' = deeds \cup (IF Ptr(f) \in MembersOf(channels) THEN {"vanish"} ELSE {})
                    \cup (IF Listed(Ptr(f)) THEN {"unlisted"} ELSE {})

\* The channels of a client that sends QUIT: found by descriptor.
OwnChannels(f) ==
  {c \in DOMAIN channels : First(channels[c].members, WithFd(f)) # Null}

\* The messages QUIT sends: one to each other member of each of them.
Farewells(f) ==
  {m \in Chans \X (1..MaxMembers) :
     /\ m[1] \in OwnChannels(f)
     /\ m[2] <= Len(channels[m[1]].members)
     /\ heap[channels[m[1]].members[m[2]]].fd # f}

\* What the loop of execQuit leaves of the channels.
Quitted_None(f) == channels
Quitted(f) == [c \in DOMAIN channels |-> RemoveClient(channels[c], Ptr(f))]

\* QUIT.  message is replaced by split(message, ":")[1] before each farewell:
\* without a colon the first reads past the end, with one the second does.
Quit(f, colon) ==
  /\ status = "running"
  /\ f \in Open
  /\ Forget(f, Quitted(f))
  /\ status' \in Reading(MembersOf(channels), Live)
                   \cup Reading(MembersOf(Quitted(f)), Live \ {Ptr(f)})
                   \cup (IF Cardinality(Farewells(f)) > (IF colon THEN 1 ELSE 0)
                         THEN {"torn"} ELSE {})
  /\ deeds' = deeds \cup (IF Listed(Ptr(f)) THEN {"unlisted"} ELSE {})

\* NICK: "*" too, when nobody has it.
Nick(f, n) ==
  /\ status = "running"
  /\ f \in Open
  /\ First(clients, Called(n)) = Null
  /\ heap' = [heap EXCEPT ![Ptr(f)].nick = n]
  /\ UNCHANGED <<clients, channels, status, roster, chiefs, guests, deeds>>
-----------------------------------------------------------------------------
(* Commands *)

Commands(f) == status = "running" /\ f \in Open

\* JOIN of a channel that does not exist.
Create(f, c) ==
  /\ Commands(f)
  /\ c \notin DOMAIN channels
  /\ channels' = Put(channels, c, NewChannel(Ptr(f)))
  /\ roster' = roster \cup {<<f, c>>}
  /\ chiefs' = chiefs \cup {<<f, c>>}
  /\ UNCHANGED <<clients, heap, status, guests, deeds>>

\* JOIN of one that does.
Join(f, c) ==
  /\ Commands(f)
  /\ c \in DOMAIN channels
  /\ Admits(channels[c], Ptr(f))
  /\ Len(channels[c].members) < MaxMembers
  /\ LET ch == channels[c]
     IN /\ channels' = [channels EXCEPT ![c] = AddClient(ch, Ptr(f))]
        /\ roster' = roster \cup {<<f, c>>}
        /\ chiefs' = IF ch.members = <<>> THEN chiefs \cup {<<f, c>>} ELSE chiefs
        /\ status' \in Reading(Tested(c) \cup Members(c) \cup Operators(c), Live)
        /\ deeds' = deeds \cup (IF Ptr(f) \in Members(c) THEN {"rejoin"} ELSE {})
  /\ UNCHANGED <<clients, heap, guests>>

\* JOIN that addClient refuses.
JoinRefused(f, c) ==
  /\ Commands(f)
  /\ c \in DOMAIN channels
  /\ ~ Admits(channels[c], Ptr(f))
  /\ status' \in Reading(Tested(c), Live)
  /\ UNCHANGED <<server, told, deeds>>

\* PART never asks whether the client is on the channel.
Part(f, c) ==
  /\ Commands(f)
  /\ c \in DOMAIN channels
  /\ channels' = [channels EXCEPT ![c] = RemoveClient(@, Ptr(f))]
  /\ roster' = roster \ {<<f, c>>}
  /\ chiefs' = chiefs \ {<<f, c>>}
  /\ status' \in Reading(Members(c), Live)
  /\ UNCHANGED <<clients, heap, guests, deeds>>

\* PRIVMSG and NOTICE to a channel, the sender on it or not.
Talk(f, c) ==
  /\ Commands(f)
  /\ c \in DOMAIN channels
  /\ status' \in Reading(Members(c), Live)
  /\ UNCHANGED <<server, told, deeds>>

\* WHOIS of a channel; or of a nick, which is looked for on the channels.
Whois(f, c) ==
  /\ Commands(f)
  /\ c \in DOMAIN channels
  /\ status' \in Reading(Members(c) \cup Operators(c), Live)
  /\ UNCHANGED <<server, told, deeds>>

\* WHO takes for granted that the client is on the channel.
Who(f, c) ==
  /\ Commands(f)
  /\ c \in DOMAIN channels
  /\ LET ch == channels[c]
     IN status' \in IF First(ch.members, WithFd(f)) = Null THEN {"null"}
                    ELSE Reading(Members(c) \cup Operators(c), Live)
  /\ UNCHANGED <<server, told, deeds>>

\* PRIVMSG and NOTICE without a text, KICK with nothing after its colon: a
\* word is taken that split() did not return, before anything else is done.
CutShort(f) ==
  /\ Commands(f)
  /\ status' = "torn"
  /\ UNCHANGED <<server, told, deeds>>

\* KICK, TOPIC and MODE take for granted that the channel exists.
NoSuchChannel(f, c) ==
  /\ Commands(f)
  /\ c \notin DOMAIN channels
  /\ status' = "null"
  /\ UNCHANGED <<server, told, deeds>>

\* Rights go by membership.
IsOperator_Member(f, c) == First(channels[c].members, WithFd(f)) # Null

\* Channel::getOperator(fd), the test before KICK, INVITE, TOPIC and MODE.
IsOperator(f, c) == First(channels[c].operators, WithFd(f)) # Null

NotOperator(f, c) ==
  /\ Commands(f)
  /\ c \in DOMAIN channels
  /\ ~ IsOperator(f, c)
  /\ status' \in Reading(Operators(c), Live)
  /\ UNCHANGED <<server, told, deeds>>

\* A command of an operator that reads members and operators.
Operates(f, c) ==
  /\ Commands(f)
  /\ c \in DOMAIN channels
  /\ IsOperator(f, c)

ReadsLists(c) ==
  status' \in Reading(Members(c) \cup Operators(c), Live)

\* What was told about the client at address a on channel c.
About(H, a, c) == {p \in H : p[2] = c /\ a \in Live /\ heap[a].fd = p[1]}

\* KICK of the first member with that nick.
Kick(f, c, n) ==
  /\ Operates(f, c)
  /\ LET a == First(channels[c].members, Called(n))
     IN /\ channels' = [channels EXCEPT ![c] = RemoveClient(@, a)]
        /\ roster' = roster \ About(roster, a, c)
        /\ chiefs' = chiefs \ About(chiefs, a, c)
  /\ ReadsLists(c)
  /\ UNCHANGED <<clients, heap, guests, deeds>>

\* INVITE that does not ask whether there is such a client.
Invite_Unchecked(f, c, n) ==
  /\ Operates(f, c)
  /\ channels' = [channels EXCEPT ![c].invites = Append(@, First(clients, Called(n)))]
  /\ UNCHANGED <<clients, heap, status, told, deeds>>

\* INVITE of the first client with that nick, by whoever the operator is.
\* Inviting it twice throws AlreadyInviteException up to main().
Invite(f, c, n) ==
  /\ Operates(f, c)
  /\ First(clients, Called(n)) # Null
  /\ LET a == First(clients, Called(n))
     IN IF a \in Invites(c)
        THEN /\ status' = "ended"
             /\ UNCHANGED <<channels, guests>>
        ELSE /\ channels' = [channels EXCEPT ![c].invites = Append(@, a)]
             /\ guests' = guests \cup {<<heap[a].fd, c>>}
             /\ ReadsLists(c)
  /\ UNCHANGED <<clients, heap, roster, chiefs, deeds>>

\* TOPIC, MODE t, MODE k: topic and password are left out.  TOPIC with a text
\* but no colon, like MODE b with nothing behind the @, reads past the end of
\* what split() returned.
Describe(f, c, colon) ==
  /\ Operates(f, c)
  /\ status' \in Reading(Members(c) \cup Operators(c), Live)
                   \cup IF colon THEN {} ELSE {"torn"}
  /\ UNCHANGED <<server, told, deeds>>
-----------------------------------------------------------------------------
(* MODE *)

\* MODE +o.  Of a nick that no member has, it pushes a null pointer, which
\* the loop over the members then reads: there is one, the operator.
Grant(f, c, n) ==
  /\ Operates(f, c)
  /\ LET a == First(channels[c].members, Called(n))
     IN IF a = Null
        THEN /\ status' = "null"
             /\ UNCHANGED <<channels, chiefs>>
        ELSE /\ channels' = IF a \in Operators(c) THEN channels
                            ELSE [channels EXCEPT ![c].operators = Append(@, a)]
             /\ chiefs' = chiefs \cup About({<<g, c>> : g \in Fds}, a, c)
             /\ ReadsLists(c)
  /\ UNCHANGED <<clients, heap, roster, guests, deeds>>

\* MODE -o.
Revoke(f, c, n) ==
  /\ Operates(f, c)
  /\ LET a == First(channels[c].members, Called(n))
     IN /\ channels' = [channels EXCEPT ![c].operators = RemoveFirst(@, a)]
        /\ chiefs' = chiefs \ About(chiefs, a, c)
  /\ ReadsLists(c)
  /\ UNCHANGED <<clients, heap, roster, guests, deeds>>

\* MODE +b host: the members from there are banned one after another; the
\* second throws AlreadyBanException, and so does the first when a ban of
\* that host is listed.
Ban(f, c, h) ==
  /\ Operates(f, c)
  /\ LET ch == channels[c]
         there == {i \in 1..Len(ch.members) : ch.members[i] \in From(h)}
         a == First(ch.members, From(h))
         new == there # {} /\ Bans(c) \cap From(h) = {}
     IN /\ channels' = IF new THEN [channels EXCEPT ![c] = AddBan(ch, a)] ELSE channels
        /\ roster' = IF new THEN roster \ About(roster, a, c) ELSE roster
        /\ chiefs' = IF new THEN chiefs \ About(chiefs, a, c) ELSE chiefs
        /\ status' \in Reading(Bans(c) \cup Members(c) \cup Operators(c), Live)
        /\ deeds' = deeds \cup (IF Cardinality(there) > 1 THEN {"halfban"} ELSE {})
  /\ UNCHANGED <<clients, heap, guests>>

\* MODE +b without a host.
ListBans(f, c) ==
  /\ Operates(f, c)
  /\ status' \in Reading(Operators(c) \cup Bans(c), Live)
  /\ UNCHANGED <<server, told, deeds>>

\* MODE -b host.  When nobody from there is banned, removeBan compares the
\* bans with a null pointer, if there are any.
Unban(f, c, h) ==
  /\ Operates(f, c)
  /\ LET ch == channels[c]
         b == First(ch.bans, From(h))
     IN IF b = Null /\ ch.bans # <<>>
        THEN status' = "null" /\ UNCHANGED channels
        ELSE /\ channels' = [channels EXCEPT ![c].bans = RemoveFirst(@, b)]
             /\ status' \in Reading(Bans(c) \cup Members(c) \cup Operators(c), Live)
  /\ UNCHANGED <<clients, heap, told, deeds>>

\* MODE +l, and -l, which sets 0.  +l with a number glued to the letter sets
\* what toInt makes of nothing, any number.
SetLimit(f, c, l) ==
  /\ Operates(f, c)
  /\ channels' = [channels EXCEPT ![c].limit = l]
  /\ ReadsLists(c)
  /\ deeds' = deeds \cup (IF l # 0 /\ Len(channels[c].members) > l
                          THEN {"overfull"} ELSE {})
  /\ UNCHANGED <<clients, heap, told>>

SetInviteOnly(f, c, on) ==
  /\ Operates(f, c)
  /\ channels' = [channels EXCEPT ![c].inviteOnly = on]
  /\ ReadsLists(c)
  /\ UNCHANGED <<clients, heap, told, deeds>>

Mode(f, c) ==
  \/ \E n \in Nicks \cup {Star} : Grant(f, c, n) \/ Revoke(f, c, n)
  \/ \E h \in Hosts : Ban(f, c, h) \/ Unban(f, c, h)
  \/ ListBans(f, c)
  \/ \E l \in Limits \cup {0} : SetLimit(f, c, l)
  \/ \E on \in BOOLEAN : SetInviteOnly(f, c, on)

Command(f, c) ==
  \/ Create(f, c) \/ Join(f, c) \/ JoinRefused(f, c) \/ Part(f, c)
  \/ Talk(f, c) \/ Whois(f, c) \/ Who(f, c) \/ NoSuchChannel(f, c) \/ NotOperator(f, c)
  \/ \E n \in Nicks \cup {Star} : Kick(f, c, n) \/ Invite(f, c, n)
  \/ \E colon \in BOOLEAN : Describe(f, c, colon)
  \/ Mode(f, c)

Next ==
  \/ \E h \in Hosts : Arrive(h)
  \/ \E f \in Fds :
       \/ Hangup(f)
       \/ CutShort(f)
       \/ \E colon \in BOOLEAN : Quit(f, colon)
       \/ \E n \in Nicks \cup {Star} : Nick(f, n)
       \/ \E c \in Chans : Command(f, c)

Spec == Init /\ [][Next]_vars
-----------------------------------------------------------------------------
(* Properties *)

Done(d) == d \cap deeds # {}   \* one of the deeds in d happened

Channel == [members : Seq(Addrs), operators : Seq(Addrs), bans : Seq(Addrs),
            invites : Seq(Addrs), limit : Limits \cup {0}, inviteOnly : BOOLEAN]

\* The values the variables range over; the live clients differ in address
\* and in descriptor.
TypeOK ==
  /\ clients \in Seq(Addrs)
  /\ heap \in [Addrs -> Client]
  /\ DOMAIN channels \subseteq Chans
  /\ \A c \in DOMAIN channels : channels[c] \in Channel
  /\ status \in {"running", "null", "stale", "torn", "ended"}
  /\ roster \cup chiefs \cup guests \subseteq Fds \X Chans
  /\ deeds \subseteq Deeds
  /\ \A i, j \in 1..Len(clients) :
       /\ heap[clients[i]].fd # NoFd
       /\ heap[clients[i]].fd = heap[clients[j]].fd => i = j

\* Two vectors, two erasures: whatever was deleted, listed twice, kicked,
\* banned or promoted, an operator of a channel is on its list of members, and
\* is listed once among the operators.  This is what lets MODE +o and +l rely
\* on a channel with an operator having a member.
OperatorsAreMembers ==
  \A c \in DOMAIN channels :
    /\ Operators(c) \subseteq Members(c)
    /\ IsInjective(channels[c].operators)

\* Channels do not lose members: who was told that the JOIN succeeded, and
\* neither left nor was put out since, is on the list, even after others
\* vanished and their addresses were reused.
RosterKept ==
  \A p \in roster : Ptr(p[1]) # Null /\ Ptr(p[1]) \in Members(p[2])

\* Nor gain any: unless a client joins twice or its connection ends on the
\* channel, the list names those who joined, once each, and no pointer to a
\* freed client is followed by any search through it.
MembersJoined ==
  Done({"vanish", "rejoin"}) \/
    \A c \in DOMAIN channels :
      /\ Members(c) = {Ptr(p[1]) : p \in {q \in roster : q[2] = c}}
      /\ IsInjective(channels[c].members)

\* The list is exactly those who were told so.
RosterExact == RosterKept /\ MembersJoined

\* Rights are looked up by descriptor and kept by address.  Unless a
\* connection ends on the channel, or a client joined twice, who passes the
\* test for operators founded the channel, came first when it was empty, or
\* was given the rights by an operator, and was not deprived of them or left.
RightsEarned ==
  Done({"vanish", "rejoin"}) \/
    \A c \in DOMAIN channels, f \in Open :
      IsOperator(f, c) => <<f, c>> \in chiefs

\* The limit is compared for equality, which is enough until MODE +l sets one
\* that is already exceeded.
LimitKept ==
  Done({"overfull"}) \/
    \A c \in DOMAIN channels :
      channels[c].limit # 0 => Len(channels[c].members) <= channels[c].limit

\* A ban is a pointer to a client that was on the channel.  While the clients
\* it names stay connected, no host had two members when it was banned, and
\* no freed client is listed, nobody from a banned host is on the channel.
BanKept ==
  Done({"vanish", "rejoin", "unlisted", "halfban"}) \/
    \A c \in DOMAIN channels, b \in Addrs :
      b \in Bans(c) => Members(c) \cap From(heap[b].host) = {}

\* An invitation is a pointer too, compared by nick.  While the invited stay
\* connected, who gets on an invite-only channel was invited to it, or has no
\* nick, like somebody who was.
InviteKept ==
  [][\A p \in roster' \ roster :
       /\ p[2] \in DOMAIN channels
       /\ channels[p[2]].inviteOnly
       /\ ~ Done({"unlisted"})
       => p \in guests \/ heap[Ptr(p[1])].nick = Star]_vars

\* Freed memory is read only after a connection ended on a channel, after a
\* client joined twice, or after one that a channel had banned or invited went.
StaleCause == status = "stale" => Done({"vanish", "rejoin", "unlisted"})
=============================================================================
