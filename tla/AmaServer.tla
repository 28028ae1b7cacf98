------------------------------ MODULE AmaServer ------------------------------
(***************************************************************************)
(* The IRC server of src/_irc_: who is connected, who holds which nick,    *)
(* who is on which channel.  One action stands for one line of a client    *)
(* (commandParser and the command it dispatches to), for an accepted       *)
(* connection or for a connection that ended: the server is one thread and *)
(* handles each of them to the end.                                        *)
(*                                                                         *)
(* What is kept:                                                           *)
(*  - Channel::_curClients holds ADDRESSES of Client objects.  closing a   *)
(*    connection frees the object and leaves the address in the channels,  *)
(*    and the allocator may give the address to a later connection.  A     *)
(*    read through such a dangling address finds the old contents or       *)
(*    crashes the program: both are possible outcomes here.                *)
(*  - the operator of a channel is a nick, not a client;                   *)
(*  - _nickList keeps every nick a connection registered, and closing it   *)
(*    erases the first entry only;                                         *)
(*  - the nick of a client that sent none is "", and NICK followed by a     *)
(*    space takes "" as a nick like any other (once);                      *)
(*  - lines that follow QUIT in the same segment: _clients[clientSocket]   *)
(*    then creates a Client whose fields nobody initialised (a ghost).     *)
(* What is abstracted: the text of replies, the topic's text and the       *)
(* username; the poll set is the set of open descriptors (AmaLoop models   *)
(* the loop over it) and every send succeeds on an open descriptor         *)
(* (AmaWire models a full socket).  The bot's own connection is a client   *)
(* like the others: it registers with the same three lines.                *)
(***************************************************************************)
EXTENDS Integers, Sequences, SequencesExt

CONSTANTS
  Fds,          \* descriptors accept() may return
  Addrs,        \* addresses a node of _clients may live at
  Nicks, Chans, Keys, Topics,
  BotNick,      \* Bot::nick, "BotNICK"
  NoFd, NoKey, NoTopic,
  NoNick,       \* the empty nick: before NICK, and after NICK with a space
  UserLimit,    \* Channel::_userLimit, 10 in the code
  MaxNickList   \* bound of the model on the length of _nickList

ASSUME AmaConstants ==
  /\ Fds \subseteq Nat
  /\ NoFd \notin Fds
  /\ UserLimit \in Nat \ {0, 1}
  /\ MaxNickList \in Nat

VARIABLES
  open,      \* descriptors the server holds open, i.e. has in its poll set
  clients,   \* Server::_clients: descriptor -> address of the Client
  heap,      \* contents of the Client object at each address, freed or not
  nickList,  \* Server::_nickList
  channels,  \* Server::_channels: name -> Channel
  batch,     \* NoFd, or whose segment still has lines after a QUIT in it
  status,    \* "running", or "crashed"
  roster,    \* history: <<f, c>> as the replies to JOIN, PART and KICK told
  deeds      \* history: which of Deeds have happened so far

vars ==
  <<open, clients, heap, nickList, channels, batch, status, roster, deeds>>

(***************************************************************************)
(* left    a connection ended, or a ghost was overwritten, on a channel    *)
(* renick  a client that had a nick took another one                       *)
(* ghost   a line followed QUIT in a segment, and a ghost was created      *)
(***************************************************************************)
Deeds == {"left", "renick", "ghost"}

Names == Nicks \cup {NoNick}

Objects == [fd : Fds \cup {NoFd}, nick : Names,
            auth : BOOLEAN, hasNick : BOOLEAN, loged : BOOLEAN]

\* A constructor that forgets the socket.
Fresh_NoSocket(f) == [fd |-> NoFd, nick |-> NoNick,
                      auth |-> FALSE, hasNick |-> FALSE, loged |-> FALSE]

Fresh(f) == [fd |-> f, nick |-> NoNick,
             auth |-> FALSE, hasNick |-> FALSE, loged |-> FALSE]

Empty == [x \in {} |-> x]
Put(m, k, v) == [x \in DOMAIN m \cup {k} |-> IF x = k THEN v ELSE m[x]]
Without(m, k) == [x \in DOMAIN m \ {k} |-> m[x]]

\* The sequence s without the first of its positions in I.
DropFirst(s, I) ==
  IF \E k \in I : \A j \in I : k <= j
  THEN RemoveAt(s, CHOOSE k \in I : \A j \in I : k <= j)
  ELSE s

InUse == {clients[f] : f \in DOMAIN clients}   \* addresses of live objects
Obj(f) == heap[clients[f]]
Members(c) == ToSet(channels[c].members)
Joined(f) == {p \in roster : p[1] = f}

\* A read through the addresses in s: defined when all of them are live.
Reading(s) == IF s \subseteq InUse THEN {"running"} ELSE {"running", "crashed"}

Init ==
  /\ open = {}
  /\ clients = Empty
  /\ heap = [a \in Addrs |-> Fresh(NoFd)]
  /\ nickList = <<>>
  /\ channels = Empty
  /\ batch = NoFd
  /\ status = "running"
  /\ roster = {}
  /\ deeds = {}
-----------------------------------------------------------------------------
(* Lookups *)

\* Of the empty nick, too, once somebody has taken it.
IsNickTaken(n) == \E i \in 1..Len(nickList) : nickList[i].nick = n

\* The empty name is nobody's.
GetClient_NoEmptyName(n) ==
  LET found == {f \in DOMAIN clients : Obj(f).nick = n}
  IN IF n = NoNick \/ found = {} THEN NoFd
     ELSE CHOOSE f \in found : \A g \in found : f <= g

\* Server::getClient(nickname): the first match in the order of descriptors.
\* For the empty nick it may be a client that has not sent NICK yet.
GetClient(n) ==
  LET found == {f \in DOMAIN clients : Obj(f).nick = n}
  IN IF found = {} THEN NoFd ELSE CHOOSE f \in found : \A g \in found : f <= g

\* Client::clientFind: the nick itself if some client has it, else "".
ClientFind(n) == IF \E f \in DOMAIN clients : Obj(f).nick = n THEN n ELSE NoNick

\* Whom PRIVMSG looks up for a channel: through the nick of every member.
Addressees(c) == {GetClient(ClientFind(heap[a].nick)) : a \in Members(c)}

\* The sender is not left out.
Recipients_Echo(f, c) ==
  {g \in Addressees(c) \ {NoFd} : Obj(g).nick # BotNick}

\* Whom it then sends the message to.
Recipients(f, c) ==
  {g \in Addressees(c) \ {NoFd} : Obj(g).fd # Obj(f).fd /\ Obj(g).nick # BotNick}
-----------------------------------------------------------------------------
(* Connections *)

\* The oldest entry goes, whoever closed.
EraseFirst_Oldest(s, f) == IF s = <<>> THEN s ELSE Tail(s)

EraseFirst(s, f) == DropFirst(s, {i \in 1..Len(s) : s[i].fd = f})

Leave(f) ==
  /\ roster' = roster \ Joined(f)
  /\ deeds' = deeds \cup (IF Joined(f) # {} THEN {"left"} ELSE {})

\* Server::closeConnection: close() fails, and nothing changes, when the
\* descriptor is not open.  The channels are not told.
CloseConnection(f) ==
  IF f \in open
  THEN /\ open' = open \ {f}
       /\ clients' = Without(clients, f)
       /\ nickList' = EraseFirst(nickList, f)
       /\ Leave(f)
  ELSE UNCHANGED <<open, clients, nickList, roster, deeds>>

Idle == status = "running" /\ batch = NoFd

\* acceptConnection and addNewClient: the kernel returns the lowest free
\* descriptor; a ghost left in its slot is overwritten where it is.
Accept ==
  /\ Idle
  /\ \E f \in Fds \ open :
       /\ \A g \in Fds \ open : f <= g
       /\ open' = open \cup {f}
       /\ Leave(f)
       /\ \/ /\ f \in DOMAIN clients
             /\ heap' = [heap EXCEPT ![clients[f]] = Fresh(f)]
             /\ UNCHANGED clients
          \/ /\ f \notin DOMAIN clients
             /\ \E a \in Addrs \ InUse :
                  /\ clients' = Put(clients, f, a)
                  /\ heap' = [heap EXCEPT ![a] = Fresh(f)]
  /\ UNCHANGED <<nickList, channels, batch, status>>

\* recv() returned 0 or failed: receiveMessage, or the catch clause of
\* handleClientMessage, closes the connection.
Disconnect(f) ==
  /\ Idle
  /\ f \in open
  /\ CloseConnection(f)
  /\ UNCHANGED <<heap, channels, batch, status>>

\* handleClientMessage goes on with the line that follows QUIT:
\* _clients[clientSocket] makes a Client whose constructor sets nothing, so
\* that its scalar fields hold what an earlier Client left in that memory.
NextLine(f) ==
  /\ status = "running"
  /\ batch = f
  /\ f \notin DOMAIN clients
  /\ \E a \in Addrs \ InUse, old \in Addrs :
       /\ heap[old].fd # NoFd
       /\ clients' = Put(clients, f, a)
       /\ heap' = [heap EXCEPT ![a] = [heap[old] EXCEPT !.nick = NoNick]]
  /\ deeds' = deeds \cup {"ghost"}
  /\ UNCHANGED <<open, nickList, channels, batch, status, roster>>

EndOfSegment ==
  /\ status = "running"
  /\ batch # NoFd
  /\ batch' = NoFd
  /\ UNCHANGED <<open, clients, heap, nickList, channels, status, roster, deeds>>
-----------------------------------------------------------------------------
(* Lines of a client.  The line belongs to the entry f of _clients. *)

HasLine(f) ==
  /\ status = "running"
  /\ f \in DOMAIN clients
  /\ IF batch = NoFd THEN f \in open ELSE batch = f

\* handleCommand lets the other commands pass only then.
LoggedIn(f) == HasLine(f) /\ Obj(f).auth /\ Obj(f).loged

\* PASS with the server's password; any other leaves all as it is.
Pass(f) ==
  /\ HasLine(f)
  /\ ~Obj(f).auth
  /\ heap' = [heap EXCEPT ![clients[f]].auth = TRUE]
  /\ UNCHANGED <<open, clients, nickList, channels, batch, status, roster, deeds>>

\* NICK: the new entry is appended; the entry of an earlier nick stays.  The
\* nick may be the empty one: only the number of parts of the line is tested.
Nick(f, n) ==
  /\ HasLine(f)
  /\ Obj(f).auth
  /\ ~IsNickTaken(n)
  /\ Len(nickList) < MaxNickList
  /\ nickList' = Append(nickList, [fd |-> Obj(f).fd, nick |-> n])
  /\ heap' = [heap EXCEPT ![clients[f]].nick = n, ![clients[f]].hasNick = TRUE]
  /\ deeds' = deeds \cup (IF Obj(f).hasNick THEN {"renick"} ELSE {})
  /\ UNCHANGED <<open, clients, channels, batch, status, roster>>

\* USER without the test of getHasNick().
User_AnyTime(f) ==
  /\ HasLine(f)
  /\ ~Obj(f).loged
  /\ heap' = [heap EXCEPT ![clients[f]].loged = TRUE]
  /\ UNCHANGED <<open, clients, nickList, channels, batch, status, roster, deeds>>

\* USER: does not ask for the password again; NICK did.
User(f) ==
  /\ HasLine(f)
  /\ Obj(f).hasNick
  /\ ~Obj(f).loged
  /\ heap' = [heap EXCEPT ![clients[f]].loged = TRUE]
  /\ UNCHANGED <<open, clients, nickList, channels, batch, status, roster, deeds>>

\* JOIN of a channel that exists: the joiner is compared by address.
Join(f, c, k) ==
  /\ LoggedIn(f)
  /\ c \in DOMAIN channels
  /\ clients[f] \notin Members(c)
  /\ channels[c].key = k
  /\ Len(channels[c].members) < UserLimit
  /\ channels' = [channels EXCEPT ![c].members = Append(@, clients[f])]
  /\ roster' = roster \cup {<<f, c>>}
  /\ status' \in Reading(Members(c))
  /\ UNCHANGED <<open, clients, heap, nickList, batch, deeds>>

\* JOIN of a channel that does not: the joiner becomes its operator.
Create(f, c, k) ==
  /\ LoggedIn(f)
  /\ c \notin DOMAIN channels
  /\ channels' = Put(channels, c, [key |-> k, topic |-> NoTopic,
                                   op |-> Obj(f).nick,
                                   members |-> <<clients[f]>>])
  /\ roster' = roster \cup {<<f, c>>}
  /\ UNCHANGED <<open, clients, heap, nickList, batch, status, deeds>>

Erased(s, a) == DropFirst(s, {i \in 1..Len(s) : s[i] = a})

\* The front goes instead of the client found; the operator is not replaced.
RemoveClientFromChannel_Front(a, c) ==
  /\ channels' = IF Len(channels[c].members) = 1 THEN Without(channels, c)
                 ELSE [channels EXCEPT ![c].members = Tail(@)]
  /\ status' \in Reading(Members(c))
RemoveClientFromChannel_KeepOp(a, c) ==
  LET rest == Erased(channels[c].members, a)
  IN /\ channels' = IF rest = <<>> THEN Without(channels, c)
                    ELSE [channels EXCEPT ![c].members = rest]
     /\ status' \in Reading(Members(c))

\* Channel::removeClientFromChannel and, for the last member,
\* Server::removeChannel, which deletes the Channel: its _curClients is read
\* once more on the way back (and KICK then sends to it), from freed memory.
RemoveClientFromChannel(a, c) ==
  LET rest == Erased(channels[c].members, a)
  IN IF rest = <<>>
     THEN /\ channels' = Without(channels, c)
          /\ status' \in {"running", "crashed"}
     ELSE /\ channels' = [channels EXCEPT
                            ![c].members = rest,
                            ![c].op = IF @ = heap[a].nick
                                      THEN heap[Head(rest)].nick ELSE @]
          /\ status' \in Reading(Members(c))

\* PART of one channel; a list of channels is a sequence of these.
Part(f, c) ==
  /\ LoggedIn(f)
  /\ c \in DOMAIN channels
  /\ clients[f] \in Members(c)
  /\ RemoveClientFromChannel(clients[f], c)
  /\ roster' = roster \ {<<f, c>>}
  /\ UNCHANGED <<open, clients, heap, nickList, batch, deeds>>

\* KICK: the kicker is recognised by nick, and need not be on the channel.
Kick(f, c, n) ==
  /\ LoggedIn(f)
  /\ c \in DOMAIN channels
  /\ channels[c].op = Obj(f).nick
  /\ GetClient(n) # NoFd
  /\ clients[GetClient(n)] \in Members(c)
  /\ RemoveClientFromChannel(clients[GetClient(n)], c)
  /\ roster' = roster \ {<<GetClient(n), c>>}
  /\ UNCHANGED <<open, clients, heap, nickList, batch, deeds>>

Topic(f, c, t) ==
  /\ LoggedIn(f)
  /\ c \in DOMAIN channels
  /\ channels[c].op = Obj(f).nick
  /\ channels' = [channels EXCEPT ![c].topic = t]
  /\ status' \in Reading(Members(c))
  /\ UNCHANGED <<open, clients, heap, nickList, batch, roster, deeds>>

\* PRIVMSG to a channel: a member nobody answers to the nick of is a null
\* pointer in the loop over the targets.
ChannelMsg(f, c) ==
  /\ LoggedIn(f)
  /\ c \in DOMAIN channels
  /\ clients[f] \in Members(c) \/ Obj(f).nick = BotNick
  /\ status' \in IF NoFd \in Addressees(c) THEN {"crashed"} ELSE Reading(Members(c))
  /\ UNCHANGED <<open, clients, heap, nickList, channels, batch, roster, deeds>>

\* QUIT: every other client is told first; sending to a ghost whose
\* descriptor is closed throws, which drops the rest of the segment and
\* closes the connection the segment came from.
Quit(f) ==
  /\ LoggedIn(f)
  /\ LET own == Obj(f).fd
         peers == {Obj(g).fd : g \in DOMAIN clients} \ {own}
     IN \/ /\ peers \subseteq open
           /\ CloseConnection(own)
           /\ batch' \in {NoFd, f}
        \/ /\ ~ (peers \subseteq open)
           /\ CloseConnection(f)
           /\ batch' = NoFd
  /\ UNCHANGED <<heap, channels, status>>
-----------------------------------------------------------------------------
Register(f) == Pass(f) \/ User(f) \/ \E n \in Names : Nick(f, n)

ChannelCommand(f) ==
  \E c \in Chans :
    \/ \E k \in Keys \cup {NoKey} : Join(f, c, k) \/ Create(f, c, k)
    \/ Part(f, c)
    \/ \E n \in Names : Kick(f, c, n)
    \/ \E t \in Topics : Topic(f, c, t)
    \/ ChannelMsg(f, c)

Next ==
  \/ Accept
  \/ EndOfSegment
  \/ \E f \in Fds : \/ Disconnect(f)
                    \/ NextLine(f)
                    \/ Register(f)
                    \/ ChannelCommand(f)
                    \/ Quit(f)

Spec == Init /\ [][Next]_vars
-----------------------------------------------------------------------------
(* Properties *)

Done(d) == d \cap deeds # {}   \* one of the deeds in d happened

\* The values the variables range over: of the connections, of the channels.
SessionsOK ==
  /\ open \subseteq Fds
  /\ DOMAIN clients \subseteq Fds
  /\ \A f \in DOMAIN clients : clients[f] \in Addrs
  /\ heap \in [Addrs -> Objects]
  /\ nickList \in Seq([fd : Fds, nick : Names])
  /\ batch \in Fds \cup {NoFd}

Channel == [key : Keys \cup {NoKey}, topic : Topics \cup {NoTopic},
            op : Names, members : Seq(Addrs)]

ChannelsOK ==
  /\ DOMAIN channels \subseteq Chans
  /\ \A c \in DOMAIN channels : channels[c] \in Channel
  /\ status \in {"running", "crashed"}
  /\ roster \subseteq Fds \X Chans
  /\ deeds \subseteq Deeds

TypeOK == SessionsOK /\ ChannelsOK

\* _nickList has the nick n (maybe the empty one) under the descriptor f.
Listed(f, n) ==
  \E i \in 1..Len(nickList) : nickList[i] = [fd |-> f, nick |-> n]

\* Nick::nick and isNickTaken keep nicks apart: two connections never hold
\* the same nick, the empty one included, whatever was renamed, closed or
\* sent after QUIT.
UniqueNicks ==
  \A f, g \in open : f # g /\ Obj(f).hasNick /\ Obj(g).hasNick
                       => Obj(f).nick # Obj(g).nick

\* PASS, NICK and USER only work in this order, although USER never looks at
\* the password: a connection that is logged in sent NICK, and one that did
\* gave the password and has its nick, maybe the empty one, in _nickList
\* under its own descriptor, so that nobody else can take it.
RegistrationOrder ==
  \A f \in open : /\ Obj(f).fd = f
                  /\ Obj(f).loged => Obj(f).hasNick
                  /\ Obj(f).hasNick => Obj(f).auth /\ Listed(f, Obj(f).nick)
                  /\ ~Obj(f).hasNick => Obj(f).nick = NoNick

\* Nick.cpp says of an entry of _nickList: "Nickname already using."
TakenMeansInUse ==
  \A n \in Nicks : IsNickTaken(n) => \E f \in DOMAIN clients : Obj(f).nick = n

\* Channels do not lose members: whoever was told that the JOIN succeeded,
\* and neither left nor was kicked since, is in _curClients, even after
\* other members vanished or addresses were reused.
RosterKept ==
  \A p \in roster : /\ p[1] \in DOMAIN clients
                    /\ p[2] \in DOMAIN channels
                    /\ clients[p[1]] \in Members(p[2])

\* Nor gain any: while every client that goes away has left its channels
\* before, _curClients points to live clients that joined, and no new
\* connection finds itself on a channel because it got an old address.
MembersJoined ==
  Done({"left"}) \/
    \A c \in DOMAIN channels :
      Members(c) \subseteq {clients[p[1]] : p \in {q \in roster : q[2] = c}}

\* The members are exactly those who were told so.
RosterExact == RosterKept /\ MembersJoined

\* KICK and TOPIC compare nicks and never look at membership.  All the same,
\* until somebody vanishes from a channel or renames, the operator's nick is
\* a member's, and whoever passes the test is on the channel.
OperatorOnChannel ==
  Done({"left", "renick", "ghost"}) \/
    \A c \in DOMAIN channels :
      /\ \E a \in Members(c) : heap[a].nick = channels[c].op
      /\ \A f \in open : Obj(f).loged /\ Obj(f).nick = channels[c].op
                          => clients[f] \in Members(c)

\* PRIVMSG turns every member into a nick and looks the nick up again.
\* Until a member vanishes or a ghost takes a nick, the detour loses nobody
\* who has a name and reaches no named stranger, and while all members have
\* names the message reaches the other members, save the bot, and nobody
\* else.  (The empty nick leads to the first client that has none.)
Routing ==
  Done({"left", "ghost"}) \/
    \A c \in DOMAIN channels, f \in open :
      clients[f] \in Members(c) =>
        LET others == {g \in open : /\ clients[g] \in Members(c)
                                    /\ g # f
                                    /\ Obj(g).nick # BotNick}
        IN /\ {g \in Recipients(f, c) : Obj(g).nick # NoNick}
              = {g \in others : Obj(g).nick # NoNick}
           /\ (\A a \in Members(c) : heap[a].nick # NoNick)
                => Recipients(f, c) = others

\* A line crashes the server only after a client vanished from a channel it
\* was on, or by removing the last member of a channel itself: no other line
\* reads through a dangling or null pointer, and the freed Channel is not
\* found again by a later one.
CrashCause ==
  [][status' = "crashed" => \/ Done({"left"})
                            \/ ~(DOMAIN channels \subseteq DOMAIN channels')]_vars

\* The nicks of the open connections, the empty one like the others, behave
\* as NickRegistry says.
Holding == {<<f, Obj(f).nick>> : f \in {g \in open : Obj(g).hasNick}}
Registry == INSTANCE NickRegistry WITH held <- Holding, Nicks <- Names
ImplementsRegistry == Registry!Spec
=============================================================================
