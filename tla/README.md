# A model of the chat servers in this repository

The repository holds four programs that relay lines of text between TCP
clients, each one thread around `poll()` or `select()`:

| program | where | what it is |
|---|---|---|
| `_irc_` | `src/_irc_` | an IRC server with a bot; the most developed one |
| ft_irc | `src/42-Ft_irc-main` | another IRC server, with channel modes |
| bircd | `src/bircd` | a small `select()` relay that sends everything to everybody |
| tcp_mu2 | `src/tcp_mu2` | exercises; `irc_mu2/server_a.c` is a relay as well |

This directory models all four: of `tcp_mu2`, `server_a.c`.

## Inventory

### `_irc_`

**Connections and registration** (`Server.cpp`, `Client.cpp`, `Pass/Nick/User/Quit.cpp`).
State: `_clients` (descriptor -> `Client`, by value, so each object lives at an
address of its own), `_nickList` (pairs of descriptor and nick, never
reordered).  Operations: accept, close, PASS, NICK, USER, QUIT.  Hard: nicks are
kept apart by `_nickList` alone, which keeps every nick a client ever had and
of which closing erases one entry; lines that follow QUIT in a segment recreate
the client just erased, with uninitialised fields, under a descriptor that is
closed; descriptors and addresses are used again; `NICK` and a space is accepted as the
empty nick, which is also what a client without one has.  Correct when: a nick has one
holder; commands work only after PASS, NICK, USER; the list says who is there.

**Channels** (`Channel.cpp`, `Join/Part/Kick/Topic/Privmsg.cpp`).
State: name -> key, topic, operator (a nick), members (addresses of `Client`s).
Operations: JOIN, PART, KICK, TOPIC, PRIVMSG.  Hard: closing a connection does
not touch the channels, so they keep addresses of freed objects, which a later
client may get; the operator is compared by nick, members by address, the
targets of a message by nick again; a channel is deleted inside its own member
function, whose caller still holds it too.  Correct when: who was told they joined is a member and
nobody else is; the operator is a member; a message reaches the members; no
command reads through a dead pointer.

**Loop and signals** (`Server::run`, `PollManager.cpp`, `SignalHandler.cpp`).
State: the vector of `pollfd`s, the loop's index, the flag `running`.  Hard:
handlers push to and erase from the vector under the index; the flag is tested
before a `poll()` without a timeout.  Correct when: nobody is starved, no
handler runs on an event that is over, a signal ends the server.

**Reading and sending** (`receiveMessage`, `sendMessage`, `Client::sendMessage`).
State: socket buffers.  Hard: an incomplete last line is dropped; `receiveMessage` reads
until there is a CRLF, for as long as there is anything to read; `sendMessage` spins on a full buffer; `Client::sendMessage` loses what does not
fit; SIGPIPE.  Correct when: a line is executed once, in order and as it was
sent; nobody but its own client suffers from a full buffer.

**Bot** (`Bot.cpp`).  A client of the server inside the server, which registers
like the others, welcomes whoever logs in, answers some messages, and never
reads its socket because the socket is not in the poll set.  Hard: what it says
goes through the kernel, in single unchecked sends on a socket that does not wait, and
comes back as a client's segment, later; QUIT sends to it, with the function that insists.  Correct when: who logs in is welcomed.

### ft_irc

**Server loop** (`Server.cpp`).  State: the local vector `pollFds`, to which the
clients from position `lastClientSize` on are appended at the start of each
pass, and from which nothing is removed; the flag `_terminate`.  Hard: entries
of clients that left, under descriptors that are closed or used again; clients
that join while others leave; `recv()` and `send()` on sockets that may wait; a vector that
outgrows what `poll()` takes; a signal between the test and `poll()`.  Correct when: every client is polled, none keeps
the others waiting, a signal ends the server.

**Registration** (`Client.cpp`, `execPass/Nick/User/Quit`, `removeClient`).  State:
`_clients`; each with a nick ("*" at first), a password, `_login`,
`_alreadyRegistered`.  Hard: a refused NICK sets `_alreadyRegistered`, after
which the next accepted NICK logs in, not USER, and outside of USER's `try`;
lines of a segment go on after one of them removed the client.  Correct when: a
nick has one holder; a client that did its part is logged in, and no other.

**Channels and modes** (`Channel.cpp`, `Mode.cpp`, the other commands).  State:
four vectors of pointers to clients (members, operators, bans, invites), limit,
invite-only, password, topic.  Hard: `removeClient` deletes a client before the
channels are asked for it, through pointers; bans and invites are not asked;
JOIN does not test membership; a ban may throw half-way; the limit is compared
for equality; the lists are searched by descriptor, nick or host, whichever the
caller has.  Correct when: the list of members is who joined; rights, bans,
limit and invitations do what their commands said; freed memory is not read.

**Checker, Parser, Utils**: text functions that decide which lines pass and cut
them up.  Hard: the line is looked at three times, by functions that do not
agree on what a word is, once with its line end and once without;
`split()[1]` is taken where there may be none; nothing is kept between reads.
Correct when: what was checked is what is executed; no word is taken that is not
there; nothing of what a client sends is lost.  **Logger, Exceptions, Message**:
output.

### bircd

**Table and loop** (`init_fd.c`, `do_select.c`, `check_fd.c`): a slot per
descriptor with a type and two function pointers; `fd_read` is rebuilt from it
before each `select()`; the pass over it stops when the count `r` is used up.
**Handlers** (`srv_accept.c`, `client_read.c`, `clean_fd.c`): accept fills a slot;
a read sends what it got to every other client, with blocking sends, and an end
of file cleans the slot.  Hard: `r` must count what the pass really visits while
slots change; clients act between two sends; one client that does not read stops
everybody.  Correct when: no ready descriptor is missed, no handler blocks on
an event that is over, and what is said is seen by all others in one order.

### tcp_mu2

`server_a.c` relays like bircd, without a table: the bits of an `fd_set` up to
`maxfd` are its clients, and it writes to those that are there while it sends.
Hard: bits and descriptors change under the loop; `maxfd` never falls; the array
of 1024 clients is indexed by a counter that only grows.  Correct as bircd is.
The other files are fragments.

## Modules

| module | models |
|---|---|
| `AmaServer` | `_irc_`: connections, nicks, commands, channels |
| `NickRegistry` | what `AmaServer` promises about nicks |
| `AmaServerProofs` | theorems about `AmaServer`, with proofs |
| `AmaLoop` | `_irc_`: `Server::run`, the poll set, signals |
| `AmaWire` | `_irc_`: reading, sending, QUIT's broadcast, the bot |
| `AmaIoProofs` | theorems about `AmaLoop` and `AmaWire`, with proofs |
| `Bircd` | bircd |
| `BircdProofs` | theorems about `Bircd`, with proofs |
| `TcpBroadcast` | `server_a.c` |
| `TcpBroadcastProofs` | theorems about `TcpBroadcast`, with proofs |
| `Relay` | what `Bircd` and `TcpBroadcast` promise: an atomic broadcast |
| `FtSessions` | ft_irc: connections, PASS, NICK, USER, QUIT; implements `NickRegistry` too |
| `FtChannel` | ft_irc: channels, modes, and clients that are freed |
| `FtChannelProofs` | theorems about `FtChannel`, with proofs |
| `FtLoop` | ft_irc: `Server::listen`, `pollFds`, signals |
| `FtLoopProofs` | theorems about `FtLoop`, with proofs |
| `FtText` | ft_irc: `Server::read`, the segment's lines, Checker, Parser, `split` and `trim` |
| `FtClientProofs` | theorems about `FtSessions` and `FtText`, with proofs |
| `SharedLemmas` | what the operators on sequences and sets do, with proofs |
| `MCAmaServer`, `MCAmaLoop`, `MCFtChannel`, `MCFtText` | constants, constraint and symmetry for TLC |

Mutated forms of definitions (`Accept_...` and the like, each with a comment that
says what it gets wrong) stand before the definition they vary.  They are used
to see that every property can fail, and by nothing else.

### AmaServer

| variable | code |
|---|---|
| `open` | the descriptors in `PollManager::_fds`, that is those that are open |
| `clients`, `heap` | `_clients`: the address of each node, and the `Client` at each address, freed ones included |
| `nickList`, `channels` | `_nickList`, `_channels` |
| `batch` | whose segment still has lines after a QUIT (the loop of `handleClientMessage`) |
| `status` | whether the program has crashed |
| `roster`, `deeds` | history: who was told they are on a channel; whether clients have vanished, renamed, ... |

Each action is one line of a client executed to its end (`Pass`, `Nick`, `User`,
`Join`, `Create`, `Part`, `Kick`, `Topic`, `ChannelMsg`, `Quit`), an accepted
connection, or a connection that ended.  The server is one thread and nothing
interleaves with a command, so lines are the right grain; lines of the same
segment can be told from lines of two segments only after a QUIT, which is what
`batch`, `NextLine` and `EndOfSegment` are for.

`NoNick` is the empty nick.  It is what a client has before its first NICK, and one that
NICK and KICK may give (`Names`); a client that took it is told from one that has none
by `hasNick`.

Undefined behaviour is a choice.  A read through a dangling address finds what
the object last held, or crashes.  Whoever removes the last member of a channel, by PART or
KICK, may crash: `removeClientFromChannel` lets `removeChannel` delete its own `Channel` and
then reads it once more (`Channel.cpp:129`).  A ghost (the `Client` that
`_clients[clientSocket]` makes after QUIT) has the scalar fields of some earlier
`Client`, and no nick.  Memory that never held a `Client` is not a source of its
values: a ghost filled with other bytes would have a descriptor that is not a
socket.

Left out: LIST, CAP, TOPIC without a text and PRIVMSG to a nick change no state;
a list of channels in PART is a sequence of PARTs; replies are sent and not
looked at; usernames are told apart only as empty or not, and `loged` stands for both the
flag and the username being set, as USER sets them together.  Every descriptor
is a client's: the bot's connection is one of them.

### AmaLoop

`pollfds` is `PollManager::_fds` with `revents & POLLIN`, `open` what the kernel
holds open, `i` the loop's index
(from 1), `running` the flag.  `place` splits `run()` where a signal makes a
difference: testing the flag, about to call `poll()`, inside it, in the loop.
The names that AmaWire has too carry `Loop` here (`LoopInit`, `LoopSpec`), so that one
module can speak of both.
Handlers are one step; `Handle` lets a handler close its own connection, or that
and one other (which AmaServer's `NextLine` makes possible), or none, and read
any amount.  One signal is modelled: a second one finds the flag cleared.

### AmaWire

| variable | code |
|---|---|
| `conn`, `logged`, `botnick` | `_clients`, `Client::isLogged`, and who bears "BotNICK" |
| `who`, `batch` | the client whose segment `handleClientMessage` is working on, and its lines that are left |
| `taken` | how much of the client's stream `receiveMessage` has in `message` while its loop goes on |
| `todo` | whom the loop of `Quit::quit` still has to tell |
| `stream`, `unread`, `peer` | the kernel: what clients sent and what they have not read, and whether they are there |
| `unended` | the clients in the middle of a line they keep sending |
| `torn` | for whom the line was whose beginning only the bot got out |
| `said`, `done`, `cut`, `welcome` | history: lines sent and executed, lines a read ended in, who waits for a welcome |

`receiveMessage` is a loop of steps: `Recv` is one `recv()`, which brings up to a buffer of
what there is, and ends the loop when a CRLF is in it; `WouldBlock` is the one that finds
nothing more; `Returns` cuts up what came.  Between two `recv()`s the clients go on.  One
that is in a line it keeps sending (`Begin`, until `End`) always has more of it to
read, which has no CRLF: `Endless` is the state in which the loop only goes round, so
that there is no step.  A line is two pieces, so a read can end at its start, inside it, or
at its end.  A tail whose head was dropped is some other line; that it is one
that quits or one that is refused is all that matters here.  There are two ways
to send, as in the code: `SendOnce` (`Client::sendMessage`) and `SendQuit`
(`Server::sendMessage`, which loops on every error of a non-blocking socket;
spinning is a step that is not there, as nothing changes).  Only QUIT's
sends are split, since only they insist; everything else a line does is a step.
The bot's own lines (`BotSays`) enter `stream[Bot]` and are read like any.  Each of them is
one `send()` whose result nobody looks at: as many as there is room for (`BotRoom`) go
out, of the next perhaps the beginning (`torn`), which the bot's next line then continues,
as a line for the wrong addressee or one that is no command.  When the bot's connection
has been closed, its sends reach nobody or raise SIGPIPE (`BotSendKills`).

A message gets any number of the bot's three answers (`Answers`).
Left out: channels (a message to a channel is `Talk` more than once), and the
texts: what `processMessage` returns to be passed on is the message, perhaps with
words starred by `censorMessage`; a line after QUIT in its segment is in
AmaServer.  `PASS`, `NICK` and `USER` are one line, `user`.

### Bircd

`type` is the table, `fd_read`, `r` and `i` are the fields and the index of
`check_fd`.  A broadcast is split into its sends (`Read`, `Send`, `EndOfSend`),
because they block.  The clients (`Connect`, `Say`, `Hear`, `HangUp`) and the
kernel's buffers are external; a connection that was closed accepts data and may
be reset, and a send on a reset connection fails or raises SIGPIPE.  The write
set is empty, as nothing writes `buf_write` and the table comes from fresh pages.

### FtSessions

`sessions` is `_clients` by descriptor, each with its nick and its flags;
`batch` is the descriptor of a client that a line of a segment has just removed,
while lines of the segment are left; `refused` is history: who was ever refused
a nick.  An action is a line (`Pass`, `NickAccepted`, `NickRefused`,
`UserAccepted`, `UserRejected`, `Quit`), an accepted connection or an ended one;
`LineOfNobody` and `EndOfSegment` are what follows the end of a client in its
segment.  A password is right or not: what it is decides nothing else.

### FtChannel

| variable | code |
|---|---|
| `clients`, `heap` | `_clients`, and the `Client` at each address, freed or not |
| `channels` | `_channels`: the four vectors, limit, invite-only |
| `status` | running, or how the program stopped |
| `roster`, `chiefs`, `guests` | history: who was told they are on a channel, who was made operator, who was invited |
| `deeds` | history: whether a client vanished from a channel, joined twice, ... |

`First(s, A)` is the loop of all the functions named `get...`: the first element
of a vector whose client has the descriptor, nick or host in question; it looks
through freed clients as the code does.  What a freed `Client` reads as is
decided when it is deleted (`Remains`): its descriptor as it was or one that
nobody has, its strings as they were or equal to nothing; and every action that
reads freed memory may end in `status = "stale"` instead.  One action per
command, its refusals apart (`JoinRefused`, `NotOperator`, `NoSuchChannel`);
MODE has one action per letter.  Left out: registration (FtSessions); the topic
and the channel's password, so that `Describe` stands for TOPIC, MODE t and MODE
k; what MODE says to the members, apart from the pointers it reads.

### FtText

The text functions are operators on sequences of tokens: `Trim`, `Split`, the
Checker's nine checks and `Check`, `Parse`, and one operator for each place that
takes a word which may not be there (`TalkTorn`, `UserTorn`, ...).  They are used by
a machine: `Read` is one `recv()` and the cutting of the segment at its line ends
(`Pieces`), `Refused` and `Execute` are a line that `Check` rejects or passes;
`fate` says whether an element behind the end of a vector was taken.  After
that (undefined behaviour) nothing is claimed.  White space, ":", "@", and the
letters of a mode are tokens of their own; words and names of commands are not
taken apart.  Whether a client is logged in, an operator, or how many others are
on its channel is given (`rank`, `others`), as FtSessions and FtChannel say how
it comes about.

### FtLoop

`pollFds` is the vector without the listening socket, `i` the index of the loop
over it, `revents` the positions that have POLLIN, `last` is `lastClientSize`,
`clients` the descriptors in `_clients`.  `pc` splits a pass where the world can
do something that makes a difference.  The sockets that `accept()` returns are
never made non-blocking: where they inherit the flag of the listening socket
(BSD, macOS; the binary in the repository is for macOS) a `recv()` with nothing to
read, and a `send()` to a client whose buffer is full, fail and are ignored; elsewhere
(Linux) they wait.  `inherits` says which; it is chosen at the start and never changes.
A handler is several steps: `Read` empties a socket, and then, at `pc = "send"`, the commands
of the segment send (`SendTo`) to whoever they send to (`todo`), remove the client
(`Leave`: QUIT, or a USER that is refused) and end (`EndOfHandler`).  `full` are the clients
that do not read; a `send()` to one of them is a step that is not there until the client reads
or goes, or a signal interrupts it half-way.  `PollFails` is `poll()` of more entries than
`RLIMIT_NOFILE`, which ends the server.

### TcpBroadcast

`current`, `read_set`, `maxfd`, `fd` and `i` are the variables of `server_a.c`;
`todo` is what its inner loop has left.  Clients and kernel are as in Bircd.
`select()` is also given a write set, which nothing looks at: it returns at once
whenever somebody could be written to, and the loop spins (`Select`).  `accept_serv`
writes at `i` without a test; the array is the last field of `main`'s `t_server`,
so what lies behind it is unknown: `pc = "overrun"`, and nothing more happens.

## Runs

| run | instance | distinct states | what it shows |
|---|---|---|---|
| `ama_server` | 2 descriptors, 2 addresses, 2 nicks and the empty one, 1 channel with 1 topic, limit 2, list up to 3 | 1,716,767 | nicks, channels and pointers of `_irc_`, with everything allowed |
| `ama_nick_stale` | as `ama_server` | violation | a nick given up is never free again |
| `ama_loop` | 3 descriptors, 1 unread segment each | 216,763 | the vector under its index; nobody starves; when a signal ends the server |
| `ama_ctrl_c` | 2 descriptors | violation | the signal that is not noticed |
| `ama_wire` | 2 clients around the bot, 3 lines in all, buffers of 2 messages, 2 lines of the bot | 552,583 | lines are lost or misread only where a read ends; who can hold the server; welcomes |
| `bircd` | 3 clients, buffers of 1 | 275,753 | the count, the bits, the broadcast; nobody starves |
| `ft_sessions` | 3 descriptors, 2 nicks | 117,330 | who is logged in, which nicks are held |
| `ft_channel` | 2 descriptors, 2 addresses, 1 nick, 1 channel, 2 members | 332,991 | members and operators, with everything allowed |
| `ft_channel_orderly` | 3 descriptors, 3 addresses, 2 hosts, 1 channel, 3 members, limit 2 | 211,211 | rights, limit, bans, invitations |
| `ft_text` | 13,000 lines alone, with and without their end, 72 sequences of lines in up to 3 reads | 290,382 | which lines read past an end; the Checker and the Parser agree; what is lost between reads |
| `ft_loop` | 2 descriptors, `RLIMIT_NOFILE` 4, up to 2 sends a segment, both kinds of sockets | 545,608 | who is polled and served, which `recv()` waits, when `poll()` refuses, when a signal ends the server |
| `tcp_broadcast` | 3 descriptors, array of 4, buffers of 1 | 647,270 | as `bircd`, over an `fd_set`, up to the overrun of the array |

Bounds.  `UserLimit` is 10 in the code and 2 here: the limit is reached by two
members, dangling ones included.  `MaxNickList` bounds `_nickList`, which the
code lets grow: 3 entries are two nicks of one client and one of another.  Keys are not
given: a key only makes JOIN refuse.  Two
descriptors and two addresses are enough for an address or a descriptor to be
reused while the other party watches, and for the channel to hold a dangling and
a live member.  Addresses are symmetric (they are only compared);
descriptors are not, since the kernel returns the lowest.  In AmaLoop one unread
segment per client is enough for an event to be pending or not; `accept` fails
when the descriptors are used up.  In Bircd buffers of one byte are full after one send,
which is when blocking begins, and three clients give a broadcast two receivers,
with something happening between the two sends.  In TcpBroadcast four entries for
three descriptors let a descriptor be used again before the array is full, and
the array overrun.  In AmaWire three lines are somebody's registration, message and
QUIT, or two clients' (the bot's registration is a fourth), and a client's first line
registers it or is one that goes on; two unread
messages fill a buffer, also the bot's; `BotRoom`, 4 pieces, is two lines of the bot that the server has
not read, so that of the three answers to one message the last may be lost or torn, and
the welcome behind another line; a buffer of 3 pieces ends inside the
second line.  In FtText up to five tokens follow the command (seven words
for USER, which wants five): enough for one more word, space, colon or "@" than
any function looks for; three reads of at most 12 tokens cut three lines at any
two places.  In FtChannel `MaxMembers` bounds
a vector that JOIN twice would let grow for ever; a limit of 2 with 3 members is
exceeded, met and missed.  `MCFtChannel!Short` goes no further where a channel
has two bans or two invitations, whose order decides nothing but which of two
equal hosts is unbanned first; `Orderly` cuts the runs with three parties, also
where somebody does what the properties exempt.  Addresses and hosts are
symmetric.  In FtLoop `Limit` is `RLIMIT_NOFILE`: 4, less the listening socket, leaves room for
one of 2 descriptors to be there twice, open or closed, and for the vector to
outgrow it; two sends a segment (`MaxSends`) are one before a wait and one after it.  `CHECK_DEADLOCK FALSE` is set
throughout: the IRC servers may crash, every server may end, and the list bounds
stop NICK and JOIN.

Fairness.  `WF_vars(Thread)` in AmaLoop, AmaWire, Bircd, TcpBroadcast and FtLoop: the
operating system keeps running the one thread.  Clients and signals are not fair.
`Bircd!FairToAll` and `TcpBroadcast!KeepsServing` assume in their statements that no
client stays full for ever, since the sends block; `KeepsServing` also that
there are no more connections, ever, than the array has entries.
`AmaWire!OnlyTheBotHolds` assumes the same of the clients, and that a line they begin ends
some day, but not of the bot, which the
program could do something about: it names the bot as the one that may then stop
everything.  `FtLoop!Served` and `SignalEnds` exempt the thread that waits for ever in a
`recv()` or a `send()`, which only `inherits = FALSE` allows, and `Served` a client that was
never polled (`missed`) and a server that ended.

Properties that need a condition carry it: `Done({...})` of AmaServer says that a
client vanished from a channel (`left`), renamed, or took a nick after QUIT; that of
FtChannel, that a client vanished, joined twice, went while a channel had it on a
list, that a limit was set too low or a host was banned half-way.  Without the
condition they are false of the code, and the condition says exactly when.

## What was found

* `TakenMeansInUse` (run `ama_nick_stale`): NICK twice leaves the first nick
  "already using" for ever (`Nick.cpp:8-22`, `Server.cpp:282-289`).
* `CtrlCExits` (run `ama_ctrl_c`): the "ctrl c exit signal" is not noticed when it
  comes between `isRunning()` and `poll(-1)` (`Server.cpp:244-245`).

The conditions and exceptions of the other properties are observations of the
same kind.  TLC finds each of these properties violated as soon as the condition
in question is taken away (`TornExactly` has none: it says which lines they are):

* `CrashCause`: PART or KICK of the last member of a channel reads the `Channel` it has just
  deleted (`Channel.cpp:121-129`).
* `Routing`: the empty nick, which NICK accepts (`Nick.cpp:31-40`), leads to the first client that
  has none, member or not; and a client may be logged in with it.
* `OnlyTheBotHolds`: a client that keeps sending a line without an end holds the server
  in one call of `receiveMessage` (`Server.cpp:73-79`); and each QUIT adds a message to the bot's buffer that nobody reads;
  when it is full, `Server::sendMessage` spins for ever (`Server.cpp:51`).
* `Welcomed`: any client may take "BotNICK" before the bot has, and nobody is
  welcomed; the bot then has no nick at all.  And the welcome is one unchecked send on the bot's
  socket (`User.cpp:32`), lost when the server has not kept up with what the bot said.
* `Served`, `SignalEnds`: on Linux a client that does not read stops ft_irc in a `send()`
  (`Message.cpp:16`), and a signal does not end the wait.
* `AmaWire!LinesKept`: a read that ends inside a line loses its head and
  executes its tail (`Server.cpp:227`).
* `TornExactly`: which lines of ft_irc read past the end of a vector.  QUIT does
  whenever two others share a channel, with or without a text
  (`Command.cpp:50`); `MODE #c -b` alone does.
* `CheckedIsParsed`: with a second blank behind the command the Checker and the Parser
  speak of different words: `JOIN  #c` passes and joins a channel with an empty name,
  although "First parameter must be channel after command"; NICK sets an empty nick.
* `FtText!LinesKept`: a read that ends just before a CRLF makes the whole next segment
  vanish, as an empty line ends it (`Command.cpp:406`).
* `KeepsServing`: the 1025th connection in the life of `server_a.c` writes behind its
  array, however few are open (`server_a.c:82`).

## Proofs

`AmaServerProofs` proves, for every value of the constants that satisfies
`AmaConstants`:

* `TypeCorrect`: `Spec => []TypeOK`;
* `NicksAreUnique`: `Spec => []UniqueNicks`;
* `RegistrationIsOrdered`: `Spec => []RegistrationOrder`;
* `RegistryIsImplemented`: `Spec => ImplementsRegistry`, the refinement;
* `RosterIsExact`, `OperatorsAreOnChannel`, `RoutingIsRight` and `CrashesHaveACause`: the
  properties of the channels.

The argument for the first four is one inductive invariant, `SInv`.  `UniqueNicks` is not inductive:
NICK consults `nickList`, not the clients, so one has to know that the nick of
every open connection is in the list (`NicksListed`), under its own descriptor;
that in turn needs `closeConnection`, which erases the first entry of a
descriptor only, never to erase one of somebody else, and each open descriptor's
object to be its own (`OwnObjects`: addresses of clients differ, and the object
of an open descriptor names that descriptor), ghosts being objects of
descriptors that are not open.  `DropFirstProperties` and
`RemoveAtProperties` (in `SharedLemmas`) say what erasing does to the list.  The proof that a step
keeps `SInv` has one step per action.  The refinement follows step by step:
Nick claims, closing releases, everything else leaves `Holding` as it is.

The channels take a second invariant, `CInv`, which contains the first: lists and
histories are tied to each other by addresses, and addresses to descriptors by
`SInv`.  `RosterExact` is inductive with one part more: no address is listed twice
on a channel (`MembersDistinct`), without which PART and KICK, which erase the first
entry of an address, would leave one of somebody who is no longer on the roster.
`OperatorOnChannel` is kept as `OperatorsNick`, which says of each channel that the
operator's nick is some member's; that whoever passes the test is this member is
`UniqueNicks`.  It takes that everybody on the roster is logged in (`RosterLoged`), so
that the first nick a client takes changes no operator's, and that `_clients` has no
entry of a closed descriptor before a ghost is made (`NoGhosts`).  `Routing` needs no
part of its own: every member is an open connection's object, and the nick it is
turned into, unless it is the empty one, leads back to it.  `CrashesHaveACause` is a theorem about steps:
while nobody has vanished every member is alive, so the only reads of freed memory are those
of a channel that the step itself deletes.

`AmaIoProofs` proves, from `LoopConstants`, `PollSetIsRight` (`LoopSpec =>
[]PollSetOK`) and `EventsAreFresh` (`LoopSpec => []NoStaleEvent`), from one invariant that
joins the two, `LInv`: the backlog of `accept()` never becomes negative because no event is
stale, and a handler makes no later event stale because each descriptor has one
entry.  Both need to know what `RemoveFds` leaves: a selection of the entries, in
their order, none of them one that was closed.  `KeptProperties` in `SharedLemmas`
says that of every sequence, by induction over its length.

It proves, from `WireConstants`, `LinesAreKept` (`Spec => []StreamsOK`): every line a
client sends is executed once, in order and as it was sent, unless a read ended
inside it, for any number of clients and lines and buffers of any size.
`LinesKept` is not inductive.  It speaks of the complete lines that `Complete` finds in what
has not been read, and the next read may end anywhere; so the invariant, `WInv`,
says of every connection what its pieces are (`Shape`): the rest of the stream is the lines from
some number on, two pieces each, without the first piece where, and only
where, that line is in `cut`; a line that a client is still sending counts as what it will
be (`Sent`); the lines of the segment that are left precede them, each
whole unless it is in `cut`; and no cut lies further ahead (`Good`).  `ShapeConcat`
and `ShapeCut` say that sending and reading keep the shape, `CompleteShape` what
`Complete` finds in a stream of that shape, `GoodGrows`, `GoodRead` and `GoodDone` what saying,
reading and executing a line do to a connection.  Reading happens only when no
line is left (`Serving`), or lines would be executed out of their order; what `receiveMessage`
has so far stays at the head of the stream until it returns, while clients add to the other end.
`ReturnsKeeps` is common to the two ways in which the loop ends.  Executing a line
can make the bot say something, so `ExecuteKeeps` follows two connections at once.

`FtClientProofs` is about the two halves of a client of ft_irc.  It proves, from `FtSessionsConstants`, `TypeCorrect`, `UsersLogIn`
(`Spec => []UserIsLoggedIn`), `NoOtherWayIn` (`Spec => []LoginPath`) and
`RegistryIsImplemented` (`Spec => ImplementsRegistry`) of ft_irc.  `LoginPath` is not
inductive: an accepted NICK logs in when `_alreadyRegistered` is up, so the
invariant adds that the flag is up only for clients that were refused a nick.
`UserIsLoggedIn` carries over a NICK because the flag that excuses USER is taken
down by the step that logs in, or that ends the server.  The refinement needs no
more than the lookup: a nick is accepted when nobody's session has it, and a
session's nick changes nowhere else.

It proves, from `TextConstants`, every property of FtText, of whatever a client sends:
`Inputs` is any set of sequences of tokens, each with a number of reads, and
`BufferSize` any positive number.

* `NothingIsLost` (`TextSpec => []LinesKept`).  The invariant, `TInv`, adds to `LinesKept` that a
  read that is over has its end in `cuts`.  `LinesKept` alone would not be kept by a
  step, as what the next segment begins with depends on where the last one ended.
  `Pieces` of a segment without an empty line (`Quiet`) are all that `split` returns,
  their concatenation is the segment without its line ends, and a
  line is one of them wherever no read ended in it.
* `MissingWordsOnly` (`TextSpec => []TornExactly`).  The invariant, `LInv`, says of the last
  line what the machine did with it: `Check` passed it, and it was torn when `Torn` holds.  What
  remains is about texts: the number of words is the number of spaces and one
  (`Found`, `Words`), an element behind a colon exists unless the text ends there, `Trim`
  leaves nothing only of a blank text, and words joined again (`Join`) are not.
* `SpokenOfTheSame` (`TextSpec => []CheckedIsParsed`), from the same invariant.  What a
  check finds behind the command and what `Parse` makes of the second and third
  word begin with the same token, when the second token behind the command is
  no blank; for KICK also when the reason is cut off at the colon first.

The third proof showed that the property had been stated wrongly.  It excused lines in which
two spaces follow each other, and no run had a line such as `TOPIC`, space, CR, space, `#c`:
`trim` takes CR for a blank, so the Checker finds a channel and the Parser does
not.  It now excuses lines with a second blank (of any kind) directly behind the command's, and
no others: two spaces further on do no harm.

`BircdProofs` proves, from `BircdConstants`, `TableIsOK` (`Spec => []TableOK`),
`ServerNeverWaits` (`Spec => []NeverWaits`) and `RelayIsImplemented`
(`Spec => ImplementsRelay`).  The count is inductive once one knows what the bits
that are left stand for: `r` is the cardinality of the bits from `i` on, so a pass
that goes one further must lose one exactly where a bit is set, and a handler
must not touch the bits in front of it.  `AheadOK` is the other half: each bit in
front of the loop belongs to a slot in use with something to take, also while a
broadcast is going on, since clients only add to what can be read and only the
handler at `i` takes away.  Slots that are free have said nothing, so that a new
client starts with an empty `outbox`, as `Relay` demands.  The refinement is by
`Sent`, what each client has been promised, in the socket buffer or still to be
sent by the loop that is running: `Read` posts the bytes to all others at once,
and `Send` changes nothing that the abstract specification sees.

`TcpBroadcastProofs` proves, from `TcpConstants`, `SetsAreOK` (`Spec => []SetsOK`) and
`RelayIsImplemented` by the same argument over `current` and `read_set`; here
`maxfd`, which cuts the sets off, has to be above every connection.

`FtLoopProofs` proves, from `FtLoopConstants`, `PollFdsAreOK` (`Spec => []PollFdsOK`)
and `LoopNeverWaits` (`Spec => []NeverWaits`).  `LastMeans` is what `lastClientSize`
amounts to while nobody has left in a pass that accepted somebody: in a pass
that accepted nobody everyone is polled and the number can only be too high, and
in one that did, everyone but the last is, who stands just behind it.  `AheadOK`
says that the events still in front of the index are not over, as long as no
descriptor has two entries, also while a handler waits in a `send()` or removes its client.
`GrowthOK` counts: every entry of `pollFds`, and every client behind the position, stands for a connection
that was accepted, so `poll()` cannot refuse the vector before as many were accepted.

`FtChannelProofs` proves, from `FtChannelConstants`, every property of FtChannel that the
runs check: `TypeCorrect`, `OperatorsStayMembers`, `MembersAreTheRoster` (`Spec =>
[]RosterExact`), `StaleHasACause`, `RightsAreEarned`, `LimitsAreKept`, `BansAreKept` and the
action property `InvitationsAreKept` (`Spec => InviteKept`).  The invariant, `FInv`, has
nine parts for each channel (`ChannelGood`) and four about the clients.  What makes
it more than the properties together:

* the properties look clients up by descriptor, the lists hold addresses; the
  parts are therefore about addresses and `Live`, and `PtrProperties` leads back;
* `Ranks` (operators are members, once each) holds of dangling pointers too, because
  `Channel::removeClient` erases one entry of each vector and operators are never
  listed twice;
* `Seated` survives a client that vanishes, as `removeClient` looks for its descriptor
  through freed memory: what it finds has that descriptor, so it is nobody
  who is still there (`Forgotten`);
* `Invited` and `NicksDiffer` together give `InviteKept`: an invitation is compared by
  nick, and two live clients share only the nick "*".

Each part that a history excuses is excused for good (`DoneStays`).  The proof has
three shapes of step: those that change no channel (`Undisturbed`), those that
change one (`OneChannel`, with `Taken` for what PART, KICK and a ban have in common),
and those that delete a client (`Departs`); each action is shown to have one of them.

Each invariant (`SInv`, `CInv`, `LInv`, `FInv`, ...) was checked with TLC on the instances of
the runs before it was proved.

Induction.  The provers cannot use the library's induction theorems, which take
an operator as a parameter.  Two lemmas of `SharedLemmas` do in their place:
`MinProperties` (a set of naturals that is not empty has a least element) and, from
it, `CountUp` (a set that contains 0 and the successors of its elements contains
every natural number).  `RemoveFds` is written as a recursive function instead of with
`SelectSeq`, which is a recursive operator inside the standard module and cannot be
expanded; `Complete` of AmaWire and `Found` of FtText are written that way for the same
reason.  `FlattenSeq` of the community modules is a recursive function: `FlattenJoins`,
`FlattenConcat` and the lemmas before them say what it returns for every sequence of
sequences.

Only model-checked: liveness, everywhere (the proof system does not handle fairness), and the
two properties whose runs show that the code does not keep what it says.

## Plan

An abstract specification of membership that `AmaServer` and `FtChannel` both
implement while nobody vanishes.

## Not modelled

* Start-up (sockets, arguments, `Checker::port`), the formats of replies, the loggers and
  the exception classes: they keep no state that a later step looks at.
* Texts, such as the words that `censorMessage` stars: they decide only whether the
  bot answers, and AmaWire lets it answer or not.
* The body of `bircd/client_write.c` is empty; `get_opt.c` and `x.c` run before or around the calls.
* The exercises of `tcp_mu2` apart from `server_a.c`: one `accept` and one `recv` in a row.
* How texts are stored: lengths of `_irc_`'s 512-byte lines, and the first part of a
  message that a full buffer cuts off (`Client.cpp:64`): AmaWire loses it whole.  A NUL byte
  ends what a `recv()` adds to the message (`message += buffer`, `Server.cpp:75`); texts in AmaWire have
  none.
* A torn line of the bot that its next line continues: that its addressee, with "PRIVMSG" behind it,
  may be somebody's nick.  AmaWire makes it the addressee itself, or nobody.
* Descriptors above `FD_SETSIZE` in bircd and `server_a.c`: `FD_SET` would then write outside
  the `fd_set`.
