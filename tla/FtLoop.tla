------------------------------- MODULE FtLoop --------------------------------
(***************************************************************************)
(* Server::listen of src/42-Ft_irc-main: the loop over poll() and its      *)
(* local vector pollFds.  Entries are only ever added to it: at the start  *)
(* of each pass, the clients from position lastClientSize on.  A client    *)
(* that is removed stays in it, under a descriptor that is closed, or that *)
(* a later client was given; and a client that joins in a pass in which    *)
(* another leaves is not added.                                            *)
(*                                                                         *)
(* The sockets accept() returns are never made non-blocking.  Where they   *)
(* inherit the mode of the listening socket (the BSDs, and the binary in   *)
(* the repository) recv() with nothing to read fails and the exception is  *)
(* caught, and send() to a client whose buffer is full fails and is        *)
(* logged; elsewhere (Linux) both wait, and the signals, which signal()    *)
(* installs, restart them.                                                 *)
(***************************************************************************)
EXTENDS Integers, Sequences, SequencesExt

CONSTANTS
  Fds,         \* descriptors accept() may return; when all are open it fails
  Limit,       \* RLIMIT_NOFILE: poll() of more entries fails
  MaxSends     \* bound of the model on the messages one segment sends

ASSUME FtLoopConstants ==
  /\ Fds \subseteq Nat
  /\ Limit \in Nat /\ \A f \in Fds : f < Limit
  /\ MaxSends \in Nat

VARIABLES
  inherits,    \* whether accepted sockets inherit O_NONBLOCK: the platform's
  pc,          \* "top" of the loop, "poll", "accept", "pass", "send", "ended"
  clients,     \* Server::_clients: descriptors, which are the open ones
  pollFds,     \* pollFds without its first entry, the listening socket
  revents,     \* positions in it whose revents has POLLIN
  i,           \* index of the loop over it
  last,        \* lastClientSize
  terminate,   \* Server::_terminate
  todo,        \* "send": to whom the commands of the segment still send
  backlog,     \* whether a connection waits to be accepted
  unread,      \* descriptors with something to read
  gone,        \* descriptors whose client closed its end
  full,        \* descriptors whose client does not read: no room to send to
  joined,      \* history: whether this pass accepted a connection
  missed,      \* history: whether a client ever left in such a pass
  accepted     \* history: how many connections were accepted, up to Limit

vars == <<inherits, pc, clients, pollFds, revents, i, last, terminate, todo, backlog, unread,
          gone, full, joined, missed, accepted>>
world == <<inherits, backlog, unread, gone, full>>
history == <<joined, missed, accepted>>

Open == ToSet(clients)
Ready(f) == f \in unread \cup gone

Init ==
  /\ inherits \in BOOLEAN
  /\ pc = "top"
  /\ clients = <<>> /\ pollFds = <<>>
  /\ revents = {} /\ i = 1 /\ last = 0
  /\ terminate = FALSE
  /\ todo = <<>>
  /\ backlog = FALSE /\ unread = {} /\ gone = {} /\ full = {}
  /\ joined = FALSE /\ missed = FALSE /\ accepted = 0

\* The thread is in a send() to a full client; the end of its connection, or
\* room in its buffer, ends the wait.
SendWaits ==
  /\ pc = "send"
  /\ todo # <<>>
  /\ Head(todo) \in full \ gone
  /\ ~inherits
-----------------------------------------------------------------------------
(* The clients, the kernel and the signals *)

Connect ==
  /\ pc # "ended"
  /\ ~backlog
  /\ backlog' = TRUE
  /\ UNCHANGED <<pc, clients, pollFds, revents, i, last, terminate, todo, inherits, unread,
                 gone, full, history>>

Send(f) ==
  /\ f \in Open \ gone
  /\ unread' = unread \cup {f}
  /\ UNCHANGED <<pc, clients, pollFds, revents, i, last, terminate, todo, inherits, backlog,
                 gone, full, history>>

Hear(f) ==
  /\ f \in full \ gone
  /\ full' = full \ {f}
  /\ UNCHANGED <<pc, clients, pollFds, revents, i, last, terminate, todo, inherits, backlog,
                 unread, gone, history>>

HangUp(f) ==
  /\ f \in Open \ gone
  /\ gone' = gone \cup {f}
  /\ UNCHANGED <<pc, clients, pollFds, revents, i, last, terminate, todo, inherits, backlog,
                 unread, full, history>>

\* SIGINT or SIGQUIT: quit().  poll(), if the thread is in it already, fails
\* with EINTR, and the loop is left; a send() that waits returns if part of
\* its text is out, and is restarted otherwise, as a recv() that waits is.
Signal ==
  /\ pc # "ended"
  /\ ~terminate
  /\ terminate' = TRUE
  /\ pc' \in {pc} \cup IF pc = "poll" THEN {"ended"} ELSE {}
  /\ todo' \in {todo} \cup IF SendWaits THEN {Tail(todo)} ELSE {}
  /\ UNCHANGED <<clients, pollFds, revents, i, last, world, history>>
-----------------------------------------------------------------------------
(* The server's thread *)

\* The length of the vector is remembered, the listening socket counted.
Top_Length ==
  /\ pc = "top"
  /\ ~terminate
  /\ pc' = "poll"
  /\ pollFds' = pollFds \o SubSeq(clients, last + 1, Len(clients))
  /\ last' = Len(pollFds') + 1
  /\ joined' = FALSE
  /\ UNCHANGED <<clients, revents, i, terminate, todo, world, missed, accepted>>

Top ==
  /\ pc = "top"
  /\ ~terminate
  /\ pc' = "poll"
  /\ pollFds' = pollFds \o SubSeq(clients, last + 1, Len(clients))
  /\ last' = Len(clients)
  /\ joined' = FALSE
  /\ UNCHANGED <<clients, revents, i, terminate, todo, world, missed, accepted>>

Terminate ==
  /\ pc = "top"
  /\ terminate
  /\ pc' = "ended"
  /\ UNCHANGED <<clients, pollFds, revents, i, last, terminate, todo, world, history>>

\* Entries whose descriptor is closed have POLLNVAL, which ends the wait too.
Events == {j \in 1..Len(pollFds) : pollFds[j] \in Open /\ Ready(pollFds[j])}
Invalid == {j \in 1..Len(pollFds) : pollFds[j] \notin Open}

\* poll() takes the vector, the listening socket in front of it.
Polls == pc = "poll" /\ Len(pollFds) + 1 <= Limit

\* poll() of more entries than RLIMIT_NOFILE fails (EINVAL): quit(), and the
\* loop is left.
PollFails ==
  /\ pc = "poll"
  /\ ~Polls
  /\ terminate' = TRUE
  /\ pc' = "ended"
  /\ UNCHANGED <<clients, pollFds, revents, i, last, todo, world, history>>

\* Events of an earlier pass are still marked.
PollReturns_Sticky ==
  /\ Polls
  /\ backlog \/ Events \cup Invalid # {}
  /\ revents' = revents \cup Events
  /\ pc' = IF backlog THEN "accept" ELSE "pass"
  /\ i' = 1
  /\ UNCHANGED <<clients, pollFds, last, terminate, todo, world, history>>

PollReturns ==
  /\ Polls
  /\ backlog \/ Events \cup Invalid # {}
  /\ revents' = Events
  /\ pc' = IF backlog THEN "accept" ELSE "pass"
  /\ i' = 1
  /\ UNCHANGED <<clients, pollFds, last, terminate, todo, world, history>>

\* poll() without its time limit.
PollTimeout_Never == FALSE /\ UNCHANGED vars

\* TIMEOUT has passed: continue.
PollTimeout ==
  /\ Polls
  /\ ~backlog /\ Events \cup Invalid = {}
  /\ pc' = "top"
  /\ UNCHANGED <<clients, pollFds, revents, i, last, terminate, todo, world, history>>

\* accept() and listen(fd, hostName); AcceptException, when there is no free
\* descriptor, goes up to main().
Accept ==
  /\ pc = "accept"
  /\ \/ \E f \in Fds \ Open :
          /\ \A g \in Fds \ Open : f <= g
          /\ clients' = Append(clients, f)
          /\ backlog' = FALSE
          /\ joined' = TRUE
          /\ accepted' = IF accepted < Limit THEN accepted + 1 ELSE accepted
          /\ pc' = "pass"
     \/ /\ Fds \subseteq Open
        /\ pc' = "ended"
        /\ UNCHANGED <<clients, backlog, joined, accepted>>
  /\ UNCHANGED <<pollFds, revents, i, last, terminate, todo, inherits, unread, gone, full,
                 missed>>

\* Server::removeClient, as far as descriptors go.
RemoveClient(f) ==
  /\ clients' = RemoveFirst(clients, f)
  /\ unread' = unread \ {f}
  /\ gone' = gone \ {f}
  /\ full' = full \ {f}
  /\ missed' = (missed \/ joined)

InPass == pc = "pass" /\ i <= Len(pollFds)

Skip ==
  /\ InPass
  /\ i \notin revents
  /\ i' = i + 1
  /\ UNCHANGED <<pc, clients, pollFds, revents, last, terminate, todo, world, history>>

\* recv() of a descriptor that was closed in this pass, or of an empty socket
\* that does not block: ReadException, caught.
ReadFails ==
  /\ InPass
  /\ i \in revents
  /\ pollFds[i] \in Open => inherits /\ ~Ready(pollFds[i])
  /\ i' = i + 1
  /\ UNCHANGED <<pc, clients, pollFds, revents, last, terminate, todo, world, history>>

\* read(): what the client sent, on which Command::Execute then works; or
\* the end of the connection.
Read ==
  /\ InPass
  /\ i \in revents
  /\ pollFds[i] \in Open
  /\ \/ /\ pollFds[i] \in unread
        /\ unread' = unread \ {pollFds[i]}
        /\ pc' = "send"
        /\ todo' \in SeqOf(Fds, MaxSends)
        /\ UNCHANGED <<clients, i, gone, full, missed>>
     \/ /\ pollFds[i] \in gone \ unread
        /\ RemoveClient(pollFds[i])
        /\ i' = i + 1
        /\ UNCHANGED <<pc, todo>>
  /\ UNCHANGED <<pollFds, revents, last, terminate, inherits, backlog, joined, accepted>>

\* Message::send, for a reply or one of the members of a channel: one send(),
\* whose failure is logged.  It fails on a closed descriptor and, where that
\* does not wait, on a full one; nobody handles the SIGPIPE that sending to a
\* client that is gone may raise.
SendTo ==
  /\ pc = "send"
  /\ todo # <<>>
  /\ ~SendWaits
  /\ todo' = Tail(todo)
  /\ LET g == Head(todo)
     IN \/ /\ full' \in {full} \cup IF g \in Open THEN {full \cup {g}} ELSE {}
           /\ UNCHANGED pc
        \/ /\ g \in gone
           /\ pc' = "ended"
           /\ UNCHANGED full
  /\ UNCHANGED <<clients, pollFds, revents, i, last, terminate, inherits, backlog, unread,
                 gone, history>>

\* A QUIT or a refused USER in the segment removes the client; the lines that
\* follow it may still send.
Leave ==
  /\ pc = "send"
  /\ ~SendWaits
  /\ pollFds[i] \in Open
  /\ RemoveClient(pollFds[i])
  /\ UNCHANGED <<pc, pollFds, revents, i, last, terminate, todo, inherits, backlog, joined,
                 accepted>>

\* The end of Command::Execute; or a command throws what is caught in main().
EndOfHandler ==
  /\ pc = "send"
  /\ todo = <<>>
  /\ \/ /\ pc' = "pass"
        /\ i' = i + 1
     \/ /\ pc' = "ended"
        /\ UNCHANGED i
  /\ UNCHANGED <<clients, pollFds, revents, last, terminate, todo, world, history>>

\* The last entry is not visited.
EndOfPass_Early ==
  /\ pc = "pass"
  /\ i >= Len(pollFds)
  /\ pc' = "top"
  /\ UNCHANGED <<clients, pollFds, revents, i, last, terminate, todo, world, history>>

EndOfPass ==
  /\ pc = "pass"
  /\ i > Len(pollFds)
  /\ pc' = "top"
  /\ UNCHANGED <<clients, pollFds, revents, i, last, terminate, todo, world, history>>

Thread ==
  \/ Top \/ Terminate \/ PollReturns \/ PollTimeout \/ PollFails \/ Accept
  \/ Skip \/ ReadFails \/ Read \/ SendTo \/ Leave \/ EndOfHandler \/ EndOfPass

Next ==
  \/ Thread
  \/ Connect \/ Signal
  \/ \E f \in Fds : Send(f) \/ Hear(f) \/ HangUp(f)

\* The operating system keeps running the thread; it owes nothing to clients.
Spec == Init /\ [][Next]_vars /\ WF_vars(Thread)
-----------------------------------------------------------------------------
(* Properties *)

\* The thread is in a recv() that waits.
RecvWaits ==
  /\ InPass
  /\ i \in revents
  /\ pollFds[i] \in Open
  /\ ~Ready(pollFds[i])
  /\ ~inherits

Waiting == RecvWaits \/ SendWaits

\* The values the variables range over; no descriptor belongs to two clients.
TypeOK ==
  /\ pc \in {"top", "poll", "accept", "pass", "send", "ended"}
  /\ clients \in Seq(Fds) /\ IsInjective(clients)
  /\ pollFds \in Seq(Fds)
  /\ revents \subseteq 1..Len(pollFds)
  /\ i \in 1..Len(pollFds) + 1
  /\ last \in Nat /\ accepted \in 0..Limit
  /\ todo \in Seq(Fds)
  /\ {inherits, terminate, backlog, joined, missed} \subseteq BOOLEAN
  /\ unread \cup gone \cup full \subseteq Open

\* The position lastClientSize works as long as no client leaves in a pass
\* that accepted one: whenever poll() is called, every client is polled.
EveryoneIsPolled ==
  pc = "poll" => missed \/ Open \subseteq ToSet(pollFds)

\* pollFds never shrinks, but a connection adds one entry at most: poll()
\* does not refuse the vector before Limit connections were accepted.
GrowsSlowly == pc = "poll" /\ accepted < Limit => Polls

\* With their types.
PollFdsOK == TypeOK /\ EveryoneIsPolled /\ GrowsSlowly

\* The loop trusts revents of a poll() that is over.  While no descriptor has
\* two entries, no recv() waits for a client and keeps the others waiting.
\* (A send() may: see Served.)
NeverWaits == IsInjective(pollFds) => ~RecvWaits

\* A client that has sent something is read, unless it is one of those that
\* are not polled, the server ends, or the thread waits for ever: in a send()
\* to a client that does not read, or in a recv(), on sockets that wait.
Served ==
  []<>~Waiting =>
    \A f \in Fds : f \in unread ~> f \notin unread \/ pc = "ended" \/ missed

\* A signal ends the server, thanks to TIMEOUT when it came just before
\* poll(), unless the thread waits for ever in a send() or a recv(), which the
\* signal only restarts.
SignalEnds == []<>~Waiting => (terminate ~> pc = "ended")
=============================================================================
