------------------------------ MODULE AmaLoop --------------------------------
(***************************************************************************)
(* Server::run of src/_irc_: the loop over poll(), the vector of pollfds   *)
(* it walks while the handlers push to it and erase from it, and the flag  *)
(* the signal handler clears.                                              *)
(*                                                                         *)
(* A handler is one step: handleClientMessage reads something and keeps    *)
(* the connection, or closes it, or, by a second QUIT in the same segment, *)
(* closes another one as well (AmaServer, NextLine).  The bot's socket is  *)
(* never added to the poll set, so its branch of the loop cannot be taken. *)
(* poll() is called without a timeout.                                     *)
(***************************************************************************)
EXTENDS Integers, Sequences, SequencesExt, FiniteSets

CONSTANTS
  Fds,          \* descriptors accept() may return; when all are open it fails
  Listen,       \* the listening socket
  MaxPending    \* bound of the model on unread segments, and on the backlog

ASSUME LoopConstants ==
  /\ Fds \subseteq Nat
  /\ Listen \notin Fds
  /\ MaxPending \in Nat \ {0}

Sockets == Fds \cup {Listen}

VARIABLES
  place,    \* where the thread is: see Places
  open,     \* descriptors of connections that are open, to the kernel
  pollfds,  \* PollManager::_fds: records of fd and revents & POLLIN
  i,        \* index of the loop over them, from 1
  running,  \* SignalHandler::running
  pending,  \* unread segments of a connection; backlog of Listen
  gone,     \* connections whose client has closed its end
  lost      \* history: the signal came between the test and poll()

loopVars == <<place, open, pollfds, i, running, pending, gone, lost>>

(***************************************************************************)
(* test   evaluating isRunning()     enter  about to call poll()           *)
(* block  inside poll()              scan   in the loop over the pollfds   *)
(* done   run() returned             abort  an exception left run()        *)
(***************************************************************************)
Places == {"test", "enter", "block", "scan", "done", "abort"}
Ended == place \in {"done", "abort"}

Polled == {pollfds[j].fd : j \in 1..Len(pollfds)}
Ready(s) == pending[s] > 0 \/ s \in gone

\* run() before the loop: the listening socket is the first entry.  The
\* bot's connection is in the backlog already.
LoopInit ==
  /\ place = "test"
  /\ open = {}
  /\ pollfds = <<[fd |-> Listen, in |-> FALSE]>>
  /\ i = 1
  /\ running = TRUE
  /\ pending = [s \in Sockets |-> IF s = Listen THEN 1 ELSE 0]
  /\ gone = {}
  /\ lost = FALSE
-----------------------------------------------------------------------------
(* The clients and the kernel *)

Connect ==
  /\ pending[Listen] < MaxPending
  /\ pending' = [pending EXCEPT ![Listen] = @ + 1]
  /\ UNCHANGED <<open, place, pollfds, i, running, gone, lost>>

Send(f) ==
  /\ f \in open \ gone
  /\ pending[f] < MaxPending
  /\ pending' = [pending EXCEPT ![f] = @ + 1]
  /\ UNCHANGED <<open, place, pollfds, i, running, gone, lost>>

Leave(f) ==
  /\ f \in open \ gone
  /\ gone' = gone \cup {f}
  /\ UNCHANGED <<open, place, pollfds, i, running, pending, lost>>

\* A signal that does not end the wait in poll().
Signal_NoInterrupt ==
  /\ running
  /\ ~Ended
  /\ running' = FALSE
  /\ lost' = (place = "enter")
  /\ UNCHANGED <<open, place, pollfds, i, pending, gone>>

\* One SIGINT, SIGTERM or SIGQUIT: the handler clears the flag, and poll(),
\* if the thread is inside it, returns EINTR.
Signal ==
  /\ running
  /\ ~Ended
  /\ running' = FALSE
  /\ place' = IF place = "block" THEN "test" ELSE place
  /\ lost' = (place = "enter")
  /\ UNCHANGED <<open, pollfds, i, pending, gone>>
-----------------------------------------------------------------------------
(* The server's thread *)

Test ==
  /\ place = "test"
  /\ place' = IF running THEN "enter" ELSE "done"
  /\ UNCHANGED <<open, pollfds, i, running, pending, gone, lost>>

EnterPoll ==
  /\ place = "enter"
  /\ place' = "block"
  /\ UNCHANGED <<open, pollfds, i, running, pending, gone, lost>>

\* poll() fills in every revents, and returns only when one is set.
PollReturns ==
  /\ place = "block"
  /\ \E s \in Polled : Ready(s)
  /\ place' = "scan"
  /\ i' = 1
  /\ pollfds' = [j \in 1..Len(pollfds) |->
                   [fd |-> pollfds[j].fd, in |-> Ready(pollfds[j].fd)]]
  /\ UNCHANGED <<open, running, pending, gone, lost>>

EndOfScan ==
  /\ place = "scan"
  /\ i > Len(pollfds)
  /\ place' = "test"
  /\ UNCHANGED <<open, pollfds, i, running, pending, gone, lost>>

NotReady ==
  /\ place = "scan"
  /\ i <= Len(pollfds)
  /\ ~pollfds[i].in
  /\ i' = i + 1
  /\ UNCHANGED <<open, place, pollfds, running, pending, gone, lost>>

At(s) == place = "scan" /\ i <= Len(pollfds) /\ pollfds[i].in /\ pollfds[i].fd = s

\* addFd of an entry that claims to be readable.
AddFd_Readable(f) == Append(pollfds, [fd |-> f, in |-> TRUE])
AddFd(f) == Append(pollfds, [fd |-> f, in |-> FALSE])

\* acceptConnection: one connection per pass.  No exception handler encloses
\* the call: when the process is out of descriptors run() is left.
Accept ==
  /\ At(Listen)
  /\ \/ \E f \in Fds \ open :
          /\ \A g \in Fds \ open : f <= g
          /\ open' = open \cup {f}
          /\ pollfds' = AddFd(f)
          /\ pending' = [pending EXCEPT ![Listen] = @ - 1]
          /\ i' = i + 1
          /\ UNCHANGED place
     \/ /\ Fds \subseteq open
        /\ place' = "abort"
        /\ UNCHANGED <<open, pollfds, pending, i>>
  /\ UNCHANGED <<running, gone, lost>>

\* removeFd that only forgets the event.
RemoveFds_KeepEntry(s, closed) ==
  [j \in 1..Len(s) |-> IF s[j].fd \in closed THEN [s[j] EXCEPT !.in = FALSE] ELSE s[j]]

\* closeConnection's removeFd, for each descriptor in closed: the other
\* entries keep their order.
RemoveFds(s, closed) ==
  LET kept[j \in 0..Len(s)] ==
        IF j = 0 THEN <<>>
        ELSE IF s[j].fd \in closed THEN kept[j - 1]
        ELSE Append(kept[j - 1], s[j])
  IN kept[Len(s)]

\* The loop leaves the pass after one client.
Handle_OnePerPoll(f) ==
  /\ At(f)
  /\ \E closed \in {{}, {f}} :
       /\ f \in gone => f \in closed \/ pending[f] > 0
       /\ open' = open \ closed
       /\ pollfds' = RemoveFds(pollfds, closed)
       /\ pending' = [pending EXCEPT ![f] = IF f \in closed \/ @ = 0 THEN 0 ELSE @ - 1]
       /\ gone' = gone \ closed
  /\ place' = "test"
  /\ UNCHANGED <<i, running, lost>>

\* handleClientMessage on the descriptor at i.  What it erases shifts the
\* entries behind it to the front, under an index that still advances.
Handle(f) ==
  /\ At(f)
  /\ \E closed \in {{}, {f}} \cup {{f, g} : g \in open} :
       /\ closed = {} => pending[f] > 0
       /\ open' = open \ closed
       /\ pollfds' = RemoveFds(pollfds, closed)
       /\ \E left \in 0..MaxPending :
            /\ left < pending[f] \/ left = 0
            /\ pending' = [s \in Sockets |-> IF s \in closed THEN 0
                                             ELSE IF s = f THEN left
                                             ELSE pending[s]]
       /\ gone' = gone \ closed
  /\ i' = i + 1
  /\ UNCHANGED <<place, running, lost>>

LoopThread ==
  \/ Test \/ EnterPoll \/ PollReturns \/ EndOfScan \/ NotReady \/ Accept
  \/ \E f \in Fds : Handle(f)

LoopWorld ==
  \/ Connect \/ Signal
  \/ \E f \in Fds : Send(f) \/ Leave(f)

LoopNext == LoopThread \/ LoopWorld

\* The thread keeps running; clients and signals come when they like.
LoopSpec == LoopInit /\ [][LoopNext]_loopVars /\ WF_loopVars(LoopThread)
-----------------------------------------------------------------------------
(* Properties *)

LoopTypeOK ==
  /\ place \in Places
  /\ open \subseteq Fds
  /\ pollfds \in Seq([fd : Sockets, in : BOOLEAN])
  /\ i \in Nat \ {0}
  /\ running \in BOOLEAN
  /\ pending \in [Sockets -> 0..MaxPending]
  /\ gone \subseteq Fds
  /\ lost \in BOOLEAN

\* addFd and removeFd keep one entry for each open descriptor, and none for
\* another, the listening socket's first, although handlers close several and
\* the kernel hands out closed descriptors again in the same pass.
OneEntryEach ==
  /\ Polled = open \cup {Listen}
  /\ \A j, k \in 1..Len(pollfds) : pollfds[j].fd = pollfds[k].fd => j = k
  /\ pollfds[1].fd = Listen

\* With their types.
PollSetOK == LoopTypeOK /\ OneEntryEach

\* No handler is called on an event that is over: the entries the pass still
\* has before it are marked only if their socket can be read, whatever the
\* pass closed, accepted and moved.  recv() and accept() never find nothing.
NoStaleEvent ==
  place = "scan" =>
    \A j \in 1..Len(pollfds) : j >= i /\ pollfds[j].in => Ready(pollfds[j].fd)

\* An erasure makes the loop skip the next entry, so one pass may miss a
\* client that has sent something.  No client is missed for ever.
Unserved(f) == f \in open /\ Ready(f) /\ ~Ended
FairToAll ==
  \A f \in Fds : []<>(~Unserved(f)) \/ []<><<Handle(f)>>_loopVars

\* A signal that comes anywhere but between the test of the flag and poll()
\* ends the server; one that comes there ends it after the next event.
SignalHeeded ==
  ~running /\ (lost => \E s \in Polled : Ready(s)) ~> Ended

\* SignalHandler.cpp registers the handler as the "ctrl c exit signal".
CtrlCExits == ~running ~> Ended
=============================================================================
