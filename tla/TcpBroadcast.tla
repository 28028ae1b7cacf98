---------------------------- MODULE TcpBroadcast ----------------------------
(***************************************************************************)
(* tcp_mu2/irc_mu2/server_a.c: a select() loop that sends what one client  *)
(* says to all the others.  It keeps its connections in the fd_set current *)
(* up to maxfd, and also writes each one into an array of MAX_CLIENTS      *)
(* entries at an index that only grows.  That array is the last field of a *)
(* variable of main(): what a write behind it destroys is not modelled,    *)
(* and nothing is claimed of the program after it (pc = "overrun").        *)
(*                                                                         *)
(* Only the listening socket is non-blocking (init_nonblock): a send()     *)
(* waits while its receiver's buffer is full.  select() is also given      *)
(* write_set, which nobody looks at: the loop turns whenever some client   *)
(* could be written to.                                                    *)
(***************************************************************************)
EXTENDS Integers, Sequences, FiniteSetsExt

CONSTANTS
  MAX_CLIENTS,
  serversocket, \* the listening socket; lower descriptors are the terminal's
  LastFd,       \* the highest descriptor the process may have
  Bytes,
  BufferSize,   \* BUFFER_SIZE - 1: what one recv() takes at most
  MaxOut,       \* bound of the kernel on what the server has not read yet
  MaxInbox,     \* bound of the kernel on what a client has not read yet
  MaxBacklog    \* bound of the model on connections not accepted yet

ASSUME TcpConstants ==
  /\ MAX_CLIENTS \in Nat \ {0}
  /\ serversocket \in Nat /\ LastFd \in Nat /\ serversocket < LastFd
  /\ BufferSize \in Nat \ {0} /\ MaxInbox \in Nat /\ BufferSize <= MaxInbox
  /\ MaxOut \in Nat \ {0} /\ MaxBacklog \in Nat \ {0}

Clients == serversocket + 1..LastFd    \* descriptors accept() may return

VARIABLES
  pc,        \* "select", "scan", "send", "overrun" or "killed" (SIGPIPE)
  current, read_set, maxfd,
  fd,        \* the loop's descriptor
  i,         \* the global counter: connections accepted so far
  buf,       \* what is being sent
  todo,      \* to whom it has still to be sent
  outbox,    \* what each client has sent and the server has not read
  inbox,     \* what the server has sent and each client has not read
  peer,      \* the other end: "up", "closed" (may answer a send by a reset)
             \* or "broken" (was reset)
  backlog

vars == <<pc, current, read_set, maxfd, fd, i, buf, todo, outbox, inbox, peer, backlog>>
server == <<pc, current, read_set, maxfd, fd, i, buf, todo>>

Connected == current \ {serversocket}
Readable(s) == IF s = serversocket THEN backlog > 0
               ELSE outbox[s] # <<>> \/ peer[s] # "up"
Writable(c) == peer[c] # "up" \/ Len(inbox[c]) < MaxInbox

\* main: memset, init_serv, ..., listen_serv.
Init ==
  /\ pc = "select"
  /\ current = {serversocket} /\ read_set = {}
  /\ maxfd = serversocket /\ fd = 0 /\ i = 0
  /\ buf = <<>> /\ todo = {}
  /\ outbox = [c \in Clients |-> <<>>]
  /\ inbox = [c \in Clients |-> <<>>]
  /\ peer = [c \in Clients |-> "up"]
  /\ backlog = 0
-----------------------------------------------------------------------------
(* The clients *)

Connect ==
  /\ backlog < MaxBacklog
  /\ backlog' = backlog + 1
  /\ UNCHANGED <<server, outbox, inbox, peer>>

Say(c, b) ==
  /\ c \in Connected /\ peer[c] = "up" /\ Len(outbox[c]) < MaxOut
  /\ outbox' = [outbox EXCEPT ![c] = Append(@, b)]
  /\ UNCHANGED <<server, inbox, peer, backlog>>

Hear(c) ==
  /\ inbox[c] # <<>>
  /\ inbox' = [inbox EXCEPT ![c] = Tail(@)]
  /\ UNCHANGED <<server, outbox, peer, backlog>>

\* A client that closes its end with something unread resets the connection.
HangUp(c) ==
  /\ c \in Connected /\ peer[c] = "up"
  /\ peer' = [peer EXCEPT ![c] = IF inbox[c] = <<>> THEN "closed" ELSE "broken"]
  /\ inbox' = [inbox EXCEPT ![c] = <<>>]
  /\ UNCHANGED <<server, outbox, backlog>>
-----------------------------------------------------------------------------
(* The server *)

\* read_set keeps every descriptor select() was asked about.
Select_AllBits ==
  /\ pc = "select"
  /\ \E s \in current : Readable(s)
  /\ read_set' = current
  /\ fd' = 0
  /\ pc' = "scan"
  /\ UNCHANGED <<current, maxfd, i, buf, todo, outbox, inbox, peer, backlog>>

\* ft_loop: copy the sets and select().
Select ==
  /\ pc = "select"
  /\ (\E s \in current : Readable(s)) \/ (\E c \in Connected : Writable(c))
  /\ read_set' = {s \in current : s <= maxfd /\ Readable(s)}
  /\ fd' = 0
  /\ pc' = "scan"
  /\ UNCHANGED <<current, maxfd, i, buf, todo, outbox, inbox, peer, backlog>>

At(s) == pc = "scan" /\ fd = s /\ s <= maxfd /\ s \in read_set
Advance == fd' = fd + 1

Skip ==
  /\ pc = "scan" /\ fd <= maxfd /\ fd \notin read_set
  /\ Advance
  /\ UNCHANGED <<pc, current, read_set, maxfd, i, buf, todo, outbox, inbox, peer, backlog>>

EndOfScan ==
  /\ pc = "scan" /\ fd > maxfd
  /\ pc' = "select"
  /\ UNCHANGED <<current, read_set, maxfd, fd, i, buf, todo, outbox, inbox, peer, backlog>>

\* maxfd follows the newest descriptor, also downwards.
Higher_Newest(c) == c

Higher(c) == Max({c, maxfd})
InArray(k) == k < MAX_CLIENTS

\* accept_serv; no test of the index stands in the code: ~InArray is what the array itself cannot
\* take.  Without a free descriptor accept() fails and the connection waits on.
Accept ==
  /\ At(serversocket)
  /\ \/ \E c \in Clients \ Connected :
          /\ \A d \in Clients \ Connected : c <= d
          /\ InArray(i)
          /\ current' = current \cup {c}
          /\ maxfd' = Higher(c)
          /\ i' = i + 1
          /\ backlog' = backlog - 1
          /\ peer' = [peer EXCEPT ![c] = "up"]
          /\ Advance
          /\ UNCHANGED pc
     \/ /\ Connected # Clients /\ ~InArray(i)
        /\ pc' = "overrun"
        /\ UNCHANGED <<current, maxfd, i, backlog, peer, fd>>
     \/ /\ Connected = Clients
        /\ Advance
        /\ UNCHANGED <<pc, current, maxfd, i, backlog, peer>>
  /\ UNCHANGED <<read_set, buf, todo, outbox, inbox>>

\* recv() <= 0: close and FD_CLR.
Gone(c) ==
  /\ At(c) /\ c \in Clients
  /\ outbox[c] = <<>> /\ peer[c] # "up"
  /\ current' = current \ {c}
  /\ Advance
  /\ UNCHANGED <<pc, read_set, maxfd, i, buf, todo, outbox, inbox, peer, backlog>>

\* The sender hears itself.
Audience_Echo(c) == Connected
\* Whom the inner loop sends to.
Audience(c) == {d \in Connected : d <= maxfd} \ {c}

\* recv() > 0.
Read(c) ==
  /\ At(c) /\ c \in Clients
  /\ outbox[c] # <<>>
  /\ LET n == Min({BufferSize, Len(outbox[c])})
     IN /\ buf' = SubSeq(outbox[c], 1, n)
        /\ outbox' = [outbox EXCEPT ![c] = SubSeq(@, n + 1, Len(@))]
  /\ todo' = Audience(c)
  /\ pc' = "send"
  /\ UNCHANGED <<current, read_set, maxfd, fd, i, inbox, peer, backlog>>

Tagged == [k \in 1..Len(buf) |-> <<fd, buf[k]>>]
Room(d) == Len(inbox[d]) + Len(buf) <= MaxInbox

\* One send(); it waits until all of buf is taken, and an error is only printed.
Send ==
  /\ pc = "send" /\ todo # {}
  /\ LET d == Min(todo)
     IN /\ todo' = todo \ {d}
        /\ \/ /\ peer[d] = "up" /\ Room(d)
              /\ inbox' = [inbox EXCEPT ![d] = @ \o Tagged]
              /\ UNCHANGED <<pc, peer>>
           \/ /\ peer[d] = "closed"
              /\ peer' \in {peer, [peer EXCEPT ![d] = "broken"]}
              /\ UNCHANGED <<pc, inbox>>
           \/ /\ peer[d] = "broken"
              /\ pc' \in {pc, "killed"}
              /\ UNCHANGED <<peer, inbox>>
  /\ UNCHANGED <<current, read_set, maxfd, fd, i, buf, outbox, backlog>>

EndOfSend ==
  /\ pc = "send" /\ todo = {}
  /\ pc' = "scan"
  /\ buf' = <<>>
  /\ Advance
  /\ UNCHANGED <<current, read_set, maxfd, i, todo, outbox, inbox, peer, backlog>>

Thread ==
  \/ Select \/ Skip \/ EndOfScan \/ Accept \/ Send \/ EndOfSend
  \/ \E c \in Clients : Gone(c) \/ Read(c)

World ==
  \/ Connect
  \/ \E c \in Clients : Hear(c) \/ HangUp(c) \/ \E b \in Bytes : Say(c, b)

Next == Thread \/ World

\* The program keeps running; clients do as they like.
Spec == Init /\ [][Next]_vars /\ WF_vars(Thread)
-----------------------------------------------------------------------------
(* Properties *)

Mail == Seq(Clients \X Bytes)

TypeOK ==
  /\ pc \in {"select", "scan", "send", "overrun", "killed"}
  /\ {serversocket} \subseteq current /\ Connected \subseteq Clients
  /\ read_set \subseteq serversocket..LastFd
  /\ maxfd \in serversocket..LastFd /\ fd \in 0..LastFd + 1 /\ i \in 0..MAX_CLIENTS
  /\ buf \in Seq(Bytes) /\ Len(buf) <= BufferSize
  /\ todo \subseteq Connected
  /\ outbox \in [Clients -> Seq(Bytes)] /\ inbox \in [Clients -> Mail]
  /\ peer \in [Clients -> {"up", "closed", "broken"}] /\ backlog \in 0..MaxBacklog

\* recv() is called for bits of read_set only, on sockets that wait: a bit the loop has still to
\* look at belongs to a connection that is open and has something to be read, although
\* connections close, and descriptors are used again, while the loop goes on.
NeverWaits ==
  pc = "scan" => \A s \in read_set : s >= fd => s \in current /\ Readable(s)

\* With the types of the sets.
SetsOK == TypeOK /\ NeverWaits

\* The loop of sends is an atomic broadcast that loses nothing, as bircd's is, although the set
\* of receivers is current cut off at maxfd.
Members == {c \in Connected : peer[c] = "up"}
Broadcast == INSTANCE Relay WITH
  members <- Members,
  inbox <- [c \in Clients |-> IF c \in todo \cap Members THEN inbox[c] \o Tagged
                              ELSE inbox[c]]
ImplementsRelay == Broadcast!Spec

\* A server that in its whole life is asked for at most MAX_CLIENTS connections, and whose
\* clients do not stay full for ever, serves whoever says something or hangs up.  It is the
\* number of connections made that counts, not of those open at a time: accept_serv's
\* index never goes down.
Blocked == pc = "send" /\ \E d \in todo : d = Min(todo) /\ peer[d] = "up" /\ ~Room(d)
Waiting(c) == c \in Connected /\ Readable(c) /\ pc # "killed"
KeepsServing ==
  ([]<>~Blocked /\ [](i + backlog <= MAX_CLIENTS)) =>
    \A c \in Clients : []<>~Waiting(c) \/ []<><<Gone(c) \/ Read(c)>>_vars
=============================================================================
