-------------------------------- MODULE Bircd --------------------------------
(***************************************************************************)
(* bircd: a select() loop over a table of descriptors that sends what one  *)
(* client says to all the others, with blocking sockets.  Between two      *)
(* sends of a broadcast the clients read, write and hang up; the server    *)
(* does nothing else meanwhile.                                            *)
(*                                                                         *)
(* fd_write stays empty: it is filled from buf_write, which nothing writes *)
(* to and which malloc() returns as fresh, zeroed pages.  select() is not  *)
(* interrupted, as the program installs no signal handler.                 *)
(***************************************************************************)
EXTENDS Integers, Sequences, FiniteSets, FiniteSetsExt

CONSTANTS
  maxfd,        \* RLIMIT_NOFILE: length of the table fds
  Listen,       \* the listening socket; lower descriptors are the terminal's
  Bytes,
  BufSize,      \* BUF_SIZE: what one recv() takes at most
  MaxOut,       \* bound of the kernel on what the server has not read yet
  MaxInbox,     \* bound of the kernel on what a client has not read yet
  MaxBacklog    \* bound of the model on connections not accepted yet

ASSUME BircdConstants ==
  /\ maxfd \in Nat /\ Listen \in 0..maxfd - 1
  /\ BufSize \in Nat \ {0} /\ MaxInbox \in Nat /\ BufSize <= MaxInbox
  /\ MaxOut \in Nat \ {0} /\ MaxBacklog \in Nat \ {0}

Slots == 0..maxfd - 1
Clients == Listen + 1..maxfd - 1    \* descriptors accept() may return

VARIABLES
  pc,        \* "select", "scan", "send", "exited" (1) or "killed" (SIGPIPE)
  type,      \* t_fd.type of each slot
  fd_read, r, i,
  chunk,     \* what client_read() is sending: e->fds[cs].buf_read
  todo,      \* to whom it has still to send it
  outbox,    \* what each client has sent and the server has not read
  inbox,     \* what the server has sent and each client has not read
  peer,      \* the other end of a connection: see Peers
  backlog

vars == <<pc, type, fd_read, r, i, chunk, todo, outbox, inbox, peer, backlog>>

(***************************************************************************)
(* up       connected                                                      *)
(* closed   has closed its end: a send() succeeds, and may be answered by  *)
(*          a reset                                                        *)
(* broken   was reset: a send() returns an error or raises SIGPIPE         *)
(***************************************************************************)
Peers == {"up", "closed", "broken"}
Ended == pc \in {"exited", "killed"}

Connected == {c \in Clients : type[c] = "CLIENT"}
Ready(s) == IF s = Listen THEN backlog > 0
            ELSE s \in Connected /\ (outbox[s] # <<>> \/ peer[s] # "up")

\* init_env and srv_create.
Init ==
  /\ pc = "select"
  /\ type = [s \in Slots |-> IF s = Listen THEN "SERV" ELSE "FREE"]
  /\ fd_read = {} /\ r = 0 /\ i = 0
  /\ chunk = <<>> /\ todo = {}
  /\ outbox = [c \in Clients |-> <<>>]
  /\ inbox = [c \in Clients |-> <<>>]
  /\ peer = [c \in Clients |-> "up"]
  /\ backlog = 0
-----------------------------------------------------------------------------
(* The clients *)

server == <<pc, type, fd_read, r, i, chunk, todo>>

Connect ==
  /\ backlog < MaxBacklog
  /\ backlog' = backlog + 1
  /\ UNCHANGED <<server, outbox, inbox, peer>>

Say(c, b) ==
  /\ c \in Connected /\ peer[c] = "up" /\ Len(outbox[c]) < MaxOut
  /\ outbox' = [outbox EXCEPT ![c] = Append(@, b)]
  /\ UNCHANGED <<server, inbox, peer, backlog>>

Hear(c) ==
  /\ inbox[c] # <<>>
  /\ inbox' = [inbox EXCEPT ![c] = Tail(@)]
  /\ UNCHANGED <<server, outbox, peer, backlog>>

\* A client that closes its end with something unread resets the connection.
HangUp(c) ==
  /\ c \in Connected /\ peer[c] = "up"
  /\ peer' = [peer EXCEPT ![c] = IF inbox[c] = <<>> THEN "closed" ELSE "broken"]
  /\ inbox' = [inbox EXCEPT ![c] = <<>>]
  /\ UNCHANGED <<server, outbox, backlog>>
-----------------------------------------------------------------------------
(* The server *)

\* select() leaves all bits set.
Select_AllBits ==
  /\ pc = "select"
  /\ \E s \in Slots : Ready(s)
  /\ pc' = "scan"
  /\ fd_read' = {s \in Slots : type[s] # "FREE"}
  /\ r' = Cardinality({s \in Slots : Ready(s)})
  /\ i' = 0
  /\ UNCHANGED <<type, chunk, todo, outbox, inbox, peer, backlog>>

\* init_fd and do_select: of the slots in use, the bits of those ready remain.
Select ==
  /\ pc = "select"
  /\ \E s \in Slots : Ready(s)
  /\ pc' = "scan"
  /\ fd_read' = {s \in Slots : type[s] # "FREE" /\ Ready(s)}
  /\ r' = Cardinality(fd_read')
  /\ i' = 0
  /\ UNCHANGED <<type, chunk, todo, outbox, inbox, peer, backlog>>

\* The end of the body of check_fd's loop, r-- outside its if.
Advance_CountAll == i' = i + 1 /\ r' = r - 1
Advance == i' = i + 1 /\ r' = IF i \in fd_read THEN r - 1 ELSE r

\* The loop spares the last slot.
Scanning_Short == pc = "scan" /\ i < maxfd - 1 /\ r > 0
Scanning == pc = "scan" /\ i < maxfd /\ r > 0
At(s) == Scanning /\ i = s /\ s \in fd_read

Skip ==
  /\ Scanning /\ i \notin fd_read
  /\ Advance
  /\ UNCHANGED <<pc, type, fd_read, chunk, todo, outbox, inbox, peer, backlog>>

EndOfScan ==
  /\ pc = "scan" /\ ~Scanning
  /\ pc' = "select"
  /\ UNCHANGED <<type, fd_read, r, i, chunk, todo, outbox, inbox, peer, backlog>>

\* srv_accept: the lowest free descriptor, or exit(1) when there is none.
Accept ==
  /\ At(Listen)
  /\ \/ \E c \in Clients \ Connected :
          /\ \A d \in Clients \ Connected : c <= d
          /\ type' = [type EXCEPT ![c] = "CLIENT"]
          /\ backlog' = backlog - 1
          /\ peer' = [peer EXCEPT ![c] = "up"]
          /\ Advance
          /\ UNCHANGED pc
     \/ /\ Connected = Clients
        /\ pc' = "exited"
        /\ UNCHANGED <<type, backlog, peer, i, r>>
  /\ UNCHANGED <<fd_read, chunk, todo, outbox, inbox>>

\* client_read, recv() <= 0: close and clean_fd.
Gone(c) ==
  /\ At(c)
  /\ outbox[c] = <<>> /\ peer[c] # "up"
  /\ type' = [type EXCEPT ![c] = "FREE"]
  /\ Advance
  /\ UNCHANGED <<pc, fd_read, chunk, todo, outbox, inbox, peer, backlog>>

\* The sender hears itself.
Audience_Echo(c) == Connected
\* Whom client_read sends to.
Audience(c) == Connected \ {c}

\* client_read, recv() > 0.
Read(c) ==
  /\ At(c)
  /\ outbox[c] # <<>>
  /\ LET n == Min({BufSize, Len(outbox[c])})
     IN /\ chunk' = SubSeq(outbox[c], 1, n)
        /\ outbox' = [outbox EXCEPT ![c] = SubSeq(@, n + 1, Len(@))]
  /\ todo' = Audience(c)
  /\ pc' = "send"
  /\ UNCHANGED <<type, fd_read, r, i, inbox, peer, backlog>>

Tagged == [k \in 1..Len(chunk) |-> <<i, chunk[k]>>]
Room(d) == Len(inbox[d]) + Len(chunk) <= MaxInbox

\* One send() of client_read; it waits until all of the chunk is taken.  Its
\* result is not looked at.
Send ==
  /\ pc = "send" /\ todo # {}
  /\ LET d == Min(todo)
     IN /\ todo' = todo \ {d}
        /\ \/ /\ peer[d] = "up" /\ Room(d)
              /\ inbox' = [inbox EXCEPT ![d] = @ \o Tagged]
              /\ UNCHANGED <<pc, peer>>
           \/ /\ peer[d] = "closed"
              /\ peer' \in {peer, [peer EXCEPT ![d] = "broken"]}
              /\ UNCHANGED <<pc, inbox>>
           \/ /\ peer[d] = "broken"
              /\ pc' \in {pc, "killed"}
              /\ UNCHANGED <<peer, inbox>>
  /\ UNCHANGED <<type, fd_read, r, i, chunk, outbox, backlog>>

EndOfSend ==
  /\ pc = "send" /\ todo = {}
  /\ pc' = "scan"
  /\ chunk' = <<>>
  /\ Advance
  /\ UNCHANGED <<type, fd_read, todo, outbox, inbox, peer, backlog>>

Thread ==
  \/ Select \/ Skip \/ EndOfScan \/ Accept \/ Send \/ EndOfSend
  \/ \E c \in Clients : Gone(c) \/ Read(c)

World ==
  \/ Connect
  \/ \E c \in Clients : Hear(c) \/ HangUp(c) \/ \E b \in Bytes : Say(c, b)

Next == Thread \/ World

\* The program keeps running; clients do as they like.
Spec == Init /\ [][Next]_vars /\ WF_vars(Thread)
-----------------------------------------------------------------------------
(* Properties *)

Mail == Seq(Clients \X Bytes)

TypeOK ==
  /\ pc \in {"select", "scan", "send", "exited", "killed"}
  /\ type \in [Slots -> {"FREE", "SERV", "CLIENT"}]
  /\ fd_read \subseteq Slots /\ r \in 0..maxfd /\ i \in 0..maxfd
  /\ chunk \in Seq(Bytes) /\ Len(chunk) <= BufSize
  /\ todo \subseteq Connected
  /\ outbox \in [Clients -> Seq(Bytes)] /\ inbox \in [Clients -> Mail]
  /\ peer \in [Clients -> Peers] /\ backlog \in 0..MaxBacklog

\* check_fd stops as soon as r is 0.  It has then handled every bit select()
\* returned, although handlers free and fill slots under it: r is always the
\* number of bits still in front of it.
CountExact ==
  pc \in {"scan", "send"} => r = Cardinality({s \in fd_read : s >= i})

\* With the types of the table.
TableOK == TypeOK /\ CountExact

\* A bit check_fd has still to look at belongs to a slot in use that can be
\* read.  So it calls no NULL fct_read, and neither recv() nor accept() makes
\* the whole server wait.
NeverWaits ==
  pc = "scan" => \A s \in fd_read : s >= i => type[s] # "FREE" /\ Ready(s)

\* The loop of sends is an atomic broadcast that loses nothing, although clients read, hang up
\* and fill their buffers between two sends.
Members == {c \in Connected : peer[c] = "up"}
Broadcast == INSTANCE Relay WITH
  members <- Members,
  inbox <- [c \in Clients |-> IF c \in todo \cap Members THEN inbox[c] \o Tagged
                              ELSE inbox[c]]
ImplementsRelay == Broadcast!Spec

\* A client with a full buffer stops the server until it reads or hangs up.
\* If no client stays full for ever, every client that said something or hung
\* up is served, whatever the others send.
Blocked == pc = "send" /\ \E d \in todo : d = Min(todo) /\ peer[d] = "up" /\ ~Room(d)
Waiting(c) == c \in Connected /\ Ready(c) /\ ~Ended
FairToAll ==
  []<>~Blocked =>
    \A c \in Clients : []<>~Waiting(c) \/ []<><<Gone(c) \/ Read(c)>>_vars
=============================================================================
