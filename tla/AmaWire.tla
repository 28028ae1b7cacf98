------------------------------- MODULE AmaWire -------------------------------
(***************************************************************************)
(* _irc_: what becomes of the lines clients send and of the messages they  *)
(* are sent.  TCP hands over a stream in whatever pieces it likes;         *)
(* receiveMessage() reads until there is a CRLF or nothing more to read,   *)
(* and handleClientMessage() executes the complete lines and drops what    *)
(* follows the last of them.  Messages leave in two ways: Client::         *)
(* sendMessage tries once and forgets, Server::sendMessage, which QUIT     *)
(* uses, tries until everything is sent.  Among the clients is the bot,    *)
(* which lives in the same process: its socket is not in the poll set, so  *)
(* nobody ever reads what it is sent, and what it says goes out in single  *)
(* send()s that fail, or stop half-way, when the server lags behind.       *)
(*                                                                         *)
(* A line is a head and a tail piece, the tail with the CRLF; longer lines *)
(* and finer cuts lose no more than this does.  PASS, NICK and USER are    *)
(* one line, "user".  Connecting, the loop's order and a line that follows *)
(* QUIT in its segment are in AmaServer and AmaLoop; here everybody is     *)
(* connected at the start and a segment ends with QUIT.                    *)
(***************************************************************************)
EXTENDS Integers, SequencesExt, FiniteSetsExt

CONSTANTS
  Clients, Bot, \* descriptors: _clients is ordered by them
  Nobody,
  MaxLines,   \* bound of the model on what the clients say in all
  BufferSize, \* BUFFER_SIZE - 1, in pieces
  Room,       \* bound of the kernel on the messages a client has not read
  BotRoom     \* and on the pieces of the bot that the server has not read

ASSUME WireConstants ==
  /\ Clients \subseteq Nat /\ Bot \in Nat
  /\ Bot \notin Clients /\ Nobody \notin Clients \cup {Bot}
  /\ MaxLines \in Nat /\ BufferSize \in Nat \ {0} /\ Room \in Nat \ {0}
  /\ BotRoom \in Nat

People == Clients \cup {Bot}
Kinds == {"user", "talk", "quit", "none"}

VARIABLES
  pc,       \* "serve", "recv" (inside receiveMessage), "quit" (inside Quit::quit)
            \* or "killed" (SIGPIPE)
  conn,     \* the clients in _clients
  logged,   \* those of them that are logged in
  botnick,  \* who has the nick "BotNICK"
  who,      \* whose segment is being handled
  taken,    \* how many of the pieces in who's stream receiveMessage has so far
  batch,    \* its complete lines that are still to be executed
  todo,     \* whom sendMessage still has to tell of who's QUIT
  stream,   \* the pieces each of them has sent and the server has not read
  unended,  \* who has begun a line, keeps sending and has not come to its end
  torn,     \* to whom the line was to go of which the bot got only the beginning out
  unread,   \* how many messages each of them has not read
  peer,     \* the other end: "up", "closed" or "broken" (as in Bircd)
  said,     \* history: how many lines each of them has sent
  done,     \* history: how many of them were executed
  cut,      \* history: the lines a read has cut in two and that are not executed yet
  welcome   \* history: who logged in and whether the bot's welcome got there

vars == <<pc, conn, logged, botnick, who, taken, batch, todo, stream, unended, torn, unread, peer,
          said, done, cut, welcome>>
handler == <<pc, who, taken, batch, todo>>
input == <<stream, said, unended, torn>>
output == <<unread, peer, welcome>>
past == <<done, cut>>
session == <<conn, logged, botnick>>

\* Line n of a client, in two pieces.
Pieces(n, does, to) ==
  [k \in 1..2 |-> [id |-> n, does |-> does, to |-> to, last |-> k = 2]]

Init ==
  /\ pc = "serve"
  /\ conn = People /\ logged = {} /\ botnick = Nobody
  /\ who = Nobody /\ taken = 0 /\ batch = <<>> /\ todo = {}
  /\ stream = [c \in People |-> IF c = Bot THEN Pieces(1, "user", Bot) ELSE <<>>]
  /\ unended = {} /\ torn = Nobody
  /\ unread = [c \in People |-> 0]
  /\ peer = [c \in People |-> "up"]
  /\ said = [c \in People |-> IF c = Bot THEN 1 ELSE 0]
  /\ done = [c \in People |-> 0]
  /\ cut = {}
  /\ welcome = [c \in Clients |-> "none"]
-----------------------------------------------------------------------------
(* The clients *)

MaySay(c) ==
  /\ c \in conn \ unended /\ peer[c] = "up"
  /\ FoldFunctionOnSet(+, 0, said, Clients) < MaxLines

Say(c, does, to) ==
  /\ MaySay(c)
  /\ stream' = [stream EXCEPT ![c] = @ \o Pieces(said[c] + 1, does, to)]
  /\ said' = [said EXCEPT ![c] = @ + 1]
  /\ UNCHANGED <<handler, session, unended, torn, output, past>>

\* A line that goes on, for a while or for ever: something for the bot.  As long as the client is
\* in it, there is always more of it to read.
Begin(c) ==
  /\ MaySay(c)
  /\ stream' = [stream EXCEPT ![c] = Append(@, Pieces(said[c] + 1, "talk", Bot)[1])]
  /\ said' = [said EXCEPT ![c] = @ + 1]
  /\ unended' = unended \cup {c}
  /\ UNCHANGED <<handler, session, torn, output, past>>

LastPiece(c) == Pieces(said[c], "talk", Bot)[2]
End(c) ==
  /\ c \in conn \cap unended /\ peer[c] = "up"
  /\ stream' = [stream EXCEPT ![c] = Append(@, LastPiece(c))]
  /\ unended' = unended \ {c}
  /\ UNCHANGED <<handler, session, said, torn, output, past>>

Hear(c) ==
  /\ unread[c] > 0
  /\ unread' = [unread EXCEPT ![c] = @ - 1]
  /\ UNCHANGED <<handler, session, input, peer, past, welcome>>

\* A client that closes its end with something unread resets the connection.
HangUp(c) ==
  /\ c \in conn /\ peer[c] = "up"
  /\ peer' = [peer EXCEPT ![c] = IF unread[c] = 0 THEN "closed" ELSE "broken"]
  /\ unread' = [unread EXCEPT ![c] = 0]
  /\ UNCHANGED <<handler, session, input, past, welcome>>
-----------------------------------------------------------------------------
(* Reading *)

\* The end of a line at position k of pieces p; one whose head is missing is not whole.
Ending(p, k) == [id |-> p[k].id, does |-> p[k].does, to |-> p[k].to,
                 whole |-> k > 1 /\ ~p[k - 1].last]
\* What follows the last CRLF is executed as a line too.
Complete_Rest(p) ==
  LET upTo[k \in 0..Len(p)] ==
        IF k = 0 THEN <<>>
        ELSE IF p[k].last \/ k = Len(p) THEN Append(upTo[k - 1], Ending(p, k))
        ELSE upTo[k - 1]
  IN upTo[Len(p)]
\* The complete lines among pieces p.
Complete(p) ==
  LET upTo[k \in 0..Len(p)] ==
        IF k = 0 THEN <<>>
        ELSE IF p[k].last THEN Append(upTo[k - 1], Ending(p, k))
        ELSE upTo[k - 1]
  IN upTo[Len(p)]

\* What becomes of the welcome that d may wait for.
Heard(d, how) ==
  [c \in Clients |-> IF c = d /\ welcome[c] = "due" THEN how ELSE welcome[c]]

\* Between two segments.
Idle == pc = "serve" /\ batch = <<>>

\* The thread may be in, or come to, a recv() from c.
Reads(c) == c \in conn /\ (Idle \/ (pc = "recv" /\ who = c))

\* receiveMessage returns the first m pieces, which are cut up into lines.
Returns(c, m) ==
  /\ batch' = Complete(SubSeq(stream[c], 1, m))
  /\ cut' = IF stream[c][m].last THEN cut ELSE cut \cup {<<c, stream[c][m].id>>}
  /\ welcome' = IF c = Bot /\ ~stream[c][m].last THEN Heard(stream[c][m].to, "lost")
                ELSE welcome
  /\ stream' = [stream EXCEPT ![c] = SubSeq(@, m + 1, Len(@))]
  /\ who' = IF batch' = <<>> THEN Nobody ELSE c
  /\ pc' = "serve" /\ taken' = 0

\* A recv() that brings something: the loop ends if a CRLF is in it.  What the bot sent comes
\* from the server's own thread, and has arrived; the beginning of a line it tore comes last.
Recv(c) ==
  /\ Reads(c)
  /\ \E n \in 1..Min({BufferSize, Len(stream[c]) - taken}) :
       LET m == taken + n
       IN /\ c = Bot => n = Min({BufferSize, Len(stream[c]) - taken})
          /\ \/ /\ \E k \in taken + 1..m : stream[c][k].last
                /\ Returns(c, m)
                /\ torn' \in {torn} \cup IF c = Bot /\ m = Len(stream[c]) THEN {Nobody} ELSE {}
             \/ /\ ~\E k \in taken + 1..m : stream[c][k].last
                /\ pc' = "recv" /\ who' = c /\ taken' = m
                /\ UNCHANGED <<batch, cut, welcome, stream, torn>>
  /\ UNCHANGED <<session, todo, said, unended, unread, peer, done>>

\* The client sends the line faster than it ends: every recv() of the loop brings more of it.
Endless(c) ==
  /\ pc = "recv" /\ who = c
  /\ c \in unended /\ peer[c] = "up" /\ taken = Len(stream[c])

\* recv() finds nothing more (EAGAIN), or not yet.
WouldBlock(c) ==
  /\ pc = "recv" /\ who = c /\ c # Bot
  /\ ~Endless(c)
  /\ Returns(c, taken)
  /\ UNCHANGED <<session, todo, said, unended, torn, unread, peer, done>>

\* The beginning of a line that the bot tore is all there is to read, and is dropped.
DropTorn ==
  /\ Idle /\ Bot \in conn
  /\ stream[Bot] = <<>> /\ torn # Nobody
  /\ torn' = Nobody
  /\ UNCHANGED <<handler, session, stream, said, unended, output, past>>

\* closeConnection, and the history of the connection with it.
Close(c) ==
  /\ conn' = conn \ {c}
  /\ logged' = logged \ {c}
  /\ botnick' = IF botnick = c THEN Nobody ELSE botnick
  /\ stream' = [stream EXCEPT ![c] = <<>>]
  /\ unended' = unended \ {c}
  /\ torn' = IF c = Bot THEN Nobody ELSE torn
  /\ unread' = [unread EXCEPT ![c] = 0]
  /\ peer' = [peer EXCEPT ![c] = "up"]
  /\ cut' = {l \in cut : l[1] # c}
  /\ welcome' = [d \in Clients |-> IF d = c THEN "none" ELSE welcome[d]]
  /\ who' = Nobody /\ taken' = 0 /\ batch' = <<>> /\ pc' = "serve"

\* recv() returns 0, or fails: what receiveMessage has so far is not looked at.
Gone(c) ==
  /\ Reads(c)
  /\ peer[c] # "up"
  /\ taken = Len(stream[c]) \/ peer[c] = "broken"
  /\ Close(c)
  /\ UNCHANGED <<todo, said, done>>
-----------------------------------------------------------------------------
(* Sending *)

\* Client::sendMessage: one send() whose result is not looked at.  A text that does not fit is
\* lost.  welcome becomes got where it arrives, missed where not.
SendOnce(d, got, missed) ==
  \/ /\ peer[d] = "up" /\ unread[d] < Room
     /\ unread' = [unread EXCEPT ![d] = @ + 1]
     /\ welcome' = got
     /\ UNCHANGED <<pc, peer>>
  \/ /\ peer[d] = "up" /\ unread[d] >= Room
     /\ welcome' = missed
     /\ UNCHANGED <<pc, unread, peer>>
  \/ /\ peer[d] = "closed"
     /\ peer' \in {peer, [peer EXCEPT ![d] = "broken"]}
     /\ welcome' = missed
     /\ UNCHANGED <<pc, unread>>
  \/ /\ peer[d] = "broken"
     /\ pc' \in {pc, "killed"}
     /\ welcome' = missed
     /\ UNCHANGED <<unread, peer>>

\* m lines for d, of which the first may not be what it should.
BotLines(d, m, does, to) ==
  [k \in 1..2 * m |->
     LET j == (k + 1) \div 2
     IN Pieces(said[Bot] + j, IF j = 1 THEN does ELSE "talk", IF j = 1 THEN to ELSE d)
          [2 - (k % 2)]]

\* The welcome is addressed to the bot.
BotSays_Itself(d, n) ==
  /\ stream' = [stream EXCEPT ![Bot] = @ \o BotLines(Bot, n, "talk", Bot)]
  /\ said' = [said EXCEPT ![Bot] = @ + n]
  /\ UNCHANGED <<unended, torn>>

\* The bot says n things to whoever is called d: each is one send() over its own socket, whose
\* result is not looked at.  m of them have room; of the next the beginning may go out, and
\* what the bot says then continues that line: a talk to whom it was for, or nothing
\* known.  If its connection is closed nothing goes out.
BotSays(d, n) ==
  /\ \/ /\ Bot \in conn
        /\ \E m \in 0..n, does \in {"talk", "none"} :
             /\ m # 0 => Len(stream[Bot]) + 2 * m <= BotRoom
             /\ m < n => Len(stream[Bot]) + 2 * m + 2 > BotRoom
             /\ torn = Nobody \/ m = 0 => does = "talk"
             /\ stream' = [stream EXCEPT ![Bot] =
                             @ \o BotLines(d, m, does, IF torn = Nobody THEN d ELSE torn)]
             /\ said' = [said EXCEPT ![Bot] = @ + m]
             /\ torn' \in IF m = 0 /\ (n = 0 \/ torn # Nobody) THEN {torn}
                         ELSE {Nobody} \cup IF m < n THEN {d} ELSE {}
     \/ /\ Bot \notin conn
        /\ UNCHANGED <<stream, said, torn>>
  /\ UNCHANGED unended

\* The line that was just sent went out as it is.
SaidWell == torn = Nobody /\ said'[Bot] = said[Bot] + 1

\* Server::sendMessage: it tries again on every error.
SendQuit_Insists ==
  /\ pc = "quit" /\ todo # {}
  /\ LET d == Min(todo)
     IN /\ peer[d] = "up" /\ unread[d] < Room
        /\ unread' = [unread EXCEPT ![d] = @ + 1]
        /\ todo' = todo \ {d}
  /\ UNCHANGED <<pc, session, who, taken, batch, input, peer, welcome, past>>

\* Server::sendMessage: it tries until the text is sent; another error throws, and
\* handleClientMessage then closes the connection of the one that quits.
SendQuit ==
  /\ pc = "quit" /\ todo # {}
  /\ LET d == Min(todo)
     IN \/ /\ peer[d] = "up" /\ unread[d] < Room
           /\ unread' = [unread EXCEPT ![d] = @ + 1]
           /\ todo' = todo \ {d}
           /\ UNCHANGED <<pc, peer>>
        \/ /\ peer[d] = "closed"
           /\ peer' \in {peer, [peer EXCEPT ![d] = "broken"]}
           /\ todo' = todo \ {d}
           /\ UNCHANGED <<pc, unread>>
        \/ /\ peer[d] = "broken"
           /\ \/ todo' = {} /\ UNCHANGED pc
              \/ pc' = "killed" /\ UNCHANGED todo
           /\ UNCHANGED <<unread, peer>>
  /\ UNCHANGED <<session, who, taken, batch, input, welcome, past>>
-----------------------------------------------------------------------------
(* The commands *)

Line == Head(batch)

\* The next line of the segment, which does k.  The tail of a line whose head was dropped may
\* look like another command, or like none.
Execute(k) ==
  /\ pc = "serve" /\ batch # <<>>
  /\ IF Line.whole THEN Line.does = k ELSE k \in {"quit", "none"}
  /\ batch' = Tail(batch)
  /\ done' = [done EXCEPT ![who] = @ + 1]
  /\ cut' = cut \ {<<who, Line.id>>}
  /\ UNCHANGED taken

\* To the next line, if there is one.
Continue == who' = IF Tail(batch) = <<>> THEN Nobody ELSE who

\* The client called d: the nick "BotNICK" is d = Bot.
Called(d) == IF d = Bot THEN botnick ELSE IF d \in logged /\ botnick # d THEN d ELSE Nobody

\* PASS, NICK and USER.  Nobody asks who takes the bot's nick; the bot has no other.  The
\* welcome is due once the bot's line is out.
Register ==
  /\ Execute("user")
  /\ who \notin logged
  /\ \E asBot \in BOOLEAN :
       /\ who = Bot => asBot
       /\ asBot => botnick = Nobody
       /\ logged' = logged \cup {who}
       /\ botnick' = IF asBot THEN who ELSE botnick
       /\ BotSays(IF asBot THEN Bot ELSE who, 1)
  /\ LET due == [c \in Clients |-> IF c # who THEN welcome[c]
                                  ELSE IF SaidWell THEN "due" ELSE "lost"]
     IN SendOnce(who, due, due)
  /\ Continue
  /\ UNCHANGED <<conn, todo>>

\* A nick in use, USER again, a command before USER, or one that does not exist: a reply.
Refused ==
  /\ \/ Execute("user") /\ (who \in logged \/ botnick # Nobody)
     \/ (Execute("talk") \/ Execute("quit")) /\ who \notin logged
     \/ Execute("none")
  /\ SendOnce(who, welcome, welcome)
  /\ Continue
  /\ UNCHANGED <<session, todo, input>>

\* How many answers Bot::processMessage gives: any of a greeting, the time and a request to be
\* more respectful.
Answers == 0..3

\* PRIVMSG to a nick.  The bot looks at the text of everybody but "BotNICK".
Talk ==
  /\ Execute("talk")
  /\ who \in logged
  /\ \E n \in IF who = botnick THEN {0} ELSE Answers : BotSays(who, n)
  /\ LET d == Called(Line.to)
     IN IF d = Nobody THEN SendOnce(who, welcome, welcome)
        ELSE IF who = Bot THEN SendOnce(d, Heard(d, "told"), Heard(d, "lost"))
        ELSE SendOnce(d, welcome, welcome)
  /\ Continue
  /\ UNCHANGED <<session, todo>>

\* Quit::quit tells the others, in the order of their descriptors, before it closes.
QuitBegins ==
  /\ Execute("quit")
  /\ who \in logged
  /\ todo' = conn \ {who}
  /\ pc' = "quit"
  /\ UNCHANGED <<session, who, input, output>>

\* The bot's connection is closed, and it says something: SIGPIPE.
BotSendKills ==
  /\ pc = "serve" /\ batch # <<>>
  /\ Bot \notin conn /\ Line.whole /\ Line.does \in {"user", "talk"}
  /\ pc' = "killed"
  /\ UNCHANGED <<who, taken, batch, todo, session, input, output, past>>

QuitEnds ==
  /\ pc = "quit" /\ todo = {}
  /\ Close(who)
  /\ UNCHANGED <<todo, said, done>>

Thread ==
  \/ Register \/ Refused \/ Talk \/ QuitBegins \/ SendQuit \/ QuitEnds
  \/ BotSendKills \/ DropTorn
  \/ \E c \in People : Recv(c) \/ WouldBlock(c) \/ Gone(c)

\* The first line of a client registers it, or is one that goes on.
World ==
  /\ pc # "killed"
  /\ \E c \in Clients :
       \/ Hear(c) \/ HangUp(c) \/ Begin(c) \/ End(c)
       \/ said[c] = 0 /\ Say(c, "user", c)
       \/ said[c] > 0 /\ (Say(c, "quit", c) \/ \E d \in Clients \ {c} : Say(c, "talk", d))

Next == Thread \/ World

\* The program keeps running; clients do as they like.
Spec == Init /\ [][Next]_vars /\ WF_vars(Thread)
-----------------------------------------------------------------------------
(* Properties *)

Text == [id : Nat, does : Kinds, to : People, whole : BOOLEAN]

TypeOK ==
  /\ pc \in {"serve", "recv", "quit", "killed"}
  /\ conn \subseteq People /\ logged \subseteq conn
  /\ botnick \in logged \cup {Nobody}
  /\ who \in People \cup {Nobody} /\ (who = Nobody => Idle \/ pc = "killed")
  /\ taken \in Nat /\ batch \in Seq(Text)
  /\ unended \subseteq Clients /\ torn \in People \cup {Nobody}
  /\ todo \subseteq conn \ {who}
  /\ stream \in [People -> Seq([id : Nat, does : Kinds, to : People, last : BOOLEAN])]
  /\ unread \in [People -> 0..Room]
  /\ peer \in [People -> {"up", "closed", "broken"}] /\ peer[Bot] = "up"
  /\ said \in [People -> Nat] /\ done \in [People -> Nat]
  /\ cut \subseteq People \X Nat
  /\ welcome \in [Clients -> {"none", "due", "told", "lost"}]

\* However TCP cuts the stream, and although the end of what was read is dropped: every line a
\* client sent is executed once and in order, and it is executed as it was sent
\* unless a read ended inside it.  Lines are lost or misread only there.
\* A line that a client is still sending counts as what it will be.
Sent(c) == stream[c] \o IF c \in unended THEN <<LastPiece(c)>> ELSE <<>>
Ahead(c) == (IF who = c THEN batch ELSE <<>>) \o Complete(Sent(c))
LinesKept ==
  \A c \in conn :
    [k \in 1..Len(Ahead(c)) |-> <<Ahead(c)[k].id, Ahead(c)[k].whole>>] =
      [k \in 1..said[c] - done[c] |-> <<done[c] + k, <<c, done[c] + k>> \notin cut>>]

\* With the types.
StreamsOK == TypeOK /\ LinesKept

\* A client holds the server while it is told of a QUIT and does not read, or while it sends a
\* line and does not end it.  If each client ends that sooner or later, or goes, the
\* only one that can hold the server for ever is the bot.  Otherwise every client that
\* said something or left is served.
Stuck(d) == pc = "quit" /\ todo # {} /\ d = Min(todo) /\ peer[d] = "up" /\ unread[d] >= Room
Holds(d) == Stuck(d) \/ Endless(d)
Waiting(c) == pc # "killed" /\ c \in conn /\ (stream[c] # <<>> \/ peer[c] # "up")
OnlyTheBotHolds ==
  (\A c \in Clients : []<>~Holds(c)) =>
    \/ <>[]Stuck(Bot)
    \/ \A c \in Clients : []<>~Waiting(c)

\* Whoever logs in is welcomed by the bot, through the bot's own connection, unless the bot's
\* line was lost or torn, for want of room, or cut by a read; the client leaves or has its
\* buffer full; somebody else took the nick "BotNICK"; or the server is held or killed.
Owed(c) ==
  /\ welcome[c] = "due" /\ c \in logged /\ botnick = Bot
  /\ pc # "killed" /\ ~\E d \in People : Holds(d)
Welcomed == \A c \in Clients : []<>~Owed(c)
=============================================================================
