------------------------------- MODULE FtText -------------------------------
(***************************************************************************)
(* ft_irc: from what a client sends to what a command is given.  Server::  *)
(* read takes what has arrived; Command::Execute cuts it at the line ends  *)
(* and executes the pieces one by one; Checker::check decides which pass;  *)
(* Parser and the commands cut them up again, on their own, and take words *)
(* that may not be there.  Nothing is kept between two reads.              *)
(*                                                                         *)
(* A text is a sequence of tokens.  " ", "\r", "\n", ":", "@" are these    *)
(* characters; "#c" is a channel's name, "x" any other word, "5" a number, *)
(* "+b" and its like a sign and a letter, and a command's name is a token  *)
(* too (upper and lower case are the same).  Words are made of tokens.     *)
(*                                                                         *)
(* Who the client is and what it finds is FtChannel and FtSessions: here a *)
(* client has some rank on the one channel, and so many others are on it.  *)
(***************************************************************************)
EXTENDS Integers, SequencesExt, FiniteSetsExt

CONSTANTS
  Inputs,     \* pairs of what a client may send in its life and a bound on the reads it takes
  Worlds,     \* pairs of rank and others
  BufferSize  \* BUFFER_SIZE, in tokens

ASSUME TextConstants ==
  /\ BufferSize \in Nat \ {0}
  /\ Inputs \subseteq Seq(STRING) \X Nat
  /\ \A s \in Inputs : Len(s[1]) <= s[2] * BufferSize
  /\ Worlds \subseteq {"guest", "member", "operator"} \X Nat

VARIABLES
  input,   \* history: what the client sends
  left,    \* how many reads it may still take
  read,    \* how much of it was read
  cuts,    \* history: where reads ended
  lines,   \* the pieces of the segment that are still to be executed
  log,     \* history: the pieces that were executed
  rank,    \* of the client: "guest" (not logged in), "member" or "operator"
  others,  \* how many others are on the client's channel
  fate     \* of the last piece: "refused", "done" or "torn" (a vector or a string was read past
           \* its end)

textVars == <<input, left, read, cuts, lines, log, rank, others, fate>>

CRLF == <<"\r", "\n">>
White == {" ", "\r", "\n"}
Has(s, t) == \E k \in 1..Len(s) : s[k] = t
-----------------------------------------------------------------------------
(* Utils *)

Trim(s) ==
  LET black == {k \in 1..Len(s) : s[k] \notin White}
  IN IF black = {} THEN <<>> ELSE SubSeq(s, Min(black), Max(black))

At(s, d, k) == k + Len(d) - 1 <= Len(s) /\ SubSeq(s, k, k + Len(d) - 1) = d
\* Where d stands in s.
Found(s, d) ==
  LET upTo[k \in 0..Len(s)] ==
        IF k = 0 THEN <<>> ELSE IF At(s, d, k) THEN Append(upTo[k - 1], k) ELSE upTo[k - 1]
  IN upTo[Len(s)]
Parts(s, d) ==
  LET found == Found(s, d)
      from(k) == IF k = 1 THEN 1 ELSE found[k - 1] + Len(d)
      to(k) == IF k = Len(found) + 1 THEN Len(s) ELSE found[k] - 1
  IN [k \in 1..Len(found) + 1 |-> SubSeq(s, from(k), to(k))]
\* The rest is a part even if it is empty.
Split_Rest(s, d) == Parts(s, d)
\* Empty parts count, but not an empty rest.
Split(s, d) ==
  LET parts == Parts(s, d)
  IN IF Last(parts) = <<>> THEN Front(parts) ELSE parts

Words(s) == Split(s, <<" ">>)
\* Words k and on, with a space between them.
Join(words, k) ==
  FlattenSeq([i \in 1..Len(words) - k + 1 |->
                (IF i = 1 THEN <<>> ELSE <<" ">>) \o words[i + k - 1]])
-----------------------------------------------------------------------------
(* Checker *)

StartsWith(s, t) == s # <<>> /\ s[1] = t
IsChannel(s) == StartsWith(s, "#c")
BeforeSpace(s) == Parts(s, <<" ">>)[1]
AfterSpace(s) == SubSeq(s, Len(BeforeSpace(s)) + 2, Len(s))

Commands == {"WHO", "NICK", "INVITE", "QUIT", "TOPIC", "KICK", "PART", "MODE", "NOTICE",
             "PRIVMSG", "WHOIS", "JOIN", "PASS", "USER"}
Signs == {"+b", "-b", "+l", "-l", "+o"}

CheckOnlyChannel(s) == IsChannel(s) /\ ~Has(s, " ")
CheckOnlyNickName(s) == ~IsChannel(s) /\ ~Has(s, " ")
CheckOnlyNickAndChannelName(s) ==
  /\ ~IsChannel(s) /\ Has(s, " ")
  /\ CheckOnlyChannel(AfterSpace(s))
\* The channel may stand anywhere.
CheckOnlyChannelAndMessage_Somewhere(s) == Has(s, " ") /\ Has(s, "#c")
CheckOnlyChannelAndMessage(s) == Has(s, " ") /\ IsChannel(BeforeSpace(s))
\* atoi() takes white space off and stops at what is no digit.
Number(s) == StartsWith(Trim(s), "5")
CheckOnlyMode(s) ==
  /\ IsChannel(s)
  /\ Has(s, " ") =>
       LET mode == AfterSpace(s)
       IN /\ mode # <<>> /\ mode[1] \in Signs
          /\ mode[1] = "+l" => Number(Tail(mode))
          /\ mode[1] = "-l" => Len(mode) = 1
CheckMoreThanTwoWords(m) == Has(m, " ") /\ Len(Words(m)) >= 2
CheckOnlyChannelOrNickName(s) == ~Has(s, " ")

\* What precedes the first space: of the text as it came.
GetCommand(m) == BeforeSpace(m)

\* check() looks at the text only if the command is a known one.
Check(m) ==
  LET message == Trim(m)
      is(C) == \E c \in C : GetCommand(m) = <<c>>
      format == Trim(Join(Words(message), 2))
  IN /\ Has(message, " ")
     /\ is(Commands)
     /\ is({"WHO"}) => CheckOnlyChannel(format)
     /\ is({"NICK"}) => CheckOnlyNickName(format)
     /\ is({"INVITE"}) => CheckOnlyNickAndChannelName(format)
     /\ is({"QUIT"}) => format # <<>>
     /\ is({"TOPIC", "KICK", "PART"}) => CheckOnlyChannelAndMessage(format)
     /\ is({"MODE"}) => CheckOnlyMode(format)
     /\ is({"NOTICE", "PRIVMSG"}) => CheckMoreThanTwoWords(message)
     /\ is({"WHOIS"}) => CheckOnlyChannelOrNickName(format)
     /\ is({"JOIN"}) => IsChannel(format)
-----------------------------------------------------------------------------
(* Parser and the commands *)

\* Parser::parse; with no second word, the fields stay empty.
Parse(m) ==
  LET w == Words(m)
  IN [function |-> IF Len(w) > 1 THEN Trim(w[2]) ELSE <<>>,
      value |-> Join([i \in 1..Len(w) |-> Trim(w[i])], 3)]

AfterColon(m) == Split(m, <<":">>)

\* execKick parses what precedes the colon.
KickParse(m) == IF Has(m, ":") THEN Parse(Trim(AfterColon(m)[1])) ELSE Parse(m)

\* Parser::modeParse, a word behind the sign and perhaps another.
Parameters(w) ==
  IF Len(w) < 4 THEN <<>> ELSE Trim(w[4]) \o (IF Len(w) = 5 THEN Trim(w[5]) ELSE <<>>)
AfterAt(s) == Split(IF Has(s, "@") THEN s ELSE <<"*!*", "@">> \o s, <<"@">>)

\* privateMessage: words[2].
TalkTorn(m) == Len(Words(m)) < 3
\* userParse: words[4].
UserTorn(m) == Len(Words(m)) < 5
\* execQuit: element 1 of the text, then of what that was, for each of n others.
QuitTorn(m, n) ==
  \/ n > 0 /\ Len(AfterColon(m)) < 2
  \/ n > 1 /\ Len(AfterColon(AfterColon(m)[2])) < 2
\* execKick.
KickTorn(m) == Has(m, ":") /\ Len(AfterColon(m)) < 2
\* execTopic, of an operator.
TopicTorn(m) == Parse(m).value # <<>> /\ Len(AfterColon(m)) < 2
\* Mode::Execute and modeParse: the second character of the third word.
ModeTorn(m) == Len(Words(m)) >= 3 /\ Words(m)[3] = <<>>
\* execBan, of an operator: the host behind the @.  +b alone lists the bans.
BanTorn(m) ==
  LET w == Words(m)
  IN /\ Len(w) >= 3 /\ w[3] # <<>> /\ w[3][1] \in {"+b", "-b"}
     /\ ~(w[3][1] = "+b" /\ Parameters(w) = <<>>)
     /\ Len(AfterAt(Parameters(w))) < 2

\* What execUser, execQuit, ... take that is not there, for a client of rank r with n others.
Torn(m, r, n) ==
  LET c == GetCommand(m)[1]
  IN \/ c = "USER" /\ UserTorn(m)
     \/ c = "QUIT" /\ QuitTorn(m, n)
     \/ r # "guest" /\ \/ c \in {"PRIVMSG", "NOTICE"} /\ TalkTorn(m)
                       \/ c = "KICK" /\ KickTorn(m)
                       \/ c = "MODE" /\ ModeTorn(m)
     \/ r = "operator" /\ \/ c = "TOPIC" /\ TopicTorn(m)
                          \/ c = "MODE" /\ BanTorn(m)
-----------------------------------------------------------------------------
(* Reading and executing *)

\* What has no line end yet waits (and is lost).
Pieces_Ended(m) ==
  LET w == Split(m, CRLF)
      end == {k \in 1..Len(w) : w[k] = <<>> \/ (k = Len(w) /\ ~IsSuffix(CRLF, m))}
  IN SubSeq(w, 1, Min(end \cup {Len(w) + 1}) - 1)

\* The loop of Command::Execute: pieces up to the first that is empty; a single one is executed
\* as it came, line end and all.
Pieces(m) ==
  LET w == Split(m, CRLF)
      empty == {k \in 1..Len(w) : w[k] = <<>>}
  IN IF Len(w) = 1 THEN <<m>> ELSE SubSeq(w, 1, Min(empty \cup {Len(w) + 1}) - 1)

TextInit ==
  /\ \E s \in Inputs : input = s[1] /\ left = s[2]
  /\ read = 0 /\ cuts = {} /\ lines = <<>> /\ log = <<>>
  /\ \E w \in Worlds : rank = w[1] /\ others = w[2]
  /\ fate = "done"

\* Server::read.
Read ==
  /\ fate # "torn" /\ lines = <<>>
  /\ \E n \in 1..Min({BufferSize, Len(input) - read}) :
       /\ Len(input) - read - n <= (left - 1) * BufferSize
       /\ lines' = Pieces(SubSeq(input, read + 1, read + n))
       /\ read' = read + n
       /\ cuts' = cuts \cup {read + n}
  /\ left' = left - 1
  /\ UNCHANGED <<input, log, rank, others, fate>>

Refused ==
  /\ fate # "torn" /\ lines # <<>>
  /\ ~Check(Head(lines))
  /\ log' = Append(log, Head(lines)) /\ lines' = Tail(lines)
  /\ fate' = "refused"
  /\ UNCHANGED <<input, left, read, cuts, rank, others>>

\* A line of a guest that is no part of registering is passed over without a word.
Execute ==
  /\ fate # "torn" /\ lines # <<>>
  /\ Check(Head(lines))
  /\ log' = Append(log, Head(lines)) /\ lines' = Tail(lines)
  /\ fate' = IF Torn(Head(lines), rank, others) THEN "torn" ELSE "done"
  /\ UNCHANGED <<input, left, read, cuts, rank, others>>

TextNext == Read \/ Refused \/ Execute

TextSpec == TextInit /\ [][TextNext]_textVars
-----------------------------------------------------------------------------
(* Properties *)

Count(s, t) == Cardinality({k \in 1..Len(s) : s[k] = t})
\* There are k words, an empty one between two spaces included.
WordCount(m, k) == Count(m, " ") + (IF Last(m) = " " THEN 0 ELSE 1) >= k
\* Something, if only the line end, stands behind the first t.
Behind(m, t) == \E k \in 1..Len(m) - 1 : m[k] = t

\* The lines that read past an end are these and no others, although some are
\* checked with their line end taken off and all are executed with it: a
\* message without a text and without a space at its end; USER with less
\* than four words; QUIT without a text behind a colon when somebody else is there, and
\* with one when two are; KICK whose colon ends it; a topic without one; MODE with a third word
\* that is empty; a ban that ends in @, and -b alone.
MissingWord(m) ==
  LET c == m[1]
      words == Words(m)
  IN \/ c \in {"PRIVMSG", "NOTICE"} /\ rank # "guest" /\ ~WordCount(m, 3)
     \/ c = "USER" /\ ~WordCount(m, 5)
     \/ c = "QUIT" /\ (others > 1 \/ (others = 1 /\ ~Behind(m, ":")))
     \/ c = "KICK" /\ rank # "guest" /\ Has(m, ":") /\ ~Behind(m, ":")
     \/ /\ c = "TOPIC" /\ rank = "operator" /\ ~Behind(m, ":")
        /\ WordCount(m, 4) \/ (WordCount(m, 3) /\ Trim(words[3]) # <<>>)
     \/ c = "MODE" /\ rank # "guest" /\ WordCount(m, 3) /\ words[3] = <<>>
     \/ /\ c = "MODE" /\ rank = "operator" /\ WordCount(m, 3)
        /\ words[3] # <<>> /\ words[3][1] \in {"+b", "-b"}
        /\ LET given == Parameters(words)
           IN IF given = <<>> THEN words[3][1] = "-b" ELSE Has(given, "@") /\ ~Behind(given, "@")
TornExactly ==
  log # <<>> /\ fate # "refused" => (fate = "torn" <=> MissingWord(Last(log)))

\* Checker looks at all that follows the command, Parser at the second word.  As long as no
\* second blank follows the one behind the command, both speak of the same: channel
\* commands are given a channel, NICK a nick, INVITE both.
CheckedIsParsed ==
  log # <<>> /\ fate # "refused" /\ Last(log)[3] \notin White =>
    LET m == Last(log)
        c == m[1]
    IN /\ c \in {"WHO", "TOPIC", "PART", "MODE", "JOIN"} => IsChannel(Parse(m).function)
       /\ c = "KICK" => IsChannel(KickParse(m).function)
       /\ c \in {"NICK", "INVITE"} => Parse(m).function # <<>> /\ ~IsChannel(Parse(m).function)
       /\ c = "INVITE" => IsChannel(Parse(m).value)

\* Although nothing is kept between two reads, nothing of what a client sends is lost, and all
\* is executed in order, unless it sent an empty line or a read ended just
\* before a line end: the next segment then begins with what looks like an empty line,
\* and is dropped.  And a line in which, and in whose line end, no read ended,
\* and neither in the line end before it, is executed as it was sent.
Text(s) == FlattenSeq([k \in 1..Len(s) |-> IF s[k] \in {"\r", "\n"} THEN <<>> ELSE <<s[k]>>])
Ends == {k \in 1..Len(input) - 1 : At(input, CRLF, k)}
LinesKept ==
  LET ends == Ends
      all == log \o lines
      isLine(i, j) == /\ i = 1 \/ i - 2 \in ends
                      /\ j + 1 \in ends
                      /\ \A k \in ends : k < i - 1 \/ k > j
      blank == 1 \in ends \/ \E k \in ends : k + 2 \in ends \/ k - 1 \in cuts
  IN blank \/
       /\ Text(FlattenSeq(all)) = Text(SubSeq(input, 1, read))
       /\ \A i \in 1..read : \A j \in i..read - 2 :
            isLine(i, j) /\ (\A k \in cuts : k < i - 2 \/ k = i - 1 \/ k > j + 1)
              => \E k \in 1..Len(all) : all[k] \in {SubSeq(input, i, j), SubSeq(input, i, j + 2)}
=============================================================================
