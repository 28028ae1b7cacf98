------------------------------ MODULE MCFtText ------------------------------
(* What a client may send, for TLC. *)
EXTENDS FtText

SeqsUpTo(S, n) == UNION {[1..k -> S] : k \in 0..n}

\* Lines of command c whose arguments are tokens of S, at most n of them.
LinesOf(C, S, n) == {<<c, " ">> \o s : c \in C, s \in SeqsUpTo(S, n)}

OneLine ==
  UNION {LinesOf({"PRIVMSG", "QUIT", "KICK", "TOPIC"}, {" ", "#c", ":", "x"}, 5),
         LinesOf({"WHO", "NICK", "INVITE", "PART", "JOIN"}, {" ", "#c", "x"}, 5),
         LinesOf({"NOTICE", "WHOIS", "PASS"}, {" ", "#c", "x"}, 2),
         LinesOf({"USER"}, {" ", "x"}, 7),
         {<<"MODE", " ", "#c">> \o s : s \in SeqsUpTo({" ", "+b", "-b", "x", "@"}, 5)},
         LinesOf({"MODE"}, {" ", "#c", "+l", "-l", "+o", "5"}, 4)}

\* Some lines, one after the other; the third may be empty.
Some == {<<"JOIN", " ", "#c">>, <<"NICK", " ", "x">>, <<"x">>}
SomeLines ==
  {a \o CRLF \o b \o c \o CRLF \o d : a \in Some, b \in Some, c \in {<<>>, CRLF},
                                     d \in {<<>>} \cup Some}

\* Single lines come at once, with or without their end.
MCInputs ==
  {<<l, 1>> : l \in OneLine} \cup {<<l \o CRLF, 1>> : l \in OneLine}
    \cup {<<l, 3>> : l \in SomeLines}
MCWorlds == {<<"guest", 0>>, <<"member", 1>>, <<"operator", 2>>}
=============================================================================
