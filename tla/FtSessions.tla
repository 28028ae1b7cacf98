----------------------------- MODULE FtSessions -----------------------------
(***************************************************************************)
(* The IRC server of src/42-Ft_irc-main: connections, PASS, NICK, USER and *)
(* QUIT.  An action is one line of a client executed to the end            *)
(* (Command::Execute and what it dispatches to), an accepted connection or *)
(* one that ended; the server is one thread.                               *)
(*                                                                         *)
(* Two things make the order of lines matter.  A nick that is refused sets *)
(* _alreadyRegistered: USER then does not log the client in, and the next  *)
(* accepted NICK does, with or without USER, outside of the try block that *)
(* USER has around login().  And USER or QUIT may remove the client whose  *)
(* segment Execute is walking through: the lines that remain are looked up *)
(* under a descriptor nobody has.                                          *)
(*                                                                         *)
(* Abstracted: a password is right or not (none was given: not; a server   *)
(* started with the password "*" is not modelled), the user and real name  *)
(* are given or not.  What leaving means for the channels is in FtChannel. *)
(***************************************************************************)
EXTENDS Integers

CONSTANTS
  Fds,    \* descriptors accept() may return
  Nicks,
  Star,   \* "*", the nick of a client that has none
  NoFd

ASSUME FtSessionsConstants ==
  /\ Fds \subseteq Nat
  /\ NoFd \notin Fds
  /\ Star \notin Nicks

VARIABLES
  sessions,  \* Server::_clients, by descriptor
  batch,     \* NoFd, or whose segment has lines left after its client is gone
  status,    \* "running"; "crashed"; "ended": an exception reached main()
  refused    \* history: descriptors of clients that were once refused a nick

vars == <<sessions, batch, status, refused>>

Session == [nick : Nicks \cup {Star}, pass : BOOLEAN, user : BOOLEAN,
            login : BOOLEAN, already : BOOLEAN]

New == [nick |-> Star, pass |-> FALSE, user |-> FALSE,
        login |-> FALSE, already |-> FALSE]

Connected == DOMAIN sessions

Init ==
  /\ sessions = [f \in {} |-> New]
  /\ batch = NoFd
  /\ status = "running"
  /\ refused = {}
-----------------------------------------------------------------------------
\* Only clients that are logged in are asked.
GetClientByNickName_LoggedIn(n) ==
  {f \in Connected : sessions[f].nick = n /\ sessions[f].login}

\* Whom getClientByNickName may return; NULL when there is nobody.
GetClientByNickName(n) == {f \in Connected : sessions[f].nick = n}

Idle == status = "running" /\ batch = NoFd

\* accept() and listen(fd, hostName): the kernel returns the lowest free
\* descriptor.
Accept ==
  /\ Idle
  /\ \E f \in Fds \ Connected :
       /\ \A g \in Fds \ Connected : f <= g
       /\ sessions' = [g \in Connected \cup {f} |->
                         IF g = f THEN New ELSE sessions[g]]
  /\ UNCHANGED <<batch, status, refused>>

\* The client is told goodbye and its entry stays.
RemoveClient_KeepEntry(f) ==
  /\ sessions' = sessions
  /\ refused' = refused \ {f}

\* Server::removeClient.
RemoveClient(f) ==
  /\ sessions' = [g \in Connected \ {f} |-> sessions[g]]
  /\ refused' = refused \ {f}

\* recv() returned 0: read() removes the client, and the empty message it
\* returns has no lines.
Hangup(f) ==
  /\ Idle
  /\ f \in Connected
  /\ RemoveClient(f)
  /\ UNCHANGED <<batch, status>>

HasLine(f) == Idle /\ f \in Connected

\* PASS: the word is kept and looked at when the client logs in; it may come
\* again at any time.
Pass(f, right) ==
  /\ HasLine(f)
  /\ sessions' = [sessions EXCEPT ![f].pass = right]
  /\ UNCHANGED <<batch, status, refused>>

\* A nick that was refused is forgotten once another one is accepted, and
\* USER is left to log in.
NickAccepted_Forgets(f, n) ==
  /\ HasLine(f)
  /\ GetClientByNickName(n) = {}
  /\ sessions' = [sessions EXCEPT ![f].nick = n, ![f].already = FALSE]
  /\ UNCHANGED <<batch, status, refused>>

\* Every accepted nick logs in.
NickAccepted_Always(f, n) ==
  /\ HasLine(f)
  /\ GetClientByNickName(n) = {}
  /\ sessions' = [sessions EXCEPT ![f].nick = n, ![f].already = FALSE,
                                  ![f].login = @ \/ sessions[f].pass]
  /\ status' = IF sessions[f].pass THEN "running" ELSE "ended"
  /\ UNCHANGED <<batch, refused>>

\* NICK, accepted.  After a refusal it logs in; PasswordMismatchException is
\* caught by nobody on the way to main().
NickAccepted(f, n) ==
  /\ HasLine(f)
  /\ GetClientByNickName(n) = {}
  /\ LET s == sessions[f]
     IN /\ sessions' = [sessions EXCEPT ![f].nick = n, ![f].already = FALSE,
                          ![f].login = @ \/ (s.already /\ s.pass)]
        /\ status' = IF s.already /\ ~s.pass THEN "ended" ELSE "running"
  /\ UNCHANGED <<batch, refused>>

\* NICK, refused: to the client's own nick too, and "*" as long as anybody,
\* the client itself perhaps, has no nick.
NickRefused(f, n) ==
  /\ HasLine(f)
  /\ GetClientByNickName(n) # {}
  /\ sessions' = [sessions EXCEPT ![f].already = TRUE]
  /\ refused' = refused \cup {f}
  /\ UNCHANGED <<batch, status>>

\* USER, with the right password.  A line of fewer than five words makes
\* userParse read past the end of its vector.
UserAccepted(f, whole) ==
  /\ HasLine(f)
  /\ sessions[f].pass
  /\ sessions' = [sessions EXCEPT ![f].user = TRUE,
                                  ![f].login = @ \/ ~sessions[f].already]
  /\ status' \in IF whole THEN {"running"} ELSE {"running", "crashed"}
  /\ UNCHANGED <<batch, refused>>

\* USER without it: the client is removed, and the segment goes on.
UserRejected(f, whole) ==
  /\ HasLine(f)
  /\ ~sessions[f].pass
  /\ RemoveClient(f)
  /\ batch' \in {NoFd, f}
  /\ status' \in IF whole THEN {"running"} ELSE {"running", "crashed"}

Quit(f) ==
  /\ HasLine(f)
  /\ RemoveClient(f)
  /\ batch' \in {NoFd, f}
  /\ UNCHANGED status

\* A line whose client is gone: getClient() is NULL, and all but another QUIT
\* and the lines Checker refuses for their format go through it.
LineOfNobody ==
  /\ status = "running"
  /\ batch # NoFd
  /\ status' = "crashed"
  /\ UNCHANGED <<sessions, batch, refused>>

\* The segment ends, or a line is empty, which stops the loop.
EndOfSegment ==
  /\ status = "running"
  /\ batch # NoFd
  /\ batch' = NoFd
  /\ UNCHANGED <<sessions, status, refused>>

Line(f) ==
  \/ \E right \in BOOLEAN : Pass(f, right)
  \/ \E n \in Nicks \cup {Star} : NickAccepted(f, n) \/ NickRefused(f, n)
  \/ \E whole \in BOOLEAN : UserAccepted(f, whole) \/ UserRejected(f, whole)
  \/ Quit(f)

Next ==
  \/ Accept
  \/ LineOfNobody
  \/ EndOfSegment
  \/ \E f \in Fds : Hangup(f) \/ Line(f)

Spec == Init /\ [][Next]_vars
-----------------------------------------------------------------------------
(* Properties *)

\* The values the variables range over.  The lines left over are those of a
\* client that is gone.
TypeOK ==
  /\ Connected \subseteq Fds
  /\ \A f \in Connected : sessions[f] \in Session
  /\ batch \in Fds \cup {NoFd}
  /\ batch \notin Connected
  /\ status \in {"running", "crashed", "ended"}
  /\ refused \subseteq Connected

\* Nobody is left outside.  While the server runs, a client that sent USER and
\* was not removed is logged in, or else the flag _alreadyRegistered is up and
\* its next accepted NICK will log it in or end the server, in whichever order
\* PASS, NICK, USER and refusals came.
UserIsLoggedIn ==
  status = "running" =>
    \A f \in Connected :
      sessions[f].user => sessions[f].login \/ sessions[f].already

\* The way in without USER needs a refused nick: a client that is logged in
\* sent USER, or NICK was refused to it before.
LoginPath ==
  \A f \in Connected : sessions[f].login => sessions[f].user \/ f \in refused

\* Nicks other than "*" behave as NickRegistry says: no two clients have the
\* same, and one changes hands only after its holder gave it up.
Holding == {<<f, sessions[f].nick>> : f \in {g \in Connected : sessions[g].nick # Star}}
Registry == INSTANCE NickRegistry WITH held <- Holding
ImplementsRegistry == Registry!Spec
=============================================================================
