--------------------------- MODULE AmaServerProofs ---------------------------
(* Theorems about AmaServer, for every value of its constants. *)
EXTENDS AmaServer, SharedLemmas

-----------------------------------------------------------------------------
(* Erasing the first entry that satisfies a test. *)

\* Whatever position goes, the others stay, and their order.
LEMMA DropFirstProperties ==
  ASSUME NEW S, NEW s \in Seq(S), NEW I \in SUBSET (1..Len(s))
  PROVE  /\ DropFirst(s, I) \in Seq(S)
         /\ Len(DropFirst(s, I)) <= Len(s)
         /\ \A i \in 1..Len(s) : i \notin I =>
              \E j \in 1..Len(DropFirst(s, I)) : DropFirst(s, I)[j] = s[i]
         /\ \A j \in 1..Len(DropFirst(s, I)) :
              \E i \in 1..Len(s) : DropFirst(s, I)[j] = s[i]
<1>0. Len(s) \in Nat
  BY LenProperties
<1>1. CASE \E k \in I : \A j \in I : k <= j
  <2> DEFINE k == CHOOSE x \in I : \A j \in I : x <= j
             t == RemoveAt(s, k)
  <2>1. k \in I /\ k \in 1..Len(s) /\ DropFirst(s, I) = t
    BY <1>1 DEF DropFirst
  <2> HIDE DEF k
  <2>2. /\ t \in Seq(S) /\ Len(t) = Len(s) - 1
        /\ \A i \in 1..Len(s) - 1 : t[i] = s[IF i < k THEN i ELSE i + 1]
    BY <2>1, RemoveAtProperties
  <2> HIDE DEF t
  <2>3. ASSUME NEW i \in 1..Len(s), i \notin I
        PROVE  \E j \in 1..Len(t) : t[j] = s[i]
    <3>1. CASE i < k
      <4>1. i \in 1..Len(t) /\ t[i] = s[i]
        BY <1>0, <2>1, <2>2, <3>1
      <4> QED
        BY <4>1
    <3>2. CASE i > k
      <4>1. i - 1 \in 1..Len(t) /\ t[i - 1] = s[i]
        BY <1>0, <2>1, <2>2, <3>2
      <4> QED
        BY <4>1
    <3> QED
      BY <1>0, <2>1, <2>3, <3>1, <3>2
  <2>4. ASSUME NEW j \in 1..Len(t)
        PROVE  \E i \in 1..Len(s) : t[j] = s[i]
    BY <1>0, <2>1, <2>2
  <2>5. Len(t) <= Len(s)
    BY <1>0, <2>2
  <2> QED
    BY <2>1, <2>2, <2>3, <2>4, <2>5, Zenon
<1>2. CASE ~ (\E k \in I : \A j \in I : k <= j)
  <2>1. DropFirst(s, I) = s
    BY <1>2 DEF DropFirst
  <2> QED
    BY <1>0, <2>1
<1> QED
  BY <1>1, <1>2

-----------------------------------------------------------------------------
(* Connections and their nicks.  UniqueNicks is not inductive by itself:   *)
(* Nick::nick looks at _nickList only, so what has to be preserved is that *)
(* every nick in use is in the list under its own descriptor, which        *)
(* RegistrationOrder says, and that two entries of _clients never share an *)
(* object.                                                                 *)

OwnObjects ==
  /\ open \subseteq DOMAIN clients
  /\ \A f \in DOMAIN clients : Obj(f).fd \in Fds
  /\ \A f, g \in DOMAIN clients : clients[f] = clients[g] => f = g

SInv == /\ SessionsOK
        /\ OwnObjects
        /\ RegistrationOrder
        /\ UniqueNicks

sessionVars == <<open, clients, heap, nickList, batch>>

LEMMA SInvInit == Init => SInv
BY EmptySeq, AmaConstants
   DEF Init, SInv, SessionsOK, OwnObjects, RegistrationOrder,
       UniqueNicks, Empty, Fresh, Objects, Names

LEMMA SInvStutter == SInv /\ UNCHANGED sessionVars => SInv'
BY DEF SInv, SessionsOK, OwnObjects, RegistrationOrder, Listed,
       UniqueNicks, Obj, sessionVars

\* Erasing an entry of f leaves the nicks of the others in the list.
LEMMA EraseFirstKeepsOthers ==
  ASSUME SessionsOK, NEW f
  PROVE  /\ EraseFirst(nickList, f) \in Seq([fd : Fds, nick : Names])
         /\ \A g, n : g # f /\ Listed(g, n) =>
              \E j \in 1..Len(EraseFirst(nickList, f)) :
                EraseFirst(nickList, f)[j] = [fd |-> g, nick |-> n]
<1> DEFINE I == {i \in 1..Len(nickList) : nickList[i].fd = f}
<1>1. I \in SUBSET (1..Len(nickList))
  OBVIOUS
<1>2. EraseFirst(nickList, f) = DropFirst(nickList, I)
  BY DEF EraseFirst
<1>3. /\ DropFirst(nickList, I) \in Seq([fd : Fds, nick : Names])
      /\ \A i \in 1..Len(nickList) : i \notin I =>
           \E j \in 1..Len(DropFirst(nickList, I)) :
             DropFirst(nickList, I)[j] = nickList[i]
  <2>1. nickList \in Seq([fd : Fds, nick : Names])
    BY DEF SessionsOK
  <2> HIDE DEF I
  <2> QED
    BY <1>1, <2>1, DropFirstProperties
<1>4. ASSUME NEW g, NEW n, g # f, Listed(g, n)
      PROVE  \E j \in 1..Len(DropFirst(nickList, I)) :
               DropFirst(nickList, I)[j] = [fd |-> g, nick |-> n]
  <2>1. PICK i \in 1..Len(nickList) : nickList[i] = [fd |-> g, nick |-> n]
    BY <1>4 DEF Listed
  <2>2. i \notin I
    BY <1>4, <2>1
  <2> QED
    BY <1>3, <2>1, <2>2
<1> QED
  BY <1>2, <1>3, <1>4

LEMMA SInvClose ==
  ASSUME SInv, NEW f \in Fds, CloseConnection(f), UNCHANGED heap,
         batch' \in Fds \cup {NoFd}
  PROVE  SInv'
<1>1. CASE f \in open
  <2>1. /\ open' = open \ {f}
        /\ DOMAIN clients' = DOMAIN clients \ {f}
        /\ \A g \in DOMAIN clients' : clients'[g] = clients[g]
        /\ nickList' = EraseFirst(nickList, f)
        /\ heap' = heap
    BY <1>1 DEF CloseConnection, Without
  <2>2. /\ nickList' \in Seq([fd : Fds, nick : Names])
        /\ \A g, n : g # f /\ Listed(g, n) => Listed(g, n)'
    <3>1. /\ EraseFirst(nickList, f) \in Seq([fd : Fds, nick : Names])
          /\ \A g, n : g # f /\ Listed(g, n) =>
               \E j \in 1..Len(EraseFirst(nickList, f)) :
                 EraseFirst(nickList, f)[j] = [fd |-> g, nick |-> n]
      BY EraseFirstKeepsOthers DEF SInv
    <3> QED
      BY <2>1, <3>1, Zenon DEF Listed
  <2>3. SessionsOK'
    BY <2>1, <2>2 DEF SInv, SessionsOK
  <2>4. OwnObjects'
    BY <2>1 DEF SInv, OwnObjects, Obj
  <2>5. \A g \in open' : g \in open /\ g # f /\ Obj(g)' = Obj(g)
    BY <2>1 DEF SInv, OwnObjects, Obj
  <2>6. UniqueNicks'
    BY <2>5 DEF SInv, UniqueNicks
  <2>7. RegistrationOrder'
    BY <2>2, <2>5 DEF SInv, RegistrationOrder
  <2> QED
    BY <2>3, <2>4, <2>6, <2>7 DEF SInv
<1>2. CASE f \notin open
  <2>1. UNCHANGED <<open, clients, heap, nickList>>
    BY <1>2 DEF CloseConnection
  <2> QED
    BY <2>1 DEF SInv, SessionsOK, OwnObjects, RegistrationOrder,
                Listed, UniqueNicks, Obj
<1> QED
  BY <1>1, <1>2

\* A step that changes heap at one address only: the object of no other
\* descriptor changes.
LEMMA OthersUntouched ==
  ASSUME SInv, NEW f \in DOMAIN clients, NEW o,
         heap' = [heap EXCEPT ![clients[f]] = o], UNCHANGED clients
  PROVE  /\ Obj(f)' = o
         /\ \A g \in DOMAIN clients : g # f => Obj(g)' = Obj(g)
BY DEF SInv, SessionsOK, OwnObjects, Obj

LEMMA SInvAccept == SInv /\ Accept => SInv'
<1> SUFFICES ASSUME SInv, Accept PROVE SInv'
  OBVIOUS
<1>1. PICK f \in Fds \ open :
        /\ open' = open \cup {f}
        /\ \/ /\ f \in DOMAIN clients
              /\ heap' = [heap EXCEPT ![clients[f]] = Fresh(f)]
              /\ UNCHANGED clients
           \/ /\ f \notin DOMAIN clients
              /\ \E a \in Addrs \ InUse :
                   /\ clients' = Put(clients, f, a)
                   /\ heap' = [heap EXCEPT ![a] = Fresh(f)]
        /\ UNCHANGED <<nickList, batch>>
  BY DEF Accept
<1>2. Fresh(f) \in Objects
  BY DEF Fresh, Objects, Names
<1>3. /\ DOMAIN clients' = DOMAIN clients \cup {f}
      /\ \A g \in DOMAIN clients' : clients'[g] \in Addrs
      /\ heap' \in [Addrs -> Objects]
      /\ \A g, h \in DOMAIN clients' : clients'[g] = clients'[h] => g = h
      /\ Obj(f)' = Fresh(f)
      /\ \A g \in DOMAIN clients : g # f => Obj(g)' = Obj(g)
  <2>1. CASE f \in DOMAIN clients /\ UNCHANGED clients
               /\ heap' = [heap EXCEPT ![clients[f]] = Fresh(f)]
    <3>1. clients[f] \in Addrs
      BY <2>1 DEF SInv, SessionsOK
    <3> QED
      BY <1>2, <2>1, <3>1, OthersUntouched DEF SInv, SessionsOK, OwnObjects
  <2>2. ASSUME f \notin DOMAIN clients, NEW a \in Addrs \ InUse,
               clients' = Put(clients, f, a), heap' = [heap EXCEPT ![a] = Fresh(f)]
        PROVE  <1>3!1 /\ <1>3!2 /\ <1>3!3 /\ <1>3!4 /\ <1>3!5 /\ <1>3!6
    <3>1. /\ DOMAIN clients' = DOMAIN clients \cup {f}
          /\ clients'[f] = a
          /\ \A g \in DOMAIN clients : clients'[g] = clients[g] /\ clients[g] # a
      BY <2>2 DEF Put, InUse
    <3>2. /\ heap' \in [Addrs -> Objects]
          /\ heap'[a] = Fresh(f)
          /\ \A b \in Addrs : b # a => heap'[b] = heap[b]
      BY <1>2, <2>2 DEF SInv, SessionsOK
    <3> QED
      BY <3>1, <3>2 DEF SInv, SessionsOK, OwnObjects, Obj
  <2> QED
    BY <1>1, <2>1, <2>2
<1>4. SessionsOK'
  BY <1>1, <1>3 DEF SInv, SessionsOK
<1>5. OwnObjects'
  BY <1>1, <1>3 DEF SInv, OwnObjects, Fresh
<1>6. \A g \in open' : g # f => g \in open /\ Obj(g)' = Obj(g)
  BY <1>1, <1>3 DEF SInv, OwnObjects
<1>7. UniqueNicks'
  BY <1>1, <1>3, <1>6 DEF SInv, UniqueNicks, Fresh
<1>8. RegistrationOrder'
  BY <1>1, <1>3, <1>6 DEF SInv, RegistrationOrder, Listed, Fresh
<1> QED
  BY <1>4, <1>5, <1>7, <1>8 DEF SInv

LEMMA SInvNextLine == ASSUME NEW f \in Fds, SInv, NextLine(f) PROVE SInv'
<1>1. PICK a \in Addrs \ InUse, old \in Addrs :
        /\ heap[old].fd # NoFd
        /\ clients' = Put(clients, f, a)
        /\ heap' = [heap EXCEPT ![a] = [heap[old] EXCEPT !.nick = NoNick]]
  BY DEF NextLine
<1>2. f \notin DOMAIN clients /\ UNCHANGED <<open, nickList, batch>>
  BY DEF NextLine
<1>3. /\ [heap[old] EXCEPT !.nick = NoNick] \in Objects
      /\ [heap[old] EXCEPT !.nick = NoNick].fd \in Fds
  BY <1>1 DEF SInv, SessionsOK, Objects, Names
<1>4. /\ DOMAIN clients' = DOMAIN clients \cup {f}
      /\ clients'[f] = a
      /\ \A g \in DOMAIN clients : clients'[g] = clients[g] /\ clients[g] # a
  BY <1>1, <1>2 DEF Put, InUse
<1>5. /\ heap' \in [Addrs -> Objects]
      /\ heap'[a] = [heap[old] EXCEPT !.nick = NoNick]
      /\ \A b \in Addrs : b # a => heap'[b] = heap[b]
  BY <1>1, <1>3 DEF SInv, SessionsOK
<1>6. SessionsOK'
  BY <1>1, <1>2, <1>4, <1>5 DEF SInv, SessionsOK
<1>7. \A g \in DOMAIN clients : Obj(g)' = Obj(g)
  BY <1>4, <1>5 DEF SInv, SessionsOK, Obj
<1>8. Obj(f)'.fd \in Fds
  BY <1>3, <1>4, <1>5 DEF Obj
<1>9. OwnObjects'
  BY <1>2, <1>4, <1>7, <1>8 DEF SInv, OwnObjects
<1>10. RegistrationOrder' /\ UniqueNicks'
  BY <1>2, <1>7 DEF SInv, OwnObjects, RegistrationOrder, UniqueNicks,
                    Listed
<1> QED
  BY <1>6, <1>9, <1>10 DEF SInv

\* What PASS, NICK and USER do to the objects: only the one of f changes,
\* and it keeps its descriptor.
OwnUpdate(f) ==
  /\ f \in DOMAIN clients
  /\ UNCHANGED <<open, clients, batch>>
  /\ heap' \in [Addrs -> Objects]
  /\ \A g \in DOMAIN clients : g # f => Obj(g)' = Obj(g)
  /\ Obj(f)'.fd = Obj(f).fd

LEMMA SInvOwnUpdate ==
  ASSUME SInv, NEW f \in Fds, OwnUpdate(f),
         nickList' \in Seq([fd : Fds, nick : Names])
  PROVE  SessionsOK' /\ OwnObjects'
<1>1. SessionsOK'
  BY DEF SInv, SessionsOK, OwnUpdate
<1>2. OwnObjects'
  BY DEF SInv, OwnObjects, OwnUpdate
<1> QED
  BY <1>1, <1>2

LEMMA SInvPass == ASSUME NEW f \in Fds, SInv, Pass(f) PROVE SInv'
<1>1. /\ f \in DOMAIN clients /\ clients[f] \in Addrs
      /\ heap[clients[f]] \in Objects
      /\ heap' = [heap EXCEPT ![clients[f]].auth = TRUE]
      /\ UNCHANGED <<open, clients, nickList, batch>>
  BY DEF Pass, HasLine, SInv, SessionsOK
<1>2. /\ OwnUpdate(f)
      /\ Obj(f)'.nick = Obj(f).nick /\ Obj(f)'.hasNick = Obj(f).hasNick
      /\ Obj(f)'.loged = Obj(f).loged /\ Obj(f)'.auth = TRUE
  BY <1>1 DEF OwnUpdate, SInv, SessionsOK, OwnObjects, Obj, Objects
<1>3. SessionsOK' /\ OwnObjects'
  BY <1>1, <1>2, SInvOwnUpdate DEF SInv, SessionsOK
<1>4. RegistrationOrder' /\ UniqueNicks'
  BY <1>1, <1>2 DEF OwnUpdate, SInv, OwnObjects, RegistrationOrder,
                    UniqueNicks, Listed
<1> QED
  BY <1>3, <1>4 DEF SInv

LEMMA SInvUser == ASSUME NEW f \in Fds, SInv, User(f) PROVE SInv'
<1>1. /\ f \in DOMAIN clients /\ clients[f] \in Addrs
      /\ heap[clients[f]] \in Objects
      /\ Obj(f).hasNick
      /\ heap' = [heap EXCEPT ![clients[f]].loged = TRUE]
      /\ UNCHANGED <<open, clients, nickList, batch>>
  BY DEF User, HasLine, SInv, SessionsOK
<1>2. /\ OwnUpdate(f)
      /\ Obj(f)'.nick = Obj(f).nick /\ Obj(f)'.hasNick = Obj(f).hasNick
      /\ Obj(f)'.auth = Obj(f).auth
  BY <1>1 DEF OwnUpdate, SInv, SessionsOK, OwnObjects, Obj, Objects
<1>3. SessionsOK' /\ OwnObjects'
  BY <1>1, <1>2, SInvOwnUpdate DEF SInv, SessionsOK
<1>4. UniqueNicks'
  BY <1>1, <1>2 DEF OwnUpdate, SInv, OwnObjects, UniqueNicks,
                    Listed
<1>5. RegistrationOrder'
  <2>1. f \in open => /\ Obj(f)'.fd = f
                      /\ Obj(f)'.hasNick
                      /\ Obj(f)'.auth /\ Listed(f, Obj(f)'.nick)
    BY <1>1, <1>2, Zenon DEF OwnUpdate, SInv, RegistrationOrder
  <2>2. \A g \in open : g # f => Obj(g)' = Obj(g)
    BY <1>2 DEF OwnUpdate, SInv, OwnObjects
  <2>3. \A g, n : Listed(g, n)' <=> Listed(g, n)
    BY <1>1 DEF Listed
  <2> QED
    BY <1>1, <2>1, <2>2, <2>3 DEF SInv, RegistrationOrder
<1> QED
  BY <1>3, <1>4, <1>5 DEF SInv

LEMMA SInvNick ==
  ASSUME NEW f \in Fds, NEW n \in Names, SInv, Nick(f, n) PROVE SInv'
<1> DEFINE e == [fd |-> Obj(f).fd, nick |-> n]
<1>1. /\ f \in DOMAIN clients /\ clients[f] \in Addrs
      /\ heap[clients[f]] \in Objects
      /\ Obj(f).auth /\ ~IsNickTaken(n)
      /\ heap' = [heap EXCEPT ![clients[f]].nick = n,
                              ![clients[f]].hasNick = TRUE]
      /\ nickList' = Append(nickList, e)
      /\ UNCHANGED <<open, clients, batch>>
  BY DEF Nick, HasLine, SInv, SessionsOK
<1>2. /\ OwnUpdate(f)
      /\ Obj(f)'.nick = n /\ Obj(f)'.hasNick = TRUE
      /\ Obj(f)'.auth = Obj(f).auth
  BY <1>1 DEF OwnUpdate, SInv, SessionsOK, OwnObjects, Obj, Objects
<1>3. e \in [fd : Fds, nick : Names] /\ Len(nickList) \in Nat
  BY <1>1, LenProperties DEF SInv, SessionsOK, OwnObjects
<1>4. /\ nickList' \in Seq([fd : Fds, nick : Names])
      /\ Len(nickList') = Len(nickList) + 1
      /\ \A i \in 1..Len(nickList) : nickList'[i] = nickList[i]
      /\ nickList'[Len(nickList) + 1] = e
  <2> HIDE DEF e
  <2> QED
    BY <1>1, <1>3, AppendProperties DEF SInv, SessionsOK
<1>5. SessionsOK' /\ OwnObjects'
  BY <1>2, <1>4, SInvOwnUpdate
<1>6. /\ \A g, m : Listed(g, m) => Listed(g, m)'
      /\ Listed(Obj(f).fd, n)'
  <2>1. ASSUME NEW g, NEW m, Listed(g, m) PROVE Listed(g, m)'
    <3>1. PICK i \in 1..Len(nickList) : nickList[i] = [fd |-> g, nick |-> m]
      BY <2>1 DEF Listed
    <3>2. i \in 1..Len(nickList') /\ nickList'[i] = [fd |-> g, nick |-> m]
      BY <1>3, <1>4, <3>1
    <3> QED
      BY <3>2, Zenon DEF Listed
  <2>2. Listed(Obj(f).fd, n)'
    <3>1. Len(nickList) + 1 \in 1..Len(nickList')
      BY <1>3, <1>4
    <3> QED
      BY <1>1, <1>2, <1>4, <3>1 DEF Listed, OwnUpdate
  <2> QED
    BY <2>1, <2>2
<1>7. \A g \in open : Obj(g).hasNick => Obj(g).nick # n
  <2>1. \A g \in open : Obj(g).hasNick /\ Obj(g).nick = n => Listed(g, n)
    BY DEF SInv, RegistrationOrder
  <2>2. ASSUME NEW g, Listed(g, n) PROVE IsNickTaken(n)
    BY <2>2 DEF Listed, IsNickTaken
  <2> QED
    BY <1>1, <2>1, <2>2
<1>8. RegistrationOrder'
  <2>1. f \in open => /\ Obj(f)'.fd = f
                      /\ Obj(f)'.hasNick
                      /\ Obj(f)'.auth /\ Listed(f, n)'
    BY <1>1, <1>2, <1>6, Zenon DEF OwnUpdate, SInv, RegistrationOrder
  <2>2. \A g \in open : g # f => Obj(g)' = Obj(g)
    BY <1>2 DEF OwnUpdate, SInv, OwnObjects
  <2>3. ASSUME NEW g \in open, g # f
        PROVE  Obj(g)'.hasNick => Listed(g, Obj(g).nick)'
    BY <1>6, <2>2, <2>3 DEF SInv, RegistrationOrder
  <2> QED
    BY <1>1, <1>2, <2>1, <2>2, <2>3 DEF SInv, RegistrationOrder
<1>9. UniqueNicks'
  BY <1>1, <1>2, <1>7 DEF OwnUpdate, SInv, OwnObjects, UniqueNicks
<1> QED
  BY <1>5, <1>8, <1>9 DEF SInv

LEMMA SInvQuit == ASSUME NEW f \in Fds, SInv, Quit(f) PROVE SInv'
<1>1. f \in DOMAIN clients /\ Obj(f).fd \in Fds /\ UNCHANGED heap
  BY DEF Quit, LoggedIn, HasLine, SInv, OwnObjects
<1>2. /\ CloseConnection(Obj(f).fd) \/ CloseConnection(f)
      /\ batch' \in Fds \cup {NoFd}
  BY DEF Quit
<1> QED
  BY <1>1, <1>2, SInvClose

LEMMA ChannelCommandKeepsSessions ==
  ASSUME NEW f \in Fds, ChannelCommand(f) PROVE UNCHANGED sessionVars
BY DEF ChannelCommand, Join, Create, Part, Kick, Topic, ChannelMsg, sessionVars

LEMMA SInvNext == SInv /\ [Next]_vars => SInv'
<1> SUFFICES ASSUME SInv, [Next]_vars PROVE SInv'
  OBVIOUS
<1>1. CASE Accept
  BY <1>1, SInvAccept
<1>2. CASE EndOfSegment
  BY <1>2 DEF EndOfSegment, SInv, SessionsOK, OwnObjects, RegistrationOrder,
              Listed, UniqueNicks, Obj
<1>3. ASSUME NEW f \in Fds, Disconnect(f) PROVE SInv'
  <2>1. batch' \in Fds \cup {NoFd}
    BY <1>3 DEF Disconnect, SInv, SessionsOK
  <2> QED
    BY <1>3, <2>1, SInvClose DEF Disconnect
<1>4. ASSUME NEW f \in Fds, NextLine(f) PROVE SInv'
  BY <1>4, SInvNextLine
<1>5. ASSUME NEW f \in Fds, Register(f) PROVE SInv'
  BY <1>5, SInvPass, SInvUser, SInvNick DEF Register
<1>6. ASSUME NEW f \in Fds, ChannelCommand(f) PROVE SInv'
  BY <1>6, ChannelCommandKeepsSessions, SInvStutter
<1>7. ASSUME NEW f \in Fds, Quit(f) PROVE SInv'
  BY <1>7, SInvQuit
<1>8. CASE UNCHANGED vars
  BY <1>8, SInvStutter DEF vars, sessionVars
<1> QED
  BY <1>1, <1>2, <1>3, <1>4, <1>5, <1>6, <1>7, <1>8 DEF Next

LEMMA SessionInvariant == Spec => []SInv
<1> QED
  BY SInvInit, SInvNext, PTL DEF Spec

\* Two open connections never hold the same nick, nor both the empty one.
THEOREM NicksAreUnique == Spec => []UniqueNicks
<1>1. SInv => UniqueNicks
  BY DEF SInv
<1> QED
  BY <1>1, SessionInvariant, PTL

\* A connection that is logged in sent NICK; one that did gave the password,
\* and its nick, maybe the empty one, is in the list under its descriptor.
THEOREM RegistrationIsOrdered == Spec => []RegistrationOrder
<1>1. SInv => RegistrationOrder
  BY DEF SInv
<1> QED
  BY <1>1, SessionInvariant, PTL

-----------------------------------------------------------------------------
(* The nicks of the open connections implement NickRegistry: what the      *)
(* server does to Holding is a claim, a release, or nothing.               *)

LEMMA HoldingStutter ==
  ASSUME UNCHANGED open,
         \A g \in open : /\ Obj(g)'.nick = Obj(g).nick
                         /\ Obj(g)'.hasNick = Obj(g).hasNick
  PROVE  UNCHANGED Holding
BY DEF Holding

LEMMA HoldingAccept == SInv /\ Accept => UNCHANGED Holding
<1> SUFFICES ASSUME SInv, Accept PROVE UNCHANGED Holding
  OBVIOUS
<1>1. PICK f \in Fds \ open :
        /\ open' = open \cup {f}
        /\ \/ /\ f \in DOMAIN clients
              /\ heap' = [heap EXCEPT ![clients[f]] = Fresh(f)]
              /\ UNCHANGED clients
           \/ \E a \in Addrs \ InUse :
                /\ clients' = Put(clients, f, a)
                /\ heap' = [heap EXCEPT ![a] = Fresh(f)]
  BY DEF Accept
<1>2. ~Obj(f)'.hasNick /\ \A g \in open : Obj(g)' = Obj(g)
  <2>1. CASE f \in DOMAIN clients /\ UNCHANGED clients
               /\ heap' = [heap EXCEPT ![clients[f]] = Fresh(f)]
    <3>1. /\ Obj(f)' = Fresh(f)
          /\ \A g \in DOMAIN clients : g # f => Obj(g)' = Obj(g)
      BY <2>1, OthersUntouched
    <3> QED
      BY <1>1, <3>1 DEF SInv, OwnObjects, Fresh
  <2>2. ASSUME NEW a \in Addrs \ InUse, clients' = Put(clients, f, a),
               heap' = [heap EXCEPT ![a] = Fresh(f)]
        PROVE  ~Obj(f)'.hasNick /\ \A g \in open : Obj(g)' = Obj(g)
    <3>1. /\ clients'[f] = a
          /\ \A g \in open : clients'[g] = clients[g] /\ clients[g] # a
      BY <1>1, <2>2 DEF Put, InUse, SInv, OwnObjects
    <3> QED
      BY <2>2, <3>1 DEF SInv, SessionsOK, OwnObjects, Obj, Fresh
  <2> QED
    BY <1>1, <2>1, <2>2
<1>3. {g \in open' : Obj(g)'.hasNick} = {g \in open : Obj(g).hasNick}
  BY <1>1, <1>2
<1>4. Holding' = {<<g, Obj(g)'.nick>> : g \in {h \in open' : Obj(h)'.hasNick}}
  BY DEF Holding
<1> QED
  BY <1>2, <1>3, <1>4 DEF Holding

LEMMA HoldingClose ==
  ASSUME SInv, NEW f \in Fds, CloseConnection(f), UNCHANGED heap
  PROVE  UNCHANGED Holding \/ Registry!Release(f)
<1>1. CASE f \in open
  <2>1. open' = open \ {f} /\ \A g \in open' : Obj(g)' = Obj(g)
    BY <1>1 DEF CloseConnection, Without, SInv, OwnObjects, Obj
  <2>2. Holding' = {p \in Holding : p[1] # f}
    BY <2>1 DEF Holding
  <2> QED
    BY <2>2 DEF Registry!Release
<1>2. CASE f \notin open
  BY <1>2 DEF CloseConnection, Holding, Obj
<1> QED
  BY <1>1, <1>2

LEMMA HoldingNick ==
  ASSUME SInv, NEW f \in Fds, NEW n \in Names, Nick(f, n)
  PROVE  UNCHANGED Holding \/ Registry!Claim(f, n)
<1>1. /\ f \in DOMAIN clients
      /\ clients[f] \in Addrs
      /\ ~IsNickTaken(n)
      /\ heap' = [heap EXCEPT ![clients[f]].nick = n,
                              ![clients[f]].hasNick = TRUE]
      /\ UNCHANGED <<open, clients>>
  BY DEF Nick, HasLine, SInv, SessionsOK
<1>2. /\ Obj(f)'.nick = n /\ Obj(f)'.hasNick = TRUE
      /\ \A g \in DOMAIN clients : g # f => Obj(g)' = Obj(g)
  BY <1>1 DEF SInv, SessionsOK, OwnObjects, Obj, Objects
<1>3. CASE f \in open
  <2>2. ASSUME NEW p \in Holding PROVE p[2] # n
    <3>1. PICK g \in open : p = <<g, Obj(g).nick>> /\ Obj(g).hasNick
      BY <2>2 DEF Holding
    <3>2. Listed(g, Obj(g).nick)
      BY <3>1 DEF SInv, RegistrationOrder
    <3> QED
      BY <1>1, <3>1, <3>2 DEF Listed, IsNickTaken
  <2>3. Holding' = {p \in Holding : p[1] # f} \cup {<<f, n>>}
    <3>1. \A g \in open : g # f => Obj(g)' = Obj(g)
      BY <1>2 DEF SInv, OwnObjects
    <3>2. Holding' = {<<g, Obj(g)'.nick>> : g \in {h \in open : Obj(h)'.hasNick}}
      BY <1>1 DEF Holding
    <3> QED
      BY <1>2, <1>3, <3>1, <3>2 DEF Holding
  <2> QED
    BY <2>2, <2>3 DEF Registry!Claim, Registry!Free
<1>4. CASE f \notin open
  BY <1>1, <1>2, <1>4, HoldingStutter DEF SInv, OwnObjects
<1> QED
  BY <1>3, <1>4

LEMMA RegistryStep ==
  SInv /\ [Next]_vars => [Registry!Next]_Holding
<1> SUFFICES ASSUME SInv, [Next]_vars
             PROVE  UNCHANGED Holding \/ Registry!Next
  OBVIOUS
<1>1. CASE Accept
  BY <1>1, HoldingAccept
<1>2. CASE EndOfSegment
  BY <1>2 DEF EndOfSegment, Holding, Obj
<1>3. ASSUME NEW f \in Fds, Disconnect(f)
      PROVE  UNCHANGED Holding \/ Registry!Next
  BY <1>3, HoldingClose DEF Disconnect, Registry!Next
<1>4. ASSUME NEW f \in Fds, NextLine(f) PROVE UNCHANGED Holding
  <2>1. PICK a \in Addrs \ InUse, old \in Addrs :
          /\ f \notin DOMAIN clients /\ UNCHANGED open
          /\ clients' = Put(clients, f, a)
          /\ heap' = [heap EXCEPT ![a] = [heap[old] EXCEPT !.nick = NoNick]]
    BY <1>4 DEF NextLine
  <2>2. \A g \in open : clients'[g] = clients[g] /\ clients[g] # a
    BY <2>1 DEF Put, InUse, SInv, OwnObjects
  <2>3. \A g \in open : Obj(g)' = Obj(g)
    BY <2>1, <2>2 DEF SInv, SessionsOK, OwnObjects, Obj
  <2> QED
    BY <2>1, <2>3, HoldingStutter
<1>5. ASSUME NEW f \in Fds, Register(f)
      PROVE  UNCHANGED Holding \/ Registry!Next
  <2>1. CASE Pass(f) \/ User(f)
    <3>1. /\ UNCHANGED open
          /\ \A g \in open : /\ Obj(g)'.nick = Obj(g).nick
                              /\ Obj(g)'.hasNick = Obj(g).hasNick
      BY <2>1 DEF Pass, User, HasLine, SInv, SessionsOK, OwnObjects, Obj, Objects
    <3> QED
      BY <3>1, HoldingStutter
  <2>2. ASSUME NEW n \in Names, Nick(f, n)
        PROVE  UNCHANGED Holding \/ Registry!Next
    BY <2>2, HoldingNick DEF Registry!Next
  <2> QED
    BY <1>5, <2>1, <2>2 DEF Register
<1>6. ASSUME NEW f \in Fds, ChannelCommand(f) PROVE UNCHANGED Holding
  BY <1>6, ChannelCommandKeepsSessions DEF sessionVars, Holding, Obj
<1>7. ASSUME NEW f \in Fds, Quit(f)
      PROVE  UNCHANGED Holding \/ Registry!Next
  <2>1. Obj(f).fd \in Fds /\ UNCHANGED heap
    BY <1>7 DEF Quit, LoggedIn, HasLine, SInv, OwnObjects
  <2>2. CloseConnection(Obj(f).fd) \/ CloseConnection(f)
    BY <1>7 DEF Quit
  <2> QED
    BY <2>1, <2>2, HoldingClose DEF Registry!Next
<1>8. CASE UNCHANGED vars
  BY <1>8 DEF vars, Holding, Obj
<1> QED
  BY <1>1, <1>2, <1>3, <1>4, <1>5, <1>6, <1>7, <1>8 DEF Next

\* AmaServer implements NickRegistry: a nick changes hands only after its
\* holder took another one or its connection ended.
THEOREM RegistryIsImplemented == Spec => ImplementsRegistry
<1>1. Init => Registry!Init
  BY DEF Init, Registry!Init, Holding
<1>2. SInv /\ [Next]_vars => [Registry!Next]_Holding
  BY RegistryStep
<1> QED
  BY <1>1, <1>2, SessionInvariant, PTL DEF Spec, ImplementsRegistry, Registry!Spec

-----------------------------------------------------------------------------
(* Type correctness.  The descriptors named in _nickList are valid because *)
(* every entry of _clients holds one, which is part of SInv.               *)

LEMMA LeaveType ==
  ASSUME ChannelsOK, NEW f, Leave(f)
  PROVE  roster' \subseteq Fds \X Chans /\ deeds' \subseteq Deeds
BY DEF ChannelsOK, Leave, Deeds

LEMMA CloseType ==
  ASSUME ChannelsOK, NEW f, CloseConnection(f)
  PROVE  roster' \subseteq Fds \X Chans /\ deeds' \subseteq Deeds
BY LeaveType DEF CloseConnection, ChannelsOK

LEMMA ReadingType == ASSUME NEW s PROVE Reading(s) \subseteq {"running", "crashed"}
BY DEF Reading

LEMMA ObjType ==
  ASSUME SInv, NEW f \in DOMAIN clients
  PROVE  clients[f] \in Addrs /\ Obj(f).nick \in Names
BY DEF SInv, SessionsOK, Obj, Objects

LEMMA PutType ==
  ASSUME ChannelsOK, NEW c \in Chans, NEW x \in Channel, channels' = Put(channels, c, x)
  PROVE  /\ DOMAIN channels' \subseteq Chans
         /\ \A d \in DOMAIN channels' : channels'[d] \in Channel
BY DEF ChannelsOK, Put

LEMMA RemoveType ==
  ASSUME SInv, ChannelsOK, NEW a \in Addrs, NEW c \in DOMAIN channels,
         RemoveClientFromChannel(a, c)
  PROVE  /\ DOMAIN channels' \subseteq Chans
         /\ \A d \in DOMAIN channels' : channels'[d] \in Channel
         /\ status' \in {"running", "crashed"}
<1> DEFINE rest == Erased(channels[c].members, a)
           op == IF channels[c].op = heap[a].nick THEN heap[Head(rest)].nick
                 ELSE channels[c].op
<1>0. channels[c] \in Channel
  BY DEF ChannelsOK
<1>1. rest \in Seq(Addrs)
  <2>1. channels[c].members \in Seq(Addrs)
    BY <1>0 DEF Channel
  <2> QED
    BY <2>1, DropFirstProperties DEF Erased
<1>2. CASE rest = <<>>
  <2>1. channels' = Without(channels, c) /\ status' \in {"running", "crashed"}
    BY <1>2 DEF RemoveClientFromChannel
  <2> QED
    BY <2>1 DEF ChannelsOK, Without
<1>3. CASE rest # <<>>
  <2>1. Head(rest) \in Addrs
    BY <1>1, <1>3, HeadTailProperties
  <2>2. op \in Names
    <3>1. heap[Head(rest)].nick \in Names
      BY <2>1 DEF SInv, SessionsOK, Objects
    <3> QED
      BY <1>0, <3>1 DEF Channel
  <2>3. channels' = [channels EXCEPT ![c].members = rest, ![c].op = op]
    BY <1>3 DEF RemoveClientFromChannel
  <2>5. status' \in {"running", "crashed"}
    BY <1>3, ReadingType DEF RemoveClientFromChannel
  <2> HIDE DEF rest, op
  <2>4. /\ DOMAIN channels' = DOMAIN channels
        /\ \A d \in DOMAIN channels : d # c => channels'[d] = channels[d]
        /\ channels'[c] \in Channel
    BY <1>0, <1>1, <2>2, <2>3 DEF Channel
  <2> QED
    BY <2>4, <2>5 DEF ChannelsOK
<1> QED
  BY <1>2, <1>3

LEMMA ChannelCommandType ==
  ASSUME SInv, ChannelsOK, NEW f \in Fds, ChannelCommand(f)
  PROVE  ChannelsOK'
<1>1. PICK c \in Chans :
        \/ \E k \in Keys \cup {NoKey} : Join(f, c, k) \/ Create(f, c, k)
        \/ Part(f, c)
        \/ \E n \in Names : Kick(f, c, n)
        \/ \E t \in Topics : Topic(f, c, t)
        \/ ChannelMsg(f, c)
  BY DEF ChannelCommand
<1>0. f \in DOMAIN clients
  BY <1>1 DEF Join, Create, Part, Kick, Topic, ChannelMsg, LoggedIn, HasLine
<1>2. ASSUME NEW k \in Keys \cup {NoKey}, Join(f, c, k) PROVE ChannelsOK'
  <2>1. c \in DOMAIN channels /\ channels[c] \in Channel
    BY <1>2 DEF Join, ChannelsOK
  <2>2. Append(channels[c].members, clients[f]) \in Seq(Addrs)
    BY <1>0, <2>1, ObjType, AppendProperties DEF Channel
  <2>3. channels' = [channels EXCEPT
                       ![c].members = Append(channels[c].members, clients[f])]
    BY <1>2 DEF Join
  <2>4. /\ DOMAIN channels' = DOMAIN channels
        /\ \A d \in DOMAIN channels : d # c => channels'[d] = channels[d]
        /\ channels'[c] \in Channel
    BY <2>1, <2>2, <2>3 DEF Channel
  <2> QED
    BY <1>2, <2>4, ReadingType DEF Join, ChannelsOK
<1>3. ASSUME NEW k \in Keys \cup {NoKey}, Create(f, c, k) PROVE ChannelsOK'
  <2> DEFINE x == [key |-> k, topic |-> NoTopic, op |-> Obj(f).nick,
                   members |-> <<clients[f]>>]
  <2>1. <<clients[f]>> \in Seq(Addrs)
    BY <1>0, ObjType
  <2>2. x \in Channel
    BY <1>0, <2>1, ObjType DEF Channel
  <2>3. channels' = Put(channels, c, x)
    BY <1>3 DEF Create
  <2> QED
    BY <1>3, <2>2, <2>3, PutType DEF Create, ChannelsOK
<1>4. CASE Part(f, c)
  BY <1>0, <1>4, ObjType, RemoveType DEF Part, ChannelsOK
<1>5. ASSUME NEW n \in Names, Kick(f, c, n) PROVE ChannelsOK'
  <2> DEFINE a == clients[GetClient(n)]
  <2>1. /\ c \in DOMAIN channels /\ a \in Members(c)
        /\ RemoveClientFromChannel(a, c)
        /\ roster' \subseteq roster
        /\ UNCHANGED deeds
    BY <1>5 DEF Kick
  <2>2. a \in Addrs
    <3>1. channels[c].members \in Seq(Addrs)
      BY <2>1 DEF ChannelsOK, Channel
    <3> QED
      BY <2>1, <3>1, LenProperties, ElementOfSeq DEF Members, ToSet
  <2> HIDE DEF a
  <2> QED
    BY <2>1, <2>2, RemoveType DEF ChannelsOK
<1>6. ASSUME NEW t \in Topics, Topic(f, c, t) PROVE ChannelsOK'
  <2>1. c \in DOMAIN channels /\ channels[c] \in Channel
    BY <1>6 DEF Topic, ChannelsOK
  <2>2. /\ DOMAIN channels' = DOMAIN channels
        /\ \A d \in DOMAIN channels : d # c => channels'[d] = channels[d]
        /\ channels'[c] \in Channel
    BY <1>6, <2>1 DEF Topic, Channel
  <2> QED
    BY <1>6, <2>2, ReadingType DEF Topic, ChannelsOK
<1>7. CASE ChannelMsg(f, c)
  BY <1>7, ReadingType DEF ChannelMsg, ChannelsOK
<1> QED
  BY <1>1, <1>2, <1>3, <1>4, <1>5, <1>6, <1>7

LEMMA ChannelsNext == SInv /\ ChannelsOK /\ [Next]_vars => ChannelsOK'
<1> SUFFICES ASSUME SInv, ChannelsOK, [Next]_vars PROVE ChannelsOK'
  OBVIOUS
<1>1. CASE Accept
  BY <1>1, LeaveType DEF Accept, ChannelsOK
<1>2. CASE EndOfSegment
  BY <1>2 DEF EndOfSegment, ChannelsOK
<1>3. ASSUME NEW f \in Fds, Disconnect(f) PROVE ChannelsOK'
  BY <1>3, CloseType DEF Disconnect, ChannelsOK
<1>4. ASSUME NEW f \in Fds, NextLine(f) PROVE ChannelsOK'
  BY <1>4 DEF NextLine, ChannelsOK, Deeds
<1>5. ASSUME NEW f \in Fds, Register(f) PROVE ChannelsOK'
  BY <1>5 DEF Register, Pass, User, Nick, ChannelsOK, Deeds
<1>6. ASSUME NEW f \in Fds, ChannelCommand(f) PROVE ChannelsOK'
  BY <1>6, ChannelCommandType
<1>7. ASSUME NEW f \in Fds, Quit(f) PROVE ChannelsOK'
  BY <1>7, CloseType DEF Quit, ChannelsOK
<1>8. CASE UNCHANGED vars
  BY <1>8 DEF vars, ChannelsOK
<1> QED
  BY <1>1, <1>2, <1>3, <1>4, <1>5, <1>6, <1>7, <1>8 DEF Next

\* The variables keep to their types.
THEOREM TypeCorrect == Spec => []TypeOK
<1>1. Init => ChannelsOK
  BY DEF Init, ChannelsOK, Empty
<1>2. SInv /\ ChannelsOK => TypeOK
  BY DEF SInv, TypeOK
<1> QED
  BY <1>1, <1>2, ChannelsNext, SessionInvariant, PTL DEF Spec

-----------------------------------------------------------------------------
(* Channels.  RosterKept and MembersJoined are about addresses, and hold   *)
(* because a live client has an address of its own (SInv) and a channel    *)
(* lists none twice: erasing the first entry of an address then removes    *)
(* the client, and nobody else.  OperatorOnChannel needs two facts more:   *)
(* that without a ghost every entry of _clients is open, and that whoever  *)
(* was told to be on a channel is logged in, so that the first nick a      *)
(* client takes is not a change of an operator's nick.                     *)

MembersDistinct == \A c \in DOMAIN channels : IsInjective(channels[c].members)

RosterLoged == \A p \in roster : Obj(p[1]).loged

NoGhosts == Done({"ghost"}) \/ DOMAIN clients \subseteq open

OperatorsNick ==
  Done({"left", "renick", "ghost"}) \/
    \A c \in DOMAIN channels : \E a \in Members(c) : heap[a].nick = channels[c].op

CInv == /\ SInv
        /\ ChannelsOK
        /\ RosterKept
        /\ MembersDistinct
        /\ MembersJoined
        /\ RosterLoged
        /\ NoGhosts
        /\ OperatorsNick

\* The address erased was listed once.
LEMMA ErasedProperties ==
  ASSUME NEW S, NEW s \in Seq(S), IsInjective(s), NEW a \in ToSet(s)
  PROVE  /\ Erased(s, a) \in Seq(S)
         /\ IsInjective(Erased(s, a))
         /\ ToSet(Erased(s, a)) = ToSet(s) \ {a}
<1> DEFINE I == {i \in 1..Len(s) : s[i] = a}
           k == CHOOSE x \in I : \A j \in I : x <= j
<1>0. Len(s) \in Nat /\ DOMAIN s = 1..Len(s)
  BY LenProperties
<1>1. PICK m \in I : TRUE
  BY <1>0 DEF ToSet
<1>2. \A j \in I : m <= j
  BY <1>0 DEF IsInjective
<1>3. k \in I
  BY <1>1, <1>2
<1>4. Erased(s, a) = RemoveAt(s, k)
  BY <1>1, <1>2 DEF Erased, DropFirst
<1>5. k \in 1..Len(s) /\ s[k] = a
  BY <1>3
<1> HIDE DEF k, I
<1>6. RemoveAt(s, k) \in Seq(S)
  BY <1>5, RemoveAtProperties
<1>7. /\ ToSet(RemoveAt(s, k)) \subseteq ToSet(s)
      /\ ToSet(s) \ {a} \subseteq ToSet(RemoveAt(s, k))
      /\ IsInjective(RemoveAt(s, k)) /\ a \notin ToSet(RemoveAt(s, k))
  BY <1>5, RemoveAtSet
<1> QED
  BY <1>4, <1>6, <1>7

LEMMA CInvInit == Init => CInv
<1> SUFFICES ASSUME Init PROVE CInv
  OBVIOUS
<1>1. SInv
  BY SInvInit
<1>2. /\ DOMAIN channels = {} /\ DOMAIN clients = {} /\ roster = {}
      /\ status = "running"
      /\ deeds = {}
  BY DEF Init, Empty
<1>3. ChannelsOK
  BY <1>2 DEF ChannelsOK
<1> QED
  BY <1>1, <1>2, <1>3 DEF CInv, RosterKept, MembersDistinct, MembersJoined, RosterLoged,
     NoGhosts, OperatorsNick

\* What somebody on the roster has.
LEMMA OnRoster ==
  ASSUME CInv, NEW p \in roster
  PROVE  /\ p[1] \in Fds /\ p[2] \in Chans /\ p = <<p[1], p[2]>>
         /\ p[1] \in DOMAIN clients /\ p[2] \in DOMAIN channels
         /\ clients[p[1]] \in Members(p[2])
         /\ clients[p[1]] \in InUse
         /\ Obj(p[1]).loged
BY DEF CInv, ChannelsOK, RosterKept, RosterLoged, InUse

\* While nobody vanished from a channel, members are live clients that joined.
LEMMA MemberIsOnRoster ==
  ASSUME CInv, ~Done({"left"}), NEW c \in DOMAIN channels, NEW a \in Members(c)
  PROVE  \E f \in DOMAIN clients : f \in Fds /\ <<f, c>> \in roster /\ a = clients[f]
<1>1. PICK p \in roster : p[2] = c /\ a = clients[p[1]]
  BY DEF CInv, MembersJoined
<1> QED
  BY <1>1, OnRoster

LEMMA MembersType ==
  ASSUME ChannelsOK, NEW c \in DOMAIN channels
  PROVE  channels[c].members \in Seq(Addrs) /\ Members(c) \subseteq Addrs
<1>1. channels[c].members \in Seq(Addrs)
  BY DEF ChannelsOK, Channel
<1> QED
  BY <1>1, LenProperties, ElementOfSeq DEF Members, ToSet

LEMMA ReadingIsSafe ==
  ASSUME CInv, NEW c \in DOMAIN channels, "crashed" \in Reading(Members(c))
  PROVE  Done({"left"})
<1> SUFFICES ASSUME ~Done({"left"}) PROVE FALSE
  OBVIOUS
<1>1. Members(c) \subseteq InUse
  BY MemberIsOnRoster DEF InUse
<1> QED
  BY <1>1 DEF Reading

\* Steps after which the channels are what they were, and so are the clients
\* on them, or the history says that one left.
Unmoved ==
  /\ UNCHANGED channels
  /\ deeds \subseteq deeds'
  /\ roster' \subseteq roster
  /\ Done({"left"})' \/ roster' = roster
  /\ \A p \in roster' : /\ p[1] \in DOMAIN clients'
                        /\ clients'[p[1]] = clients[p[1]]
                        /\ Obj(p[1])'.loged
  /\ Done({"ghost"})' \/ DOMAIN clients' \subseteq open'
  /\ \/ Done({"left", "renick", "ghost"})'
     \/ \A c \in DOMAIN channels :
          \A a \in Members(c) : heap'[a].nick = heap[a].nick
  /\ status' = status

LEMMA DoneStays ==
  ASSUME NEW d, deeds \subseteq deeds', Done(d) PROVE d \cap deeds' # {}
BY DEF Done

LEMMA CInvUnmoved ==
  ASSUME CInv, SInv', ChannelsOK', Unmoved
  PROVE  CInv'
<1>0. UNCHANGED channels /\ \A c : Members(c)' = Members(c)
  BY DEF Unmoved, Members
<1>1. RosterKept'
  BY <1>0 DEF CInv, RosterKept, Unmoved
<1>2. MembersDistinct'
  BY <1>0 DEF CInv, MembersDistinct
<1>3. MembersJoined'
  <2>1. CASE Done({"left"})'
    BY <2>1 DEF MembersJoined
  <2>2. CASE ~Done({"left"})'
    <3>1. ~Done({"left"}) /\ roster' = roster
      BY <2>2, DoneStays DEF Unmoved, Done
    <3>2. \A c \in DOMAIN channels :
            {clients'[p[1]] : p \in {q \in roster : q[2] = c}}
            = {clients[p[1]] : p \in {q \in roster : q[2] = c}}
      BY <3>1 DEF Unmoved
    <3> QED
      BY <1>0, <3>1, <3>2 DEF CInv, MembersJoined
  <2> QED
    BY <2>1, <2>2
<1>4. RosterLoged' /\ NoGhosts'
  BY DEF RosterLoged, NoGhosts, Unmoved
<1>5. OperatorsNick'
  <2>1. CASE Done({"left", "renick", "ghost"})'
    BY <2>1 DEF OperatorsNick
  <2>2. CASE ~Done({"left", "renick", "ghost"})'
    <3>1. ~Done({"left", "renick", "ghost"})
      BY <2>2, DoneStays DEF Unmoved, Done
    <3>2. \A c \in DOMAIN channels : \A a \in Members(c) : heap'[a].nick = heap[a].nick
      BY <2>2 DEF Unmoved
    <3> QED
      BY <1>0, <3>1, <3>2 DEF CInv, OperatorsNick
  <2> QED
    BY <2>1, <2>2
<1> QED
  BY <1>1, <1>2, <1>3, <1>4, <1>5 DEF CInv

LEMMA CloseIsUnmoved ==
  ASSUME CInv, NEW f, CloseConnection(f), UNCHANGED <<heap, channels, status>>
  PROVE  Unmoved
<1>1. CASE f \in open
  <2>1. /\ open' = open \ {f}
        /\ DOMAIN clients' = DOMAIN clients \ {f}
        /\ \A g \in DOMAIN clients' : clients'[g] = clients[g]
        /\ roster' = roster \ Joined(f)
        /\ deeds' = deeds \cup (IF Joined(f) # {} THEN {"left"} ELSE {})
    BY <1>1 DEF CloseConnection, Without, Leave
  <2>2. Done({"left"})' \/ roster' = roster
    BY <2>1 DEF Done
  <2>3. \A p \in roster' : /\ p[1] \in DOMAIN clients'
                           /\ clients'[p[1]] = clients[p[1]]
                           /\ Obj(p[1])'.loged
    BY <2>1, OnRoster DEF Joined, Obj
  <2>4. Done({"ghost"})' \/ DOMAIN clients' \subseteq open'
    BY <2>1 DEF CInv, NoGhosts, Done
  <2> QED
    BY <2>1, <2>2, <2>3, <2>4 DEF Unmoved
<1>2. CASE f \notin open
  <2>1. UNCHANGED <<open, clients, roster, deeds>>
    BY <1>2 DEF CloseConnection
  <2> QED
    BY <2>1, OnRoster DEF Unmoved, CInv, NoGhosts, Done, Obj
<1> QED
  BY <1>1, <1>2

\* An object that no live client owns is no member's, while none vanished.
LEMMA FreeIsNoMember ==
  ASSUME CInv, NEW a, a \notin InUse, NEW c \in DOMAIN channels
  PROVE  Done({"left"}) \/ a \notin Members(c)
BY MemberIsOnRoster DEF InUse

LEMMA NewObjectIsUnmoved ==
  ASSUME CInv, NEW f, f \notin DOMAIN clients, NEW a \in Addrs \ InUse, NEW o,
         clients' = Put(clients, f, a), heap' = [heap EXCEPT ![a] = o]
  PROVE  /\ DOMAIN clients' = DOMAIN clients \cup {f}
         /\ \A p \in roster : /\ p[1] \in DOMAIN clients'
                              /\ clients'[p[1]] = clients[p[1]]
                              /\ Obj(p[1])'.loged
         /\ \/ Done({"left"})
            \/ \A c \in DOMAIN channels :
                 \A b \in Members(c) : heap'[b].nick = heap[b].nick
<1>0. \A g \in DOMAIN clients : clients[g] \in Addrs
  BY DEF CInv, SInv, SessionsOK
<1>1. /\ DOMAIN clients' = DOMAIN clients \cup {f}
      /\ \A g \in DOMAIN clients : clients'[g] = clients[g] /\ clients[g] # a
  BY DEF Put, InUse
<1>2. heap \in [Addrs -> Objects]
  BY DEF CInv, SInv, SessionsOK
<1>3. \A b \in Addrs : b # a => heap'[b] = heap[b]
  BY <1>2
<1>4. \A p \in roster : /\ p[1] \in DOMAIN clients'
                        /\ clients'[p[1]] = clients[p[1]]
                        /\ Obj(p[1])'.loged
  BY <1>0, <1>1, <1>3, OnRoster DEF Obj
<1>5. ASSUME ~Done({"left"}), NEW c \in DOMAIN channels, NEW b \in Members(c)
      PROVE  heap'[b].nick = heap[b].nick
  <2>1. b \in Addrs
    BY MembersType DEF CInv
  <2> QED
    BY <1>3, <1>5, <2>1, FreeIsNoMember
<1> QED
  BY <1>1, <1>4, <1>5

LEMMA AcceptIsUnmoved == ASSUME CInv, Accept PROVE Unmoved
<1>1. PICK f \in Fds \ open :
        /\ open' = open \cup {f}
        /\ Leave(f)
        /\ \/ /\ f \in DOMAIN clients
              /\ heap' = [heap EXCEPT ![clients[f]] = Fresh(f)]
              /\ UNCHANGED clients
           \/ /\ f \notin DOMAIN clients
              /\ \E a \in Addrs \ InUse :
                   /\ clients' = Put(clients, f, a)
                   /\ heap' = [heap EXCEPT ![a] = Fresh(f)]
        /\ UNCHANGED <<channels, status>>
  BY DEF Accept
<1>2. /\ roster' = roster \ Joined(f)
      /\ deeds' = deeds \cup (IF Joined(f) # {} THEN {"left"} ELSE {})
  BY <1>1 DEF Leave
<1>3. /\ deeds \subseteq deeds' /\ roster' \subseteq roster
      /\ Done({"left"})' \/ roster' = roster
      /\ \A p \in roster' : p \in roster /\ p[1] # f
  BY <1>2 DEF Done, Joined
<1>4. /\ \A p \in roster' : /\ p[1] \in DOMAIN clients'
                            /\ clients'[p[1]] = clients[p[1]]
                            /\ Obj(p[1])'.loged
      /\ DOMAIN clients' = DOMAIN clients \cup {f}
      /\ \/ Done({"left", "ghost"})
         \/ \A c \in DOMAIN channels :
              \A a \in Members(c) : heap'[a].nick = heap[a].nick
  <2>1. CASE f \in DOMAIN clients /\ UNCHANGED clients
               /\ heap' = [heap EXCEPT ![clients[f]] = Fresh(f)]
    <3>1. \A g \in DOMAIN clients : g # f => Obj(g)' = Obj(g)
      BY <2>1, OthersUntouched DEF CInv
    <3>2. Done({"left", "ghost"})
      BY <1>1, <2>1 DEF CInv, NoGhosts, Done
    <3>3. DOMAIN clients' = DOMAIN clients \cup {f}
      BY <2>1
    <3>4. \A p \in roster' : /\ p[1] \in DOMAIN clients'
                             /\ clients'[p[1]] = clients[p[1]]
                             /\ Obj(p[1])'.loged
      BY <1>3, <2>1, <3>1, OnRoster
    <3> QED
      BY <3>2, <3>3, <3>4
  <2>2. ASSUME f \notin DOMAIN clients, NEW a \in Addrs \ InUse,
               clients' = Put(clients, f, a), heap' = [heap EXCEPT ![a] = Fresh(f)]
        PROVE  <1>4!1 /\ <1>4!2 /\ <1>4!3
    <3>1. /\ DOMAIN clients' = DOMAIN clients \cup {f}
          /\ \A p \in roster : /\ p[1] \in DOMAIN clients'
                               /\ clients'[p[1]] = clients[p[1]]
                               /\ Obj(p[1])'.loged
          /\ \/ Done({"left"})
             \/ \A c \in DOMAIN channels :
                  \A b \in Members(c) : heap'[b].nick = heap[b].nick
      BY <2>2, NewObjectIsUnmoved
    <3> QED
      BY <1>3, <3>1 DEF Done
  <2> QED
    BY <1>1, <2>1, <2>2
<1>5. Done({"ghost"})' \/ DOMAIN clients' \subseteq open'
  BY <1>1, <1>3, <1>4 DEF CInv, NoGhosts, Done
<1> QED
  BY <1>1, <1>3, <1>4, <1>5 DEF Unmoved, Done

LEMMA NextLineIsUnmoved == ASSUME CInv, NEW f \in Fds, NextLine(f) PROVE Unmoved
<1>1. PICK a \in Addrs \ InUse, old \in Addrs :
        /\ clients' = Put(clients, f, a)
        /\ heap' = [heap EXCEPT ![a] = [heap[old] EXCEPT !.nick = NoNick]]
  BY DEF NextLine
<1>2. f \notin DOMAIN clients /\ UNCHANGED <<channels, status, roster>>
      /\ deeds' = deeds \cup {"ghost"}
  BY DEF NextLine
<1>3. \A p \in roster : /\ p[1] \in DOMAIN clients'
                        /\ clients'[p[1]] = clients[p[1]]
                        /\ Obj(p[1])'.loged
  BY <1>1, <1>2, NewObjectIsUnmoved
<1> QED
  BY <1>2, <1>3 DEF Unmoved, Done

LEMMA RegisterIsUnmoved == ASSUME CInv, NEW f \in Fds, Register(f) PROVE Unmoved
<1>1. /\ f \in DOMAIN clients /\ clients[f] \in Addrs
      /\ heap \in [Addrs -> Objects] /\ heap[clients[f]] \in Objects
      /\ UNCHANGED <<open, clients, channels, status, roster>>
      /\ deeds \subseteq deeds'
  BY DEF Register, Pass, User, Nick, HasLine, CInv, SInv, SessionsOK
<1>2. \A g \in DOMAIN clients : Obj(g).loged => Obj(g)'.loged
  <2>0. \A g \in DOMAIN clients : clients[g] \in Addrs
    BY DEF CInv, SInv, SessionsOK
  <2>1. CASE Pass(f)
    BY <1>1, <2>1 DEF Pass, Obj, Objects
  <2>2. CASE User(f)
    <3>1. /\ heap'[clients[f]].loged = TRUE
          /\ \A a \in Addrs : a # clients[f] => heap'[a] = heap[a]
      BY <1>1, <2>2 DEF User, Objects
    <3> QED
      BY <1>1, <2>0, <3>1 DEF Obj
  <2>3. ASSUME NEW n \in Names, Nick(f, n) PROVE <1>2
    <3>1. heap' = [heap EXCEPT ![clients[f]].nick = n, ![clients[f]].hasNick = TRUE]
      BY <2>3 DEF Nick
    <3>2. /\ heap'[clients[f]].loged = heap[clients[f]].loged
          /\ \A a \in Addrs : a # clients[f] => heap'[a] = heap[a]
      BY <1>1, <3>1 DEF Objects
    <3> QED
      BY <1>1, <2>0, <3>2 DEF Obj
  <2> QED
    BY <2>1, <2>2, <2>3 DEF Register
<1>3. \/ Done({"left", "renick", "ghost"})'
      \/ \A c \in DOMAIN channels : \A a \in Members(c) : heap'[a].nick = heap[a].nick
  <2>1. CASE Pass(f) \/ User(f)
    <3>1. \A a \in Addrs : heap'[a].nick = heap[a].nick
      BY <1>1, <2>1 DEF Pass, User, Objects
    <3> QED
      BY <3>1, MembersType DEF CInv
  <2>2. ASSUME NEW n \in Names, Nick(f, n), ~Done({"left", "renick", "ghost"})',
               NEW c \in DOMAIN channels, NEW a \in Members(c)
        PROVE  heap'[a].nick = heap[a].nick
    <3>1. ~Done({"left"}) /\ ~Done({"ghost"})
      BY <1>1, <2>2 DEF Done
    <3>2. ~Obj(f).hasNick
      BY <2>2 DEF Nick, Done
    <3>3. ~Obj(f).loged
      BY <1>1, <3>1, <3>2 DEF CInv, NoGhosts, SInv, RegistrationOrder
    <3>4. PICK g \in DOMAIN clients : <<g, c>> \in roster /\ a = clients[g]
      BY <3>1, MemberIsOnRoster
    <3>5. Obj(g).loged
      BY <3>4 DEF CInv, RosterLoged
    <3>6. a # clients[f]
      BY <1>1, <3>3, <3>4, <3>5 DEF CInv, SInv, OwnObjects
    <3>7. heap' = [heap EXCEPT ![clients[f]].nick = n, ![clients[f]].hasNick = TRUE]
      BY <2>2 DEF Nick
    <3>8. a \in Addrs
      BY MembersType DEF CInv
    <3> QED
      BY <1>1, <3>6, <3>7, <3>8
  <2> QED
    BY <2>1, <2>2 DEF Register
<1>4. \A p \in roster : /\ p[1] \in DOMAIN clients'
                        /\ clients'[p[1]] = clients[p[1]]
                        /\ Obj(p[1])'.loged
  BY <1>1, <1>2, OnRoster
<1>5. Done({"ghost"})' \/ DOMAIN clients' \subseteq open'
  BY <1>1 DEF CInv, NoGhosts, Done
<1> QED
  BY <1>1, <1>3, <1>4, <1>5 DEF Unmoved

\* Whoever is removed from a channel was listed there once.
LEMMA RemovedExactly ==
  ASSUME CInv, NEW g \in DOMAIN clients, NEW c \in DOMAIN channels,
         clients[g] \in Members(c), RemoveClientFromChannel(clients[g], c)
  PROVE  /\ DOMAIN channels' \subseteq DOMAIN channels
         /\ \A d \in DOMAIN channels : d # c => /\ d \in DOMAIN channels'
                                                /\ channels'[d] = channels[d]
         /\ Members(c) # {clients[g]} => c \in DOMAIN channels'
         /\ c \in DOMAIN channels' =>
              /\ IsInjective(channels'[c].members)
              /\ ToSet(channels'[c].members) = Members(c) \ {clients[g]}
              /\ \/ /\ channels'[c].op = channels[c].op
                    /\ channels[c].op # heap[clients[g]].nick
                 \/ \E b \in ToSet(channels'[c].members) :
                      heap[b].nick = channels'[c].op
<1> DEFINE a == clients[g]
           rest == Erased(channels[c].members, a)
           op == IF channels[c].op = heap[a].nick THEN heap[Head(rest)].nick
                 ELSE channels[c].op
<1>0. channels[c] \in Channel /\ channels[c].members \in Seq(Addrs)
  BY DEF CInv, ChannelsOK, Channel
<1>1. /\ rest \in Seq(Addrs) /\ IsInjective(rest)
      /\ ToSet(rest) = Members(c) \ {a}
  <2>1. IsInjective(channels[c].members)
    BY DEF CInv, MembersDistinct
  <2>2. a \in ToSet(channels[c].members)
    BY DEF Members
  <2> HIDE DEF a
  <2> QED
    BY <1>0, <2>1, <2>2, ErasedProperties DEF Members
<1>2. CASE rest = <<>>
  <2>1. channels' = Without(channels, c)
    BY <1>2 DEF RemoveClientFromChannel
  <2>2. ToSet(rest) = {}
    BY <1>2, EmptySeq DEF ToSet
  <2>3. Members(c) = {a}
    BY <1>1, <2>2
  <2> QED
    BY <2>1, <2>3 DEF Without
<1>3. CASE rest # <<>>
  <2>1. Head(rest) \in ToSet(rest)
    <3>1. Head(rest) = rest[1] /\ Len(rest) # 0 /\ Len(rest) \in Nat
          /\ DOMAIN rest = 1..Len(rest)
      BY <1>1, <1>3, HeadTailProperties, LenProperties, EmptySeq
    <3> QED
      BY <3>1 DEF ToSet
  <2>2. channels' = [channels EXCEPT ![c].members = rest, ![c].op = op]
    BY <1>3 DEF RemoveClientFromChannel
  <2>3. \/ op = channels[c].op /\ channels[c].op # heap[a].nick
        \/ op = heap[Head(rest)].nick
    OBVIOUS
  <2> HIDE DEF rest, op, a
  <2>4. /\ DOMAIN channels' = DOMAIN channels
        /\ \A d \in DOMAIN channels : d # c => channels'[d] = channels[d]
        /\ channels'[c].members = rest /\ channels'[c].op = op
    BY <1>0, <2>2 DEF Channel
  <2> QED
    BY <1>1, <2>1, <2>3, <2>4 DEF a
<1> QED
  BY <1>2, <1>3

\* The parts of CInv a command about a channel may disturb.
ChannelParts == /\ RosterKept /\ MembersDistinct /\ MembersJoined
                /\ RosterLoged /\ OperatorsNick

LEMMA PartsSame ==
  ASSUME CInv, UNCHANGED <<open, clients, heap, roster, deeds>>,
         DOMAIN channels' = DOMAIN channels,
         \A d \in DOMAIN channels : /\ channels'[d].members = channels[d].members
                                    /\ channels'[d].op = channels[d].op
  PROVE  ChannelParts'
<1>1. \A d \in DOMAIN channels : Members(d)' = Members(d)
  BY DEF Members
<1>2. RosterKept'
  BY <1>1 DEF CInv, RosterKept
<1>3. MembersDistinct'
  BY DEF CInv, MembersDistinct
<1>4. MembersJoined'
  BY <1>1 DEF CInv, MembersJoined, Done
<1>5. RosterLoged'
  BY DEF CInv, RosterLoged, Obj
<1>6. OperatorsNick'
  BY <1>1 DEF CInv, OperatorsNick, Done
<1> QED
  BY <1>2, <1>3, <1>4, <1>5, <1>6 DEF ChannelParts

LEMMA PartsRemove ==
  ASSUME CInv, NEW g \in DOMAIN clients, NEW c \in DOMAIN channels,
         clients[g] \in Members(c), RemoveClientFromChannel(clients[g], c),
         roster' = roster \ {<<g, c>>},
         UNCHANGED <<open, clients, heap>>, deeds \subseteq deeds'
  PROVE  ChannelParts'
<1> DEFINE a == clients[g]
<1>1. /\ DOMAIN channels' \subseteq DOMAIN channels
      /\ \A d \in DOMAIN channels : d # c => /\ d \in DOMAIN channels'
                                             /\ channels'[d] = channels[d]
      /\ Members(c) # {a} => c \in DOMAIN channels'
      /\ c \in DOMAIN channels' =>
           /\ IsInjective(channels'[c].members)
           /\ ToSet(channels'[c].members) = Members(c) \ {a}
           /\ \/ channels'[c].op = channels[c].op /\ channels[c].op # heap[a].nick
              \/ \E b \in ToSet(channels'[c].members) : heap[b].nick = channels'[c].op
  BY RemovedExactly
<1>2. \A p \in roster' : p \in roster /\ ~(p[1] = g /\ p[2] = c)
  BY OnRoster
<1>3. RosterKept'
  <2> SUFFICES ASSUME NEW p \in roster'
               PROVE  /\ p[1] \in DOMAIN clients /\ p[2] \in DOMAIN channels'
                      /\ clients[p[1]] \in ToSet(channels'[p[2]].members)
    BY DEF RosterKept, Members
  <2>1. /\ p[1] \in DOMAIN clients /\ p[2] \in DOMAIN channels
        /\ clients[p[1]] \in Members(p[2])
    BY <1>2, OnRoster
  <2>2. CASE p[2] # c
    BY <1>1, <2>1, <2>2 DEF Members
  <2>3. CASE p[2] = c
    <3>1. clients[p[1]] # a
      BY <1>2, <2>1, <2>3 DEF CInv, SInv, OwnObjects
    <3> QED
      BY <1>1, <2>1, <2>3, <3>1
  <2> QED
    BY <2>2, <2>3
<1>4. MembersDistinct'
  BY <1>1 DEF CInv, MembersDistinct
<1>5. MembersJoined'
  <2> SUFFICES ASSUME ~Done({"left"}), NEW d \in DOMAIN channels',
                      NEW b \in ToSet(channels'[d].members)
               PROVE  \E p \in roster' : p[2] = d /\ b = clients[p[1]]
    BY DoneStays DEF MembersJoined, Members, Done
  <2>1. d \in DOMAIN channels /\ b \in Members(d) /\ (d = c => b # a)
    BY <1>1 DEF Members
  <2>2. PICK f \in DOMAIN clients : <<f, d>> \in roster /\ b = clients[f]
    BY <2>1, MemberIsOnRoster
  <2>3. <<f, d>> \in roster'
    BY <2>1, <2>2
  <2> QED
    BY <2>2, <2>3
<1>6. RosterLoged'
  BY <1>2 DEF CInv, RosterLoged, Obj
<1>7. OperatorsNick'
  <2> SUFFICES ASSUME ~Done({"left", "renick", "ghost"}), NEW d \in DOMAIN channels'
               PROVE  \E b \in ToSet(channels'[d].members) :
                        heap[b].nick = channels'[d].op
    BY DoneStays DEF OperatorsNick, Members, Done
  <2>1. PICK b \in Members(d) : heap[b].nick = channels[d].op
    BY <1>1 DEF CInv, OperatorsNick
  <2>2. CASE d # c
    BY <1>1, <2>1, <2>2 DEF Members
  <2>3. CASE d = c
    BY <1>1, <2>1, <2>3
  <2> QED
    BY <2>2, <2>3
<1> QED
  BY <1>3, <1>4, <1>5, <1>6, <1>7 DEF ChannelParts

LEMMA PartsJoin ==
  ASSUME CInv, NEW f \in Fds, NEW c, NEW k, Join(f, c, k)
  PROVE  ChannelParts'
<1>1. /\ f \in DOMAIN clients /\ Obj(f).loged
      /\ c \in DOMAIN channels
      /\ clients[f] \notin Members(c)
      /\ channels' = [channels EXCEPT ![c].members =
                        Append(channels[c].members, clients[f])]
      /\ roster' = roster \cup {<<f, c>>}
      /\ UNCHANGED <<open, clients, heap, deeds>>
  BY DEF Join, LoggedIn, HasLine
<1> DEFINE l == Append(channels[c].members, clients[f])
<1>2. /\ ToSet(l) = Members(c) \cup {clients[f]}
      /\ IsInjective(l)
  <2>1. channels[c].members \in Seq(Addrs) /\ clients[f] \in Addrs
    BY <1>1, MembersType DEF CInv, SInv, SessionsOK
  <2>2. IsInjective(channels[c].members) /\ clients[f] \notin ToSet(channels[c].members)
    BY <1>1 DEF CInv, MembersDistinct, Members
  <2> QED
    BY <2>1, <2>2, AppendSet DEF Members
<1>3. channels' = [channels EXCEPT ![c].members = l]
  BY <1>1
<1>4. c \in DOMAIN channels /\ channels[c] \in Channel
  BY <1>1 DEF CInv, ChannelsOK
<1> HIDE DEF l
<1>5. /\ DOMAIN channels' = DOMAIN channels
      /\ \A d \in DOMAIN channels : d # c => channels'[d] = channels[d]
      /\ channels'[c].members = l /\ channels'[c].op = channels[c].op
  BY <1>3, <1>4 DEF Channel
<1>6. \A d \in DOMAIN channels : Members(d) \subseteq ToSet(channels'[d].members)
  BY <1>2, <1>5 DEF Members
<1>7. RosterKept'
  <2> SUFFICES ASSUME NEW p \in roster'
               PROVE  /\ p[1] \in DOMAIN clients /\ p[2] \in DOMAIN channels
                      /\ clients[p[1]] \in ToSet(channels'[p[2]].members)
    BY <1>1, <1>5 DEF RosterKept, Members
  <2>1. CASE p \in roster
    BY <1>6, <2>1, OnRoster
  <2>2. CASE p = <<f, c>>
    BY <1>1, <1>2, <1>5, <2>2
  <2> QED
    BY <1>1, <2>1, <2>2
<1>8. MembersDistinct'
  BY <1>2, <1>5 DEF CInv, MembersDistinct
<1>9. MembersJoined'
  <2>0. UNCHANGED <<clients, deeds>> /\ DOMAIN channels' = DOMAIN channels
    BY <1>1, <1>5
  <2> SUFFICES ASSUME ~Done({"left"}), NEW d \in DOMAIN channels,
                      NEW b \in ToSet(channels'[d].members)
               PROVE  \E p \in roster' : p[2] = d /\ b = clients[p[1]]
    BY <2>0 DEF MembersJoined, Members, Done
  <2>1. CASE b \in Members(d)
    <3>1. CInv /\ ~Done({"left"}) /\ d \in DOMAIN channels /\ b \in Members(d)
      BY <2>1
    <3>2. PICK g \in DOMAIN clients : g \in Fds /\ <<g, d>> \in roster /\ b = clients[g]
      BY <3>1, MemberIsOnRoster
    <3>3. <<g, d>> \in roster'
      BY <1>1, <3>2
    <3> QED
      BY <3>2, <3>3
  <2>2. CASE b \notin Members(d)
    <3>1. d = c /\ b = clients[f]
      BY <1>2, <1>5, <2>2 DEF Members
    <3>2. <<f, c>> \in roster'
      BY <1>1
    <3> QED
      BY <3>1, <3>2
  <2> QED
    BY <2>1, <2>2
<1>10. RosterLoged'
  BY <1>1 DEF CInv, RosterLoged, Obj
<1>11. OperatorsNick'
  <2> SUFFICES ASSUME ~Done({"left", "renick", "ghost"}), NEW d \in DOMAIN channels
               PROVE  \E b \in ToSet(channels'[d].members) :
                        heap[b].nick = channels'[d].op
    BY <1>1, <1>5 DEF OperatorsNick, Members, Done
  <2>1. PICK b \in Members(d) : heap[b].nick = channels[d].op
    BY DEF CInv, OperatorsNick
  <2> QED
    BY <1>5, <1>6, <2>1
<1> QED
  BY <1>7, <1>8, <1>9, <1>10, <1>11 DEF ChannelParts

LEMMA PartsCreate ==
  ASSUME CInv, NEW f \in Fds, NEW c, NEW k, Create(f, c, k)
  PROVE  ChannelParts'
<1> DEFINE x == [key |-> k, topic |-> NoTopic, op |-> Obj(f).nick,
                 members |-> <<clients[f]>>]
<1>1. /\ f \in DOMAIN clients /\ Obj(f).loged
      /\ c \notin DOMAIN channels
      /\ channels' = Put(channels, c, x)
      /\ roster' = roster \cup {<<f, c>>}
      /\ UNCHANGED <<open, clients, heap, deeds>>
  BY DEF Create, LoggedIn, HasLine
<1>2. /\ ToSet(x.members) = {clients[f]} /\ IsInjective(x.members)
      /\ x.op = heap[clients[f]].nick
  <2>1. DOMAIN x.members = {1} /\ x.members[1] = clients[f]
    OBVIOUS
  <2>2. x.op = heap[clients[f]].nick
    BY DEF Obj
  <2> HIDE DEF x
  <2> QED
    BY <2>1, <2>2 DEF ToSet, IsInjective
<1> HIDE DEF x
<1>3. /\ DOMAIN channels' = DOMAIN channels \cup {c} /\ channels'[c] = x
      /\ \A d \in DOMAIN channels : channels'[d] = channels[d]
  BY <1>1 DEF Put
<1>4. RosterKept'
  <2> SUFFICES ASSUME NEW p \in roster'
               PROVE  /\ p[1] \in DOMAIN clients /\ p[2] \in DOMAIN channels'
                      /\ clients[p[1]] \in ToSet(channels'[p[2]].members)
    BY <1>1 DEF RosterKept, Members
  <2>1. CASE p \in roster
    BY <1>3, <2>1, OnRoster DEF Members
  <2>2. CASE p = <<f, c>>
    BY <1>1, <1>2, <1>3, <2>2
  <2> QED
    BY <1>1, <2>1, <2>2
<1>5. MembersDistinct'
  BY <1>2, <1>3 DEF CInv, MembersDistinct
<1>6. MembersJoined'
  <2> SUFFICES ASSUME ~Done({"left"}), NEW d \in DOMAIN channels',
                      NEW b \in ToSet(channels'[d].members)
               PROVE  \E p \in roster' : p[2] = d /\ b = clients[p[1]]
    BY <1>1 DEF MembersJoined, Members, Done
  <2>1. CASE d \in DOMAIN channels
    <3>1. b \in Members(d)
      BY <1>3, <2>1 DEF Members
    <3>2. PICK g \in DOMAIN clients : <<g, d>> \in roster /\ b = clients[g]
      BY <2>1, <3>1, MemberIsOnRoster
    <3>3. <<g, d>> \in roster'
      BY <1>1, <3>2
    <3> QED
      BY <3>2, <3>3
  <2>2. CASE d = c
    <3>1. b = clients[f] /\ <<f, c>> \in roster'
      BY <1>1, <1>2, <1>3, <2>2
    <3> QED
      BY <2>2, <3>1
  <2> QED
    BY <1>3, <2>1, <2>2
<1>7. RosterLoged'
  BY <1>1 DEF CInv, RosterLoged, Obj
<1>8. OperatorsNick'
  <2> SUFFICES ASSUME ~Done({"left", "renick", "ghost"}), NEW d \in DOMAIN channels'
               PROVE  \E b \in ToSet(channels'[d].members) :
                        heap[b].nick = channels'[d].op
    BY <1>1 DEF OperatorsNick, Members, Done
  <2>1. CASE d \in DOMAIN channels
    BY <1>3, <2>1 DEF CInv, OperatorsNick, Members
  <2>2. CASE d = c
    BY <1>2, <1>3, <2>2
  <2> QED
    BY <1>3, <2>1, <2>2
<1> QED
  BY <1>4, <1>5, <1>6, <1>7, <1>8 DEF ChannelParts

\* A member's nick leads back to somebody, at least.
LEMMA AddresseesExist ==
  ASSUME CInv, ~Done({"left"}), NEW c \in DOMAIN channels
  PROVE  NoFd \notin Addressees(c)
<1> SUFFICES ASSUME NEW a \in Members(c)
             PROVE  GetClient(ClientFind(heap[a].nick)) # NoFd
  BY DEF Addressees
<1>1. PICK f \in DOMAIN clients : a = clients[f]
  BY MemberIsOnRoster
<1> DEFINE n == heap[a].nick
           found == {g \in DOMAIN clients : Obj(g).nick = n}
<1>2. f \in found
  BY <1>1 DEF Obj
<1>3. ClientFind(n) = n
  BY <1>2 DEF ClientFind
<1>4. found \subseteq Fds /\ found \in SUBSET Nat /\ found # {}
  BY <1>2, AmaConstants DEF CInv, SInv, SessionsOK
<1>5. GetClient(n) = CHOOSE h \in found : \A g \in found : h <= g
  BY <1>4 DEF GetClient
<1> HIDE DEF found
<1>6. \E h \in found : \A g \in found : h <= g
  BY <1>4, MinProperties
<1>7. GetClient(n) \in found
  BY <1>5, <1>6
<1> QED
  BY <1>3, <1>4, <1>7, AmaConstants

LEMMA FoundIsClient ==
  ASSUME CInv, NEW n, GetClient(n) # NoFd
  PROVE  GetClient(n) \in DOMAIN clients
<1> DEFINE found == {h \in DOMAIN clients : Obj(h).nick = n}
<1>1. found # {} /\ GetClient(n) = CHOOSE h \in found : \A x \in found : h <= x
  BY DEF GetClient
<1>2. found \in SUBSET Nat
  BY AmaConstants DEF CInv, SInv, SessionsOK
<1>3. \E h \in found : \A x \in found : h <= x
  <2> HIDE DEF found
  <2> QED
    BY <1>1, <1>2, MinProperties
<1>4. GetClient(n) \in found
  BY <1>1, <1>3
<1> QED
  BY <1>4

LEMMA CInvChannelCommand ==
  ASSUME CInv, NEW f \in Fds, ChannelCommand(f)
  PROVE  CInv'
<1>1. UNCHANGED <<open, clients, heap, nickList, batch>>
  BY ChannelCommandKeepsSessions DEF sessionVars
<1>2. SInv' /\ ChannelsOK'
  BY <1>1, SInvStutter, ChannelCommandType DEF CInv, sessionVars
<1>3. PICK c \in Chans :
        \/ \E k \in Keys \cup {NoKey} : Join(f, c, k) \/ Create(f, c, k)
        \/ Part(f, c)
        \/ \E n \in Names : Kick(f, c, n)
        \/ \E t \in Topics : Topic(f, c, t)
        \/ ChannelMsg(f, c)
  BY DEF ChannelCommand
<1>4. f \in DOMAIN clients /\ UNCHANGED deeds
  BY <1>3 DEF Join, Create, Part, Kick, Topic, ChannelMsg, LoggedIn, HasLine
<1>5. NoGhosts'
  BY <1>1, <1>4 DEF CInv, NoGhosts, Done
<1>6. ChannelParts'
  <2>1. ASSUME NEW k \in Keys \cup {NoKey}, Join(f, c, k) PROVE ChannelParts'
    BY <2>1, PartsJoin
  <2>2. ASSUME NEW k \in Keys \cup {NoKey}, Create(f, c, k) PROVE ChannelParts'
    BY <2>2, PartsCreate
  <2>3. CASE Part(f, c)
    BY <1>1, <1>4, <2>3, PartsRemove DEF Part
  <2>4. ASSUME NEW n \in Names, Kick(f, c, n) PROVE ChannelParts'
    BY <1>1, <1>4, <2>4, FoundIsClient, PartsRemove DEF Kick
  <2>5. ASSUME NEW t \in Topics, Topic(f, c, t) PROVE ChannelParts'
    <3>1. /\ c \in DOMAIN channels
          /\ channels' = [channels EXCEPT ![c].topic = t]
          /\ UNCHANGED <<roster, deeds>>
      BY <2>5 DEF Topic
    <3>2. channels[c] \in Channel
      BY <3>1 DEF CInv, ChannelsOK
    <3>3. /\ DOMAIN channels' = DOMAIN channels
          /\ \A d \in DOMAIN channels : /\ channels'[d].members = channels[d].members
                                        /\ channels'[d].op = channels[d].op
      BY <3>1, <3>2 DEF Channel
    <3> QED
      BY <1>1, <3>1, <3>3, PartsSame
  <2>6. CASE ChannelMsg(f, c)
    BY <1>1, <2>6, PartsSame DEF ChannelMsg
  <2> QED
    BY <1>3, <2>1, <2>2, <2>3, <2>4, <2>5, <2>6
<1> QED
  BY <1>2, <1>5, <1>6 DEF CInv, ChannelParts

LEMMA CInvNext == CInv /\ [Next]_vars => CInv'
<1> SUFFICES ASSUME CInv, [Next]_vars PROVE CInv'
  OBVIOUS
<1>1. SInv' /\ ChannelsOK'
  BY SInvNext, ChannelsNext DEF CInv
<1>2. CASE Accept
  BY <1>1, <1>2, AcceptIsUnmoved, CInvUnmoved
<1>3. CASE EndOfSegment \/ UNCHANGED vars
  <2>1. Unmoved
    BY <1>3, OnRoster DEF EndOfSegment, vars, Unmoved, CInv, NoGhosts, Done, Obj
  <2> QED
    BY <1>1, <2>1, CInvUnmoved
<1>4. ASSUME NEW f \in Fds, Disconnect(f) PROVE CInv'
  BY <1>1, <1>4, CloseIsUnmoved, CInvUnmoved DEF Disconnect
<1>5. ASSUME NEW f \in Fds, NextLine(f) PROVE CInv'
  BY <1>1, <1>5, NextLineIsUnmoved, CInvUnmoved
<1>6. ASSUME NEW f \in Fds, Register(f) PROVE CInv'
  BY <1>1, <1>6, RegisterIsUnmoved, CInvUnmoved
<1>7. ASSUME NEW f \in Fds, ChannelCommand(f) PROVE CInv'
  BY <1>7, CInvChannelCommand
<1>8. ASSUME NEW f \in Fds, Quit(f) PROVE CInv'
  <2>1. CloseConnection(Obj(f).fd) \/ CloseConnection(f)
    BY <1>8 DEF Quit
  <2>2. UNCHANGED <<heap, channels, status>>
    BY <1>8 DEF Quit
  <2> QED
    BY <1>1, <2>1, <2>2, CloseIsUnmoved, CInvUnmoved
<1> QED
  BY <1>2, <1>3, <1>4, <1>5, <1>6, <1>7, <1>8 DEF Next

LEMMA ChannelInvariant == Spec => []CInv
<1> QED
  BY CInvInit, CInvNext, PTL DEF Spec

\* The members of a channel are exactly those who were told that they joined,
\* until somebody vanishes from a channel; those who were told stay for ever.
THEOREM RosterIsExact == Spec => []RosterExact
<1>1. CInv => RosterExact
  BY DEF CInv, RosterExact
<1> QED
  BY <1>1, ChannelInvariant, PTL

CrashAllowed == \/ Done({"left"})
                \/ ~(DOMAIN channels \subseteq DOMAIN channels')

LEMMA RemovalIsAllowed ==
  ASSUME CInv, NEW a, NEW c \in DOMAIN channels,
         RemoveClientFromChannel(a, c), status' = "crashed"
  PROVE  CrashAllowed
<1>1. CASE Erased(channels[c].members, a) = <<>>
  BY <1>1 DEF RemoveClientFromChannel, Without, CrashAllowed
<1>2. CASE Erased(channels[c].members, a) # <<>>
  BY <1>2, ReadingIsSafe DEF RemoveClientFromChannel, CrashAllowed
<1> QED
  BY <1>1, <1>2

LEMMA CommandCrash ==
  ASSUME CInv, NEW f \in Fds, ChannelCommand(f), status' = "crashed"
  PROVE  CrashAllowed
<1>1. PICK c \in Chans :
        \/ \E k \in Keys \cup {NoKey} : Join(f, c, k) \/ Create(f, c, k)
        \/ Part(f, c)
        \/ \E n \in Names : Kick(f, c, n)
        \/ \E t \in Topics : Topic(f, c, t)
        \/ ChannelMsg(f, c)
  BY DEF ChannelCommand
<1>2. status = "running"
  BY <1>1 DEF Join, Create, Part, Kick, Topic, ChannelMsg, LoggedIn, HasLine
<1>3. ASSUME NEW k \in Keys \cup {NoKey}, Join(f, c, k) PROVE CrashAllowed
  BY <1>3, ReadingIsSafe DEF Join, CrashAllowed
<1>4. ASSUME NEW k \in Keys \cup {NoKey}, Create(f, c, k) PROVE CrashAllowed
  BY <1>2, <1>4 DEF Create
<1>5. CASE Part(f, c)
  BY <1>5, RemovalIsAllowed DEF Part
<1>6. ASSUME NEW n \in Names, Kick(f, c, n) PROVE CrashAllowed
  BY <1>6, RemovalIsAllowed DEF Kick
<1>7. ASSUME NEW t \in Topics, Topic(f, c, t) PROVE CrashAllowed
  BY <1>7, ReadingIsSafe DEF Topic, CrashAllowed
<1>8. CASE ChannelMsg(f, c)
  <2>1. /\ c \in DOMAIN channels
        /\ NoFd \in Addressees(c) \/ "crashed" \in Reading(Members(c))
    BY <1>8 DEF ChannelMsg
  <2> QED
    BY <2>1, AddresseesExist, ReadingIsSafe DEF CrashAllowed
<1> QED
  BY <1>1, <1>3, <1>4, <1>5, <1>6, <1>7, <1>8

LEMMA CrashStep ==
  CInv /\ [Next]_vars => [status' = "crashed" => CrashAllowed]_vars
<1> SUFFICES ASSUME CInv, Next, status' = "crashed" PROVE CrashAllowed
  OBVIOUS
<1>1. CASE Accept
  BY <1>1 DEF Accept, Idle
<1>2. CASE EndOfSegment
  BY <1>2 DEF EndOfSegment
<1>3. ASSUME NEW f \in Fds, Disconnect(f) \/ NextLine(f) PROVE FALSE
  BY <1>3 DEF Disconnect, NextLine, Idle
<1>4. ASSUME NEW f \in Fds, Register(f) PROVE FALSE
  BY <1>4 DEF Register, Pass, User, Nick, HasLine
<1>5. ASSUME NEW f \in Fds, ChannelCommand(f) PROVE CrashAllowed
  BY <1>5, CommandCrash
<1>6. ASSUME NEW f \in Fds, Quit(f) PROVE FALSE
  BY <1>6 DEF Quit, LoggedIn, HasLine
<1> QED
  BY <1>1, <1>2, <1>3, <1>4, <1>5, <1>6 DEF Next

\* Only after somebody vanished from a channel, or in removing the last member
\* of one, can a line read through a dangling or null pointer.
THEOREM CrashesHaveACause == Spec => CrashCause
<1>1. CInv /\ [Next]_vars
        => [status' = "crashed" => \/ Done({"left"})
                                  \/ ~(DOMAIN channels \subseteq DOMAIN channels')]_vars
  BY CrashStep DEF CrashAllowed
<1> QED
  BY <1>1, ChannelInvariant, PTL DEF Spec, CrashCause

\* While nobody vanished, no ghost was made: who is a member.
LEMMA MembersAndNicks ==
  ASSUME CInv, ~Done({"left", "ghost"}), NEW c \in DOMAIN channels, NEW a \in Members(c)
  PROVE  \E f \in open : /\ a = clients[f] /\ f \in Fds
                         /\ Obj(f).hasNick
                         /\ \A g \in DOMAIN clients :
                              Obj(g).nick = Obj(f).nick /\ Obj(g).hasNick => g = f
<1>1. ~Done({"left"}) /\ ~Done({"ghost"})
  BY DEF Done
<1>2. PICK f \in DOMAIN clients : /\ a = clients[f] /\ f \in Fds
                                  /\ <<f, c>> \in roster
  BY <1>1, MemberIsOnRoster
<1>3. DOMAIN clients \subseteq open
  BY <1>1 DEF CInv, NoGhosts
<1>4. Obj(f).loged
  BY <1>2 DEF CInv, RosterLoged
<1>5. Obj(f).hasNick
  BY <1>2, <1>3, <1>4 DEF CInv, SInv, RegistrationOrder
<1> QED
  BY <1>2, <1>3, <1>5 DEF CInv, SInv, UniqueNicks

\* Whom a member's nick leads to: a client of that nick, and, unless it is the
\* empty one, the member.
LEMMA NickLeadsTo ==
  ASSUME CInv, ~Done({"left", "ghost"}), NEW c \in DOMAIN channels, NEW g \in open,
         clients[g] \in Members(c)
  PROVE  LET h == GetClient(ClientFind(heap[clients[g]].nick))
         IN /\ h \in open
            /\ Obj(h).nick = Obj(g).nick
            /\ Obj(g).nick # NoNick => h = g
<1> DEFINE n == Obj(g).nick
           found == {x \in DOMAIN clients : Obj(x).nick = n}
<1>1. g \in found /\ DOMAIN clients \subseteq open
  BY DEF CInv, SInv, OwnObjects, NoGhosts, Done
<1>2. ClientFind(n) = n
  BY <1>1 DEF ClientFind
<1>3. GetClient(n) = CHOOSE h \in found : \A x \in found : h <= x
  BY <1>1 DEF GetClient
<1>4. found \in SUBSET Nat
  BY AmaConstants DEF CInv, SInv, SessionsOK
<1>5. GetClient(n) \in found
  <2>1. \E h \in found : \A x \in found : h <= x
    <3> HIDE DEF found
    <3> QED
      BY <1>1, <1>4, MinProperties
  <2> QED
    BY <1>3, <2>1
<1>6. ASSUME n # NoNick, NEW h \in found PROVE h = g
  <2>1. PICK f \in open :
          /\ clients[g] = clients[f]
          /\ \A x \in DOMAIN clients :
               Obj(x).nick = Obj(f).nick /\ Obj(x).hasNick => x = f
    BY MembersAndNicks
  <2>2. g = f
    BY <2>1 DEF CInv, SInv, OwnObjects
  <2>3. Obj(h).hasNick
    BY <1>1, <1>6 DEF CInv, SInv, RegistrationOrder
  <2> QED
    BY <2>1, <2>2, <2>3
<1> HIDE DEF found
<1>7. GetClient(ClientFind(n)) \in found
  BY <1>2, <1>5
<1>8. \A h \in found : h \in open /\ Obj(h).nick = n
  BY <1>1 DEF found
<1> QED
  BY <1>6, <1>7, <1>8 DEF Obj

\* Passing the test for operators means being on the channel, until somebody
\* vanishes from a channel or renames, or a ghost is made.
THEOREM OperatorsAreOnChannel == Spec => []OperatorOnChannel
<1>1. ASSUME CInv PROVE OperatorOnChannel
  <2> SUFFICES ASSUME ~Done({"left", "renick", "ghost"}), NEW c \in DOMAIN channels
               PROVE  /\ \E a \in Members(c) : heap[a].nick = channels[c].op
                      /\ \A f \in open : Obj(f).loged /\ Obj(f).nick = channels[c].op
                                          => clients[f] \in Members(c)
    BY DEF OperatorOnChannel
  <2>1. PICK a \in Members(c) : heap[a].nick = channels[c].op
    BY <1>1 DEF CInv, OperatorsNick
  <2>2. ~Done({"left", "ghost"})
    BY DEF Done
  <2>3. PICK g \in open :
          /\ a = clients[g]
          /\ \A h \in DOMAIN clients :
               Obj(h).nick = Obj(g).nick /\ Obj(h).hasNick => h = g
    BY <1>1, <2>2, MembersAndNicks
  <2>4. ASSUME NEW f \in open, Obj(f).loged, Obj(f).nick = channels[c].op
        PROVE  clients[f] \in Members(c)
    <3>1. /\ f \in DOMAIN clients /\ Obj(f).hasNick
          /\ Obj(f).nick = Obj(g).nick
      BY <1>1, <2>1, <2>3, <2>4
         DEF CInv, SInv, OwnObjects, RegistrationOrder, Obj
    <3> QED
      BY <2>3, <3>1
  <2> QED
    BY <2>1, <2>4
<1> QED
  BY <1>1, ChannelInvariant, PTL

\* Until a member vanishes or a ghost is made: a message to a channel reaches
\* all other members with a name, save the bot, and no named stranger; and
\* while every member has a name, exactly the other members, save the bot.
THEOREM RoutingIsRight == Spec => []Routing
<1>1. ASSUME CInv PROVE Routing
  <2> SUFFICES ASSUME ~Done({"left", "ghost"}), NEW c \in DOMAIN channels, NEW f \in open,
                      clients[f] \in Members(c)
               PROVE  LET others == {g \in open : /\ clients[g] \in Members(c)
                                                  /\ g # f
                                                  /\ Obj(g).nick # BotNick}
                      IN /\ {g \in Recipients(f, c) : Obj(g).nick # NoNick}
                            = {g \in others : Obj(g).nick # NoNick}
                         /\ (\A a \in Members(c) : heap[a].nick # NoNick)
                              => Recipients(f, c) = others
    BY DEF Routing
  <2> DEFINE To(a) == GetClient(ClientFind(heap[a].nick))
             named == {g \in open : clients[g] \in Members(c) /\ Obj(g).nick # NoNick}
  <2>1. ASSUME NEW g \in open, clients[g] \in Members(c)
        PROVE  /\ To(clients[g]) \in open
               /\ Obj(To(clients[g])).nick = Obj(g).nick
               /\ Obj(g).nick # NoNick => To(clients[g]) = g
    BY <1>1, <2>1, NickLeadsTo
  <2>2. \A a \in Members(c) : \E g \in open : a = clients[g]
    BY <1>1, MembersAndNicks
  <2>3. Addressees(c) = {To(a) : a \in Members(c)}
    BY DEF Addressees
  <2> HIDE DEF To
  <2>4. {h \in Addressees(c) : Obj(h).nick # NoNick} = named
    <3>1. ASSUME NEW h \in Addressees(c), Obj(h).nick # NoNick PROVE h \in named
      <4>1. PICK g \in open : clients[g] \in Members(c) /\ h = To(clients[g])
        BY <2>2, <2>3
      <4>2. g = h
        BY <2>1, <3>1, <4>1
      <4> QED
        BY <3>1, <4>1, <4>2
    <3>2. ASSUME NEW g \in named PROVE g \in Addressees(c) /\ Obj(g).nick # NoNick
      <4>1. To(clients[g]) = g
        BY <2>1
      <4> QED
        BY <2>3, <4>1
    <3> QED
      BY <3>1, <3>2
  <2>5. (\A a \in Members(c) : heap[a].nick # NoNick)
          => Addressees(c) = {g \in open : clients[g] \in Members(c)}
    <3> SUFFICES ASSUME \A a \in Members(c) : heap[a].nick # NoNick
                 PROVE  Addressees(c) = {g \in open : clients[g] \in Members(c)}
      OBVIOUS
    <3>1. \A g \in open : clients[g] \in Members(c) => Obj(g).nick # NoNick
      BY DEF Obj
    <3> QED
      BY <2>1, <2>2, <2>3, <3>1
  <2>6. /\ NoFd \notin open /\ \A g \in open : Obj(g).fd = g
        /\ Addressees(c) \subseteq open
    <3>1. NoFd \notin open /\ \A g \in open : Obj(g).fd = g
      BY <1>1, AmaConstants DEF CInv, SInv, SessionsOK, RegistrationOrder
    <3>2. Addressees(c) \subseteq open
      BY <2>1, <2>2, <2>3
    <3> QED
      BY <3>1, <3>2
  <2> QED
    BY <2>4, <2>5, <2>6 DEF Recipients
<1> QED
  BY <1>1, ChannelInvariant, PTL
=============================================================================
