--------------------------- MODULE SignalingProofs ---------------------------
(***************************************************************************)
(* Theorems about Signaling, for any set of clients and any bound on what  *)
(* they send.                                                              *)
(***************************************************************************)
EXTENDS Signaling, TLAPS

-----------------------------------------------------------------------------
(* Queues.                                                                 *)

(* What appending to a queue does to its positions. *)
LEMMA AppendPositions ==
  ASSUME NEW S, NEW q \in Seq(S), NEW e \in S
  PROVE  /\ Append(q, e) \in Seq(S)
         /\ Len(q) \in Nat
         /\ DOMAIN q = 1 .. Len(q)
         /\ DOMAIN Append(q, e) = 1 .. Len(q) + 1
         /\ \A i \in 1 .. Len(q) : Append(q, e)[i] = q[i]
         /\ Append(q, e)[Len(q) + 1] = e
  OBVIOUS

(* What consuming the head of a queue does to its positions. *)
LEMMA TailPositions ==
  ASSUME NEW S, NEW q \in Seq(S), q # <<>>
  PROVE  /\ Tail(q) \in Seq(S)
         /\ Head(q) \in S
         /\ Head(q) = q[1]
         /\ Len(q) \in Nat \ {0}
         /\ DOMAIN q = 1 .. Len(q)
         /\ DOMAIN Tail(q) = 1 .. Len(q) - 1
         /\ \A i \in 1 .. Len(q) - 1 : Tail(q)[i] = q[i + 1]
  OBVIOUS

-----------------------------------------------------------------------------
(* Types.                                                                  *)

(* What the server answers to a client's message is a message. *)
LEMMA ReplyType ==
  ASSUME ClientsAssumption, TypeOK, NEW c \in Clients, NEW m \in ClientMsg,
         NEW d \in Recipients(c, m)
  PROVE  d \in Clients /\ Reply(c, m) \in ServerMsg
<1>1. d \in Clients
  BY DEF Recipients, TypeOK
<1>2. CASE m.type \in SignalTypes
  <2>1. m.sender \in Clients
    BY <1>2 DEF Recipients, ClientMsg
  <2>2. Relayed(c, m) \in Signal
    BY <1>2, <2>1 DEF Relayed, Signal, ClientMsg
  <2> QED
    BY <1>1, <1>2, <2>2 DEF Reply, ServerMsg
<1>3. CASE m.type \notin SignalTypes
  BY <1>1, <1>3 DEF Reply, ServerMsg, PongMsg
<1> QED
  BY <1>2, <1>3

(* The messages the handlers build are messages. *)
LEMMA NewsType ==
  ASSUME NEW c \in Clients, NEW S \in SUBSET Clients
  PROVE  ConnectMsg(c, S) \in ServerMsg /\ JoinedMsg(c) \in ServerMsg
         /\ LeftMsg(c) \in ServerMsg
BY DEF ConnectMsg, JoinedMsg, LeftMsg, ServerMsg

LEMMA TypeStep ==
  ASSUME ClientsAssumption, TypeOK, [Next]_vars
  PROVE  TypeOK'
<1> USE DEF TypeOK
<1>1. ASSUME NEW c \in Clients, OnConnection(c) PROVE TypeOK'
  <2>1. toClient' \in [Clients -> Seq(ServerMsg)]
    <3> SUFFICES ASSUME NEW d \in Clients PROVE toClient'[d] \in Seq(ServerMsg)
      BY <1>1 DEF OnConnection
    <3> QED
      BY <1>1, NewsType, AppendPositions DEF OnConnection
  <2> QED
    BY <1>1, <2>1 DEF OnConnection, browserVars
<1>2. ASSUME NEW c \in Clients, OnMessage(c) PROVE TypeOK'
  <2> DEFINE m == Head(toServer[c])
  <2>1. m \in ClientMsg /\ Tail(toServer[c]) \in Seq(ClientMsg)
    BY <1>2, TailPositions DEF OnMessage
  <2>2. toClient' \in [Clients -> Seq(ServerMsg)]
    <3> SUFFICES ASSUME NEW d \in Clients PROVE toClient'[d] \in Seq(ServerMsg)
      BY <1>2 DEF OnMessage
    <3>1. CASE d \in Recipients(c, m)
      <4>1. Reply(c, m) \in ServerMsg
        BY <2>1, <3>1, ReplyType
      <4> QED
        BY <1>2, <3>1, <4>1, AppendPositions DEF OnMessage
    <3>2. CASE d \notin Recipients(c, m)
      BY <1>2, <3>2 DEF OnMessage
    <3> QED
      BY <3>1, <3>2
  <2> QED
    BY <1>2, <2>1, <2>2 DEF OnMessage, browserVars, serverVars
<1>3. ASSUME NEW c \in Clients, OnClose(c) PROVE TypeOK'
  <2>1. toClient' \in [Clients -> Seq(ServerMsg)]
    <3> SUFFICES ASSUME NEW d \in Clients PROVE toClient'[d] \in Seq(ServerMsg)
      BY <1>3 DEF OnClose
    <3> QED
      BY <1>3, NewsType, AppendPositions DEF OnClose
  <2> QED
    BY <1>3, <2>1 DEF OnClose, browserVars
<1>4. ASSUME NEW c \in Clients, ReadCloseFrame(c) PROVE TypeOK'
  BY <1>4 DEF ReadCloseFrame, browserVars
<1>5. ASSUME NEW c \in Clients, LoseConnection(c) PROVE TypeOK'
  BY <1>5 DEF LoseConnection, browserVars
<1>6. ASSUME NEW c \in Clients, HandleMessage(c) PROVE TypeOK'
  <2> DEFINE m == Head(toClient[c])
  <2>1. m \in ServerMsg /\ Tail(toClient[c]) \in Seq(ServerMsg)
    BY <1>6, TailPositions DEF HandleMessage
  <2>2. NewRoster(c, m) \in SUBSET Clients
    BY <2>1 DEF NewRoster, ServerMsg, Signal
  <2>3. m.type = "connect" => m.id \in Clients
    BY <2>1, ClientsAssumption DEF ServerMsg, Signal, ClientsAssumption
  <2>4. m.type \in SignalTypes => m.from \in Clients /\ m.n \in Nat
    BY <2>1, ClientsAssumption DEF ServerMsg, Signal, ClientsAssumption
  <2>5. roster' \in [Clients -> SUBSET Clients]
    BY <1>6, <2>2 DEF HandleMessage
  <2>6. clientId' \in [Clients -> Clients \cup {Null}]
    BY <1>6, <2>3 DEF HandleMessage
  <2>7. heard' \in [Clients -> [Clients -> Nat]]
    BY <1>6, <2>4 DEF HandleMessage
  <2> QED
    BY <1>6, <2>1, <2>5, <2>6, <2>7 DEF HandleMessage, serverVars
<1>7. ASSUME NEW c \in Clients, NEW type \in SignalTypes \cup OtherTypes,
             NEW sender \in Clients \cup {Null}, NEW target \in Clients \cup {Null},
             Send(c, type, sender, target)
      PROVE TypeOK'
  <2>1. [type |-> type, sender |-> sender, target |-> target, n |-> sent[c] + 1]
           \in ClientMsg
    BY DEF ClientMsg
  <2>2. sent' \in [Clients -> Nat]
    <3>1. sent' = [sent EXCEPT ![c] = @ + 1]
      BY <1>7 DEF Send
    <3>2. sent \in [Clients -> Nat] /\ sent[c] + 1 \in Nat
      OBVIOUS
    <3> HIDE DEF TypeOK
    <3> QED
      BY <3>1, <3>2
  <2>3. toServer' \in [Clients -> Seq(ClientMsg)]
    BY <1>7, <2>1, AppendPositions DEF Send
  <2> QED
    BY <1>7, <2>2, <2>3 DEF Send, serverVars
<1>8. ASSUME NEW c \in Clients, CloseClient(c) PROVE TypeOK'
  BY <1>8 DEF CloseClient, serverVars
<1>9. CASE UNCHANGED vars
  BY <1>9 DEF vars, browserVars
<1> QED
  BY <1>1, <1>2, <1>3, <1>4, <1>5, <1>6, <1>7, <1>8, <1>9 DEF Next

(* Every variable keeps its type: in particular what is relayed always     *)
(* carries a sender (server.js:51), if not always the connection's own id. *)
THEOREM TypeCorrect == Spec => []TypeOK
<1>1. Init => TypeOK
  BY DEF Init, TypeOK
<1>2. TypeOK /\ [Next]_vars => TypeOK'
  BY TypeStep, ClientsAssumption
<1> QED
  BY <1>1, <1>2, PTL DEF Spec

-----------------------------------------------------------------------------
(* Membership.                                                             *)

(* Departures come after arrivals in a queue. *)
Ordered(q, x) ==
  \A i, j \in DOMAIN q : Delists(q[i], x) /\ Lists(q[j], x) => j < i

(* The Map holds the sockets that are open or closing; a socket that has   *)
(* not been accepted has neither messages nor a list.                      *)
Registration ==
  \A c \in Clients :
    /\ c \in clients <=> readyState[c] \in {"OPEN", "CLOSING"}
    /\ readyState[c] = "CONNECTING" =>
         toClient[c] = <<>> /\ roster[c] = {} /\ clientId[c] = Null

(* Nobody is told an id but its own. *)
OwnWelcome(q, c) == \A i \in DOMAIN q : q[i].type = "connect" => q[i].id = c

Identity ==
  \A c \in Clients : clientId[c] \in {Null, c} /\ OwnWelcome(toClient[c], c)

(* Nobody is listed before connecting, or delisted before leaving. *)
TrueNews ==
  \A c, x \in Clients :
    /\ x \in roster[c] \/ Told(toClient[c], x) =>
         x # c /\ readyState[x] # "CONNECTING"
    /\ ToldGone(toClient[c], x) => readyState[x] = "CLOSED"

OrderedNews == \A c, x \in Clients : Ordered(toClient[c], x)

MembershipInv ==
  /\ TypeOK
  /\ Registration
  /\ Identity
  /\ WelcomeFirst
  /\ TrueNews
  /\ OrderedNews
  /\ RosterTracksRegistry

(* What one more message adds to what a queue tells. *)
LEMMA AppendNews ==
  ASSUME NEW q \in Seq(ServerMsg), NEW m \in ServerMsg
  PROVE  /\ \A x : Told(Append(q, m), x) <=> Told(q, x) \/ Lists(m, x)
         /\ \A x : ToldGone(Append(q, m), x) <=> ToldGone(q, x) \/ Delists(m, x)
         /\ NoWelcome(Append(q, m)) <=> NoWelcome(q) /\ m.type # "connect"
         /\ \A c : OwnWelcome(q, c) /\ (m.type = "connect" => m.id = c)
                    => OwnWelcome(Append(q, m), c)
         /\ \A x : Ordered(q, x) /\ ~ (Lists(m, x) /\ ToldGone(q, x))
                    => Ordered(Append(q, m), x)
         /\ Append(q, m) # <<>>
         /\ q # <<>> =>
              /\ Head(Append(q, m)) = Head(q)
              /\ NoWelcome(Tail(Append(q, m))) <=> NoWelcome(Tail(q)) /\ m.type # "connect"
<1> DEFINE a == Append(q, m)
           n == Len(q)
<1>1. /\ a \in Seq(ServerMsg)
      /\ n \in Nat
      /\ DOMAIN q = 1 .. n
      /\ DOMAIN a = 1 .. n + 1
      /\ \A i \in 1 .. n : a[i] = q[i]
      /\ a[n + 1] = m
  BY AppendPositions
<1>2. DOMAIN a = DOMAIN q \cup {n + 1}
  BY <1>1
<1> HIDE DEF a, n
<1>3. \A x : Told(a, x) <=> Told(q, x) \/ Lists(m, x)
  BY <1>1, <1>2 DEF Told
<1>4. \A x : ToldGone(a, x) <=> ToldGone(q, x) \/ Delists(m, x)
  BY <1>1, <1>2 DEF ToldGone
<1>5. NoWelcome(a) <=> NoWelcome(q) /\ m.type # "connect"
  BY <1>1, <1>2 DEF NoWelcome
<1>6. \A c : OwnWelcome(q, c) /\ (m.type = "connect" => m.id = c) => OwnWelcome(a, c)
  BY <1>1, <1>2 DEF OwnWelcome
<1>7. \A x : Ordered(q, x) /\ ~ (Lists(m, x) /\ ToldGone(q, x)) => Ordered(a, x)
  <2> SUFFICES ASSUME NEW x, Ordered(q, x), ~ (Lists(m, x) /\ ToldGone(q, x)),
                      NEW i \in DOMAIN a, NEW j \in DOMAIN a,
                      Delists(a[i], x), Lists(a[j], x)
               PROVE  j < i
    BY DEF Ordered
  <2>1. CASE i \in 1 .. n /\ j \in 1 .. n
    BY <1>1, <2>1 DEF Ordered
  <2>2. CASE i = n + 1 /\ j \in 1 .. n
    BY <1>1, <2>2
  <2>3. CASE i \in 1 .. n /\ j = n + 1
    BY <1>1, <2>3 DEF ToldGone
  <2>4. CASE i = n + 1 /\ j = n + 1
    BY <1>1, <2>4 DEF Lists, Delists
  <2> QED
    BY <1>1, <2>1, <2>2, <2>3, <2>4
<1>8. a # <<>>
  <2>1. Len(a) = n + 1
    BY DEF a, n
  <2> QED
    BY <1>1, <2>1
<1>9. ASSUME q # <<>>
      PROVE  /\ Head(a) = Head(q)
             /\ NoWelcome(Tail(a)) <=> NoWelcome(Tail(q)) /\ m.type # "connect"
  <2> DEFINE t == Tail(q)
  <2>1. Head(a) = Head(q) /\ Tail(a) = Append(t, m) /\ t \in Seq(ServerMsg)
    BY <1>9 DEF a
  <2> HIDE DEF t
  <2>2. /\ Len(t) \in Nat
        /\ DOMAIN t = 1 .. Len(t)
        /\ DOMAIN Append(t, m) = 1 .. Len(t) + 1
        /\ \A i \in 1 .. Len(t) : Append(t, m)[i] = t[i]
        /\ Append(t, m)[Len(t) + 1] = m
    BY <2>1, AppendPositions
  <2>3. NoWelcome(Append(t, m)) <=> NoWelcome(t) /\ m.type # "connect"
    BY <2>2 DEF NoWelcome
  <2> QED
    BY <2>1, <2>3 DEF t
<1> QED
  BY <1>3, <1>4, <1>5, <1>6, <1>7, <1>8, <1>9 DEF a

(* What handling the first message takes from what a queue tells. *)
LEMMA TailNews ==
  ASSUME NEW q \in Seq(ServerMsg), q # <<>>
  PROVE  /\ \A x : Told(q, x) <=> Told(Tail(q), x) \/ Lists(Head(q), x)
         /\ \A x : ToldGone(q, x) <=> ToldGone(Tail(q), x) \/ Delists(Head(q), x)
         /\ NoWelcome(q) <=> NoWelcome(Tail(q)) /\ Head(q).type # "connect"
         /\ \A c : OwnWelcome(q, c) => /\ OwnWelcome(Tail(q), c)
                                       /\ Head(q).type = "connect" => Head(q).id = c
         /\ \A x : Ordered(q, x) => /\ Ordered(Tail(q), x)
                                    /\ Delists(Head(q), x) => ~ Told(Tail(q), x)
<1> DEFINE t == Tail(q)
           n == Len(q)
<1>1. /\ n \in Nat \ {0}
      /\ Head(q) = q[1]
      /\ DOMAIN q = 1 .. n
      /\ DOMAIN t = 1 .. n - 1
      /\ \A i \in 1 .. n - 1 : t[i] = q[i + 1]
  BY TailPositions
<1> HIDE DEF t, n
<1>2. \A i \in DOMAIN t : i + 1 \in DOMAIN q /\ t[i] = q[i + 1]
  BY <1>1
<1>3. \A i \in DOMAIN q : i = 1 \/ (i - 1 \in DOMAIN t /\ t[i - 1] = q[i])
  <2> SUFFICES ASSUME NEW i \in DOMAIN q, i # 1
               PROVE  i - 1 \in DOMAIN t /\ t[i - 1] = q[i]
    OBVIOUS
  <2>1. i - 1 \in 1 .. n - 1 /\ (i - 1) + 1 = i
    BY <1>1
  <2> QED
    BY <1>1, <2>1
<1>4. 1 \in DOMAIN q
  BY <1>1
<1>5. \A x : Told(q, x) <=> Told(t, x) \/ Lists(Head(q), x)
  BY <1>1, <1>2, <1>3, <1>4 DEF Told
<1>6. \A x : ToldGone(q, x) <=> ToldGone(t, x) \/ Delists(Head(q), x)
  BY <1>1, <1>2, <1>3, <1>4 DEF ToldGone
<1>7. NoWelcome(q) <=> NoWelcome(t) /\ Head(q).type # "connect"
  BY <1>1, <1>2, <1>3, <1>4 DEF NoWelcome
<1>8. \A c : OwnWelcome(q, c) => /\ OwnWelcome(t, c)
                                 /\ Head(q).type = "connect" => Head(q).id = c
  BY <1>1, <1>2, <1>4 DEF OwnWelcome
<1>9. \A x : Ordered(q, x) => Ordered(t, x) /\ (Delists(Head(q), x) => ~ Told(t, x))
  <2> SUFFICES ASSUME NEW x, Ordered(q, x)
               PROVE  Ordered(t, x) /\ (Delists(Head(q), x) => ~ Told(t, x))
    OBVIOUS
  <2>1. ASSUME NEW i \in DOMAIN t, NEW j \in DOMAIN t, Delists(t[i], x), Lists(t[j], x)
        PROVE  j < i
    <3>1. j + 1 < i + 1
      BY <1>2, <2>1 DEF Ordered
    <3> QED
      BY <1>1, <3>1
  <2>2. ASSUME Delists(Head(q), x), NEW j \in DOMAIN t, Lists(t[j], x)
        PROVE  FALSE
    <3>1. j + 1 < 1
      BY <1>1, <1>2, <1>4, <2>2 DEF Ordered
    <3> QED
      BY <1>1, <3>1
  <2> QED
    BY <2>1, <2>2 DEF Ordered, Told
<1> QED
  BY <1>5, <1>6, <1>7, <1>8, <1>9 DEF t

(* What each message means to a list. *)
LEMMA Meaning ==
  ASSUME NEW c, NEW S
  PROVE  /\ \A x : Lists(ConnectMsg(c, S), x) <=> x \in S
         /\ \A x : Lists(JoinedMsg(c), x) <=> x = c
         /\ \A x : Delists(LeftMsg(c), x) <=> x = c
         /\ \A x : /\ ~ Delists(ConnectMsg(c, S), x)
                   /\ ~ Delists(JoinedMsg(c), x)
                   /\ ~ Lists(LeftMsg(c), x)
         /\ ConnectMsg(c, S).type = "connect" /\ ConnectMsg(c, S).id = c
         /\ JoinedMsg(c).type # "connect" /\ LeftMsg(c).type # "connect"
BY DEF Lists, Delists, ConnectMsg, JoinedMsg, LeftMsg

(* A relayed signal or a pong means nothing to a list. *)
LEMMA ReplyMeaning ==
  ASSUME ClientsAssumption, NEW c \in Clients, NEW m \in ClientMsg
  PROVE  /\ \A x : ~ Lists(Reply(c, m), x) /\ ~ Delists(Reply(c, m), x)
         /\ Reply(c, m).type # "connect"
<1>1. CASE m.type \in SignalTypes
  BY <1>1 DEF ClientsAssumption, Reply, Relayed, Lists, Delists
<1>2. CASE m.type \notin SignalTypes
  BY <1>2 DEF Reply, PongMsg, Lists, Delists
<1> QED
  BY <1>1, <1>2

(* An empty queue tells nothing. *)
LEMMA EmptyNews ==
  /\ \A x : ~ Told(<<>>, x) /\ ~ ToldGone(<<>>, x) /\ Ordered(<<>>, x)
  /\ NoWelcome(<<>>)
  /\ \A c : OwnWelcome(<<>>, c)
BY DEF Told, ToldGone, Ordered, NoWelcome, OwnWelcome

LEMMA ConnectionKeepsMembership ==
  ASSUME ClientsAssumption, MembershipInv, NEW c \in Clients, OnConnection(c)
  PROVE  MembershipInv'
<1> DEFINE welcome == ConnectMsg(c, clients \ {c})
<1>1. TypeOK /\ TypeOK'
  BY TypeStep DEF MembershipInv, Next
<1>2. /\ readyState[c] = "CONNECTING" /\ toClient[c] = <<>> /\ roster[c] = {}
      /\ clientId[c] = Null /\ c \notin clients
  BY DEF OnConnection, MembershipInv, Registration
<1>3. /\ clients' = clients \cup {c} /\ clientId' = clientId /\ roster' = roster
      /\ readyState'[c] = "OPEN"
      /\ \A d \in Clients \ {c} : readyState'[d] = readyState[d]
  BY <1>1 DEF OnConnection, browserVars, TypeOK
<1>4. toClient'[c] = Append(<<>>, welcome)
  BY <1>2 DEF OnConnection
<1>5. \A d \in Audience(c) : /\ toClient'[d] = Append(toClient[d], JoinedMsg(c))
                             /\ d \in Clients /\ d # c /\ readyState[d] = "OPEN"
  BY <1>1 DEF OnConnection, Audience, TypeOK
<1>6. \A d \in Clients : d # c /\ d \notin Audience(c) =>
         toClient'[d] = toClient[d] /\ readyState[d] # "OPEN"
  BY DEF OnConnection, Audience, MembershipInv, Registration
<1>7. /\ welcome \in ServerMsg /\ JoinedMsg(c) \in ServerMsg
      /\ \A d \in Clients : toClient[d] \in Seq(ServerMsg)
      /\ <<>> \in Seq(ServerMsg)
  <2>1. welcome \in ServerMsg /\ JoinedMsg(c) \in ServerMsg
    BY <1>1, NewsType DEF TypeOK
  <2> QED
    BY <1>1, <2>1 DEF TypeOK
<1>8. /\ \A x : Told(toClient'[c], x) <=> x \in clients
      /\ \A x : ~ ToldGone(toClient'[c], x) /\ Ordered(toClient'[c], x)
      /\ OwnWelcome(toClient'[c], c)
      /\ toClient'[c] # <<>> /\ Head(toClient'[c]).type = "connect"
      /\ NoWelcome(Tail(toClient'[c]))
  <2> DEFINE empty == <<>>
  <2>1. Head(toClient'[c]) = welcome /\ Tail(toClient'[c]) = empty
    BY <1>4
  <2>2. /\ \A x : Lists(welcome, x) <=> x \in clients
        /\ \A x : ~ Delists(welcome, x)
        /\ welcome.type = "connect" /\ welcome.id = c
    BY <1>2, Meaning
  <2>3. toClient'[c] = Append(empty, welcome) /\ empty \in Seq(ServerMsg)
    BY <1>4, <1>7
  <2>4. /\ \A x : ~ Told(empty, x) /\ ~ ToldGone(empty, x) /\ Ordered(empty, x)
        /\ NoWelcome(empty)
        /\ OwnWelcome(empty, c)
    BY EmptyNews
  <2> HIDE DEF welcome, empty
  <2>5. /\ \A x : Told(toClient'[c], x) <=> x \in clients
        /\ \A x : ~ ToldGone(toClient'[c], x) /\ Ordered(toClient'[c], x)
        /\ OwnWelcome(toClient'[c], c)
        /\ toClient'[c] # <<>>
    BY <1>7, <2>2, <2>3, <2>4, AppendNews
  <2> QED
    BY <2>1, <2>2, <2>4, <2>5
<1>9. ASSUME NEW d \in Audience(c)
      PROVE  /\ \A x : Told(toClient'[d], x) <=> Told(toClient[d], x) \/ x = c
             /\ \A x : ToldGone(toClient'[d], x) <=> ToldGone(toClient[d], x)
             /\ \A x : Ordered(toClient[d], x) /\ ~ (x = c /\ ToldGone(toClient[d], x))
                       => Ordered(toClient'[d], x)
             /\ OwnWelcome(toClient[d], d) => OwnWelcome(toClient'[d], d)
             /\ NoWelcome(toClient'[d]) <=> NoWelcome(toClient[d])
             /\ toClient[d] # <<>> =>
                  /\ toClient'[d] # <<>> /\ Head(toClient'[d]) = Head(toClient[d])
                  /\ NoWelcome(Tail(toClient'[d])) <=> NoWelcome(Tail(toClient[d]))
  <2> DEFINE q == toClient[d]
             m == JoinedMsg(c)
  <2>1. q \in Seq(ServerMsg) /\ m \in ServerMsg /\ toClient'[d] = Append(q, m)
    BY <1>5, <1>7
  <2>2. /\ \A x : Lists(m, x) <=> x = c
        /\ \A x : ~ Delists(m, x)
        /\ m.type # "connect"
    BY Meaning
  <2> HIDE DEF q, m
  <2>3. q # <<>> => /\ toClient'[d] # <<>> /\ Head(toClient'[d]) = Head(q)
                    /\ NoWelcome(Tail(toClient'[d])) <=> NoWelcome(Tail(q))
    BY <2>1, <2>2, AppendNews
  <2>4. \A x : Ordered(q, x) /\ ~ (x = c /\ ToldGone(q, x)) => Ordered(toClient'[d], x)
    BY <2>1, <2>2, AppendNews
  <2> QED
    BY <2>1, <2>2, <2>3, <2>4, AppendNews DEF q
<1>10. \A d \in Clients : /\ ~ ToldGone(toClient[d], c)
                          /\ c \notin roster[d] /\ ~ Told(toClient[d], c)
  BY <1>2 DEF MembershipInv, TrueNews
<1>11. Registration'
  BY <1>2, <1>3, <1>5, <1>6, <1>8 DEF Registration, MembershipInv
<1>12. Identity'
  BY <1>3, <1>6, <1>8, <1>9 DEF Identity, MembershipInv
<1>13. WelcomeFirst'
  <2> SUFFICES ASSUME NEW d \in Clients
               PROVE  IF readyState'[d] = "CONNECTING" \/ clientId'[d] # Null
                        THEN NoWelcome(toClient'[d])
                        ELSE /\ roster'[d] = {}
                             /\ toClient'[d] # <<>>
                             /\ Head(toClient'[d]).type = "connect"
                             /\ NoWelcome(Tail(toClient'[d]))
    BY DEF WelcomeFirst
  <2>1. CASE d = c
    BY <2>1, <1>2, <1>3, <1>8
  <2>2. CASE d \in Audience(c)
    BY <2>2, <1>3, <1>5, <1>9 DEF WelcomeFirst, MembershipInv
  <2>3. CASE d # c /\ d \notin Audience(c)
    BY <2>3, <1>3, <1>6 DEF WelcomeFirst, MembershipInv
  <2> QED
    BY <2>1, <2>2, <2>3
<1>14. TrueNews'
  <2> SUFFICES ASSUME NEW d \in Clients, NEW x \in Clients
               PROVE  /\ x \in roster'[d] \/ Told(toClient'[d], x) =>
                           x # d /\ readyState'[x] # "CONNECTING"
                      /\ ToldGone(toClient'[d], x) => readyState'[x] = "CLOSED"
    BY DEF TrueNews
  <2>1. /\ x \in roster[d] \/ Told(toClient[d], x) =>
             x # d /\ readyState[x] # "CONNECTING"
        /\ ToldGone(toClient[d], x) => readyState[x] = "CLOSED"
    BY DEF MembershipInv, TrueNews
  <2>2. CASE d = c
    BY <2>1, <2>2, <1>2, <1>3, <1>8 DEF MembershipInv, Registration
  <2>3. CASE d \in Audience(c)
    BY <2>1, <2>3, <1>2, <1>3, <1>5, <1>9
  <2>4. CASE d # c /\ d \notin Audience(c)
    BY <2>1, <2>4, <1>2, <1>3, <1>6
  <2> QED
    BY <2>2, <2>3, <2>4
<1>15. OrderedNews'
  BY <1>6, <1>8, <1>9, <1>10, <1>5 DEF OrderedNews, MembershipInv
<1>16. RosterTracksRegistry'
  <2> SUFFICES ASSUME NEW d \in Clients, readyState'[d] = "OPEN", NEW x \in Clients \ {d}
               PROVE  x \in clients' <=>
                        (x \in roster'[d] \/ Told(toClient'[d], x)) /\ ~ ToldGone(toClient'[d], x)
    BY DEF RosterTracksRegistry, WillList
  <2>1. CASE d = c
    BY <2>1, <1>2, <1>3, <1>8
  <2>2. CASE d \in Audience(c)
    <3>1. x \in clients <=>
            (x \in roster[d] \/ Told(toClient[d], x)) /\ ~ ToldGone(toClient[d], x)
      BY <2>2, <1>5 DEF MembershipInv, RosterTracksRegistry, WillList
    <3> QED
      BY <2>2, <3>1, <1>3, <1>5, <1>9, <1>10
  <2>3. CASE d # c /\ d \notin Audience(c)
    BY <2>3, <1>3, <1>6
  <2> QED
    BY <2>1, <2>2, <2>3
<1> QED
  BY <1>1, <1>11, <1>12, <1>13, <1>14, <1>15, <1>16 DEF MembershipInv

LEMMA MessageKeepsMembership ==
  ASSUME ClientsAssumption, MembershipInv, NEW c \in Clients, OnMessage(c)
  PROVE  MembershipInv'
<1> DEFINE r == Reply(c, Head(toServer[c]))
           to == Recipients(c, Head(toServer[c]))
<1>1. TypeOK /\ TypeOK'
  BY TypeStep DEF MembershipInv, Next
<1>2. UNCHANGED <<clients, readyState, clientId, roster>>
  BY DEF OnMessage, serverVars, browserVars
<1>3. Head(toServer[c]) \in ClientMsg
  BY <1>1, TailPositions DEF OnMessage, TypeOK
<1>4. /\ \A x : ~ Lists(r, x) /\ ~ Delists(r, x)
      /\ r.type # "connect"
  BY <1>3, ReplyMeaning
<1>5. \A d \in Clients : toClient'[d] = IF d \in to THEN Append(toClient[d], r)
                                                    ELSE toClient[d]
  BY DEF OnMessage
<1>6. \A d \in to : d \in clients /\ r \in ServerMsg
  <2> SUFFICES ASSUME NEW d \in to PROVE d \in clients /\ r \in ServerMsg
    OBVIOUS
  <2>1. r \in ServerMsg
    BY <1>1, <1>3, ReplyType
  <2> QED
    BY <2>1 DEF Recipients, OnMessage, MembershipInv, Registration
<1> HIDE DEF r, to
<1>7. ASSUME NEW d \in Clients, d \in to
      PROVE  /\ \A x : Told(toClient'[d], x) <=> Told(toClient[d], x)
             /\ \A x : ToldGone(toClient'[d], x) <=> ToldGone(toClient[d], x)
             /\ \A x : Ordered(toClient[d], x) => Ordered(toClient'[d], x)
             /\ OwnWelcome(toClient[d], d) => OwnWelcome(toClient'[d], d)
             /\ NoWelcome(toClient'[d]) <=> NoWelcome(toClient[d])
             /\ readyState[d] # "CONNECTING"
             /\ toClient[d] # <<>> =>
                  /\ toClient'[d] # <<>> /\ Head(toClient'[d]) = Head(toClient[d])
                  /\ NoWelcome(Tail(toClient'[d])) <=> NoWelcome(Tail(toClient[d]))
  <2>1. toClient[d] \in Seq(ServerMsg) /\ toClient'[d] = Append(toClient[d], r)
    BY <1>1, <1>5, <1>7 DEF TypeOK
  <2>2. readyState[d] # "CONNECTING"
    BY <1>6, <1>7 DEF MembershipInv, Registration
  <2>3. \A x : Ordered(toClient[d], x) => Ordered(toClient'[d], x)
    BY <2>1, <1>4, <1>6, <1>7, AppendNews
  <2> QED
    BY <2>1, <2>2, <2>3, <1>4, <1>6, <1>7, AppendNews
<1>8. Registration'
  BY <1>2, <1>5, <1>7 DEF Registration, MembershipInv
<1>9. Identity'
  BY <1>2, <1>5, <1>7 DEF Identity, MembershipInv
<1>10. WelcomeFirst'
  BY <1>2, <1>5, <1>7 DEF WelcomeFirst, MembershipInv
<1>11. TrueNews'
  BY <1>2, <1>5, <1>7 DEF TrueNews, MembershipInv
<1>12. OrderedNews'
  BY <1>5, <1>7 DEF OrderedNews, MembershipInv
<1>13. RosterTracksRegistry'
  BY <1>2, <1>5, <1>7 DEF RosterTracksRegistry, WillList, MembershipInv
<1> QED
  BY <1>1, <1>8, <1>9, <1>10, <1>11, <1>12, <1>13 DEF MembershipInv

LEMMA CloseKeepsMembership ==
  ASSUME ClientsAssumption, MembershipInv, NEW c \in Clients, OnClose(c)
  PROVE  MembershipInv'
<1>1. TypeOK /\ TypeOK'
  BY TypeStep DEF MembershipInv, Next
<1>2. /\ readyState[c] = "CLOSING" /\ readyState'[c] = "CLOSED"
      /\ \A d \in Clients \ {c} : readyState'[d] = readyState[d]
      /\ clients' = clients \ {c} /\ clientId' = clientId /\ roster' = roster
  BY <1>1 DEF OnClose, browserVars, TypeOK
<1>3. \A d \in Clients :
        IF d \in Audience(c)
          THEN toClient'[d] = Append(toClient[d], LeftMsg(c)) /\ d # c
               /\ readyState[d] = "OPEN"
          ELSE toClient'[d] = toClient[d] /\ (d # c => readyState[d] # "OPEN")
  BY DEF OnClose, Audience, MembershipInv, Registration
<1>4. ASSUME NEW d \in Clients, d \in Audience(c)
      PROVE  /\ \A x : Told(toClient'[d], x) <=> Told(toClient[d], x)
             /\ \A x : ToldGone(toClient'[d], x) <=> ToldGone(toClient[d], x) \/ x = c
             /\ \A x : Ordered(toClient[d], x) => Ordered(toClient'[d], x)
             /\ OwnWelcome(toClient[d], d) => OwnWelcome(toClient'[d], d)
             /\ NoWelcome(toClient'[d]) <=> NoWelcome(toClient[d])
             /\ toClient[d] # <<>> =>
                  /\ toClient'[d] # <<>> /\ Head(toClient'[d]) = Head(toClient[d])
                  /\ NoWelcome(Tail(toClient'[d])) <=> NoWelcome(Tail(toClient[d]))
  <2> DEFINE m == LeftMsg(c)
  <2>1. /\ toClient[d] \in Seq(ServerMsg) /\ m \in ServerMsg
        /\ toClient'[d] = Append(toClient[d], m)
    BY <1>1, <1>3, <1>4, NewsType DEF TypeOK
  <2>2. /\ \A x : Delists(m, x) <=> x = c
        /\ \A x : ~ Lists(m, x)
        /\ m.type # "connect"
    BY Meaning
  <2> HIDE DEF m
  <2>3. \A x : Ordered(toClient[d], x) => Ordered(toClient'[d], x)
    BY <2>1, <2>2, AppendNews
  <2> QED
    BY <2>1, <2>2, <2>3, AppendNews
<1>5. Registration'
  BY <1>2, <1>3 DEF Registration, MembershipInv
<1>6. Identity'
  BY <1>2, <1>3, <1>4 DEF Identity, MembershipInv
<1>7. WelcomeFirst'
  BY <1>2, <1>3, <1>4 DEF WelcomeFirst, MembershipInv
<1>8. TrueNews'
  <2> SUFFICES ASSUME NEW d \in Clients, NEW x \in Clients
               PROVE  /\ x \in roster'[d] \/ Told(toClient'[d], x) =>
                           x # d /\ readyState'[x] # "CONNECTING"
                      /\ ToldGone(toClient'[d], x) => readyState'[x] = "CLOSED"
    BY DEF TrueNews
  <2>1. /\ x \in roster[d] \/ Told(toClient[d], x) =>
             x # d /\ readyState[x] # "CONNECTING"
        /\ ToldGone(toClient[d], x) => readyState[x] = "CLOSED"
    BY DEF MembershipInv, TrueNews
  <2> QED
    BY <2>1, <1>2, <1>3, <1>4
<1>9. OrderedNews'
  BY <1>3, <1>4 DEF OrderedNews, MembershipInv
<1>10. RosterTracksRegistry'
  <2> SUFFICES ASSUME NEW d \in Clients, readyState'[d] = "OPEN", NEW x \in Clients \ {d}
               PROVE  x \in clients' <=>
                        (x \in roster'[d] \/ Told(toClient'[d], x)) /\ ~ ToldGone(toClient'[d], x)
    BY DEF RosterTracksRegistry, WillList
  <2>1. d \in Audience(c) /\ readyState[d] = "OPEN"
    BY <1>2, <1>3
  <2>2. x \in clients <=>
          (x \in roster[d] \/ Told(toClient[d], x)) /\ ~ ToldGone(toClient[d], x)
    BY <2>1 DEF MembershipInv, RosterTracksRegistry, WillList
  <2> QED
    BY <2>1, <2>2, <1>2, <1>4
<1> QED
  BY <1>1, <1>5, <1>6, <1>7, <1>8, <1>9, <1>10 DEF MembershipInv

(* The list after handling a message, by the message's type. *)
LEMMA RosterMeaning ==
  ASSUME NEW c \in Clients, NEW m
  PROVE  /\ m.type = "connect" => NewRoster(c, m) = m.clients \ {m.id}
         /\ m.type = "user-joined" =>
              NewRoster(c, m) = roster[c] \cup ({m.id} \ {clientId[c]})
         /\ m.type = "user-left" => NewRoster(c, m) = roster[c] \ {m.id}
         /\ m.type \notin {"connect", "user-joined", "user-left"} =>
              NewRoster(c, m) = roster[c]
<1>1. CASE m.type = "connect"
  BY <1>1 DEF NewRoster
<1>2. CASE m.type = "user-joined"
  BY <1>2 DEF NewRoster
<1>3. CASE m.type = "user-left"
  BY <1>3 DEF NewRoster
<1>4. CASE m.type \notin {"connect", "user-joined", "user-left"}
  BY <1>4 DEF NewRoster
<1> QED
  BY <1>1, <1>2, <1>3, <1>4

LEMMA HandlingKeepsMembership ==
  ASSUME ClientsAssumption, MembershipInv, NEW c \in Clients, HandleMessage(c)
  PROVE  MembershipInv'
<1> DEFINE q == toClient[c]
           m == Head(toClient[c])
<1>1. TypeOK /\ TypeOK'
  BY TypeStep DEF MembershipInv, Next
<1>2. /\ UNCHANGED <<clients, readyState>>
      /\ roster'[c] = NewRoster(c, m)
      /\ toClient'[c] = Tail(q)
      /\ clientId'[c] = IF m.type = "connect" THEN m.id ELSE clientId[c]
      /\ \A d \in Clients \ {c} : /\ roster'[d] = roster[d] /\ toClient'[d] = toClient[d]
                                  /\ clientId'[d] = clientId[d]
  BY <1>1 DEF HandleMessage, serverVars, TypeOK
<1>3. q \in Seq(ServerMsg) /\ q # <<>> /\ m \in ServerMsg
  BY <1>1, TailPositions DEF HandleMessage, TypeOK
<1>q. q = toClient[c] /\ m = Head(q)
  OBVIOUS
<1> HIDE DEF q, m
<1>4. /\ \A x : Told(q, x) <=> Told(Tail(q), x) \/ Lists(m, x)
      /\ \A x : ToldGone(q, x) <=> ToldGone(Tail(q), x) \/ Delists(m, x)
      /\ NoWelcome(q) <=> NoWelcome(Tail(q)) /\ m.type # "connect"
      /\ OwnWelcome(q, c) => OwnWelcome(Tail(q), c) /\ (m.type = "connect" => m.id = c)
  <2>1. \A x : Told(q, x) <=> Told(Tail(q), x) \/ Lists(Head(q), x)
    BY <1>3, TailNews
  <2>2. \A x : ToldGone(q, x) <=> ToldGone(Tail(q), x) \/ Delists(Head(q), x)
    BY <1>3, TailNews
  <2>3. NoWelcome(q) <=> NoWelcome(Tail(q)) /\ Head(q).type # "connect"
    BY <1>3, TailNews
  <2>4. OwnWelcome(q, c) => OwnWelcome(Tail(q), c) /\ (Head(q).type = "connect" => Head(q).id = c)
    BY <1>3, TailNews
  <2> QED
    BY <1>q, <2>1, <2>2, <2>3, <2>4
<1>5. \A x : Ordered(q, x) => Ordered(Tail(q), x) /\ (Delists(m, x) => ~ Told(Tail(q), x))
  <2>1. \A x : Ordered(q, x) => Ordered(Tail(q), x) /\ (Delists(Head(q), x) => ~ Told(Tail(q), x))
    BY <1>3, TailNews
  <2> QED
    BY <1>q, <2>1
<1>6. /\ clientId[c] \in {Null, c} /\ OwnWelcome(q, c)
      /\ readyState[c] # "CONNECTING" /\ c \in Clients /\ Null \notin Clients
  BY <1>3, <1>q DEF MembershipInv, Identity, Registration, ClientsAssumption
<1>7. IF clientId[c] # Null
        THEN m.type # "connect" /\ NoWelcome(Tail(q))
        ELSE roster[c] = {} /\ m.type = "connect" /\ m.id = c /\ NoWelcome(Tail(q))
  BY <1>4, <1>6, <1>q DEF MembershipInv, WelcomeFirst
<1>8. \A x \in Clients :
        /\ x \in roster[c] \/ Told(q, x) => x # c /\ readyState[x] # "CONNECTING"
        /\ ToldGone(q, x) => readyState[x] = "CLOSED"
        /\ Ordered(q, x)
  BY <1>q DEF MembershipInv, TrueNews, OrderedNews
<1>9. \A x \in Clients : x \in roster'[c] <=>
        (x \in roster[c] \/ Lists(m, x)) /\ ~ Delists(m, x)
  <2> SUFFICES ASSUME NEW x \in Clients
               PROVE  x \in NewRoster(c, m) <=>
                        (x \in roster[c] \/ Lists(m, x)) /\ ~ Delists(m, x)
    BY <1>2
  <2>1. CASE m.type = "connect"
    <3>1. NewRoster(c, m) = m.clients \ {m.id}
      BY <2>1, RosterMeaning
    <3>2. roster[c] = {} /\ m.id = c
      BY <2>1, <1>7
    <3>3. /\ Lists(m, x) <=> x \in m.clients
          /\ ~ Delists(m, x)
      BY <2>1 DEF Lists, Delists
    <3>4. Lists(m, x) => x # c
      BY <1>4, <1>8
    <3> QED
      BY <3>1, <3>2, <3>3, <3>4
  <2>2. CASE m.type = "user-joined"
    <3>1. NewRoster(c, m) = roster[c] \cup ({m.id} \ {clientId[c]})
      BY <2>2, RosterMeaning
    <3>2. clientId[c] = c
      BY <2>2, <1>6, <1>7
    <3>3. /\ Lists(m, x) <=> x = m.id
          /\ ~ Delists(m, x)
      BY <2>2 DEF Lists, Delists
    <3>4. Lists(m, x) => x # c
      BY <1>4, <1>8
    <3> QED
      BY <3>1, <3>2, <3>3, <3>4
  <2>3. CASE m.type = "user-left"
    BY <2>3, RosterMeaning DEF Lists, Delists
  <2>4. CASE m.type \notin {"connect", "user-joined", "user-left"}
    BY <2>4, RosterMeaning DEF Lists, Delists
  <2> QED
    BY <2>1, <2>2, <2>3, <2>4
<1>10. Registration'
  BY <1>2, <1>6 DEF Registration, MembershipInv
<1>11. Identity'
  BY <1>2, <1>4, <1>6 DEF Identity, MembershipInv
<1>12. WelcomeFirst'
  <2> SUFFICES ASSUME NEW d \in Clients
               PROVE  IF readyState'[d] = "CONNECTING" \/ clientId'[d] # Null
                        THEN NoWelcome(toClient'[d])
                        ELSE /\ roster'[d] = {}
                             /\ toClient'[d] # <<>>
                             /\ Head(toClient'[d]).type = "connect"
                             /\ NoWelcome(Tail(toClient'[d]))
    BY DEF WelcomeFirst
  <2>1. CASE d = c
    <3>1. clientId'[c] # Null
      BY <1>2, <1>6, <1>7
    <3> QED
      BY <2>1, <3>1, <1>2, <1>7
  <2>2. CASE d # c
    BY <2>2, <1>2 DEF WelcomeFirst, MembershipInv
  <2> QED
    BY <2>1, <2>2
<1>13. TrueNews'
  <2> SUFFICES ASSUME NEW d \in Clients, NEW x \in Clients
               PROVE  /\ x \in roster'[d] \/ Told(toClient'[d], x) =>
                           x # d /\ readyState'[x] # "CONNECTING"
                      /\ ToldGone(toClient'[d], x) => readyState'[x] = "CLOSED"
    BY DEF TrueNews
  <2>1. CASE d = c
    BY <2>1, <1>2, <1>4, <1>8, <1>9
  <2>2. CASE d # c
    BY <2>2, <1>2 DEF TrueNews, MembershipInv
  <2> QED
    BY <2>1, <2>2
<1>14. OrderedNews'
  <2> SUFFICES ASSUME NEW d \in Clients, NEW x \in Clients
               PROVE  Ordered(toClient'[d], x)
    BY DEF OrderedNews
  <2>1. CASE d = c
    BY <2>1, <1>2, <1>5, <1>8
  <2>2. CASE d # c
    BY <2>2, <1>2 DEF OrderedNews, MembershipInv
  <2> QED
    BY <2>1, <2>2
<1>15. RosterTracksRegistry'
  <2> SUFFICES ASSUME NEW d \in Clients, readyState'[d] = "OPEN", NEW x \in Clients \ {d}
               PROVE  x \in clients' <=>
                        (x \in roster'[d] \/ Told(toClient'[d], x)) /\ ~ ToldGone(toClient'[d], x)
    BY DEF RosterTracksRegistry, WillList
  <2>1. x \in clients <=>
          (x \in roster[d] \/ Told(toClient[d], x)) /\ ~ ToldGone(toClient[d], x)
    BY <1>2 DEF MembershipInv, RosterTracksRegistry, WillList
  <2>2. CASE d = c
    <3>1. x \in clients <=> (x \in roster[c] \/ Told(q, x)) /\ ~ ToldGone(q, x)
      BY <2>1, <2>2, <1>q
    <3>2. x \in roster'[c] <=> (x \in roster[c] \/ Lists(m, x)) /\ ~ Delists(m, x)
      BY <1>9
    <3>3. /\ Told(q, x) <=> Told(Tail(q), x) \/ Lists(m, x)
          /\ ToldGone(q, x) <=> ToldGone(Tail(q), x) \/ Delists(m, x)
          /\ Delists(m, x) => ~ Told(Tail(q), x)
      BY <1>4, <1>5, <1>8
    <3> QED
      BY <2>2, <3>1, <3>2, <3>3, <1>2
  <2>3. CASE d # c
    BY <2>1, <2>3, <1>2
  <2> QED
    BY <2>2, <2>3
<1> QED
  BY <1>1, <1>10, <1>11, <1>12, <1>13, <1>14, <1>15 DEF MembershipInv

(* A socket that starts closing drops out of the broadcasts but stays in   *)
(* the Map.                                                                *)
LEMMA ClosingKeepsMembership ==
  ASSUME ClientsAssumption, MembershipInv, NEW c \in Clients,
         ReadCloseFrame(c) \/ LoseConnection(c)
  PROVE  MembershipInv'
<1>1. TypeOK /\ TypeOK'
  BY TypeStep DEF MembershipInv, Next
<1>2. /\ UNCHANGED <<clients, toClient, clientId, roster>>
      /\ readyState[c] = "OPEN" /\ readyState'[c] = "CLOSING"
      /\ \A d \in Clients \ {c} : readyState'[d] = readyState[d]
  BY <1>1 DEF ReadCloseFrame, LoseConnection, browserVars, TypeOK
<1>3. Registration' /\ Identity' /\ WelcomeFirst'
  BY <1>2 DEF MembershipInv, Registration, Identity, WelcomeFirst
<1>4. TrueNews' /\ OrderedNews'
  BY <1>2 DEF MembershipInv, TrueNews, OrderedNews
<1>5. RosterTracksRegistry'
  BY <1>2 DEF MembershipInv, RosterTracksRegistry, WillList
<1> QED
  BY <1>1, <1>3, <1>4, <1>5 DEF MembershipInv

(* Steps that leave the registry, the news and the lists alone. *)
LEMMA QuietKeepsMembership ==
  ASSUME MembershipInv, TypeOK',
         UNCHANGED <<clients, readyState, toClient, clientId, roster>>
  PROVE  MembershipInv'
BY DEF MembershipInv, Registration, Identity, WelcomeFirst, TrueNews, OrderedNews,
       RosterTracksRegistry, WillList

LEMMA MembershipStep ==
  ASSUME ClientsAssumption, MembershipInv, [Next]_vars
  PROVE  MembershipInv'
<1>1. TypeOK'
  BY TypeStep DEF MembershipInv
<1>2. ASSUME NEW c \in Clients, OnConnection(c) PROVE MembershipInv'
  BY <1>2, ConnectionKeepsMembership
<1>3. ASSUME NEW c \in Clients, OnMessage(c) PROVE MembershipInv'
  BY <1>3, MessageKeepsMembership
<1>4. ASSUME NEW c \in Clients, OnClose(c) PROVE MembershipInv'
  BY <1>4, CloseKeepsMembership
<1>5. ASSUME NEW c \in Clients, ReadCloseFrame(c) \/ LoseConnection(c) PROVE MembershipInv'
  BY <1>5, ClosingKeepsMembership
<1>6. ASSUME NEW c \in Clients, HandleMessage(c) PROVE MembershipInv'
  BY <1>6, HandlingKeepsMembership
<1>7. ASSUME NEW c \in Clients, NEW type, NEW sender, NEW target, Send(c, type, sender, target)
      PROVE  MembershipInv'
  BY <1>1, <1>7, QuietKeepsMembership DEF Send, serverVars
<1>8. ASSUME NEW c \in Clients, CloseClient(c) PROVE MembershipInv'
  BY <1>1, <1>8, QuietKeepsMembership DEF CloseClient, serverVars
<1>9. CASE UNCHANGED vars
  BY <1>1, <1>9, QuietKeepsMembership DEF vars, browserVars
<1> QED
  BY <1>2, <1>3, <1>4, <1>5, <1>6, <1>7, <1>8, <1>9 DEF Next

THEOREM Membership == Spec => []MembershipInv
<1>1. Init => MembershipInv
  <2> SUFFICES ASSUME Init PROVE MembershipInv
    OBVIOUS
  <2>1. TypeOK
    BY DEF Init, TypeOK
  <2>2. Registration /\ Identity /\ WelcomeFirst
    BY EmptyNews DEF Init, Registration, Identity, WelcomeFirst
  <2>3. TrueNews /\ OrderedNews
    BY EmptyNews DEF Init, TrueNews, OrderedNews
  <2>4. RosterTracksRegistry
    BY DEF Init, RosterTracksRegistry
  <2> QED
    BY <2>1, <2>2, <2>3, <2>4 DEF MembershipInv
<1>2. MembershipInv /\ [Next]_vars => MembershipInv'
  BY MembershipStep, ClientsAssumption
<1> QED
  BY <1>1, <1>2, PTL DEF Spec

(* A client's list, corrected by what is in flight to it, is the registry: *)
(* joins and departures are neither lost nor invented by the connection,   *)
(* message and close handlers (server.js:17-91).                           *)
THEOREM RostersAreTracked == Spec => []RosterTracksRegistry
<1>1. MembershipInv => RosterTracksRegistry
  BY DEF MembershipInv
<1> QED
  BY <1>1, Membership, PTL

(* Every page handles `connect` first and once (server.js:25).             *)
THEOREM WelcomeComesFirst == Spec => []WelcomeFirst
<1>1. MembershipInv => WelcomeFirst
  BY DEF MembershipInv
<1> QED
  BY <1>1, Membership, PTL

-----------------------------------------------------------------------------
(* Implementation of Presence.                                             *)

(* A page drops from its list only somebody who has left. *)
LEMMA DropsOnlyLeft ==
  ASSUME ClientsAssumption, MembershipInv, NEW c \in Clients, HandleMessage(c),
         NEW x \in roster[c], x \notin roster'[c]
  PROVE  readyState[x] = "CLOSED"
<1> DEFINE m == Head(toClient[c])
<1>1. /\ toClient[c] \in Seq(ServerMsg) /\ toClient[c] # <<>>
      /\ x \in Clients /\ roster'[c] = NewRoster(c, m)
  BY DEF HandleMessage, MembershipInv, TypeOK
<1>2. m.type # "connect"
  <2>1. NoWelcome(toClient[c]) => m.type # "connect"
    BY <1>1, TailNews
  <2> QED
    BY <1>1, <2>1 DEF MembershipInv, WelcomeFirst, Registration
<1> HIDE DEF m
<1>3. m.type = "user-left" /\ x = m.id
  <2>1. CASE m.type = "user-joined"
    BY <1>1, <2>1, RosterMeaning
  <2>2. CASE m.type = "user-left"
    <3>1. roster'[c] = roster[c] \ {m.id}
      BY <1>1, <2>2, RosterMeaning
    <3> QED
      BY <2>2, <3>1
  <2>3. CASE m.type \notin {"connect", "user-joined", "user-left"}
    BY <1>1, <2>3, RosterMeaning
  <2> QED
    BY <1>2, <2>1, <2>2, <2>3
<1>4. ToldGone(toClient[c], x)
  <2>1. Delists(m, x)
    BY <1>3 DEF Delists
  <2> QED
    BY <1>1, <2>1, TailNews DEF m
<1> QED
  BY <1>1, <1>4 DEF MembershipInv, TrueNews

LEMMA PresenceStep ==
  ASSUME ClientsAssumption, MembershipInv, [Next]_vars
  PROVE  [Abstract!Next]_(Abstract!vars)
<1> DEFINE status == [c \in Clients |-> PresenceStatus(c)]
<1> USE DEF MembershipInv, TypeOK
<1>1. ASSUME NEW c \in Clients, OnConnection(c) PROVE Abstract!Enter(c)
  BY <1>1 DEF OnConnection, browserVars, PresenceStatus, Abstract!Enter
<1>2. ASSUME NEW c \in Clients, OnClose(c) PROVE Abstract!Leave(c)
  BY <1>2 DEF OnClose, browserVars, PresenceStatus, Abstract!Leave
<1>3. ASSUME NEW c \in Clients, HandleMessage(c) PROVE Abstract!Learn(c, roster'[c])
  <2>1. MembershipInv'
    BY <1>3, MembershipStep DEF Next
  <2>2. UNCHANGED readyState /\ toClient[c] # <<>> /\ roster'[c] \in SUBSET Clients
        /\ roster' = [roster EXCEPT ![c] = roster'[c]]
    BY <1>3, <2>1 DEF HandleMessage, serverVars
  <2>3. readyState[c] # "CONNECTING"
    BY <2>2 DEF Registration
  <2>4. \A x \in roster'[c] : x \in Clients /\ x # c /\ readyState[x] # "CONNECTING"
    BY <2>1, <2>2 DEF TrueNews
  <2>5. \A x \in roster[c] \ roster'[c] : x \in Clients /\ readyState[x] = "CLOSED"
    BY <1>3, DropsOnlyLeft
  <2> QED
    BY <2>2, <2>3, <2>4, <2>5
    DEF PresenceStatus, Abstract!Learn, Abstract!Entered, Abstract!Gone
<1>4. ASSUME UNCHANGED <<readyState, roster>> PROVE UNCHANGED Abstract!vars
  BY <1>4 DEF PresenceStatus, Abstract!vars
<1>5. ASSUME NEW c \in Clients, ReadCloseFrame(c) \/ LoseConnection(c)
      PROVE  UNCHANGED Abstract!vars
  BY <1>5 DEF ReadCloseFrame, LoseConnection, browserVars, PresenceStatus, Abstract!vars
<1>6. ASSUME NEW c \in Clients,
             \/ OnMessage(c)
             \/ \E type, sender, target : Send(c, type, sender, target)
             \/ CloseClient(c)
      PROVE  UNCHANGED <<readyState, roster>>
  BY <1>6 DEF OnMessage, Send, CloseClient, serverVars, browserVars
<1>7. CASE UNCHANGED vars
  BY <1>4, <1>7 DEF vars, browserVars
<1>8. \A c \in Clients : HandleMessage(c) => roster'[c] \in SUBSET Clients
  BY TypeStep
<1> QED
  BY <1>1, <1>2, <1>3, <1>4, <1>5, <1>6, <1>7, <1>8 DEF Next, Abstract!Next

(* The service implements Presence: no page ever lists somebody who has    *)
(* not connected or drops somebody whose socket has not closed.            *)
THEOREM Implementation == Spec => ImplementsPresence
<1>1. Init => Abstract!Init
  BY DEF Init, PresenceStatus, Abstract!Init
<1>2. MembershipInv /\ [Next]_vars => [Abstract!Next]_(Abstract!vars)
  BY PresenceStep, ClientsAssumption
<1> QED
  BY <1>1, <1>2, Membership, PTL DEF Spec, ImplementsPresence, Abstract!Spec

-----------------------------------------------------------------------------
(* The signals in a queue that were sent over connection a.                *)

IsSignalOf(m, a) == m.type \in SignalTypes /\ m.from = a

(* They are numbered above h, in increasing order. *)
Rising(q, a, h) ==
  \A i \in DOMAIN q : IsSignalOf(q[i], a) =>
    /\ q[i].n > h
    /\ \A j \in 1 .. i - 1 : IsSignalOf(q[j], a) => q[j].n < q[i].n

(* They are numbered below b. *)
Below(q, a, b) == \A i \in DOMAIN q : IsSignalOf(q[i], a) => q[i].n < b

(* SignalsInOrder, one connection at a time. *)
LEMMA OneConnectionAtATime ==
  ASSUME TypeOK
  PROVE  SignalsInOrder <=>
           \A c, a \in Clients : Rising(toClient[c], a, heard[c][a])
<1>1. \A m \in ServerMsg : m.type \in SignalTypes => m.from \in Clients
  BY ClientsAssumption DEF ServerMsg, Signal, ClientsAssumption
<1>2. \A c \in Clients : \A i \in DOMAIN toClient[c] : toClient[c][i] \in ServerMsg
  BY DEF TypeOK
<1>3. \A c \in Clients : \A i \in DOMAIN toClient[c] :
        toClient[c][i].type \in SignalTypes => toClient[c][i].from \in Clients
  BY <1>1, <1>2
<1> QED
  BY <1>3 DEF SignalsInOrder, Rising, IsSignalOf

(* A queue grows by a message numbered above those of its sender. *)
LEMMA AppendRising ==
  ASSUME NEW q \in Seq(ServerMsg), NEW e \in ServerMsg, NEW a, NEW h
  PROVE  /\ /\ Rising(q, a, h)
            /\ IsSignalOf(e, a) => e.n > h /\ Below(q, a, e.n)
            => Rising(Append(q, e), a, h)
         /\ \A b : Below(q, a, b) /\ (IsSignalOf(e, a) => e.n < b)
                     => Below(Append(q, e), a, b)
<1> DEFINE p == Append(q, e)
           n == Len(q)
<1>1. /\ n \in Nat
      /\ DOMAIN q = 1 .. n
      /\ DOMAIN p = 1 .. n + 1
      /\ \A i \in 1 .. n : p[i] = q[i]
      /\ p[n + 1] = e
  BY AppendPositions
<1> HIDE DEF p, n
<1>2. \A i \in DOMAIN p : i = n + 1 \/ i \in DOMAIN q
  BY <1>1
<1>3. ASSUME Rising(q, a, h), IsSignalOf(e, a) => e.n > h /\ Below(q, a, e.n)
      PROVE  Rising(p, a, h)
  <2> SUFFICES ASSUME NEW i \in DOMAIN p, IsSignalOf(p[i], a)
               PROVE  /\ p[i].n > h
                      /\ \A j \in 1 .. i - 1 : IsSignalOf(p[j], a) => p[j].n < p[i].n
    BY DEF Rising
  <2>1. CASE i \in DOMAIN q
    <3>1. p[i] = q[i] /\ \A j \in 1 .. i - 1 : p[j] = q[j]
      BY <1>1, <2>1
    <3> QED
      BY <1>3, <2>1, <3>1 DEF Rising
  <2>2. CASE i = n + 1
    <3>1. p[i] = e /\ \A j \in 1 .. i - 1 : j \in DOMAIN q /\ p[j] = q[j]
      BY <1>1, <2>2
    <3> QED
      BY <1>3, <3>1 DEF Below
  <2> QED
    BY <1>2, <2>1, <2>2
<1>4. \A b : Below(q, a, b) /\ (IsSignalOf(e, a) => e.n < b) => Below(p, a, b)
  BY <1>1, <1>2 DEF Below
<1> QED
  BY <1>3, <1>4 DEF p

(* Once the head has been handled, the rest is numbered above it. *)
LEMMA TailRising ==
  ASSUME NEW q \in Seq(ServerMsg), q # <<>>, NEW a, NEW h, Rising(q, a, h)
  PROVE  /\ Rising(Tail(q), a, IF IsSignalOf(Head(q), a) THEN Head(q).n ELSE h)
         /\ \A b : Below(q, a, b) =>
              Below(Tail(q), a, b) /\ (IsSignalOf(Head(q), a) => Head(q).n < b)
<1> DEFINE t == Tail(q)
           n == Len(q)
<1>1. /\ n \in Nat \ {0}
      /\ Head(q) = q[1]
      /\ DOMAIN q = 1 .. n
      /\ DOMAIN t = 1 .. n - 1
      /\ \A i \in 1 .. n - 1 : t[i] = q[i + 1]
  BY TailPositions
<1> HIDE DEF t, n
<1>2. \A i \in DOMAIN t : i \in Nat /\ i + 1 \in DOMAIN q /\ t[i] = q[i + 1]
  BY <1>1
<1>3. ASSUME NEW i \in DOMAIN t, IsSignalOf(t[i], a)
      PROVE  /\ t[i].n > h
             /\ IsSignalOf(Head(q), a) => t[i].n > Head(q).n
             /\ \A j \in 1 .. i - 1 : IsSignalOf(t[j], a) => t[j].n < t[i].n
  <2>1. q[i + 1].n > h /\ \A j \in 1 .. i : IsSignalOf(q[j], a) => q[j].n < q[i + 1].n
    <3>1. (i + 1) - 1 = i
      BY <1>2, <1>3
    <3> QED
      BY <1>2, <1>3, <3>1 DEF Rising
  <2>2. 1 \in 1 .. i
    BY <1>1, <1>3
  <2>3. \A j \in 1 .. i - 1 : j + 1 \in 1 .. i /\ t[j] = q[j + 1]
    BY <1>1, <1>3
  <2>4. IsSignalOf(Head(q), a) => Head(q).n < t[i].n
    BY <1>1, <1>2, <2>1, <2>2
  <2>5. Head(q).n < t[i].n <=> t[i].n > Head(q).n
    OBVIOUS
  <2> QED
    BY <1>2, <2>1, <2>3, <2>4, <2>5
<1>4. Rising(t, a, IF IsSignalOf(Head(q), a) THEN Head(q).n ELSE h)
  BY <1>3 DEF Rising
<1>5. \A b : Below(q, a, b) => Below(t, a, b) /\ (IsSignalOf(Head(q), a) => Head(q).n < b)
  <2>1. 1 \in DOMAIN q
    BY <1>1
  <2> QED
    BY <1>1, <1>2, <2>1 DEF Below
<1> QED
  BY <1>4, <1>5 DEF t

-----------------------------------------------------------------------------
(* The order of signals.                                                   *)

(* What a client has sent and the server has not read is numbered in the   *)
(* order of sending.                                                       *)
Outgoing ==
  \A a \in Clients : \A k \in DOMAIN toServer[a] :
    /\ toServer[a][k].n <= sent[a]
    /\ \A l \in DOMAIN toServer[a] : k < l => toServer[a][k].n < toServer[a][l].n

(* Whatever has got through the server was sent before what has not. *)
Through ==
  \A c, a \in Clients :
    /\ heard[c][a] <= sent[a]
    /\ Below(toClient[c], a, sent[a] + 1)
    /\ \A k \in DOMAIN toServer[a] :
         heard[c][a] < toServer[a][k].n /\ Below(toClient[c], a, toServer[a][k].n)

OrderInv ==
  /\ Outgoing
  /\ Through
  /\ \A c, a \in Clients : Rising(toClient[c], a, heard[c][a])

(* Announcements and departures are no signals: they disturb nothing. *)
LEMMA NewsKeepOrder ==
  ASSUME TypeOK, OrderInv, UNCHANGED <<toServer, sent, heard>>,
         \A d \in Clients :
           \/ toClient'[d] = toClient[d]
           \/ \E e \in ServerMsg : /\ toClient'[d] = Append(toClient[d], e)
                                   /\ e.type \notin SignalTypes
  PROVE  OrderInv'
<1>1. ASSUME NEW d \in Clients, NEW a, NEW h
      PROVE  /\ Rising(toClient[d], a, h) => Rising(toClient'[d], a, h)
             /\ Below(toClient[d], a, h) => Below(toClient'[d], a, h)
  <2>1. CASE toClient'[d] = toClient[d]
    BY <2>1
  <2>2. ASSUME NEW e \in ServerMsg, toClient'[d] = Append(toClient[d], e),
               e.type \notin SignalTypes
        PROVE  /\ Rising(toClient[d], a, h) => Rising(toClient'[d], a, h)
               /\ Below(toClient[d], a, h) => Below(toClient'[d], a, h)
    <3>1. toClient[d] \in Seq(ServerMsg) /\ ~ IsSignalOf(e, a)
      BY <2>2 DEF TypeOK, IsSignalOf
    <3> QED
      BY <2>2, <3>1, AppendRising
  <2> QED
    BY <2>1, <2>2
<1>2. Outgoing'
  BY DEF OrderInv, Outgoing
<1>3. Through'
  BY <1>1 DEF OrderInv, Through
<1> QED
  BY <1>1, <1>2, <1>3 DEF OrderInv

(* Relaying moves the oldest unread message behind all that got through.   *)
LEMMA RelayKeepsOrder ==
  ASSUME ClientsAssumption, TypeOK, OrderInv, NEW s \in Clients, OnMessage(s)
  PROVE  OrderInv'
<1> DEFINE m == Head(toServer[s])
           r == Reply(s, m)
           to == Recipients(s, m)
<1>u. UNCHANGED <<sent, heard>>
  BY DEF OnMessage, browserVars
<1>t. /\ toServer'[s] = Tail(toServer[s])
      /\ \A a \in Clients \ {s} : toServer'[a] = toServer[a]
  BY DEF OnMessage, TypeOK
<1>1. \A d \in Clients : toClient'[d] = IF d \in to THEN Append(toClient[d], r)
                                                    ELSE toClient[d]
  BY DEF OnMessage
<1>2. /\ m \in ClientMsg /\ m = toServer[s][1] /\ 1 \in DOMAIN toServer[s]
      /\ \A k \in DOMAIN Tail(toServer[s]) :
           /\ k \in Nat \ {0} /\ k + 1 \in DOMAIN toServer[s]
           /\ Tail(toServer[s])[k] = toServer[s][k + 1]
  BY TailPositions DEF OnMessage, TypeOK
<1>3. \A d \in to : r \in ServerMsg
  BY <1>2, ReplyType
<1>4. \A d \in to, a \in Clients :
        IsSignalOf(r, a) => a = s /\ m.type \in SignalTypes /\ r.n = m.n
  BY DEF ClientsAssumption, IsSignalOf, Reply, Relayed, PongMsg
<1>5. m.n \in Nat /\ m.n < sent[s] + 1 /\ sent[s] \in Nat
  BY <1>2 DEF OrderInv, Outgoing, TypeOK, ClientMsg
<1>6. \A k \in DOMAIN Tail(toServer[s]) : m.n < Tail(toServer[s])[k].n
  <2> SUFFICES ASSUME NEW k \in DOMAIN Tail(toServer[s])
               PROVE  m.n < Tail(toServer[s])[k].n
    OBVIOUS
  <2>1. 1 < k + 1
    BY <1>2
  <2> QED
    BY <1>2, <2>1 DEF OrderInv, Outgoing
<1>7. \A c \in Clients : heard[c][s] < m.n /\ Below(toClient[c], s, m.n)
  BY <1>2 DEF OrderInv, Through
<1>8. \A c \in Clients : heard[c][s] \in Nat
  BY DEF TypeOK
<1> HIDE DEF m, r, to
<1>9. ASSUME NEW d \in Clients, NEW a \in Clients
      PROVE  /\ Rising(toClient'[d], a, heard[d][a])
             /\ \A b : Below(toClient[d], a, b) /\ (a = s => m.n < b)
                         => Below(toClient'[d], a, b)
  <2>1. toClient[d] \in Seq(ServerMsg) /\ Rising(toClient[d], a, heard[d][a])
    BY DEF TypeOK, OrderInv
  <2>2. CASE d \in to
    <3>1. r \in ServerMsg /\ toClient'[d] = Append(toClient[d], r)
      BY <1>1, <1>3, <2>2
    <3>2. IsSignalOf(r, a) => a = s /\ r.n > heard[d][a] /\ Below(toClient[d], a, r.n)
      BY <1>4, <1>5, <1>7, <1>8, <2>2
    <3>3. IsSignalOf(r, a) => a = s /\ r.n = m.n
      BY <1>4, <2>2
    <3>4. \A b : Below(toClient[d], a, b) /\ (IsSignalOf(r, a) => r.n < b)
                   => Below(Append(toClient[d], r), a, b)
      BY <2>1, <3>1, AppendRising
    <3>5. Rising(Append(toClient[d], r), a, heard[d][a])
      BY <2>1, <3>1, <3>2, AppendRising
    <3> QED
      BY <3>1, <3>3, <3>4, <3>5
  <2>3. CASE d \notin to
    BY <1>1, <2>1, <2>3
  <2> QED
    BY <2>2, <2>3
<1>10. Outgoing'
  <2> SUFFICES ASSUME NEW a \in Clients, NEW k \in DOMAIN toServer'[a]
               PROVE  /\ toServer'[a][k].n <= sent[a]
                      /\ \A l \in DOMAIN toServer'[a] :
                           k < l => toServer'[a][k].n < toServer'[a][l].n
    BY <1>u DEF Outgoing
  <2>1. CASE a = s
    <3>1. /\ k \in DOMAIN Tail(toServer[s]) /\ k \in Nat
          /\ k + 1 \in DOMAIN toServer[s] /\ toServer'[a][k] = toServer[s][k + 1]
      BY <1>t, <1>2, <2>1
    <3>2. ASSUME NEW l \in DOMAIN toServer'[a], k < l
          PROVE  toServer'[a][k].n < toServer'[a][l].n
      <4>1. /\ l \in Nat /\ l + 1 \in DOMAIN toServer[s]
            /\ toServer'[a][l] = toServer[s][l + 1]
        BY <1>t, <1>2, <2>1
      <4>2. k + 1 < l + 1
        BY <3>1, <3>2, <4>1
      <4> QED
        BY <3>1, <4>1, <4>2 DEF OrderInv, Outgoing
    <3> QED
      BY <2>1, <3>1, <3>2 DEF OrderInv, Outgoing
  <2>2. CASE a # s
    BY <1>t, <2>2 DEF OrderInv, Outgoing
  <2> QED
    BY <2>1, <2>2
<1>11. Through'
  <2> SUFFICES ASSUME NEW c \in Clients, NEW a \in Clients
               PROVE  /\ heard[c][a] <= sent[a]
                      /\ Below(toClient'[c], a, sent[a] + 1)
                      /\ \A k \in DOMAIN toServer'[a] :
                           /\ heard[c][a] < toServer'[a][k].n
                           /\ Below(toClient'[c], a, toServer'[a][k].n)
    BY <1>u DEF Through
  <2>1. heard[c][a] <= sent[a] /\ Below(toClient'[c], a, sent[a] + 1)
    BY <1>5, <1>9 DEF OrderInv, Through
  <2>2. ASSUME NEW k \in DOMAIN toServer'[a]
        PROVE  /\ heard[c][a] < toServer'[a][k].n
               /\ Below(toClient'[c], a, toServer'[a][k].n)
    <3>1. CASE a = s
      BY <1>t, <1>2, <1>6, <1>9, <2>2, <3>1 DEF OrderInv, Through
    <3>2. CASE a # s
      BY <1>t, <1>9, <2>2, <3>2 DEF OrderInv, Through
    <3> QED
      BY <3>1, <3>2
  <2> QED
    BY <2>1, <2>2
<1> QED
  BY <1>u, <1>9, <1>10, <1>11 DEF OrderInv

(* Handling the oldest message remembers its number; the rest is higher.   *)
LEMMA HandlingKeepsOrder ==
  ASSUME ClientsAssumption, TypeOK, OrderInv, NEW s \in Clients, HandleMessage(s)
  PROVE  OrderInv'
<1> DEFINE q == toClient[s]
           m == Head(toClient[s])
<1>1. UNCHANGED <<toServer, sent>>
  BY DEF HandleMessage
<1>2. /\ toClient'[s] = Tail(q)
      /\ \A d \in Clients \ {s} : toClient'[d] = toClient[d]
  BY DEF HandleMessage, TypeOK
<1>3. heard' = IF m.type \in SignalTypes
                 THEN [heard EXCEPT ![s][m.from] = m.n] ELSE heard
  BY DEF HandleMessage
<1>4. q \in Seq(ServerMsg) /\ q # <<>>
  BY DEF HandleMessage, TypeOK
<1> HIDE DEF q, m
<1>5. /\ \A d \in Clients \ {s}, a \in Clients : heard'[d][a] = heard[d][a]
      /\ \A a \in Clients : heard'[s][a] = IF IsSignalOf(m, a) THEN m.n ELSE heard[s][a]
  BY <1>3 DEF TypeOK, IsSignalOf
<1>6. ASSUME NEW a \in Clients
      PROVE  /\ Rising(toClient'[s], a, heard'[s][a])
             /\ \A b : Below(q, a, b) =>
                  Below(toClient'[s], a, b) /\ (IsSignalOf(m, a) => m.n < b)
  <2>1. Rising(q, a, heard[s][a])
    BY DEF OrderInv, q
  <2>2. m = Head(q)
    BY DEF m, q
  <2>3. Rising(Tail(q), a, IF IsSignalOf(Head(q), a) THEN Head(q).n ELSE heard[s][a])
    BY <1>4, <2>1, TailRising
  <2>4. \A b : Below(q, a, b) =>
          Below(Tail(q), a, b) /\ (IsSignalOf(Head(q), a) => Head(q).n < b)
    BY <1>4, <2>1, TailRising
  <2> QED
    BY <1>2, <1>5, <2>2, <2>3, <2>4
<1>7. \A a \in Clients : IsSignalOf(m, a) => m.n \in Nat
  <2>1. m \in ServerMsg
    BY <1>4, TailPositions DEF m, q
  <2> QED
    BY <2>1 DEF IsSignalOf, ServerMsg, Signal, ClientsAssumption
<1>8. Outgoing'
  BY <1>1 DEF OrderInv, Outgoing
<1>9. ASSUME NEW a \in Clients
      PROVE  /\ heard'[s][a] <= sent[a]
             /\ Below(toClient'[s], a, sent[a] + 1)
             /\ \A k \in DOMAIN toServer[a] :
                  /\ heard'[s][a] < toServer[a][k].n
                  /\ Below(toClient'[s], a, toServer[a][k].n)
  <2>1. /\ heard[s][a] <= sent[a]
        /\ Below(q, a, sent[a] + 1)
        /\ \A k \in DOMAIN toServer[a] :
             heard[s][a] < toServer[a][k].n /\ Below(q, a, toServer[a][k].n)
    BY DEF OrderInv, Through, q
  <2>2. IsSignalOf(m, a) => m.n <= sent[a]
    <3>1. sent[a] \in Nat
      BY DEF TypeOK
    <3> QED
      BY <1>6, <1>7, <2>1, <3>1
  <2>3. \A k \in DOMAIN toServer[a] : IsSignalOf(m, a) => m.n < toServer[a][k].n
    BY <1>6, <2>1
  <2> QED
    BY <1>5, <1>6, <2>1, <2>2, <2>3
<1>10. Through'
  <2> SUFFICES ASSUME NEW c \in Clients, NEW a \in Clients
               PROVE  /\ heard'[c][a] <= sent[a]
                      /\ Below(toClient'[c], a, sent[a] + 1)
                      /\ \A k \in DOMAIN toServer[a] :
                           /\ heard'[c][a] < toServer[a][k].n
                           /\ Below(toClient'[c], a, toServer[a][k].n)
    BY <1>1 DEF Through
  <2>1. CASE c = s
    BY <1>9, <2>1
  <2>2. CASE c # s
    BY <1>2, <1>5, <2>2 DEF OrderInv, Through
  <2> QED
    BY <2>1, <2>2
<1>11. \A c, a \in Clients : Rising(toClient'[c], a, heard'[c][a])
  BY <1>2, <1>5, <1>6 DEF OrderInv
<1> QED
  BY <1>8, <1>10, <1>11 DEF OrderInv

(* What is sent is numbered above everything the client sent before. *)
LEMMA SendingKeepsOrder ==
  ASSUME ClientsAssumption, TypeOK, TypeOK', OrderInv,
         NEW s \in Clients, NEW type, NEW sender, NEW target,
         Send(s, type, sender, target)
  PROVE  OrderInv'
<1> DEFINE e == [type |-> type, sender |-> sender, target |-> target, n |-> sent[s] + 1]
<1>1. UNCHANGED <<toClient, heard>>
  BY DEF Send
<1>2. /\ sent'[s] = sent[s] + 1
      /\ \A a \in Clients \ {s} : sent'[a] = sent[a] /\ toServer'[a] = toServer[a]
      /\ \A a \in Clients : sent[a] \in Nat
  BY DEF Send, TypeOK
<1>3. toServer'[s] = Append(toServer[s], e)
  BY DEF Send, TypeOK
<1>4. e.n = sent[s] + 1
  OBVIOUS
<1> HIDE DEF e
<1>5. /\ DOMAIN toServer'[s] = DOMAIN toServer[s] \cup {Len(toServer[s]) + 1}
      /\ Len(toServer[s]) \in Nat /\ DOMAIN toServer[s] = 1 .. Len(toServer[s])
      /\ \A k \in DOMAIN toServer[s] : toServer'[s][k] = toServer[s][k]
      /\ toServer'[s][Len(toServer[s]) + 1] = e
  BY <1>3 DEF TypeOK
<1>6. \A k \in DOMAIN toServer[s] : /\ toServer[s][k].n <= sent[s]
                                    /\ toServer[s][k].n \in Nat
  <2>1. toServer[s] \in Seq(ClientMsg)
    BY DEF TypeOK
  <2>2. \A k \in DOMAIN toServer[s] : toServer[s][k] \in ClientMsg
    BY <2>1
  <2> QED
    BY <2>2 DEF OrderInv, Outgoing, ClientMsg
<1>7. \A k \in DOMAIN toServer[s] :
        toServer'[s][k].n <= sent'[s] /\ toServer'[s][k].n < e.n
  BY <1>2, <1>4, <1>5, <1>6
<1>8. Outgoing'
  <2> SUFFICES ASSUME NEW a \in Clients, NEW k \in DOMAIN toServer'[a]
               PROVE  /\ toServer'[a][k].n <= sent'[a]
                      /\ \A l \in DOMAIN toServer'[a] :
                           k < l => toServer'[a][k].n < toServer'[a][l].n
    BY DEF Outgoing
  <2>1. CASE a # s
    BY <1>2, <2>1 DEF OrderInv, Outgoing
  <2>2. CASE a = s /\ k \in DOMAIN toServer[s]
    BY <1>5, <1>7, <2>2 DEF OrderInv, Outgoing
  <2>3. CASE a = s /\ k = Len(toServer[s]) + 1
    BY <1>2, <1>4, <1>5, <2>3
  <2> QED
    BY <1>5, <2>1, <2>2, <2>3
<1>9. Through'
  <2> SUFFICES ASSUME NEW c \in Clients, NEW a \in Clients
               PROVE  /\ heard[c][a] <= sent'[a]
                      /\ Below(toClient[c], a, sent'[a] + 1)
                      /\ \A k \in DOMAIN toServer'[a] :
                           /\ heard[c][a] < toServer'[a][k].n
                           /\ Below(toClient[c], a, toServer'[a][k].n)
    BY <1>1 DEF Through
  <2>1. CASE a # s
    BY <1>2, <2>1 DEF OrderInv, Through
  <2>2. CASE a = s
    <3>1. /\ heard[c][s] <= sent[s] /\ Below(toClient[c], s, sent[s] + 1)
          /\ \A k \in DOMAIN toServer[s] :
               heard[c][s] < toServer[s][k].n /\ Below(toClient[c], s, toServer[s][k].n)
      BY DEF OrderInv, Through
    <3>2. heard[c][s] \in Nat
      BY DEF TypeOK
    <3>3. heard[c][s] <= sent'[s] /\ heard[c][s] < e.n
      BY <1>2, <1>4, <3>1, <3>2
    <3>4. Below(toClient[c], s, sent'[s] + 1)
      <4>1. \A m \in ServerMsg : IsSignalOf(m, s) => m.n \in Nat
        BY DEF IsSignalOf, ServerMsg, Signal, ClientsAssumption
      <4>2. toClient[c] \in Seq(ServerMsg)
        BY DEF TypeOK
      <4>3. \A i \in DOMAIN toClient[c] : toClient[c][i] \in ServerMsg
        BY <4>2
      <4> QED
        BY <1>2, <3>1, <4>1, <4>3 DEF Below
    <3>5. \A k \in DOMAIN toServer'[s] :
            heard[c][s] < toServer'[s][k].n /\ Below(toClient[c], s, toServer'[s][k].n)
      BY <1>4, <1>5, <3>1, <3>3
    <3> QED
      BY <2>2, <3>3, <3>4, <3>5
  <2> QED
    BY <2>1, <2>2
<1> QED
  BY <1>1, <1>8, <1>9 DEF OrderInv

(* A broken connection loses what the server had not read; nothing else    *)
(* moves.                                                                  *)
LEMMA LosingKeepsOrder ==
  ASSUME TypeOK, OrderInv, UNCHANGED <<toClient, sent, heard>>,
         \A a \in Clients : toServer'[a] = toServer[a] \/ toServer'[a] = <<>>
  PROVE  OrderInv'
<1>1. \A a \in Clients : \A k \in DOMAIN toServer'[a] : toServer'[a] = toServer[a]
  OBVIOUS
<1>2. Outgoing'
  BY <1>1 DEF OrderInv, Outgoing
<1>3. Through'
  BY <1>1 DEF OrderInv, Through
<1> QED
  BY <1>2, <1>3 DEF OrderInv

LEMMA OrderStep ==
  ASSUME ClientsAssumption, MembershipInv, OrderInv, [Next]_vars
  PROVE  OrderInv'
<1>1. TypeOK /\ TypeOK' /\ Identity
  BY TypeStep DEF MembershipInv
<1>2. \A c \in Clients : /\ ConnectMsg(c, clients \ {c}) \in ServerMsg
                         /\ JoinedMsg(c) \in ServerMsg /\ LeftMsg(c) \in ServerMsg
  BY <1>1, NewsType DEF TypeOK
<1>3. \A c, S : /\ ConnectMsg(c, S).type \notin SignalTypes
               /\ JoinedMsg(c).type \notin SignalTypes /\ LeftMsg(c).type \notin SignalTypes
  BY DEF ClientsAssumption, ConnectMsg, JoinedMsg, LeftMsg
<1>4. ASSUME NEW c \in Clients, OnConnection(c) PROVE OrderInv'
  <2>1. UNCHANGED <<toServer, sent, heard>>
    BY <1>4 DEF OnConnection, browserVars
  <2>2. \A d \in Clients : \/ toClient'[d] = Append(toClient[d], ConnectMsg(c, clients \ {c}))
                           \/ toClient'[d] = Append(toClient[d], JoinedMsg(c))
                           \/ toClient'[d] = toClient[d]
    BY <1>4 DEF OnConnection
  <2> QED
    BY <1>1, <1>2, <1>3, <2>1, <2>2, NewsKeepOrder
<1>5. ASSUME NEW c \in Clients, OnClose(c) PROVE OrderInv'
  <2>1. UNCHANGED <<toServer, sent, heard>>
    BY <1>5 DEF OnClose, browserVars
  <2>2. \A d \in Clients : \/ toClient'[d] = Append(toClient[d], LeftMsg(c))
                           \/ toClient'[d] = toClient[d]
    BY <1>5 DEF OnClose
  <2> QED
    BY <1>1, <1>2, <1>3, <2>1, <2>2, NewsKeepOrder
<1>6. ASSUME NEW c \in Clients, OnMessage(c) PROVE OrderInv'
  BY <1>1, <1>6, RelayKeepsOrder
<1>7. ASSUME NEW c \in Clients, HandleMessage(c) PROVE OrderInv'
  BY <1>1, <1>7, HandlingKeepsOrder
<1>8. ASSUME NEW c \in Clients, NEW type, NEW sender, NEW target, Send(c, type, sender, target)
      PROVE  OrderInv'
  BY <1>1, <1>8, SendingKeepsOrder
<1>9. ASSUME NEW c \in Clients, ReadCloseFrame(c) \/ LoseConnection(c) PROVE OrderInv'
  <2>1. UNCHANGED <<toClient, sent, heard>>
    BY <1>9 DEF ReadCloseFrame, LoseConnection, browserVars
  <2>2. \A a \in Clients : toServer'[a] = toServer[a] \/ toServer'[a] = <<>>
    BY <1>1, <1>9 DEF ReadCloseFrame, LoseConnection, TypeOK
  <2> QED
    BY <1>1, <2>1, <2>2, LosingKeepsOrder
<1>10. ASSUME NEW c \in Clients, CloseClient(c) PROVE OrderInv'
  BY <1>1, <1>10, LosingKeepsOrder DEF CloseClient
<1>11. CASE UNCHANGED vars
  BY <1>1, <1>11, LosingKeepsOrder DEF vars, browserVars
<1> QED
  BY <1>4, <1>5, <1>6, <1>7, <1>8, <1>9, <1>10, <1>11 DEF Next

(* Signals of one client to another are relayed in the order they were     *)
(* sent, each once: the message handler reads a FIFO socket and writes to  *)
(* another without waiting in between (server.js:41-75).                   *)
THEOREM SignalsStayInOrder == Spec => []SignalsInOrder
<1>1. Init => OrderInv
  BY DEF Init, OrderInv, Outgoing, Through, Rising, Below
<1>2. MembershipInv /\ OrderInv /\ [Next]_vars => OrderInv'
  BY OrderStep, ClientsAssumption
<1>3. MembershipInv /\ OrderInv => SignalsInOrder
  BY OneConnectionAtATime DEF MembershipInv, OrderInv
<1> QED
  BY <1>1, <1>2, <1>3, Membership, PTL DEF Spec

-----------------------------------------------------------------------------
(* Where signals come from.                                                *)

(* Every signal of x in q is read while x is listed, starting from the     *)
(* list R.                                                                 *)
Introduced(q, R, x) ==
  \A i \in DOMAIN q : IsSignalOf(q[i], x) =>
    /\ x \in R \/ \E j \in 1 .. i - 1 : Lists(q[j], x)
    /\ \A j \in 1 .. i - 1 : ~ Delists(q[j], x)

IntroducedInv ==
  \A c, x \in Clients : x # c => Introduced(toClient[c], roster[c], x)

LEMMA AppendIntroduced ==
  ASSUME NEW q \in Seq(ServerMsg), NEW e \in ServerMsg, NEW x, NEW R,
         Introduced(q, R, x),
         IsSignalOf(e, x) => (x \in R \/ Told(q, x)) /\ ~ ToldGone(q, x)
  PROVE  Introduced(Append(q, e), R, x)
<1> DEFINE p == Append(q, e)
           n == Len(q)
<1>1. /\ n \in Nat
      /\ DOMAIN q = 1 .. n
      /\ DOMAIN p = 1 .. n + 1
      /\ \A i \in 1 .. n : p[i] = q[i]
      /\ p[n + 1] = e
  BY AppendPositions
<1> HIDE DEF p, n
<1> SUFFICES ASSUME NEW i \in DOMAIN p, IsSignalOf(p[i], x)
             PROVE  /\ x \in R \/ \E j \in 1 .. i - 1 : Lists(p[j], x)
                    /\ \A j \in 1 .. i - 1 : ~ Delists(p[j], x)
  BY DEF Introduced, p
<1>2. \A j \in 1 .. i - 1 : j \in DOMAIN q /\ p[j] = q[j]
  BY <1>1
<1>3. CASE i \in DOMAIN q
  BY <1>1, <1>2, <1>3 DEF Introduced
<1>4. CASE i = n + 1
  <2>1. p[i] = e /\ 1 .. i - 1 = DOMAIN q
    BY <1>1, <1>4
  <2> QED
    BY <1>2, <2>1 DEF Told, ToldGone
<1> QED
  BY <1>1, <1>3, <1>4

LEMMA TailIntroduced ==
  ASSUME NEW q \in Seq(ServerMsg), q # <<>>, NEW x, NEW R, NEW S,
         Introduced(q, R, x),
         (x \in R \/ Lists(Head(q), x)) /\ ~ Delists(Head(q), x) => x \in S
  PROVE  Introduced(Tail(q), S, x)
<1> DEFINE t == Tail(q)
           n == Len(q)
<1>1. /\ n \in Nat \ {0}
      /\ Head(q) = q[1]
      /\ DOMAIN q = 1 .. n
      /\ DOMAIN t = 1 .. n - 1
      /\ \A i \in 1 .. n - 1 : t[i] = q[i + 1]
  BY TailPositions
<1> HIDE DEF t, n
<1> SUFFICES ASSUME NEW i \in DOMAIN t, IsSignalOf(t[i], x)
             PROVE  /\ x \in S \/ \E j \in 1 .. i - 1 : Lists(t[j], x)
                    /\ \A j \in 1 .. i - 1 : ~ Delists(t[j], x)
  BY DEF Introduced, t
<1>2. i \in Nat \ {0} /\ i + 1 \in DOMAIN q /\ t[i] = q[i + 1] /\ (i + 1) - 1 = i
  BY <1>1
<1>3. /\ x \in R \/ \E j \in 1 .. i : Lists(q[j], x)
      /\ \A j \in 1 .. i : ~ Delists(q[j], x)
  BY <1>2 DEF Introduced
<1>4. /\ 1 \in 1 .. i
      /\ \A j \in 1 .. i - 1 : j + 1 \in 1 .. i /\ t[j] = q[j + 1]
  BY <1>1, <1>2
<1>5. \A j \in 1 .. i : j = 1 \/ (j - 1 \in 1 .. i - 1 /\ t[j - 1] = q[j])
  <2> SUFFICES ASSUME NEW j \in 1 .. i, j # 1
               PROVE  j - 1 \in 1 .. i - 1 /\ t[j - 1] = q[j]
    OBVIOUS
  <2>1. j - 1 \in 1 .. i - 1 /\ (j - 1) + 1 = j
    BY <1>2
  <2> QED
    BY <1>4, <2>1
<1>6. \A j \in 1 .. i - 1 : ~ Delists(t[j], x)
  BY <1>3, <1>4
<1>7. ~ Delists(Head(q), x)
  BY <1>1, <1>3, <1>4
<1>8. x \in S \/ \E j \in 1 .. i - 1 : Lists(t[j], x)
  <2>1. CASE x \in R \/ Lists(Head(q), x)
    BY <1>7, <2>1
  <2>2. ASSUME NEW j \in 1 .. i, Lists(q[j], x), j # 1
        PROVE  \E k \in 1 .. i - 1 : Lists(t[k], x)
    BY <1>5, <2>2
  <2> QED
    BY <1>1, <1>3, <2>1, <2>2
<1> QED
  BY <1>6, <1>8

(* Handling a message that lists x, or does not delist it, leaves it       *)
(* listed: `connect` alone rebuilds the list, and finds it empty.          *)
LEMMA ListedStays ==
  ASSUME ClientsAssumption, MembershipInv, NEW c \in Clients, HandleMessage(c),
         NEW x \in Clients, x # c,
         x \in roster[c] \/ Lists(Head(toClient[c]), x),
         ~ Delists(Head(toClient[c]), x)
  PROVE  x \in roster'[c]
<1> DEFINE q == toClient[c]
           m == Head(q)
<1>1. q \in Seq(ServerMsg) /\ q # <<>> /\ roster'[c] = NewRoster(c, m)
  BY DEF HandleMessage, MembershipInv, TypeOK
<1>2. clientId[c] \in {Null, c} /\ OwnWelcome(q, c) /\ readyState[c] # "CONNECTING"
  BY <1>1 DEF MembershipInv, Identity, Registration
<1>3. m.type = "connect" => m.id = c
  BY <1>1, <1>2, TailNews
<1>4. m.type = "connect" => roster[c] = {}
  <2>1. NoWelcome(q) => m.type # "connect"
    BY <1>1, TailNews
  <2> QED
    BY <1>2, <2>1 DEF MembershipInv, WelcomeFirst
<1>5. x # Null
  BY DEF ClientsAssumption
<1>6. (x \in roster[c] \/ Lists(m, x)) /\ ~ Delists(m, x)
  OBVIOUS
<1> HIDE DEF q, m
<1>7. CASE m.type = "connect"
  <2>1. NewRoster(c, m) = m.clients \ {m.id}
    BY <1>7, RosterMeaning
  <2> QED
    BY <1>1, <1>3, <1>4, <1>6, <1>7, <2>1 DEF Lists
<1>8. CASE m.type = "user-joined"
  <2>1. NewRoster(c, m) = roster[c] \cup ({m.id} \ {clientId[c]})
    BY <1>8, RosterMeaning
  <2> QED
    BY <1>1, <1>2, <1>5, <1>6, <1>8, <2>1 DEF Lists
<1>9. CASE m.type = "user-left"
  <2>1. NewRoster(c, m) = roster[c] \ {m.id}
    BY <1>9, RosterMeaning
  <2> QED
    BY <1>1, <1>6, <1>9, <2>1 DEF Lists, Delists
<1>10. CASE m.type \notin {"connect", "user-joined", "user-left"}
  <2>1. NewRoster(c, m) = roster[c]
    BY <1>10, RosterMeaning
  <2> QED
    BY <1>1, <1>6, <1>10, <2>1 DEF Lists
<1> QED
  BY <1>7, <1>8, <1>9, <1>10

(* A relayed signal joins the queue of a page that lists, or is about to   *)
(* list, its sender: sender and receiver are both in the Map.              *)
LEMMA RelayIntroduces ==
  ASSUME ClientsAssumption, MembershipInv, OrderInv, IntroducedInv,
         NEW s \in Clients, OnMessage(s)
  PROVE  IntroducedInv'
<1> DEFINE m == Head(toServer[s])
           r == Reply(s, m)
           to == Recipients(s, m)
<1>1. UNCHANGED roster /\ readyState[s] = "OPEN"
  BY DEF OnMessage, browserVars
<1>2. \A d \in Clients : toClient'[d] = IF d \in to THEN Append(toClient[d], r)
                                                    ELSE toClient[d]
  BY DEF OnMessage
<1>3. m \in ClientMsg /\ m = toServer[s][1] /\ 1 \in DOMAIN toServer[s]
  BY TailPositions DEF OnMessage, MembershipInv, TypeOK
<1>4. \A d \in to : r \in ServerMsg
  BY <1>3, ReplyType DEF MembershipInv
<1>5. \A d \in to, a \in Clients :
        IsSignalOf(r, a) => a = s /\ readyState[d] = "OPEN"
  BY DEF ClientsAssumption, IsSignalOf, Reply, Relayed, PongMsg, Recipients
<1> HIDE DEF m, r, to
<1> SUFFICES ASSUME NEW c \in Clients, NEW x \in Clients, x # c
             PROVE  Introduced(toClient'[c], roster[c], x)
  BY <1>1 DEF IntroducedInv
<1>6. Introduced(toClient[c], roster[c], x) /\ toClient[c] \in Seq(ServerMsg)
  BY DEF IntroducedInv, MembershipInv, TypeOK
<1>7. CASE c \in to
  <2>1. r \in ServerMsg /\ toClient'[c] = Append(toClient[c], r)
    BY <1>2, <1>4, <1>7
  <2>2. IsSignalOf(r, x) => WillList(c, x)
    BY <1>1, <1>5, <1>7 DEF MembershipInv, Registration, RosterTracksRegistry
  <2> QED
    BY <1>6, <2>1, <2>2, AppendIntroduced DEF WillList
<1>8. CASE c \notin to
  BY <1>2, <1>6, <1>8
<1> QED
  BY <1>7, <1>8

LEMMA IntroducedStep ==
  ASSUME ClientsAssumption, MembershipInv, OrderInv, IntroducedInv, [Next]_vars
  PROVE  IntroducedInv'
<1>1. TypeOK
  BY DEF MembershipInv
<1>2. ASSUME NEW c \in Clients, OnMessage(c) PROVE IntroducedInv'
  BY <1>2, RelayIntroduces
<1>3. ASSUME UNCHANGED roster,
             \A d \in Clients : \/ toClient'[d] = toClient[d]
                                \/ \E e \in ServerMsg : /\ toClient'[d] = Append(toClient[d], e)
                                                        /\ e.type \notin SignalTypes
      PROVE  IntroducedInv'
  <2> SUFFICES ASSUME NEW c \in Clients, NEW x \in Clients, x # c
               PROVE  Introduced(toClient'[c], roster[c], x)
    BY <1>3 DEF IntroducedInv
  <2>1. Introduced(toClient[c], roster[c], x) /\ toClient[c] \in Seq(ServerMsg)
    BY <1>1 DEF IntroducedInv, TypeOK
  <2>2. ASSUME NEW e \in ServerMsg, toClient'[c] = Append(toClient[c], e),
               e.type \notin SignalTypes
        PROVE  Introduced(toClient'[c], roster[c], x)
    BY <2>1, <2>2, AppendIntroduced DEF IsSignalOf
  <2> QED
    BY <1>3, <2>1, <2>2
<1>4. \A c \in Clients : /\ ConnectMsg(c, clients \ {c}) \in ServerMsg
                         /\ JoinedMsg(c) \in ServerMsg /\ LeftMsg(c) \in ServerMsg
  BY <1>1, NewsType DEF TypeOK
<1>5. \A c, S : /\ ConnectMsg(c, S).type \notin SignalTypes
               /\ JoinedMsg(c).type \notin SignalTypes /\ LeftMsg(c).type \notin SignalTypes
  BY ClientsAssumption DEF ClientsAssumption, ConnectMsg, JoinedMsg, LeftMsg
<1>6. ASSUME NEW c \in Clients, OnConnection(c) PROVE IntroducedInv'
  <2>1. UNCHANGED roster
    BY <1>6 DEF OnConnection, browserVars
  <2>2. \A d \in Clients : \/ toClient'[d] = Append(toClient[d], ConnectMsg(c, clients \ {c}))
                           \/ toClient'[d] = Append(toClient[d], JoinedMsg(c))
                           \/ toClient'[d] = toClient[d]
    BY <1>6 DEF OnConnection
  <2> QED
    BY <1>3, <1>4, <1>5, <2>1, <2>2
<1>7. ASSUME NEW c \in Clients, OnClose(c) PROVE IntroducedInv'
  <2>1. UNCHANGED roster
    BY <1>7 DEF OnClose, browserVars
  <2>2. \A d \in Clients : \/ toClient'[d] = Append(toClient[d], LeftMsg(c))
                           \/ toClient'[d] = toClient[d]
    BY <1>7 DEF OnClose
  <2> QED
    BY <1>3, <1>4, <1>5, <2>1, <2>2
<1>8. ASSUME NEW c \in Clients, HandleMessage(c) PROVE IntroducedInv'
  <2>1. /\ toClient'[c] = Tail(toClient[c])
        /\ toClient[c] \in Seq(ServerMsg) /\ toClient[c] # <<>>
        /\ \A d \in Clients \ {c} : toClient'[d] = toClient[d] /\ roster'[d] = roster[d]
    BY <1>1, <1>8 DEF HandleMessage, TypeOK
  <2>2. ASSUME NEW x \in Clients, x # c
        PROVE  Introduced(toClient'[c], roster'[c], x)
    <3>1. Introduced(toClient[c], roster[c], x)
      BY <2>2 DEF IntroducedInv
    <3>2. /\ x \in roster[c] \/ Lists(Head(toClient[c]), x)
          /\ ~ Delists(Head(toClient[c]), x)
          => x \in roster'[c]
      BY <1>8, <2>2, ListedStays
    <3> QED
      BY <2>1, <3>1, <3>2, TailIntroduced
  <2> QED
    BY <2>1, <2>2 DEF IntroducedInv
<1>9. ASSUME UNCHANGED <<toClient, roster>> PROVE IntroducedInv'
  BY <1>9 DEF IntroducedInv
<1>10. ASSUME NEW c \in Clients,
              \/ ReadCloseFrame(c) \/ LoseConnection(c) \/ CloseClient(c)
              \/ \E type, sender, target : Send(c, type, sender, target)
       PROVE  IntroducedInv'
  BY <1>9, <1>10 DEF ReadCloseFrame, LoseConnection, CloseClient, Send, browserVars
<1>11. CASE UNCHANGED vars
  BY <1>9, <1>11 DEF vars, browserVars
<1> QED
  BY <1>2, <1>6, <1>7, <1>8, <1>10, <1>11 DEF Next

(* A page handles a signal only while it lists the connection the signal   *)
(* was sent over: it has been told of it, and not yet that it ended        *)
(* (server.js:25-38, 51-60, 82), whatever sender the signal names.         *)
THEOREM SignalsComeFromListed == Spec => []SignalFromListedUser
<1>1. Init => OrderInv /\ IntroducedInv
  BY DEF Init, OrderInv, Outgoing, Through, Rising, Below, IntroducedInv, Introduced
<1>2. MembershipInv /\ OrderInv /\ IntroducedInv /\ [Next]_vars
        => (OrderInv /\ IntroducedInv)'
  BY OrderStep, IntroducedStep, ClientsAssumption
<1>3. MembershipInv /\ IntroducedInv => SignalFromListedUser
  <2> SUFFICES ASSUME MembershipInv, IntroducedInv PROVE SignalFromListedUser
    OBVIOUS
  <2>1. \A m \in ServerMsg : m.type \in SignalTypes => m.from \in Clients
    BY ClientsAssumption DEF ServerMsg, Signal, ClientsAssumption
  <2>2. \A c \in Clients : \A i \in DOMAIN toClient[c] : toClient[c][i] \in ServerMsg
    BY DEF MembershipInv, TypeOK
  <2> QED
    BY <2>1, <2>2 DEF SignalFromListedUser, IntroducedInv, Introduced, IsSignalOf
<1> QED
  BY <1>1, <1>2, <1>3, Membership, PTL DEF Spec
=============================================================================
