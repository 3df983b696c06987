----------------------------- MODULE Signaling -----------------------------
(***************************************************************************)
(* The WebRTC signaling server (webrtc-runtime/app/server.js), the two     *)
(* directions of every WebSocket connected to it, and the part of the      *)
(* browser client (public/client.js) that keeps the list of online users.  *)
(*                                                                         *)
(* Node runs one handler at a time, so a handler is one action.  A client  *)
(* stands for one WebSocket connection and for the id the server generates *)
(* for it: ids are taken to be unique, as generateUniqueId intends.  A     *)
(* page that reconnects is a client more, and still holds the id of the    *)
(* connection before until its new welcome: the sender a message carries   *)
(* is any id, and the server relays it unchecked.                          *)
(***************************************************************************)
EXTENDS Naturals, Sequences

CONSTANTS
  Clients,       \* connections, each identified with its generated id
  Null,          \* a missing sender or target
  SignalTypes,   \* the relayed message types in use
  OtherTypes,    \* the other message types clients send
  Talkers,       \* bound: the clients that send messages
  MaxSent        \* bound: messages one of them sends

ASSUME ClientsAssumption ==
  /\ Null \notin Clients
  /\ SignalTypes \subseteq {"offer", "answer", "ice-candidate"}
  /\ OtherTypes \subseteq {"ping", "unknown"}
  /\ Talkers \subseteq Clients
  /\ MaxSent \in Nat

VARIABLES
  (* server *)
  clients,      \* the keys of the Map `clients`
  readyState,   \* the server's WebSocket states; "CONNECTING": not accepted yet
  (* network: both directions of a WebSocket are FIFO *)
  toServer,
  toClient,
  (* browsers *)
  closed,       \* connections whose browser end has been closed
  clientId,     \* client.js clientId, Null until `connect` is handled
  roster,       \* the ids in client.js's user list
  sent,         \* how many messages the client has sent
  heard         \* history: heard[c][a], number of the last signal c handled of those sent over a

serverVars  == <<clients, readyState>>
browserVars == <<closed, clientId, roster, sent, heard>>
vars == <<clients, readyState, toServer, toClient, browserVars>>

-----------------------------------------------------------------------------
(* Messages. A relayed signal carries the sender it was sent with and, as  *)
(* history, the connection it came over and its number among the messages  *)
(* sent over that connection.                                              *)

ConnectMsg(c, others) == [type |-> "connect", id |-> c, clients |-> others]
JoinedMsg(c) == [type |-> "user-joined", id |-> c]
LeftMsg(c)   == [type |-> "user-left", id |-> c]
PongMsg      == [type |-> "pong"]
Relayed(c, m) == [type |-> m.type, sender |-> m.sender, from |-> c, n |-> m.n]

ClientMsg ==
  [type : SignalTypes \cup OtherTypes, sender : Clients \cup {Null},
   target : Clients \cup {Null}, n : Nat]
Signal    == [type : SignalTypes, sender : Clients, from : Clients, n : Nat]
ServerMsg ==
  [type : {"connect"}, id : Clients, clients : SUBSET Clients]
    \cup [type : {"user-joined", "user-left"}, id : Clients]
    \cup [type : {"pong"}]
    \cup Signal

TypeOK ==
  /\ clients \in SUBSET Clients
  /\ readyState \in [Clients -> {"CONNECTING", "OPEN", "CLOSING", "CLOSED"}]
  /\ toServer \in [Clients -> Seq(ClientMsg)]
  /\ toClient \in [Clients -> Seq(ServerMsg)]
  /\ closed \in SUBSET Clients
  /\ clientId \in [Clients -> Clients \cup {Null}]
  /\ roster \in [Clients -> SUBSET Clients]
  /\ sent \in [Clients -> Nat]
  /\ heard \in [Clients -> [Clients -> Nat]]

Init ==
  /\ clients = {}
  /\ readyState = [c \in Clients |-> "CONNECTING"]
  /\ toServer = [c \in Clients |-> <<>>]
  /\ toClient = [c \in Clients |-> <<>>]
  /\ closed = {}
  /\ clientId = [c \in Clients |-> Null]
  /\ roster = [c \in Clients |-> {}]
  /\ sent = [c \in Clients |-> 0]
  /\ heard = [c \in Clients |-> [a \in Clients |-> 0]]

-----------------------------------------------------------------------------
(* The server's handlers.                                                  *)

(* The sockets a broadcast about c reaches: registered, not c, and OPEN.   *)
Audience(c) == {d \in clients : d # c /\ readyState[d] = "OPEN"}

(* Mutant: the newcomer, already registered, hears its own announcement    *)
(* before its welcome.                                                     *)
OnConnection_AnnouncedFirst(c) ==
  /\ readyState[c] = "CONNECTING"
  /\ clients' = clients \cup {c}
  /\ readyState' = [readyState EXCEPT ![c] = "OPEN"]
  /\ toClient' = [d \in Clients |->
       IF d = c THEN toClient[d] \o <<JoinedMsg(c), ConnectMsg(c, clients \ {c})>>
       ELSE IF d \in Audience(c) THEN Append(toClient[d], JoinedMsg(c))
       ELSE toClient[d]]
  /\ UNCHANGED <<toServer, browserVars>>

(* wss.on('connection'): register, welcome, tell the others. *)
OnConnection(c) ==
  /\ readyState[c] = "CONNECTING"
  /\ clients' = clients \cup {c}
  /\ readyState' = [readyState EXCEPT ![c] = "OPEN"]
  /\ toClient' = [d \in Clients |->
       IF d = c THEN Append(toClient[d], ConnectMsg(c, clients \ {c}))
       ELSE IF d \in Audience(c) THEN Append(toClient[d], JoinedMsg(c))
       ELSE toClient[d]]
  /\ UNCHANGED <<toServer, browserVars>>

(* Where a message goes: a signal with a sender and a target to the OPEN   *)
(* socket registered under the target, a ping back to its sender.          *)
Recipients_SenderUnchecked(c, m) ==
  IF m.type \in SignalTypes
    THEN {d \in clients : m.target # Null /\ d = m.target /\ readyState[d] = "OPEN"}
    ELSE {d \in {c} : m.type = "ping"}

Recipients(c, m) ==
  IF m.type \in SignalTypes
    THEN {d \in clients : /\ m.sender # Null /\ m.target # Null
                          /\ d = m.target /\ readyState[d] = "OPEN"}
    ELSE {d \in {c} : m.type = "ping"}

Reply(c, m) == IF m.type \in SignalTypes THEN Relayed(c, m) ELSE PongMsg

(* Mutants: a handler that stays attached after the close, and one that    *)
(* leaves the message it has relayed in the queue.                         *)
OnMessage_AfterClose(c) ==
  /\ readyState[c] # "CONNECTING"
  /\ toServer[c] # <<>>
  /\ LET m == Head(toServer[c]) IN
       toClient' = [d \in Clients |->
         IF d \in Recipients(c, m) THEN Append(toClient[d], Reply(c, m))
                                   ELSE toClient[d]]
  /\ toServer' = [toServer EXCEPT ![c] = Tail(@)]
  /\ UNCHANGED <<serverVars, browserVars>>

OnMessage_NotConsumed(c) ==
  /\ readyState[c] = "OPEN"
  /\ toServer[c] # <<>>
  /\ LET m == Head(toServer[c]) IN
       toClient' = [d \in Clients |->
         IF d \in Recipients(c, m) THEN Append(toClient[d], Reply(c, m))
                                   ELSE toClient[d]]
  /\ UNCHANGED <<serverVars, toServer, browserVars>>

(* ws.on('message') *)
OnMessage(c) ==
  /\ readyState[c] = "OPEN"
  /\ toServer[c] # <<>>
  /\ LET m == Head(toServer[c]) IN
       toClient' = [d \in Clients |->
         IF d \in Recipients(c, m) THEN Append(toClient[d], Reply(c, m))
                                   ELSE toClient[d]]
  /\ toServer' = [toServer EXCEPT ![c] = Tail(@)]
  /\ UNCHANGED <<serverVars, browserVars>>

(* Mutant: forget the socket and tell nobody. *)
OnClose_Silent(c) ==
  /\ readyState[c] = "CLOSING"
  /\ readyState' = [readyState EXCEPT ![c] = "CLOSED"]
  /\ clients' = clients \ {c}
  /\ UNCHANGED <<toServer, toClient, browserVars>>

(* ws.on('close'): tell the others, then forget the socket. *)
OnClose(c) ==
  /\ readyState[c] = "CLOSING"
  /\ readyState' = [readyState EXCEPT ![c] = "CLOSED"]
  /\ toClient' = [d \in Clients |->
       IF d \in Audience(c) THEN Append(toClient[d], LeftMsg(c)) ELSE toClient[d]]
  /\ clients' = clients \ {c}
  /\ UNCHANGED <<toServer, browserVars>>

-----------------------------------------------------------------------------
(* What the ws library does to a socket between those handlers.            *)

(* The browser's close frame is read, after everything sent before it. *)
ReadCloseFrame(c) ==
  /\ readyState[c] = "OPEN"
  /\ c \in closed
  /\ toServer[c] = <<>>
  /\ readyState' = [readyState EXCEPT ![c] = "CLOSING"]
  /\ UNCHANGED <<clients, toServer, toClient, browserVars>>

(* The TCP connection breaks; what the server had not read is lost. *)
LoseConnection(c) ==
  /\ readyState[c] = "OPEN"
  /\ readyState' = [readyState EXCEPT ![c] = "CLOSING"]
  /\ toServer' = [toServer EXCEPT ![c] = <<>>]
  /\ UNCHANGED <<clients, toClient, browserVars>>

-----------------------------------------------------------------------------
(* The browsers.                                                           *)

(* Mutant: the list is only ever extended. *)
NewRoster_KeepsLeft(c, m) ==
  CASE m.type = "connect"     -> m.clients \ {m.id}
    [] m.type = "user-joined" -> roster[c] \cup ({m.id} \ {clientId[c]})
    [] OTHER                  -> roster[c]

(* Mutant: removing a user empties the container, whoever is left in it. *)
NewRoster_Emptied(c, m) ==
  CASE m.type = "connect"     -> m.clients \ {m.id}
    [] m.type = "user-joined" -> roster[c] \cup ({m.id} \ {clientId[c]})
    [] m.type = "user-left"   -> {}
    [] OTHER                  -> roster[c]

(* updateUserList, addUserToList and removeUserFromList. *)
NewRoster(c, m) ==
  CASE m.type = "connect"     -> m.clients \ {m.id}
    [] m.type = "user-joined" -> roster[c] \cup ({m.id} \ {clientId[c]})
    [] m.type = "user-left"   -> roster[c] \ {m.id}
    [] OTHER                  -> roster[c]

(* ws.onmessage and handleSignalingMessage, as far as the list goes. *)
HandleMessage(c) ==
  /\ c \notin closed
  /\ toClient[c] # <<>>
  /\ LET m == Head(toClient[c]) IN
       /\ roster' = [roster EXCEPT ![c] = NewRoster(c, m)]
       /\ clientId' = IF m.type = "connect"
                        THEN [clientId EXCEPT ![c] = m.id] ELSE clientId
       /\ heard' = IF m.type \in SignalTypes
                     THEN [heard EXCEPT ![c][m.from] = m.n] ELSE heard
  /\ toClient' = [toClient EXCEPT ![c] = Tail(@)]
  /\ UNCHANGED <<serverVars, toServer, closed, sent>>

(* ws.send: sendToServer in client.js, the keep-alive ping, and any other  *)
(* client of the protocol. client.js writes its clientId as the sender, a  *)
(* global that survives a reconnection and is overwritten by the welcome   *)
(* of whichever socket handled one last; another client writes any id, or  *)
(* none.                                                                   *)
Send(c, type, sender, target) ==
  /\ c \notin closed
  /\ readyState[c] # "CONNECTING"
  /\ c \in Talkers
  /\ sent[c] < MaxSent
  /\ sent' = [sent EXCEPT ![c] = @ + 1]
  /\ toServer' = [toServer EXCEPT ![c] =
       Append(@, [type |-> type, sender |-> sender,
                  target |-> target, n |-> sent[c] + 1])]
  /\ UNCHANGED <<serverVars, toClient, closed, clientId, roster, heard>>

(* disconnectFromServer, or the page goes away. *)
CloseClient(c) ==
  /\ c \notin closed
  /\ closed' = closed \cup {c}
  /\ UNCHANGED <<serverVars, toServer, toClient, clientId, roster, sent, heard>>

-----------------------------------------------------------------------------
Next ==
  \E c \in Clients :
    \/ OnConnection(c)
    \/ OnMessage(c)
    \/ OnClose(c)
    \/ ReadCloseFrame(c)
    \/ LoseConnection(c)
    \/ HandleMessage(c)
    \/ \E type \in SignalTypes, sender, target \in Clients \cup {Null} :
         Send(c, type, sender, target)
    \/ \E type \in OtherTypes : Send(c, type, Null, Null)
    \/ CloseClient(c)

Spec == Init /\ [][Next]_vars

(* Both event loops keep running, and the network delivers: every queued   *)
(* message and close frame is read and every close event is emitted.       *)
(* Nobody is obliged to connect, to send or to leave.                      *)
Fairness ==
  \A c \in Clients :
    /\ WF_vars(OnMessage(c))
    /\ WF_vars(ReadCloseFrame(c))
    /\ WF_vars(OnClose(c))
    /\ WF_vars(HandleMessage(c))

FairSpec == Spec /\ Fairness

-----------------------------------------------------------------------------
(* Properties.                                                             *)

(* Message m makes the page that handles it list x. *)
Lists(m, x) ==
  \/ m.type = "connect" /\ x \in m.clients
  \/ m.type = "user-joined" /\ x = m.id

(* The page that handles m drops x from its list. *)
Delists(m, x) == m.type = "user-left" /\ x = m.id

(* The queue q holds a message that lists x, or delists x, or is `connect`. *)
Told(q, x)     == \E i \in DOMAIN q : Lists(q[i], x)
ToldGone(q, x) == \E i \in DOMAIN q : Delists(q[i], x)
NoWelcome(q)   == \A i \in DOMAIN q : q[i].type # "connect"

(* c's page will list x once it has handled everything in flight to it. *)
WillList(c, x) ==
  (x \in roster[c] \/ Told(toClient[c], x)) /\ ~ ToldGone(toClient[c], x)

(* No join or departure is lost or misreported, however connections, closes *)
(* and deliveries interleave: what an OPEN client's list shows, corrected  *)
(* by the messages still in flight to it, is exactly the set of the other  *)
(* registered clients (server.js's Map).                                   *)
RosterTracksRegistry ==
  \A c \in Clients : readyState[c] = "OPEN" =>
    \A x \in Clients \ {c} : x \in clients <=> WillList(c, x)

(* `connect` is the first message a page handles and comes once, so that   *)
(* rebuilding the list (updateUserList) never wipes out a user-joined.     *)
WelcomeFirst ==
  \A c \in Clients :
    IF readyState[c] = "CONNECTING" \/ clientId[c] # Null
      THEN NoWelcome(toClient[c])
      ELSE /\ roster[c] = {}
           /\ toClient[c] # <<>>
           /\ Head(toClient[c]).type = "connect"
           /\ NoWelcome(Tail(toClient[c]))

(* An offer, answer or candidate never reaches a page over a connection it *)
(* has not been told of yet, or has already been told has ended: relays    *)
(* and membership news share one FIFO socket.  So a page lists whoever     *)
(* signals to it under the id of the connection the signal was sent on,    *)
(* and under no other: the sender a signal names is not checked            *)
(* (server.js:51), and a page that reconnects still writes the id of the   *)
(* connection before until its welcome, when others may have delisted it.  *)
SignalFromListedUser ==
  \A c \in Clients : \A i \in DOMAIN toClient[c] :
    LET m == toClient[c][i] IN
      m.type \in SignalTypes /\ m.from # c =>
        /\ \/ m.from \in roster[c]
           \/ \E j \in 1 .. i - 1 : Lists(toClient[c][j], m.from)
        /\ \A j \in 1 .. i - 1 : ~ Delists(toClient[c][j], m.from)

(* Signals sent over one connection reach a page neither reordered nor     *)
(* duplicated, so a candidate never overtakes the offer it belongs to.     *)
SignalsInOrder ==
  \A c \in Clients : \A i \in DOMAIN toClient[c] :
    LET m == toClient[c][i] IN
      m.type \in SignalTypes =>
        /\ m.n > heard[c][m.from]
        /\ \A j \in 1 .. i - 1 :
             LET e == toClient[c][j] IN
               e.type \in SignalTypes /\ e.from = m.from => e.n < m.n

(* The service implements Presence: being a member is being in the Map.    *)
PresenceStatus(c) ==
  CASE readyState[c] = "CONNECTING" -> "new"
    [] readyState[c] = "CLOSED"     -> "left"
    [] OTHER                        -> "member"

Abstract == INSTANCE Presence WITH
  status <- [c \in Clients |-> PresenceStatus(c)], view <- roster

ImplementsPresence == Abstract!Spec

(* Once connections stop coming and going, every page that is still        *)
(* connected lists exactly the others that are.                            *)
Up(c) == c \notin closed /\ readyState[c] = "OPEN"
UpToDate(c) == Up(c) => roster[c] = {x \in Clients : Up(x)} \ {c}
RostersConverge == \A c \in Clients : <>[]UpToDate(c)
=============================================================================
