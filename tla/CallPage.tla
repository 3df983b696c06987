------------------------------ MODULE CallPage ------------------------------
(***************************************************************************)
(* One browser page of the WebRTC client (webrtc-runtime/app/public/       *)
(* client.js): its WebSockets, the list of users, and the call controller  *)
(* with the asynchronous steps of startCall and handleVideoOffer.          *)
(*                                                                         *)
(* The page is single threaded: an event handler, or the part of an async  *)
(* function between two awaits, is one action.  The signaling server is    *)
(* the environment and gives what Signaling.tla establishes: connect comes *)
(* first, joins and departures alternate.  Other users may run other       *)
(* clients of the protocol, and the page looks at no sender: offers and    *)
(* answers may come at any time, from anybody, listed or not.  ICE         *)
(* candidates, which only change state inside an RTCPeerConnection, and    *)
(* the beforeunload handler are left out.                                  *)
(***************************************************************************)
EXTENDS Naturals, Sequences

CONSTANTS
  Peers,        \* ids of the other users
  Null,         \* an absent user
  MaxSockets,   \* bound: WebSockets the page opens
  MaxCalls,     \* bound: RTCPeerConnections the page creates
  MaxOps        \* bound: operations queued on one RTCPeerConnection

Sockets == 1 .. MaxSockets      \* a socket's number is also the id it is given
Calls   == 1 .. MaxCalls
Ids     == Peers \cup Sockets

ASSUME CallPageAssumption ==
  /\ MaxSockets \in Nat /\ MaxCalls \in Nat /\ MaxOps \in Nat \ {0}
  /\ Null \notin Ids
  /\ Peers \cap Sockets = {}

VARIABLES
  (* client.js *)
  localStream,      \* is the camera on?
  ws,               \* the current socket, 0: none
  clientId,
  listed,           \* the users in usersContainer
  listShown,        \* userList is not hidden
  peerConnection,   \* the current connection, 0: null
  targetUserId,
  isConnected,
  remoteVideo,      \* is a stream attached to the remote video?
  hangupButton,     \* is it enabled?
  (* browser and network *)
  sockets,          \* readyState of every socket, "none": not created
  told,             \* told[s]: the ids the server has listed on s and not delisted
  greeted,          \* the sockets that have received `connect`
  pcs,              \* signalingState of every connection, "none": not created
  ops,              \* ops[i]: the operations chain of connection i
  sent              \* history: the signals handed to a socket

listVars   == <<clientId, listed, listShown>>
callVars   == <<peerConnection, targetUserId, isConnected, pcs, ops>>
serverVars == <<told, greeted>>
screenVars == <<remoteVideo, hangupButton>>
vars == <<localStream, ws, listVars, callVars, screenVars,
          sockets, serverVars, sent>>

(* Operations the page awaits.  All but setRemoteAnswer belong to the      *)
(* function that set the call up and will carry it on: its driver.         *)
Drivers == {"createOffer", "setOffer", "setRemoteOffer", "createAnswer", "setAnswer"}
Ops     == Drivers \cup {"setRemoteAnswer"}

TypeOK ==
  /\ localStream \in BOOLEAN /\ listShown \in BOOLEAN
  /\ isConnected \in BOOLEAN /\ remoteVideo \in BOOLEAN /\ hangupButton \in BOOLEAN
  /\ ws \in {0} \cup Sockets
  /\ clientId \in Ids \cup {Null}
  /\ listed \in SUBSET Ids
  /\ peerConnection \in {0} \cup Calls
  /\ targetUserId \in Peers \cup {Null}
  /\ sockets \in [Sockets -> {"none", "CONNECTING", "OPEN", "CLOSING", "CLOSED"}]
  /\ told \in [Sockets -> SUBSET Ids]
  /\ greeted \in SUBSET Sockets
  /\ pcs \in [Calls -> {"none", "new", "have-local-offer", "have-remote-offer",
                        "stable", "closed"}]
  /\ ops \in [Calls -> Seq(Ops)]
  /\ sent \in SUBSET [type : {"offer", "answer"}, target : Ids \cup {Null}]

Init ==
  /\ localStream = FALSE /\ listShown = FALSE
  /\ isConnected = FALSE /\ remoteVideo = FALSE /\ hangupButton = FALSE
  /\ ws = 0 /\ clientId = Null /\ listed = {}
  /\ peerConnection = 0 /\ targetUserId = Null
  /\ sockets = [s \in Sockets |-> "none"]
  /\ told = [s \in Sockets |-> {}] /\ greeted = {}
  /\ pcs = [i \in Calls |-> "none"]
  /\ ops = [i \in Calls |-> <<>>]
  /\ sent = {}

-----------------------------------------------------------------------------
(* The call controller's helpers.                                          *)

(* The connections once the current one is closed.  What was awaited on a  *)
(* closed connection is never settled: its continuations are gone.         *)
Closed == [i \in Calls |-> IF i = peerConnection THEN "closed" ELSE pcs[i]]
Unawaited == [i \in Calls |-> IF i = peerConnection THEN <<>> ELSE ops[i]]

(* Mutant: the old connection is forgotten but not closed. *)
ClosePeerConnection_Leaks ==
  /\ UNCHANGED <<pcs, ops>>
  /\ peerConnection' = 0
  /\ targetUserId' = Null
  /\ isConnected' = FALSE

(* closePeerConnection *)
ClosePeerConnection ==
  /\ pcs' = Closed
  /\ ops' = Unawaited
  /\ peerConnection' = 0
  /\ targetUserId' = Null
  /\ isConnected' = FALSE

Unused(i) == pcs[i] = "none" /\ \A j \in 1 .. i - 1 : pcs[j] # "none"

(* Mutant: isConnected survives the replacement of the connection. *)
CreatePeerConnection_StaysConnected(op) ==
  \E i \in Calls :
    /\ Unused(i)
    /\ pcs' = [Closed EXCEPT ![i] = "new"]
    /\ ops' = [Unawaited EXCEPT ![i] = <<op>>]
    /\ peerConnection' = i
    /\ targetUserId' = Null
    /\ UNCHANGED isConnected

(* createPeerConnection for a call, and the first operation its            *)
(* caller awaits.  The callers set targetUserId just before;               *)
(* closePeerConnection, called first, clears it again.                     *)
CreatePeerConnection(op) ==
  \E i \in Calls :
    /\ Unused(i)
    /\ pcs' = [Closed EXCEPT ![i] = "new"]
    /\ ops' = [Unawaited EXCEPT ![i] = <<op>>]
    /\ peerConnection' = i
    /\ targetUserId' = Null
    /\ isConnected' = FALSE

(* hangupCall *)
HangupCall ==
  /\ ClosePeerConnection
  /\ remoteVideo' = FALSE
  /\ hangupButton' = FALSE

(* Mutant: a message type the server does not relay. *)
SendToServer_OtherName(type) ==
  sent' = IF ws # 0 /\ sockets[ws] = "OPEN"
            THEN sent \cup {[type |-> "video-offer", target |-> targetUserId]}
            ELSE sent

(* sendToServer: lost, with an error shown, unless the socket is OPEN. *)
SendToServer(type) ==
  sent' = IF ws # 0 /\ sockets[ws] = "OPEN"
            THEN sent \cup {[type |-> type, target |-> targetUserId]}
            ELSE sent

-----------------------------------------------------------------------------
(* What the user does.                                                     *)

(* startLocalStream, when the user grants access; otherwise nothing changes *)
StartLocalStream ==
  /\ ~ localStream
  /\ localStream' = TRUE
  /\ UNCHANGED <<ws, listVars, callVars, screenVars, sockets,
                 serverVars, sent>>

(* connectToServer: a fresh socket, whatever became of the previous one. *)
ConnectToServer ==
  \E s \in Sockets :
    /\ sockets[s] = "none" /\ \A t \in 1 .. s - 1 : sockets[t] # "none"
    /\ sockets' = [sockets EXCEPT ![s] = "CONNECTING"]
    /\ ws' = s

(* toggleConnection *)
ToggleConnection ==
  /\ IF ws # 0 /\ sockets[ws] = "OPEN"
       THEN sockets' = [sockets EXCEPT ![ws] = "CLOSING"] /\ UNCHANGED ws
       ELSE ConnectToServer
  /\ UNCHANGED <<localStream, listVars, callVars, screenVars,
                 serverVars, sent>>

(* Mutant: the Call button works whether or not the list is on screen. *)
StartCall_FromHiddenList(user) ==
  /\ user \in listed
  /\ localStream
  /\ CreatePeerConnection("createOffer")
  /\ UNCHANGED <<localStream, ws, listVars, screenVars, sockets,
                 serverVars, sent>>

(* startCall, from the Call button of a listed user, up to its first await *)
StartCall(user) ==
  /\ listShown /\ user \in listed
  /\ localStream
  /\ CreatePeerConnection("createOffer")
  /\ UNCHANGED <<localStream, ws, listVars, screenVars, sockets,
                 serverVars, sent>>

(* The Hang Up button. *)
ClickHangup ==
  /\ hangupButton
  /\ HangupCall
  /\ UNCHANGED <<localStream, ws, listVars, sockets, serverVars, sent>>

-----------------------------------------------------------------------------
(* Socket events.                                                          *)

(* ws.onopen.  Its pings, which the page does not act on, are left out. *)
OnOpen(s) ==
  /\ sockets[s] = "CONNECTING"
  /\ sockets' = [sockets EXCEPT ![s] = "OPEN"]
  /\ UNCHANGED <<localStream, ws, listVars, callVars, screenVars, serverVars, sent>>

(* Mutant: the list is hidden but the call goes on. *)
OnClose_KeepsCall(s) ==
  /\ sockets[s] \in {"CONNECTING", "OPEN", "CLOSING"}
  /\ sockets' = [sockets EXCEPT ![s] = "CLOSED"]
  /\ listShown' = FALSE
  /\ UNCHANGED <<localStream, ws, clientId, listed, callVars, screenVars,
                 serverVars, sent>>

(* ws.onclose, of any socket the page ever opened: the closing handshake   *)
(* ended, the connection broke or could not be made.                       *)
OnClose(s) ==
  /\ sockets[s] \in {"CONNECTING", "OPEN", "CLOSING"}
  /\ sockets' = [sockets EXCEPT ![s] = "CLOSED"]
  /\ listShown' = FALSE
  /\ HangupCall
  /\ UNCHANGED <<localStream, ws, clientId, listed, serverVars, sent>>

-----------------------------------------------------------------------------
(* handleSignalingMessage, one action per message type.  Messages are      *)
(* dispatched from every OPEN socket, the current one or not.              *)

(* connect: updateUserList rebuilds and shows the list. *)
HandleConnect(s, others) ==
  /\ sockets[s] = "OPEN" /\ s \notin greeted
  /\ greeted' = greeted \cup {s}
  /\ told' = [told EXCEPT ![s] = others]
  /\ clientId' = s
  /\ listed' = others \ {s}
  /\ listShown' = TRUE
  /\ UNCHANGED <<localStream, ws, callVars, screenVars, sockets, sent>>

(* user-joined: addUserToList, which skips clientId and whoever is listed. *)
HandleJoined(s, user) ==
  /\ sockets[s] = "OPEN" /\ s \in greeted
  /\ user \notin told[s] \cup {s}
  /\ told' = [told EXCEPT ![s] = @ \cup {user}]
  /\ IF user \in listed \cup {clientId}
       THEN UNCHANGED <<listed, listShown>>
       ELSE listed' = listed \cup {user} /\ listShown' = TRUE
  /\ UNCHANGED <<localStream, ws, clientId, callVars, screenVars,
                 sockets, greeted, sent>>

(* user-left: removeUserFromList, then hang up on targetUserId. *)
HandleLeft(s, user) ==
  /\ sockets[s] = "OPEN"
  /\ user \in told[s]
  /\ told' = [told EXCEPT ![s] = @ \ {user}]
  /\ listed' = listed \ {user}
  /\ IF targetUserId = user THEN HangupCall ELSE UNCHANGED <<callVars, screenVars>>
  /\ UNCHANGED <<localStream, ws, clientId, listShown, sockets,
                 greeted, sent>>

(* offer: handleVideoOffer up to its first await. *)
HandleVideoOffer(s) ==
  /\ sockets[s] = "OPEN" /\ s \in greeted
  /\ CreatePeerConnection("setRemoteOffer")
  /\ UNCHANGED <<localStream, ws, listVars, screenVars, sockets,
                 serverVars, sent>>

(* answer: handleVideoAnswer, from whomever it is.  Without a connection   *)
(* it throws and the error is shown.                                       *)
HandleVideoAnswer(s) ==
  /\ sockets[s] = "OPEN" /\ s \in greeted
  /\ peerConnection # 0
  /\ Len(ops[peerConnection]) < MaxOps
  /\ ops' = [ops EXCEPT ![peerConnection] = Append(@, "setRemoteAnswer")]
  /\ UNCHANGED <<localStream, ws, listVars, peerConnection, targetUserId,
                 isConnected, pcs, screenVars, sockets,
                 serverVars, sent>>

-----------------------------------------------------------------------------
(* Promises of the current call settle.  Operations on one connection run  *)
(* in the order they were queued; a continuation works on peerConnection,  *)
(* which need not be the connection i it awaited.                          *)

Settles(i, op) ==
  /\ pcs[i] \notin {"none", "closed"}
  /\ ops[i] # <<>> /\ Head(ops[i]) = op

Dequeued(i) == [ops EXCEPT ![i] = Tail(@)]
ThenAwait(i, op) == ops' = [Dequeued(i) EXCEPT ![peerConnection] = Append(@, op)]

pageVars == <<localStream, ws, listVars, peerConnection, targetUserId,
              sockets, serverVars>>

(* startCall, after createOffer *)
OfferCreated(i) ==
  /\ Settles(i, "createOffer")
  /\ ThenAwait(i, "setOffer")
  /\ UNCHANGED <<pageVars, pcs, isConnected, screenVars, sent>>

(* startCall, after setLocalDescription *)
OfferSet(i) ==
  /\ Settles(i, "setOffer")
  /\ pcs' = [pcs EXCEPT ![i] = "have-local-offer"]
  /\ ops' = Dequeued(i)
  /\ SendToServer("offer")
  /\ hangupButton' = TRUE
  /\ UNCHANGED <<pageVars, isConnected, remoteVideo>>

(* handleVideoOffer, after setRemoteDescription; ontrack has fired if the  *)
(* offer carries media.                                                    *)
RemoteOfferSet(i) ==
  /\ Settles(i, "setRemoteOffer")
  /\ pcs' = [pcs EXCEPT ![i] = "have-remote-offer"]
  /\ ThenAwait(i, "createAnswer")
  /\ remoteVideo' \in {remoteVideo, TRUE}
  /\ UNCHANGED <<pageVars, isConnected, hangupButton, sent>>

(* Mutant: nothing is done with the answer. *)
AnswerCreated_Forgotten(i) ==
  /\ Settles(i, "createAnswer")
  /\ ops' = Dequeued(i)
  /\ UNCHANGED <<pageVars, pcs, isConnected, screenVars, sent>>

(* handleVideoOffer, after createAnswer *)
AnswerCreated(i) ==
  /\ Settles(i, "createAnswer")
  /\ ThenAwait(i, "setAnswer")
  /\ UNCHANGED <<pageVars, pcs, isConnected, screenVars, sent>>

(* handleVideoOffer, after setLocalDescription *)
AnswerSet(i) ==
  /\ Settles(i, "setAnswer")
  /\ pcs' = [pcs EXCEPT ![i] = "stable"]
  /\ ops' = Dequeued(i)
  /\ SendToServer("answer")
  /\ hangupButton' = TRUE
  /\ UNCHANGED <<pageVars, isConnected, remoteVideo>>

(* handleVideoAnswer, when the connection is waiting for an answer *)
RemoteAnswerSet(i) ==
  /\ Settles(i, "setRemoteAnswer")
  /\ pcs[i] = "have-local-offer"
  /\ pcs' = [pcs EXCEPT ![i] = "stable"]
  /\ ops' = Dequeued(i)
  /\ remoteVideo' \in {remoteVideo, TRUE}
  /\ UNCHANGED <<pageVars, isConnected, hangupButton, sent>>

(* Mutant: the error is only shown. *)
DriverFails_Ignored(i) ==
  /\ \E op \in Drivers : Settles(i, op)
  /\ ops' = Dequeued(i)
  /\ UNCHANGED <<pageVars, pcs, isConnected, screenVars, sent>>

(* The catch blocks of startCall and handleVideoOffer. *)
DriverFails(i) ==
  /\ \E op \in Drivers : Settles(i, op)
  /\ ClosePeerConnection
  /\ UNCHANGED <<localStream, ws, listVars, screenVars, sockets,
                 serverVars, sent>>

(* The catch block of handleVideoAnswer only shows the error. *)
AnswerFails(i) ==
  /\ Settles(i, "setRemoteAnswer")
  /\ ops' = Dequeued(i)
  /\ UNCHANGED <<pageVars, pcs, isConnected, screenVars, sent>>

(* oniceconnectionstatechange: both descriptions are set and ICE succeeds, *)
IceConnected ==
  /\ peerConnection # 0
  /\ pcs[peerConnection] = "stable"
  /\ isConnected' = TRUE
  /\ UNCHANGED <<pageVars, pcs, ops, screenVars, sent>>

(* or fails; a failure before isConnected is ignored. *)
IceLost ==
  /\ peerConnection # 0
  /\ isConnected
  /\ HangupCall
  /\ UNCHANGED <<localStream, ws, listVars, sockets, serverVars, sent>>

-----------------------------------------------------------------------------
(* The server knows this page's own sockets too: a second one is somebody  *)
(* else to it.                                                             *)
Online == Peers \cup {s \in Sockets : sockets[s] # "none"}

Settle(i) ==
  \/ OfferCreated(i) \/ OfferSet(i)
  \/ RemoteOfferSet(i) \/ AnswerCreated(i) \/ AnswerSet(i)
  \/ RemoteAnswerSet(i)
  \/ DriverFails(i) \/ AnswerFails(i)

Next ==
  \/ StartLocalStream
  \/ ToggleConnection
  \/ \E user \in Ids : StartCall(user)
  \/ ClickHangup
  \/ \E s \in Sockets :
       \/ OnOpen(s)
       \/ OnClose(s)
       \/ \E others \in SUBSET (Online \ {s}) : HandleConnect(s, others)
       \/ \E user \in Online : HandleJoined(s, user)
       \/ \E user \in Ids : HandleLeft(s, user)
       \/ HandleVideoOffer(s) \/ HandleVideoAnswer(s)
  \/ \E i \in Calls : Settle(i)
  \/ IceConnected
  \/ IceLost

Spec == Init /\ [][Next]_vars

(* The browser settles what is awaited on an open connection, and ends the *)
(* closing handshake of a socket, by a timeout if need be.                 *)
Fairness ==
  /\ \A i \in Calls : WF_vars(Settle(i))
  /\ \A s \in Sockets : WF_vars(sockets[s] = "CLOSING" /\ OnClose(s))

FairSpec == Spec /\ Fairness

-----------------------------------------------------------------------------
(* Properties.                                                             *)

(* However calls, offers, hang-ups and closes interleave with the awaits   *)
(* of startCall and handleVideoOffer, no connection but the current one is *)
(* open: none leaks, and a continuation never works on another call than   *)
(* the one it awaited.                                                     *)
OneOpenConnection ==
  \A i \in Calls : pcs[i] \notin {"none", "closed"} => i = peerConnection

DrivenOnce(q) ==
  \E k \in DOMAIN q : \A j \in DOMAIN q : q[j] \in Drivers <=> j = k
Undriven(q) == \A j \in DOMAIN q : q[j] \notin Drivers

(* A call that is being set up is carried on by exactly one async function *)
(* and one that is set up by none: no overlapping handler leaves a call    *)
(* stranded half way or drives it twice.                                   *)
OneDriver ==
  \A i \in Calls :
    IF pcs[i] \in {"new", "have-remote-offer"} THEN DrivenOnce(ops[i])
                                              ELSE Undriven(ops[i])

(* isConnected is about the current call, with both descriptions set, and  *)
(* never left over from an earlier one (createPeerConnection).             *)
ConnectedMeansStable ==
  isConnected => peerConnection # 0 /\ pcs[peerConnection] = "stable"

(* A call that has been offered or answered can be hung up (hangupButton   *)
(* is enabled), whatever failed or was replaced before it.                 *)
CallCanBeHungUp ==
  peerConnection # 0 /\ pcs[peerConnection] \in {"have-local-offer", "stable"}
    => hangupButton

(* What the page shows of the call in progress is true of it, and leaves   *)
(* a way out of it, whatever failed or was replaced before it.             *)
PageShowsItsCall == ConnectedMeansStable /\ CallCanBeHungUp

(* The phase of the call in progress, as the other side could follow it. *)
Rings(q) == \E k \in DOMAIN q : q[k] = "setRemoteOffer"
Phase ==
  IF peerConnection = 0 THEN "idle"
  ELSE CASE pcs[peerConnection] = "have-local-offer"  -> "offered"
         [] pcs[peerConnection] = "have-remote-offer" -> "answering"
         [] pcs[peerConnection] = "stable"            -> "agreed"
         [] OTHER -> IF Rings(ops[peerConnection]) THEN "ringing" ELSE "calling"

Protocol == INSTANCE CallProtocol WITH
  phase <- Phase, connected <- isConnected, endable <- hangupButton,
  video <- remoteVideo, signals <- {m.type : m \in sent}

(* The page follows the call protocol with one call at a time, whichever   *)
(* handlers run between the awaits of startCall and handleVideoOffer: no   *)
(* answer without an offer that was applied, no offer out of a call that   *)
(* was replaced, no media said to flow before both descriptions are set.   *)
(* A new call does inherit the picture and the Hang Up button of the call  *)
(* it replaces (client.js:250-253), and a set-up that fails leaves both    *)
(* (389-401): only a hang-up or the loss of the server clears them.        *)
ImplementsCallProtocol == Protocol!Spec

(* Nothing is on screen and no call exists once the page has lost all its  *)
(* sockets, in whatever order they opened and closed (ws.onclose).         *)
NoCallWithoutServer ==
  peerConnection # 0 \/ remoteVideo \/ listShown
    => \E s \in Sockets : sockets[s] \in {"OPEN", "CLOSING"}

(* A call being set up gets to its offer or answer, or is closed.          *)
CallsSettle ==
  \A i \in Calls :
    pcs[i] \in {"new", "have-remote-offer"}
      ~> pcs[i] \in {"have-local-offer", "stable", "closed"}

(* Disconnecting ends the call.                                            *)
DisconnectEndsCall ==
  ws # 0 /\ sockets[ws] = "CLOSING" ~> peerConnection = 0

(* What the comments and the README say, and the code does not do.         *)

(* webrtc-runtime/README.md:179: clicking Call initiates a connection; the *)
(* server relays by its target: an offer names the user called.            *)
OffersAreAddressed == \A m \in sent : m.type = "offer" => m.target # Null
=============================================================================
