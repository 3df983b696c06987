--------------------------- MODULE CallPageProofs ---------------------------
(***************************************************************************)
(* Theorems about CallPage, for any number of users, sockets and calls.    *)
(***************************************************************************)
EXTENDS CallPage, TLAPS

-----------------------------------------------------------------------------
(* Operation chains.                                                       *)

(* Queueing an operation gives an undriven chain a driver, or leaves the   *)
(* driver it has as it is.                                                 *)
LEMMA Queued ==
  ASSUME NEW q \in Seq(Ops), NEW op \in Ops
  PROVE  /\ Append(q, op) \in Seq(Ops)
         /\ op \in Drivers /\ Undriven(q) => DrivenOnce(Append(q, op))
         /\ op \notin Drivers /\ Undriven(q) => Undriven(Append(q, op))
         /\ op \notin Drivers /\ DrivenOnce(q) => DrivenOnce(Append(q, op))
<1>1. /\ Append(q, op) \in Seq(Ops)
      /\ Len(q) \in Nat
      /\ DOMAIN q = 1 .. Len(q)
      /\ DOMAIN Append(q, op) = 1 .. Len(q) + 1
      /\ \A i \in 1 .. Len(q) : Append(q, op)[i] = q[i]
      /\ Append(q, op)[Len(q) + 1] = op
  OBVIOUS
<1> DEFINE a == Append(q, op)
<1> HIDE DEF a
<1>2. ASSUME op \in Drivers, Undriven(q)
      PROVE  DrivenOnce(a)
  <2>1. \A j \in DOMAIN a : a[j] \in Drivers <=> j = Len(q) + 1
    BY <1>1, <1>2 DEF Undriven, a
  <2> QED
    BY <1>1, <2>1 DEF DrivenOnce, a
<1>3. ASSUME op \notin Drivers, Undriven(q)
      PROVE  Undriven(a)
  BY <1>1, <1>3 DEF Undriven, a
<1>4. ASSUME op \notin Drivers, DrivenOnce(q)
      PROVE  DrivenOnce(a)
  <2>1. PICK k \in DOMAIN q : \A j \in DOMAIN q : q[j] \in Drivers <=> j = k
    BY <1>4 DEF DrivenOnce
  <2>2. k \in DOMAIN a /\ \A j \in DOMAIN a : a[j] \in Drivers <=> j = k
    BY <1>1, <1>4, <2>1 DEF a
  <2> QED
    BY <2>2 DEF DrivenOnce
<1> QED
  BY <1>1, <1>2, <1>3, <1>4 DEF a

(* Settling the first operation takes the driver away if that was it, and  *)
(* leaves the driver as it is otherwise.                                   *)
LEMMA Settled ==
  ASSUME NEW q \in Seq(Ops), q # <<>>
  PROVE  /\ Tail(q) \in Seq(Ops)
         /\ Head(q) \in Drivers => ~ Undriven(q)
         /\ Head(q) \in Drivers /\ DrivenOnce(q) => Undriven(Tail(q))
         /\ Undriven(q) => Undriven(Tail(q))
         /\ Head(q) \notin Drivers /\ DrivenOnce(q) => DrivenOnce(Tail(q))
<1>1. /\ Tail(q) \in Seq(Ops)
      /\ Head(q) = q[1]
      /\ Len(q) \in Nat \ {0}
      /\ DOMAIN q = 1 .. Len(q)
      /\ DOMAIN Tail(q) = 1 .. Len(q) - 1
      /\ \A i \in 1 .. Len(q) - 1 : Tail(q)[i] = q[i + 1]
  OBVIOUS
<1> DEFINE t == Tail(q)
<1> HIDE DEF t
<1>2. Head(q) \in Drivers => ~ Undriven(q)
  BY <1>1 DEF Undriven
<1>3. ASSUME Head(q) \in Drivers, DrivenOnce(q)
      PROVE  Undriven(t)
  <2>1. PICK k \in DOMAIN q : \A j \in DOMAIN q : q[j] \in Drivers <=> j = k
    BY <1>3 DEF DrivenOnce
  <2>2. k = 1
    BY <1>1, <1>3, <2>1
  <2> QED
    BY <1>1, <2>1, <2>2 DEF Undriven, t
<1>4. Undriven(q) => Undriven(t)
  BY <1>1 DEF Undriven, t
<1>5. ASSUME Head(q) \notin Drivers, DrivenOnce(q)
      PROVE  DrivenOnce(t)
  <2>1. PICK k \in DOMAIN q : \A j \in DOMAIN q : q[j] \in Drivers <=> j = k
    BY <1>5 DEF DrivenOnce
  <2>2. k # 1
    BY <1>1, <1>5, <2>1
  <2>3. k - 1 \in DOMAIN t /\ \A j \in DOMAIN t : t[j] \in Drivers <=> j = k - 1
    BY <1>1, <2>1, <2>2 DEF t
  <2> QED
    BY <2>3 DEF DrivenOnce
<1> QED
  BY <1>1, <1>2, <1>3, <1>4, <1>5 DEF t

-----------------------------------------------------------------------------
(* Types.                                                                  *)

(* The call controller's part of TypeOK. *)
CallType ==
  /\ peerConnection \in {0} \cup Calls
  /\ targetUserId \in Peers \cup {Null}
  /\ isConnected \in BOOLEAN
  /\ pcs \in [Calls -> {"none", "new", "have-local-offer", "have-remote-offer",
                        "stable", "closed"}]
  /\ ops \in [Calls -> Seq(Ops)]

LEMMA CloseType == TypeOK /\ ClosePeerConnection => CallType'
<1>1. <<>> \in Seq(Ops)
  OBVIOUS
<1>2. TypeOK => Unawaited \in [Calls -> Seq(Ops)]
  BY <1>1 DEF TypeOK, Unawaited
<1> QED
  BY <1>2 DEF TypeOK, ClosePeerConnection, CallType, Closed

LEMMA CreateType ==
  ASSUME TypeOK, NEW op \in Ops, CreatePeerConnection(op)
  PROVE  CallType'
<1> DEFINE Phases == {"none", "new", "have-local-offer", "have-remote-offer",
                      "stable", "closed"}
<1>1. Closed \in [Calls -> Phases] /\ Unawaited \in [Calls -> Seq(Ops)]
  BY DEF TypeOK, Closed, Unawaited
<1>2. <<op>> \in Seq(Ops)
  OBVIOUS
<1>3. PICK i \in Calls : /\ pcs' = [Closed EXCEPT ![i] = "new"]
                         /\ ops' = [Unawaited EXCEPT ![i] = <<op>>]
                         /\ peerConnection' = i
                         /\ targetUserId' = Null
                         /\ isConnected' = FALSE
  BY DEF CreatePeerConnection
<1>4. pcs' \in [Calls -> Phases] /\ ops' \in [Calls -> Seq(Ops)]
  BY <1>1, <1>2, <1>3
<1> QED
  BY <1>3, <1>4 DEF CallType

LEMMA HangupType == TypeOK /\ HangupCall =>
  CallType' /\ remoteVideo' \in BOOLEAN /\ hangupButton' \in BOOLEAN
  BY CloseType DEF HangupCall

(* Settling an operation keeps the chains chains. *)
LEMMA ChainType ==
  ASSUME TypeOK, NEW i \in Calls, ops[i] # <<>>, NEW op \in Ops
  PROVE  /\ Dequeued(i) \in [Calls -> Seq(Ops)]
         /\ ThenAwait(i, op) => ops' \in [Calls -> Seq(Ops)]
<1>1. Dequeued(i) \in [Calls -> Seq(Ops)]
  BY Settled DEF TypeOK, Dequeued
<1>2. \A q \in Seq(Ops) : Append(q, op) \in Seq(Ops)
  BY Queued
<1> QED
  BY <1>1, <1>2 DEF ThenAwait

LEMMA SettleType ==
  ASSUME TypeOK, NEW i \in Calls, Settle(i)
  PROVE  TypeOK'
<1> DEFINE Phases == {"none", "new", "have-local-offer", "have-remote-offer",
                      "stable", "closed"}
<1> SUFFICES ASSUME NEW op \in Ops, Settles(i, op)
             PROVE  TypeOK'
  BY DEF Settle, OfferCreated, OfferSet, RemoteOfferSet, AnswerCreated, AnswerSet,
         RemoteAnswerSet, DriverFails, AnswerFails, Ops, Drivers
<1>1. ops[i] # <<>>
  BY DEF Settles
<1>2. Dequeued(i) \in [Calls -> Seq(Ops)]
      /\ \A o \in Ops : ThenAwait(i, o) => ops' \in [Calls -> Seq(Ops)]
  BY <1>1, ChainType
<1>3. \A type \in {"offer", "answer"} : SendToServer(type) =>
        sent' \in SUBSET [type : {"offer", "answer"}, target : Ids \cup {Null}]
  BY DEF SendToServer, TypeOK, Ids
<1>4. \A p \in Phases : [pcs EXCEPT ![i] = p] \in [Calls -> Phases]
  BY DEF TypeOK
<1>5. CASE OfferCreated(i) \/ AnswerCreated(i)
  BY <1>2, <1>5 DEF OfferCreated, AnswerCreated, TypeOK, pageVars, listVars,
     screenVars, serverVars, Ops, Drivers
<1>6. CASE OfferSet(i) \/ AnswerSet(i)
  BY <1>2, <1>3, <1>4, <1>6 DEF OfferSet, AnswerSet, TypeOK, pageVars, listVars,
     serverVars
<1>7. CASE RemoteOfferSet(i) \/ RemoteAnswerSet(i)
  BY <1>2, <1>4, <1>7 DEF RemoteOfferSet, RemoteAnswerSet, TypeOK, pageVars,
     listVars, serverVars, Ops, Drivers
<1>8. CASE DriverFails(i)
  BY <1>8, CloseType DEF DriverFails, CallType, TypeOK, listVars, screenVars, serverVars
<1>9. CASE AnswerFails(i)
  BY <1>2, <1>9 DEF AnswerFails, TypeOK, pageVars, listVars, screenVars, serverVars
<1> QED
  BY <1>5, <1>6, <1>7, <1>8, <1>9 DEF Settle

LEMMA TypeStep == CallPageAssumption /\ TypeOK /\ [Next]_vars => TypeOK'
<1> SUFFICES ASSUME CallPageAssumption, TypeOK, [Next]_vars
             PROVE  TypeOK'
  OBVIOUS
<1> USE DEF TypeOK, listVars, screenVars, serverVars
<1>1. CASE StartLocalStream
  BY <1>1 DEF StartLocalStream, callVars
<1>2. CASE ToggleConnection
  BY <1>2 DEF ToggleConnection, ConnectToServer, callVars
<1>3. ASSUME NEW user \in Ids, StartCall(user)
      PROVE  TypeOK'
  BY <1>3, CreateType DEF StartCall, CallType, Ops, Drivers
<1>4. CASE ClickHangup
  BY <1>4, HangupType DEF ClickHangup, CallType
<1>5. ASSUME NEW s \in Sockets, OnOpen(s)
      PROVE  TypeOK'
  BY <1>5 DEF OnOpen, callVars
<1>6. ASSUME NEW s \in Sockets, OnClose(s)
      PROVE  TypeOK'
  BY <1>6, HangupType DEF OnClose, CallType
<1>7. ASSUME NEW s \in Sockets, NEW others \in SUBSET (Online \ {s}),
             HandleConnect(s, others)
      PROVE  TypeOK'
  BY <1>7 DEF HandleConnect, Online, Ids, callVars
<1>8. ASSUME NEW s \in Sockets, NEW user \in Online, HandleJoined(s, user)
      PROVE  TypeOK'
  BY <1>8 DEF HandleJoined, Online, Ids, callVars
<1>9. ASSUME NEW s \in Sockets, NEW user \in Ids, HandleLeft(s, user)
      PROVE  TypeOK'
  BY <1>9, HangupType DEF HandleLeft, CallType, callVars
<1>10. ASSUME NEW s \in Sockets, HandleVideoOffer(s)
       PROVE  TypeOK'
  BY <1>10, CreateType DEF HandleVideoOffer, CallType, Ops, Drivers, Ids
<1>11. ASSUME NEW s \in Sockets, HandleVideoAnswer(s)
       PROVE  TypeOK'
  <2>1. ops' \in [Calls -> Seq(Ops)]
    BY <1>11, Queued DEF HandleVideoAnswer, Ops
  <2> QED
    BY <1>11, <2>1 DEF HandleVideoAnswer
<1>12. ASSUME NEW i \in Calls, Settle(i)
       PROVE  TypeOK'
  BY <1>12, SettleType
<1>13. CASE IceConnected
  BY <1>13 DEF IceConnected, pageVars
<1>14. CASE IceLost
  BY <1>14, HangupType DEF IceLost, CallType
<1>15. CASE UNCHANGED vars
  BY <1>15 DEF vars, callVars
<1> QED
  BY <1>1, <1>2, <1>3, <1>4, <1>5, <1>6, <1>7, <1>8, <1>9, <1>10, <1>11, <1>12,
     <1>13, <1>14, <1>15 DEF Next

LEMMA TypeInit == Init => TypeOK
<1> SUFFICES ASSUME Init PROVE TypeOK
  OBVIOUS
<1>1. <<>> \in Seq(Ops)
  OBVIOUS
<1>2. ops \in [Calls -> Seq(Ops)]
  BY <1>1 DEF Init
<1> QED
  BY <1>2 DEF Init, TypeOK

(* client.js's variables, the browser's and the history keep their types. *)
THEOREM TypeCorrect == Spec => []TypeOK
  BY TypeInit, TypeStep, CallPageAssumption, PTL DEF Spec

-----------------------------------------------------------------------------
(* One call at a time.                                                     *)

(* peerConnection, when there is one, is open.  An open connection was     *)
(* created and a connection that is not open awaits nothing.               *)
CurrentIsOpen ==
  peerConnection # 0 => pcs[peerConnection] \notin {"none", "closed"}
NothingAwaited ==
  \A i \in Calls : pcs[i] \in {"none", "closed"} => ops[i] = <<>>

ControllerInv ==
  /\ OneOpenConnection
  /\ CurrentIsOpen
  /\ NothingAwaited
  /\ OneDriver
  /\ ConnectedMeansStable
  /\ CallCanBeHungUp

Phases == {"none", "new", "have-local-offer", "have-remote-offer", "stable", "closed"}

(* Once the current connection is closed, every connection is, and none    *)
(* awaits anything.                                                        *)
LEMMA AllClosed ==
  ASSUME TypeOK, ControllerInv
  PROVE  /\ Closed \in [Calls -> {"none", "closed"}]
         /\ Unawaited = [i \in Calls |-> <<>>]
         /\ Undriven(<<>>)
<1>1. \A i \in Calls : i # peerConnection => pcs[i] \in {"none", "closed"}
  BY DEF ControllerInv, OneOpenConnection
<1>2. \A i \in Calls : i # peerConnection => ops[i] = <<>>
  BY <1>1 DEF ControllerInv, NothingAwaited
<1>3. Undriven(<<>>)
  BY DEF Undriven
<1> QED
  BY <1>1, <1>2, <1>3 DEF Closed, Unawaited

LEMMA CloseKeeps ==
  ASSUME TypeOK, ControllerInv, ClosePeerConnection
  PROVE  ControllerInv'
<1>1. \A i \in Calls : pcs'[i] \in {"none", "closed"} /\ ops'[i] = <<>>
  BY AllClosed DEF ClosePeerConnection
<1>2. peerConnection' = 0 /\ isConnected' = FALSE
  BY DEF ClosePeerConnection
<1>3. OneDriver'
  BY <1>1, AllClosed DEF OneDriver
<1> QED
  BY <1>1, <1>2, <1>3 DEF ControllerInv, OneOpenConnection, CurrentIsOpen,
     NothingAwaited, ConnectedMeansStable, CallCanBeHungUp

LEMMA CreateKeeps ==
  ASSUME TypeOK, ControllerInv, NEW op \in Drivers,
         CreatePeerConnection(op)
  PROVE  ControllerInv'
<1>1. PICK i \in Calls : /\ pcs' = [Closed EXCEPT ![i] = "new"]
                         /\ ops' = [Unawaited EXCEPT ![i] = <<op>>]
                         /\ peerConnection' = i
                         /\ isConnected' = FALSE
  BY DEF CreatePeerConnection
<1>2. \A j \in Calls \ {i} : pcs'[j] \in {"none", "closed"} /\ ops'[j] = <<>>
  BY <1>1, AllClosed
<1>3. pcs'[i] = "new" /\ ops'[i] = <<op>>
  BY <1>1, AllClosed
<1>4. DrivenOnce(<<op>>)
  <2>1. 1 \in DOMAIN <<op>> /\ \A j \in DOMAIN <<op>> : <<op>>[j] \in Drivers <=> j = 1
    OBVIOUS
  <2> QED
    BY <2>1 DEF DrivenOnce
<1>5. OneDriver'
  <2> SUFFICES ASSUME NEW j \in Calls
               PROVE  IF pcs'[j] \in {"new", "have-remote-offer"}
                        THEN DrivenOnce(ops'[j]) ELSE Undriven(ops'[j])
    BY DEF OneDriver, DrivenOnce, Undriven
  <2>1. CASE j = i
    BY <1>3, <1>4, <2>1
  <2>2. CASE j # i
    BY <1>2, <2>2, AllClosed
  <2> QED
    BY <2>1, <2>2
<1> QED
  BY <1>1, <1>2, <1>3, <1>5 DEF ControllerInv, OneOpenConnection, CurrentIsOpen,
     NothingAwaited, ConnectedMeansStable, CallCanBeHungUp

(* A step that moves the current connection i, which stays open, to phase  *)
(* and its chain to q, and leaves every other connection alone.            *)
LEMMA MoveKeeps ==
  ASSUME TypeOK, ControllerInv, NEW i \in Calls, pcs[i] \notin {"none", "closed"},
         NEW phase \in Phases \ {"none", "closed"}, NEW q,
         pcs' = [pcs EXCEPT ![i] = phase], ops' = [ops EXCEPT ![i] = q],
         peerConnection' = peerConnection,
         IF phase \in {"new", "have-remote-offer"} THEN DrivenOnce(q) ELSE Undriven(q),
         isConnected' => phase = "stable",
         phase \in {"have-local-offer", "stable"} => hangupButton'
  PROVE  ControllerInv'
<1>1. i = peerConnection /\ i # 0
  BY DEF ControllerInv, OneOpenConnection, Calls
<1>2. /\ pcs'[i] = phase /\ ops'[i] = q
      /\ \A j \in Calls \ {i} : pcs'[j] = pcs[j] /\ ops'[j] = ops[j]
  BY DEF TypeOK
<1>3. OneOpenConnection'
  BY <1>2, <1>1 DEF ControllerInv, OneOpenConnection
<1>4. CurrentIsOpen' /\ ConnectedMeansStable' /\ CallCanBeHungUp'
  BY <1>1, <1>2 DEF CurrentIsOpen, ConnectedMeansStable, CallCanBeHungUp
<1>5. NothingAwaited'
  BY <1>2 DEF ControllerInv, NothingAwaited
<1>6. OneDriver'
  <2> SUFFICES ASSUME NEW j \in Calls
               PROVE  IF pcs'[j] \in {"new", "have-remote-offer"}
                        THEN DrivenOnce(ops'[j]) ELSE Undriven(ops'[j])
    BY DEF OneDriver, DrivenOnce, Undriven
  <2> QED
    BY <1>2 DEF ControllerInv, OneDriver
<1> QED
  BY <1>3, <1>4, <1>5, <1>6 DEF ControllerInv

(* What the settled operation says about the connection and its chain.     *)
LEMMA HeadFacts ==
  ASSUME TypeOK, ControllerInv, NEW i \in Calls, NEW op \in Ops, Settles(i, op)
  PROVE  /\ i = peerConnection
         /\ ops[i] \in Seq(Ops) /\ Tail(ops[i]) \in Seq(Ops)
         /\ op \in Drivers =>
              pcs[i] \in {"new", "have-remote-offer"} /\ Undriven(Tail(ops[i]))
         /\ op \notin Drivers =>
              IF pcs[i] \in {"new", "have-remote-offer"}
                THEN DrivenOnce(Tail(ops[i])) ELSE Undriven(Tail(ops[i]))
<1>1. i = peerConnection /\ ops[i] \in Seq(Ops) /\ ops[i] # <<>> /\ Head(ops[i]) = op
  BY DEF Settles, TypeOK, ControllerInv, OneOpenConnection
<1>2. IF pcs[i] \in {"new", "have-remote-offer"}
        THEN DrivenOnce(ops[i]) ELSE Undriven(ops[i])
  BY DEF ControllerInv, OneDriver
<1> QED
  BY <1>1, <1>2, Settled

LEMMA SettleKeeps ==
  ASSUME TypeOK, ControllerInv, NEW i \in Calls, Settle(i)
  PROVE  ControllerInv'
<1> DEFINE t == Tail(ops[i])
<1>1. ASSUME NEW op \in Ops, Settles(i, op)
      PROVE  /\ pcs[i] \in Phases \ {"none", "closed"}
             /\ pcs = [pcs EXCEPT ![i] = pcs[i]]
             /\ Dequeued(i) = [ops EXCEPT ![i] = t]
             /\ \A o \in Drivers : ThenAwait(i, o) =>
                  ops' = [ops EXCEPT ![i] = Append(t, o)]
             /\ isConnected => pcs[i] = "stable"
             /\ pcs[i] \in {"have-local-offer", "stable"} => hangupButton
  <2>1. i = peerConnection /\ i # 0
    BY <1>1, HeadFacts DEF Calls
  <2> QED
    BY <1>1, <2>1 DEF TypeOK, Phases, Settles, Dequeued, ThenAwait, ControllerInv,
       ConnectedMeansStable, CallCanBeHungUp
<1>2. ASSUME NEW o \in Drivers, NEW op \in Drivers, Settles(i, op)
      PROVE  DrivenOnce(Append(t, o))
  BY <1>2, HeadFacts, Queued DEF Ops
<1> HIDE DEF t
<1>3. CASE OfferCreated(i)
  <2>1. Settles(i, "createOffer") /\ ops' = [ops EXCEPT ![i] = Append(t, "setOffer")]
    BY <1>1, <1>3 DEF OfferCreated, Ops, Drivers
  <2>2. DrivenOnce(Append(t, "setOffer"))
    BY <1>2, <2>1 DEF Drivers
  <2>3. pcs[i] \in {"new", "have-remote-offer"}
    BY <2>1, HeadFacts DEF Ops, Drivers
  <2> QED
    BY <1>1, <1>3, <2>1, <2>2, <2>3, MoveKeeps DEF OfferCreated, pageVars,
       screenVars, Ops, Drivers, Settles
<1>4. CASE AnswerCreated(i)
  <2>1. Settles(i, "createAnswer") /\ ops' = [ops EXCEPT ![i] = Append(t, "setAnswer")]
    BY <1>1, <1>4 DEF AnswerCreated, Ops, Drivers
  <2>2. DrivenOnce(Append(t, "setAnswer"))
    BY <1>2, <2>1 DEF Drivers
  <2>3. pcs[i] \in {"new", "have-remote-offer"}
    BY <2>1, HeadFacts DEF Ops, Drivers
  <2> QED
    BY <1>1, <1>4, <2>1, <2>2, <2>3, MoveKeeps DEF AnswerCreated, pageVars,
       screenVars, Ops, Drivers, Settles
<1>5. CASE OfferSet(i)
  <2>1. Settles(i, "setOffer") /\ ops' = [ops EXCEPT ![i] = t]
    BY <1>1, <1>5 DEF OfferSet, Ops, Drivers
  <2>2. Undriven(t) /\ pcs[i] \in {"new", "have-remote-offer"}
    BY <2>1, HeadFacts DEF Ops, Drivers, t
  <2>3. ~ isConnected
    BY <1>1, <2>1, <2>2 DEF Ops, Drivers
  <2> QED
    BY <1>5, <2>1, <2>2, <2>3, MoveKeeps DEF OfferSet, pageVars, Phases, Settles
<1>6. CASE AnswerSet(i)
  <2>1. Settles(i, "setAnswer") /\ ops' = [ops EXCEPT ![i] = t]
    BY <1>1, <1>6 DEF AnswerSet, Ops, Drivers
  <2>2. Undriven(t)
    BY <2>1, HeadFacts DEF Ops, Drivers, t
  <2> QED
    BY <1>6, <2>1, <2>2, MoveKeeps DEF AnswerSet, pageVars, Phases, Settles
<1>7. CASE RemoteOfferSet(i)
  <2>1. Settles(i, "setRemoteOffer")
        /\ ops' = [ops EXCEPT ![i] = Append(t, "createAnswer")]
    BY <1>1, <1>7 DEF RemoteOfferSet, Ops, Drivers
  <2>2. DrivenOnce(Append(t, "createAnswer"))
    BY <1>2, <2>1 DEF Drivers
  <2>3. pcs[i] \in {"new", "have-remote-offer"}
    BY <2>1, HeadFacts DEF Ops, Drivers
  <2>4. ~ isConnected
    BY <1>1, <2>1, <2>3 DEF Ops, Drivers
  <2> QED
    BY <1>7, <2>1, <2>2, <2>4, MoveKeeps DEF RemoteOfferSet, pageVars, Phases, Settles
<1>8. CASE RemoteAnswerSet(i)
  <2>1. Settles(i, "setRemoteAnswer") /\ ops' = [ops EXCEPT ![i] = t]
    BY <1>1, <1>8 DEF RemoteAnswerSet, Ops, Drivers
  <2>2. Undriven(t) /\ hangupButton
    BY <1>1, <1>8, <2>1, HeadFacts DEF RemoteAnswerSet, Ops, Drivers, t
  <2> QED
    BY <1>8, <2>1, <2>2, MoveKeeps DEF RemoteAnswerSet, pageVars, Phases, Settles
<1>9. CASE DriverFails(i)
  BY <1>9, CloseKeeps DEF DriverFails
<1>10. CASE AnswerFails(i)
  <2>1. Settles(i, "setRemoteAnswer") /\ ops' = [ops EXCEPT ![i] = t]
    BY <1>1, <1>10 DEF AnswerFails, Ops, Drivers
  <2>2. IF pcs[i] \in {"new", "have-remote-offer"} THEN DrivenOnce(t) ELSE Undriven(t)
    BY <2>1, HeadFacts DEF Ops, Drivers, t
  <2> QED
    BY <1>1, <1>10, <2>1, <2>2, MoveKeeps DEF AnswerFails, pageVars, screenVars,
       Ops, Settles
<1> QED
  BY <1>3, <1>4, <1>5, <1>6, <1>7, <1>8, <1>9, <1>10 DEF Settle

LEMMA ControllerStep ==
  ASSUME CallPageAssumption, TypeOK, ControllerInv, [Next]_vars
  PROVE  ControllerInv'
<1> USE DEF ControllerInv, OneOpenConnection, CurrentIsOpen, NothingAwaited, OneDriver,
            ConnectedMeansStable, CallCanBeHungUp
<1>1. CASE StartLocalStream \/ ToggleConnection
  BY <1>1 DEF StartLocalStream, ToggleConnection, callVars, screenVars
<1>2. ASSUME NEW user \in Ids, StartCall(user)
      PROVE  ControllerInv'
  BY <1>2, CreateKeeps DEF StartCall, Drivers
<1>3. CASE ClickHangup \/ IceLost
  BY <1>3, CloseKeeps DEF ClickHangup, IceLost, HangupCall
<1>4. ASSUME NEW s \in Sockets, OnOpen(s)
      PROVE  ControllerInv'
  BY <1>4 DEF OnOpen, callVars, screenVars
<1>5. ASSUME NEW s \in Sockets, OnClose(s)
      PROVE  ControllerInv'
  BY <1>5, CloseKeeps DEF OnClose, HangupCall
<1>6. ASSUME NEW s \in Sockets, NEW others \in SUBSET (Online \ {s}),
             HandleConnect(s, others)
      PROVE  ControllerInv'
  BY <1>6 DEF HandleConnect, callVars, screenVars
<1>7. ASSUME NEW s \in Sockets, NEW user \in Online, HandleJoined(s, user)
      PROVE  ControllerInv'
  BY <1>7 DEF HandleJoined, callVars, screenVars
<1>8. ASSUME NEW s \in Sockets, NEW user \in Ids, HandleLeft(s, user)
      PROVE  ControllerInv'
  BY <1>8, CloseKeeps DEF HandleLeft, HangupCall, callVars, screenVars
<1>9. ASSUME NEW s \in Sockets, HandleVideoOffer(s)
      PROVE  ControllerInv'
  BY <1>9, CreateKeeps DEF HandleVideoOffer, Drivers
<1>10. ASSUME NEW s \in Sockets, HandleVideoAnswer(s)
       PROVE  ControllerInv'
  <2> DEFINE i == peerConnection
             q == Append(ops[i], "setRemoteAnswer")
  <2>1. i \in Calls /\ pcs[i] \in Phases \ {"none", "closed"} /\ ops[i] \in Seq(Ops)
    BY <1>10 DEF HandleVideoAnswer, TypeOK, Phases
  <2>2. IF pcs[i] \in {"new", "have-remote-offer"} THEN DrivenOnce(q) ELSE Undriven(q)
    BY <2>1, Queued DEF Ops, Drivers
  <2>3. pcs' = [pcs EXCEPT ![i] = pcs[i]] /\ ops' = [ops EXCEPT ![i] = q]
    BY <1>10, <2>1 DEF HandleVideoAnswer, TypeOK
  <2>4. /\ peerConnection' = peerConnection
        /\ isConnected' => pcs[i] = "stable"
        /\ pcs[i] \in {"have-local-offer", "stable"} => hangupButton'
    BY <1>10 DEF HandleVideoAnswer, screenVars
  <2>5. pcs[i] \notin {"none", "closed"}
    BY <2>1
  <2> HIDE DEF q, i, ControllerInv, OneOpenConnection, CurrentIsOpen, NothingAwaited,
               OneDriver, ConnectedMeansStable, CallCanBeHungUp
  <2> QED
    BY <2>1, <2>2, <2>3, <2>4, <2>5, MoveKeeps
<1>11. ASSUME NEW i \in Calls, Settle(i)
       PROVE  ControllerInv'
  BY <1>11, SettleKeeps
<1>12. CASE IceConnected
  BY <1>12 DEF IceConnected, pageVars, screenVars
<1>13. CASE UNCHANGED vars
  BY <1>13 DEF vars, callVars, screenVars
<1> QED
  BY <1>1, <1>2, <1>3, <1>4, <1>5, <1>6, <1>7, <1>8, <1>9, <1>10, <1>11, <1>12,
     <1>13 DEF Next

LEMMA ControllerInit == CallPageAssumption /\ Init => ControllerInv
  BY DEF Init, ControllerInv, OneOpenConnection, CurrentIsOpen, NothingAwaited,
     OneDriver, Undriven, ConnectedMeansStable, CallCanBeHungUp

(* The inductive invariant of the call controller. *)
THEOREM Controller == Spec => []ControllerInv
<1>1. CallPageAssumption /\ TypeOK /\ ControllerInv /\ [Next]_vars => ControllerInv'
  BY ControllerStep
<1> QED
  BY <1>1, ControllerInit, TypeCorrect, CallPageAssumption, PTL DEF Spec

(* No connection but the current one is ever open, so that a continuation  *)
(* of startCall or handleVideoOffer works on the call it awaited.          *)
THEOREM OneCallAtATime == Spec => []OneOpenConnection
  BY Controller, PTL DEF ControllerInv

(* A call being set up is driven by exactly one function, others by none. *)
THEOREM NeitherStrandedNorDrivenTwice == Spec => []OneDriver
  BY Controller, PTL DEF ControllerInv

(* isConnected is never left over from an earlier call, and a call that    *)
(* was offered or answered can be hung up.                                 *)
THEOREM PageIsTrueToItsCall == Spec => []PageShowsItsCall
<1>1. ControllerInv => PageShowsItsCall
  BY DEF ControllerInv, PageShowsItsCall
<1> QED BY <1>1, Controller, PTL

-----------------------------------------------------------------------------
(* Losing every socket ends everything.                                    *)

LEMMA ContactStep ==
  ASSUME CallPageAssumption, TypeOK, ControllerInv, NoCallWithoutServer, [Next]_vars
  PROVE  NoCallWithoutServer'
<1> USE DEF NoCallWithoutServer
<1>1. ASSUME NEW s \in Sockets, OnClose(s)
      PROVE  NoCallWithoutServer'
  BY <1>1 DEF OnClose, HangupCall, ClosePeerConnection
<1>2. ASSUME NEW s \in Sockets, sockets[s] = "OPEN", UNCHANGED sockets
      PROVE  NoCallWithoutServer'
  BY <1>2
<1>3. ASSUME UNCHANGED <<sockets, listShown>>, HangupCall
      PROVE  NoCallWithoutServer'
  BY <1>3 DEF HangupCall, ClosePeerConnection
<1>4. CASE StartLocalStream \/ IceConnected
  BY <1>4 DEF StartLocalStream, IceConnected, pageVars, callVars, screenVars, listVars
<1>5. CASE ToggleConnection
  <2>1. \A s \in Sockets : sockets[s] \in {"OPEN", "CLOSING"}
                          => sockets'[s] \in {"OPEN", "CLOSING"}
    BY <1>5 DEF ToggleConnection, ConnectToServer, TypeOK
  <2> QED
    BY <1>5, <2>1 DEF ToggleConnection, callVars, screenVars, listVars
<1>6. ASSUME NEW user \in Ids, StartCall(user)
      PROVE  NoCallWithoutServer'
  BY <1>6 DEF StartCall
<1>7. ASSUME NEW s \in Sockets, OnOpen(s)
      PROVE  NoCallWithoutServer'
  <2>1. sockets' = [sockets EXCEPT ![s] = "OPEN"]
    BY <1>7 DEF OnOpen
  <2>2. sockets'[s] = "OPEN"
    BY <2>1 DEF TypeOK
  <2> QED
    BY <2>2
<1>8. ASSUME NEW s \in Sockets, NEW user,
             \/ \E others : HandleConnect(s, others)
             \/ HandleJoined(s, user) \/ HandleLeft(s, user)
             \/ HandleVideoOffer(s) \/ HandleVideoAnswer(s)
      PROVE  NoCallWithoutServer'
  BY <1>8, <1>2 DEF HandleConnect, HandleJoined, HandleLeft, HandleVideoOffer,
     HandleVideoAnswer
<1>9. ASSUME NEW i \in Calls, Settle(i)
      PROVE  NoCallWithoutServer'
  <2>1. PICK s \in Sockets : sockets[s] \in {"OPEN", "CLOSING"}
    <3>1. pcs[i] \notin {"none", "closed"}
      BY <1>9 DEF Settle, OfferCreated, OfferSet, RemoteOfferSet, AnswerCreated,
         AnswerSet, RemoteAnswerSet, DriverFails, AnswerFails, Settles
    <3>2. peerConnection # 0
      BY <3>1 DEF ControllerInv, OneOpenConnection, Calls
    <3> QED
      BY <3>2
  <2>2. UNCHANGED sockets
    BY <1>9 DEF Settle, OfferCreated, OfferSet, RemoteOfferSet, AnswerCreated,
       AnswerSet, RemoteAnswerSet, DriverFails, AnswerFails, pageVars
  <2> QED
    BY <2>1, <2>2
<1>10. CASE ClickHangup \/ IceLost
  BY <1>10, <1>3 DEF ClickHangup, IceLost, listVars
<1>11. CASE UNCHANGED vars
  BY <1>11 DEF vars, callVars, screenVars, listVars
<1> QED
  BY <1>1, <1>4, <1>5, <1>6, <1>7, <1>8, <1>9, <1>10, <1>11 DEF Next

(* A page that has lost all its sockets shows nobody and is in no call. *)
THEOREM NothingWithoutServer == Spec => []NoCallWithoutServer
<1>1. Init => NoCallWithoutServer
  BY DEF Init, NoCallWithoutServer
<1>2. CallPageAssumption /\ TypeOK /\ ControllerInv /\ NoCallWithoutServer /\ [Next]_vars
        => NoCallWithoutServer'
  BY ContactStep
<1> QED
  BY <1>1, <1>2, TypeCorrect, Controller, CallPageAssumption, PTL DEF Spec

-----------------------------------------------------------------------------
(* The page follows the call protocol.                                     *)

Awaited(q) == {q[k] : k \in DOMAIN q}

(* A chain that belongs to an offer made here never holds what answers an  *)
(* offer, and a connection with a remote offer holds nothing that makes or *)
(* applies one.                                                            *)
FitsIn(phase, q) ==
  /\ phase = "new" => Awaited(q) \cap {"createAnswer", "setAnswer"} = {}
  /\ phase = "have-remote-offer"
       => Awaited(q) \cap {"createOffer", "setOffer", "setRemoteOffer"} = {}
DriverFits == \A i \in Calls : FitsIn(pcs[i], ops[i])

PhaseOf(phase, q) ==
  CASE phase = "have-local-offer"  -> "offered"
    [] phase = "have-remote-offer" -> "answering"
    [] phase = "stable"            -> "agreed"
    [] OTHER -> IF Rings(q) THEN "ringing" ELSE "calling"

LEMMA AwaitedAppend ==
  ASSUME NEW q \in Seq(Ops), NEW op \in Ops
  PROVE  Awaited(Append(q, op)) = Awaited(q) \cup {op}
<1> DEFINE a == Append(q, op)
<1>1. /\ Len(q) \in Nat /\ DOMAIN q = 1 .. Len(q) /\ DOMAIN a = 1 .. Len(q) + 1
      /\ \A k \in DOMAIN q : a[k] = q[k]
      /\ a[Len(q) + 1] = op
  OBVIOUS
<1> HIDE DEF a
<1>2. \A k \in DOMAIN a : k \in DOMAIN q \/ k = Len(q) + 1
  BY <1>1
<1>3. \A k \in DOMAIN q : k \in DOMAIN a
  BY <1>1
<1>4. Len(q) + 1 \in DOMAIN a
  BY <1>1
<1>5. {a[k] : k \in DOMAIN a} = {q[k] : k \in DOMAIN q} \cup {op}
  BY <1>1, <1>2, <1>3, <1>4
<1> QED
  BY <1>5 DEF Awaited, a

LEMMA AwaitedSplit ==
  ASSUME NEW q \in Seq(Ops), q # <<>>
  PROVE  Awaited(q) = {Head(q)} \cup Awaited(Tail(q))
<1> DEFINE t == Tail(q)
<1>1. /\ Len(q) \in Nat \ {0} /\ DOMAIN q = 1 .. Len(q)
      /\ DOMAIN t = 1 .. Len(q) - 1
      /\ \A k \in DOMAIN t : t[k] = q[k + 1]
      /\ Head(q) = q[1]
  OBVIOUS
<1> HIDE DEF t
<1>2. \A k \in DOMAIN t : k + 1 \in DOMAIN q
  BY <1>1
<1>3. \A k \in DOMAIN q : k = 1 \/ (k - 1 \in DOMAIN t /\ t[k - 1] = q[k])
  BY <1>1
<1>4. 1 \in DOMAIN q
  BY <1>1
<1>5. {q[k] : k \in DOMAIN q} = {q[1]} \cup {t[k] : k \in DOMAIN t}
  BY <1>1, <1>2, <1>3, <1>4
<1> QED
  BY <1>1, <1>5 DEF Awaited, t

LEMMA RingsAwaited == \A q : Rings(q) <=> "setRemoteOffer" \in Awaited(q)
  BY DEF Rings, Awaited
LEMMA UndrivenAwaited == \A q : Undriven(q) <=> Awaited(q) \cap Drivers = {}
  BY DEF Undriven, Awaited

LEMMA PhaseIs == Phase = IF peerConnection = 0 THEN "idle"
                         ELSE PhaseOf(pcs[peerConnection], ops[peerConnection])
  BY DEF Phase, PhaseOf

(* A step of the current connection, seen from outside. *)
LEMMA ViewMoves ==
  ASSUME TypeOK, DriverFits, NEW i \in Calls, i = peerConnection,
         peerConnection' = peerConnection, NEW phase, NEW q,
         pcs' = [pcs EXCEPT ![i] = phase], ops' = [ops EXCEPT ![i] = q],
         FitsIn(phase, q)
  PROVE  /\ DriverFits'
         /\ Phase = PhaseOf(pcs[i], ops[i])
         /\ Phase' = PhaseOf(phase, q)
<1>1. i # 0
  BY DEF Calls
<1>2. /\ pcs'[i] = phase /\ ops'[i] = q
      /\ \A j \in Calls \ {i} : pcs'[j] = pcs[j] /\ ops'[j] = ops[j]
  BY DEF TypeOK
<1>3. DriverFits'
  <2> SUFFICES ASSUME NEW j \in Calls
               PROVE  FitsIn(pcs'[j], ops'[j])
    BY DEF DriverFits, FitsIn, Awaited
  <2> QED
    BY <1>2 DEF DriverFits
<1>4. Phase = PhaseOf(pcs[i], ops[i])
  BY <1>1, PhaseIs
<1>5. Phase' = PhaseOf(phase, q)
  BY <1>1, <1>2 DEF Phase, PhaseOf
<1> QED
  BY <1>3, <1>4, <1>5

(* Closing the current connection makes the page idle. *)
LEMMA ViewCloses ==
  ASSUME TypeOK, ControllerInv, ClosePeerConnection
  PROVE  DriverFits' /\ Phase' = "idle" /\ isConnected' = FALSE
<1>1. \A i \in Calls : pcs'[i] \in {"none", "closed"}
  BY AllClosed DEF ClosePeerConnection
<1>2. DriverFits'
  BY <1>1 DEF DriverFits, FitsIn
<1> QED
  BY <1>2 DEF ClosePeerConnection, Phase

(* Creating one begins a call. *)
LEMMA ViewBegins ==
  ASSUME TypeOK, ControllerInv, NEW op \in {"createOffer", "setRemoteOffer"},
         CreatePeerConnection(op)
  PROVE  /\ DriverFits' /\ isConnected' = FALSE
         /\ Phase' = IF op = "setRemoteOffer" THEN "ringing" ELSE "calling"
<1>1. PICK i \in Calls : /\ pcs' = [Closed EXCEPT ![i] = "new"]
                         /\ ops' = [Unawaited EXCEPT ![i] = <<op>>]
                         /\ peerConnection' = i
                         /\ isConnected' = FALSE
  BY DEF CreatePeerConnection
<1>2. /\ pcs'[i] = "new" /\ ops'[i] = <<op>> /\ i # 0
      /\ \A j \in Calls \ {i} : pcs'[j] \in {"none", "closed"}
  BY <1>1, AllClosed DEF Calls
<1>3. Awaited(<<op>>) = {op}
  BY DEF Awaited
<1>4. FitsIn(pcs'[i], ops'[i])
  BY <1>2, <1>3 DEF FitsIn
<1>5. DriverFits'
  <2> SUFFICES ASSUME NEW j \in Calls
               PROVE  FitsIn(pcs'[j], ops'[j])
    BY DEF DriverFits, FitsIn, Awaited
  <2> QED
    BY <1>2, <1>4 DEF FitsIn
<1>6. Rings(<<op>>) <=> op = "setRemoteOffer"
  BY <1>3, RingsAwaited
<1>7. Phase' = IF Rings(<<op>>) THEN "ringing" ELSE "calling"
  BY <1>1, <1>2 DEF Phase, Rings
<1> QED
  BY <1>1, <1>5, <1>6, <1>7

(* What a settled operation says about the call's phase and its chain.     *)
LEMMA SettledView ==
  ASSUME TypeOK, ControllerInv, DriverFits, NEW i \in Calls, NEW op \in Ops,
         Settles(i, op)
  PROVE  /\ i = peerConnection /\ Tail(ops[i]) \in Seq(Ops)
         /\ Awaited(ops[i]) = {op} \cup Awaited(Tail(ops[i]))
         /\ FitsIn(pcs[i], Tail(ops[i]))
         /\ op \in Drivers => Awaited(Tail(ops[i])) \cap Drivers = {}
         /\ op \in {"createOffer", "setOffer", "setRemoteOffer"} => pcs[i] = "new"
         /\ op \in {"createAnswer", "setAnswer"} => pcs[i] = "have-remote-offer"
         /\ Dequeued(i) = [ops EXCEPT ![i] = Tail(ops[i])]
         /\ \A o : ThenAwait(i, o) => ops' = [ops EXCEPT ![i] = Append(Tail(ops[i]), o)]
<1>1. /\ i = peerConnection /\ i # 0
      /\ ops[i] \in Seq(Ops) /\ Tail(ops[i]) \in Seq(Ops)
  BY HeadFacts DEF Calls
<1>2. Awaited(ops[i]) = {op} \cup Awaited(Tail(ops[i]))
  BY <1>1, AwaitedSplit DEF Settles
<1>3. FitsIn(pcs[i], ops[i])
  BY DEF DriverFits
<1>4. FitsIn(pcs[i], Tail(ops[i]))
  BY <1>2, <1>3 DEF FitsIn
<1>5. op \in Drivers => /\ Awaited(Tail(ops[i])) \cap Drivers = {}
                        /\ pcs[i] \in {"new", "have-remote-offer"}
  BY HeadFacts, UndrivenAwaited
<1>6. op \in {"createOffer", "setOffer", "setRemoteOffer"} => pcs[i] = "new"
  BY <1>2, <1>3, <1>5 DEF FitsIn, Drivers
<1>7. op \in {"createAnswer", "setAnswer"} => pcs[i] = "have-remote-offer"
  BY <1>2, <1>3, <1>5 DEF FitsIn, Drivers
<1>8. Dequeued(i) = [ops EXCEPT ![i] = Tail(ops[i])]
  BY DEF Dequeued
<1>9. \A o : ThenAwait(i, o) => ops' = [ops EXCEPT ![i] = Append(Tail(ops[i]), o)]
  BY <1>1 DEF ThenAwait, Dequeued, TypeOK
<1> QED
  BY <1>1, <1>2, <1>4, <1>5, <1>6, <1>7, <1>8, <1>9

Kinds == {m.type : m \in sent}

LEMMA SendsKind ==
  ASSUME NEW type, SendToServer(type)
  PROVE  Kinds' \in {Kinds, Kinds \cup {type}}
<1>1. PICK t : sent' \in {sent, sent \cup {[type |-> type, target |-> t]}}
  BY DEF SendToServer
<1>2. [type |-> type, target |-> t].type = type
  OBVIOUS
<1> HIDE DEF SendToServer
<1>3. CASE sent' = sent
  BY <1>3 DEF Kinds
<1>4. CASE sent' = sent \cup {[type |-> type, target |-> t]}
  BY <1>2, <1>4 DEF Kinds
<1> QED
  BY <1>1, <1>3, <1>4

LEMMA KindsKept == UNCHANGED sent => UNCHANGED Kinds
  BY DEF Kinds

(* Every settled promise is a step of the protocol, or none. *)
LEMMA SettleFollows ==
  ASSUME TypeOK, ControllerInv, DriverFits, NEW i \in Calls, Settle(i)
  PROVE  DriverFits' /\ [Protocol!Next]_(Protocol!vars)
<1> DEFINE t == Tail(ops[i])
           own == {"createAnswer", "setAnswer"}
           other == {"createOffer", "setOffer", "setRemoteOffer"}
<1>1. /\ own \subseteq Ops /\ other \subseteq Ops /\ "setRemoteAnswer" \in Ops
      /\ own \subseteq Drivers /\ other \subseteq Drivers
      /\ "setRemoteAnswer" \notin Drivers
  BY DEF Ops, Drivers
<1> HIDE DEF t, own, other
<1>2. CASE OfferCreated(i)
  <2>1. /\ Settles(i, "createOffer") /\ ThenAwait(i, "setOffer")
        /\ peerConnection' = peerConnection /\ UNCHANGED <<pcs, isConnected, screenVars, sent>>
    BY <1>2 DEF OfferCreated, pageVars
  <2>2. /\ i = peerConnection /\ t \in Seq(Ops) /\ pcs[i] = "new"
        /\ Awaited(ops[i]) = {"createOffer"} \cup Awaited(t)
        /\ Awaited(t) \cap Drivers = {}
        /\ ops' = [ops EXCEPT ![i] = Append(t, "setOffer")]
    BY <1>1, <2>1, SettledView DEF other, t
  <2>3. Awaited(Append(t, "setOffer")) = Awaited(t) \cup {"setOffer"}
    BY <1>1, <2>2, AwaitedAppend DEF other
  <2>4. FitsIn("new", Append(t, "setOffer"))
    BY <2>2, <2>3 DEF FitsIn, Drivers
  <2>5. pcs' = [pcs EXCEPT ![i] = "new"]
    BY <2>1, <2>2 DEF TypeOK
  <2>6. /\ DriverFits' /\ Phase = PhaseOf("new", ops[i])
        /\ Phase' = PhaseOf("new", Append(t, "setOffer"))
    <3>1. /\ i = peerConnection /\ peerConnection' = peerConnection /\ pcs[i] = "new"
          /\ ops' = [ops EXCEPT ![i] = Append(t, "setOffer")]
      BY <2>1, <2>2
    <3>2. /\ DriverFits' /\ Phase = PhaseOf(pcs[i], ops[i])
          /\ Phase' = PhaseOf("new", Append(t, "setOffer"))
      BY <2>4, <2>5, <3>1, ViewMoves
    <3> QED
      BY <3>1, <3>2
  <2>7. ~ Rings(ops[i]) /\ ~ Rings(Append(t, "setOffer"))
    BY <2>2, <2>3, RingsAwaited DEF Drivers
  <2>8. Phase' = Phase
    BY <2>6, <2>7 DEF PhaseOf
  <2> QED
    BY <2>1, <2>6, <2>8 DEF Protocol!vars, screenVars
<1>3. CASE OfferSet(i)
  <2>1. /\ Settles(i, "setOffer") /\ ops' = Dequeued(i)
        /\ pcs' = [pcs EXCEPT ![i] = "have-local-offer"]
        /\ peerConnection' = peerConnection /\ UNCHANGED <<isConnected, remoteVideo>>
        /\ hangupButton' = TRUE /\ SendToServer("offer")
    BY <1>3 DEF OfferSet, pageVars
  <2>2. /\ i = peerConnection /\ pcs[i] = "new"
        /\ Awaited(ops[i]) = {"setOffer"} \cup Awaited(t)
        /\ Awaited(t) \cap Drivers = {}
        /\ ops' = [ops EXCEPT ![i] = t]
    BY <1>1, <2>1, SettledView DEF other, t
  <2>3. FitsIn("have-local-offer", t)
    BY DEF FitsIn
  <2>4. /\ DriverFits' /\ Phase = PhaseOf("new", ops[i])
        /\ Phase' = PhaseOf("have-local-offer", t)
    BY <2>1, <2>2, <2>3, ViewMoves
  <2>5. ~ Rings(ops[i])
    BY <2>2, RingsAwaited DEF Drivers
  <2>6. Phase = "calling" /\ Phase' = "offered"
    BY <2>4, <2>5 DEF PhaseOf
  <2>7. Kinds' \in {Kinds, Kinds \cup {"offer"}}
    BY <2>1, SendsKind
  <2>8. Protocol!Offer
    BY <2>1, <2>6, <2>7 DEF Protocol!Offer, Protocol!Sends, Kinds
  <2> QED
    BY <2>4, <2>8 DEF Protocol!Next
<1>4. CASE RemoteOfferSet(i)
  <2>1. /\ Settles(i, "setRemoteOffer") /\ ThenAwait(i, "createAnswer")
        /\ pcs' = [pcs EXCEPT ![i] = "have-remote-offer"]
        /\ peerConnection' = peerConnection
        /\ remoteVideo' \in {remoteVideo, TRUE}
        /\ UNCHANGED <<isConnected, hangupButton, sent>>
    BY <1>4 DEF RemoteOfferSet, pageVars
  <2>2. /\ i = peerConnection /\ t \in Seq(Ops) /\ pcs[i] = "new"
        /\ Awaited(ops[i]) = {"setRemoteOffer"} \cup Awaited(t)
        /\ Awaited(t) \cap Drivers = {}
        /\ ops' = [ops EXCEPT ![i] = Append(t, "createAnswer")]
    BY <1>1, <2>1, SettledView DEF other, t
  <2>3. Awaited(Append(t, "createAnswer")) = Awaited(t) \cup {"createAnswer"}
    BY <1>1, <2>2, AwaitedAppend DEF own
  <2>4. FitsIn("have-remote-offer", Append(t, "createAnswer"))
    BY <2>2, <2>3 DEF FitsIn, Drivers
  <2>5. /\ DriverFits' /\ Phase = PhaseOf("new", ops[i])
        /\ Phase' = PhaseOf("have-remote-offer", Append(t, "createAnswer"))
    BY <2>1, <2>2, <2>4, ViewMoves
  <2>6. Rings(ops[i])
    BY <2>2, RingsAwaited
  <2>7. Phase = "ringing" /\ Phase' = "answering"
    BY <2>5, <2>6 DEF PhaseOf
  <2>8. Protocol!AcceptOffer
    BY <2>1, <2>7 DEF Protocol!AcceptOffer
  <2> QED
    BY <2>5, <2>8 DEF Protocol!Next
<1>5. CASE AnswerCreated(i)
  <2>1. /\ Settles(i, "createAnswer") /\ ThenAwait(i, "setAnswer")
        /\ peerConnection' = peerConnection /\ UNCHANGED <<pcs, isConnected, screenVars, sent>>
    BY <1>5 DEF AnswerCreated, pageVars
  <2>2. /\ i = peerConnection /\ t \in Seq(Ops) /\ pcs[i] = "have-remote-offer"
        /\ Awaited(t) \cap Drivers = {}
        /\ ops' = [ops EXCEPT ![i] = Append(t, "setAnswer")]
    BY <1>1, <2>1, SettledView DEF own, t
  <2>3. Awaited(Append(t, "setAnswer")) = Awaited(t) \cup {"setAnswer"}
    BY <1>1, <2>2, AwaitedAppend DEF own
  <2>4. FitsIn("have-remote-offer", Append(t, "setAnswer"))
    BY <2>2, <2>3 DEF FitsIn, Drivers
  <2>5. /\ pcs' = [pcs EXCEPT ![i] = "have-remote-offer"]
        /\ peerConnection' = peerConnection
    BY <2>1, <2>2 DEF TypeOK
  <2>6. /\ DriverFits' /\ Phase = PhaseOf("have-remote-offer", ops[i])
        /\ Phase' = PhaseOf("have-remote-offer", Append(t, "setAnswer"))
    BY <2>2, <2>4, <2>5, ViewMoves
  <2>7. Phase' = Phase
    BY <2>6 DEF PhaseOf
  <2> QED
    BY <2>1, <2>6, <2>7 DEF Protocol!vars, screenVars
<1>6. CASE AnswerSet(i)
  <2>1. /\ Settles(i, "setAnswer") /\ ops' = Dequeued(i)
        /\ pcs' = [pcs EXCEPT ![i] = "stable"]
        /\ peerConnection' = peerConnection /\ UNCHANGED <<isConnected, remoteVideo>>
        /\ hangupButton' = TRUE /\ SendToServer("answer")
    BY <1>6 DEF AnswerSet, pageVars
  <2>2. /\ i = peerConnection /\ pcs[i] = "have-remote-offer"
        /\ ops' = [ops EXCEPT ![i] = t]
    BY <1>1, <2>1, SettledView DEF own, t
  <2>3. FitsIn("stable", t)
    BY DEF FitsIn
  <2>4. /\ DriverFits' /\ Phase = PhaseOf("have-remote-offer", ops[i])
        /\ Phase' = PhaseOf("stable", t)
    BY <2>1, <2>2, <2>3, ViewMoves
  <2>5. Phase = "answering" /\ Phase' = "agreed"
    BY <2>4 DEF PhaseOf
  <2>6. Kinds' \in {Kinds, Kinds \cup {"answer"}}
    BY <2>1, SendsKind
  <2>7. Protocol!Answer
    BY <2>1, <2>5, <2>6 DEF Protocol!Answer, Protocol!Sends, Kinds
  <2> QED
    BY <2>4, <2>7 DEF Protocol!Next
<1>7. CASE RemoteAnswerSet(i)
  <2>1. /\ Settles(i, "setRemoteAnswer") /\ ops' = Dequeued(i)
        /\ pcs[i] = "have-local-offer" /\ pcs' = [pcs EXCEPT ![i] = "stable"]
        /\ peerConnection' = peerConnection
        /\ remoteVideo' \in {remoteVideo, TRUE}
        /\ UNCHANGED <<isConnected, hangupButton, sent>>
    BY <1>7 DEF RemoteAnswerSet, pageVars
  <2>2. i = peerConnection /\ ops' = [ops EXCEPT ![i] = t]
    BY <1>1, <2>1, SettledView DEF t
  <2>3. FitsIn("stable", t)
    BY DEF FitsIn
  <2>4. /\ DriverFits' /\ Phase = PhaseOf("have-local-offer", ops[i])
        /\ Phase' = PhaseOf("stable", t)
    BY <2>1, <2>2, <2>3, ViewMoves
  <2>5. Phase = "offered" /\ Phase' = "agreed"
    BY <2>4 DEF PhaseOf
  <2>6. Protocol!GetAnswer
    BY <2>1, <2>5 DEF Protocol!GetAnswer
  <2> QED
    BY <2>4, <2>6 DEF Protocol!Next
<1>8. CASE DriverFails(i)
  <2>1. PICK op \in Drivers : Settles(i, op)
    BY <1>8 DEF DriverFails
  <2>2. i = peerConnection /\ pcs[i] \in {"new", "have-remote-offer"} /\ i # 0
    BY <2>1, HeadFacts DEF Ops, Calls
  <2>3. Phase \in {"calling", "ringing", "answering"}
    BY <2>2 DEF Phase
  <2>4. DriverFits' /\ Phase' = "idle" /\ isConnected' = FALSE
    BY <1>8, ViewCloses DEF DriverFails
  <2>5. Protocol!GiveUp
    BY <1>8, <2>3, <2>4 DEF Protocol!GiveUp, DriverFails, screenVars
  <2> QED
    BY <2>4, <2>5 DEF Protocol!Next
<1>9. CASE AnswerFails(i)
  <2>1. /\ Settles(i, "setRemoteAnswer") /\ ops' = Dequeued(i)
        /\ peerConnection' = peerConnection /\ UNCHANGED <<pcs, isConnected, screenVars, sent>>
    BY <1>9 DEF AnswerFails, pageVars
  <2>2. /\ i = peerConnection /\ FitsIn(pcs[i], t)
        /\ Awaited(ops[i]) = {"setRemoteAnswer"} \cup Awaited(t)
        /\ ops' = [ops EXCEPT ![i] = t]
    BY <1>1, <2>1, SettledView DEF t
  <2>3. pcs' = [pcs EXCEPT ![i] = pcs[i]] /\ peerConnection' = peerConnection
    BY <2>1 DEF TypeOK
  <2>4. DriverFits' /\ Phase = PhaseOf(pcs[i], ops[i]) /\ Phase' = PhaseOf(pcs[i], t)
    BY <2>2, <2>3, ViewMoves
  <2>5. Rings(ops[i]) <=> Rings(t)
    BY <2>2, RingsAwaited
  <2>6. Phase' = Phase
    BY <2>4, <2>5 DEF PhaseOf
  <2> QED
    BY <2>1, <2>4, <2>6 DEF Protocol!vars, screenVars
<1> QED
  BY <1>2, <1>3, <1>4, <1>5, <1>6, <1>7, <1>8, <1>9 DEF Settle

LEMMA HangupFollows ==
  ASSUME TypeOK, ControllerInv, HangupCall, UNCHANGED sent
  PROVE  DriverFits' /\ Protocol!HangUp
<1>1. DriverFits' /\ Phase' = "idle" /\ isConnected' = FALSE
  BY ViewCloses DEF HangupCall
<1> QED
  BY <1>1 DEF HangupCall, Protocol!HangUp

LEMMA ProtocolStep ==
  ASSUME CallPageAssumption, TypeOK, ControllerInv, DriverFits, [Next]_vars
  PROVE  DriverFits' /\ [Protocol!Next]_(Protocol!vars)
<1>1. ASSUME UNCHANGED <<callVars, screenVars, sent>>
      PROVE  DriverFits' /\ [Protocol!Next]_(Protocol!vars)
  <2>1. UNCHANGED <<peerConnection, pcs, ops, isConnected, screenVars, sent>>
    BY <1>1 DEF callVars
  <2>2. DriverFits' /\ Phase' = Phase
    BY <2>1 DEF DriverFits, FitsIn, Awaited, Phase, Rings
  <2> QED
    BY <2>1, <2>2 DEF Protocol!vars, screenVars
<1>2. CASE \/ StartLocalStream \/ ToggleConnection
           \/ \E s \in Sockets :
                \/ OnOpen(s)
                \/ \E others \in SUBSET (Online \ {s}) : HandleConnect(s, others)
                \/ \E user \in Online : HandleJoined(s, user)
           \/ UNCHANGED vars
  <2>1. UNCHANGED <<callVars, screenVars, sent>>
    BY <1>2 DEF StartLocalStream, ToggleConnection, OnOpen, HandleConnect, HandleJoined,
       vars
  <2> QED
    BY <1>1, <2>1
<1>3. ASSUME NEW user \in Ids, StartCall(user)
      PROVE  DriverFits' /\ [Protocol!Next]_(Protocol!vars)
  <2>1. DriverFits' /\ isConnected' = FALSE /\ Phase' = "calling"
    BY <1>3, ViewBegins DEF StartCall
  <2>2. Protocol!Begin("calling")
    BY <1>3, <2>1 DEF StartCall, Protocol!Begin, screenVars
  <2> QED
    BY <2>1, <2>2 DEF Protocol!Next
<1>4. ASSUME NEW s \in Sockets, HandleVideoOffer(s)
      PROVE  DriverFits' /\ [Protocol!Next]_(Protocol!vars)
  <2>1. DriverFits' /\ isConnected' = FALSE /\ Phase' = "ringing"
    BY <1>4, ViewBegins DEF HandleVideoOffer
  <2>2. Protocol!Begin("ringing")
    BY <1>4, <2>1 DEF HandleVideoOffer, Protocol!Begin, screenVars
  <2> QED
    BY <2>1, <2>2 DEF Protocol!Next
<1>5. ASSUME \/ ClickHangup \/ IceLost
             \/ \E s \in Sockets : OnClose(s)
      PROVE  DriverFits' /\ [Protocol!Next]_(Protocol!vars)
  <2>1. HangupCall /\ UNCHANGED sent
    BY <1>5 DEF ClickHangup, IceLost, OnClose
  <2> QED
    BY <2>1, HangupFollows DEF Protocol!Next
<1>6. ASSUME NEW s \in Sockets, NEW user \in Ids, HandleLeft(s, user)
      PROVE  DriverFits' /\ [Protocol!Next]_(Protocol!vars)
  <2>1. CASE targetUserId = user
    <3>1. HangupCall /\ UNCHANGED sent
      BY <1>6, <2>1 DEF HandleLeft
    <3> QED
      BY <3>1, HangupFollows DEF Protocol!Next
  <2>2. CASE targetUserId # user
    BY <1>1, <1>6, <2>2 DEF HandleLeft
  <2> QED
    BY <2>1, <2>2
<1>7. ASSUME NEW s \in Sockets, HandleVideoAnswer(s)
      PROVE  DriverFits' /\ [Protocol!Next]_(Protocol!vars)
  <2> DEFINE i == peerConnection
             q == Append(ops[i], "setRemoteAnswer")
  <2>1. /\ i \in Calls /\ ops[i] \in Seq(Ops) /\ "setRemoteAnswer" \in Ops
        /\ ops' = [ops EXCEPT ![i] = q] /\ pcs' = [pcs EXCEPT ![i] = pcs[i]]
        /\ peerConnection' = peerConnection /\ UNCHANGED <<isConnected, screenVars, sent>>
    BY <1>7 DEF HandleVideoAnswer, TypeOK, Ops
  <2>2. Awaited(q) = Awaited(ops[i]) \cup {"setRemoteAnswer"}
    BY <2>1, AwaitedAppend
  <2> HIDE DEF q
  <2>3. FitsIn(pcs[i], q)
    BY <2>1, <2>2 DEF DriverFits, FitsIn
  <2>4. DriverFits' /\ Phase = PhaseOf(pcs[i], ops[i]) /\ Phase' = PhaseOf(pcs[i], q)
    <3> HIDE DEF i
    <3>1. i = peerConnection
      BY DEF i
    <3> QED
      BY <2>1, <2>3, <3>1, ViewMoves
  <2>5. Rings(ops[i]) <=> Rings(q)
    BY <2>2, RingsAwaited
  <2>6. Phase' = Phase
    BY <2>4, <2>5 DEF PhaseOf
  <2> QED
    BY <2>1, <2>4, <2>6 DEF Protocol!vars, screenVars
<1>8. ASSUME NEW i \in Calls, Settle(i)
      PROVE  DriverFits' /\ [Protocol!Next]_(Protocol!vars)
  BY <1>8, SettleFollows
<1>9. CASE IceConnected
  <2>1. /\ peerConnection # 0 /\ pcs[peerConnection] = "stable"
        /\ UNCHANGED <<peerConnection, pcs, ops, screenVars, sent>> /\ isConnected' = TRUE
    BY <1>9 DEF IceConnected, pageVars
  <2>2. DriverFits' /\ Phase' = Phase /\ Phase = "agreed"
    BY <2>1 DEF DriverFits, FitsIn, Awaited, Phase, Rings
  <2>3. Protocol!Connect
    BY <2>1, <2>2 DEF Protocol!Connect, screenVars
  <2> QED
    BY <2>2, <2>3 DEF Protocol!Next
<1> QED
  BY <1>2, <1>3, <1>4, <1>5, <1>6, <1>7, <1>8, <1>9 DEF Next

(* The page implements the CallProtocol: for any number of users, sockets  *)
(* and calls, whatever handlers run between the awaits, it goes through    *)
(* one call at a time, in the order the protocol has.  A new call starts   *)
(* unconnected; the picture and Hang Up of the earlier one stay.           *)
THEOREM Implementation == Spec => ImplementsCallProtocol
<1>1. CallPageAssumption /\ Init => DriverFits /\ Protocol!Init
  <2> SUFFICES ASSUME CallPageAssumption, Init
               PROVE  DriverFits /\ Protocol!Init
    OBVIOUS
  <2>1. DriverFits
    BY DEF Init, DriverFits, FitsIn
  <2>2. Phase = "idle"
    BY DEF Init, Phase
  <2> QED
    BY <2>1, <2>2 DEF Init, Protocol!Init
<1>2. CallPageAssumption /\ TypeOK /\ ControllerInv /\ DriverFits /\ [Next]_vars
        => DriverFits' /\ [Protocol!Next]_(Protocol!vars)
  BY ProtocolStep
<1> QED
  BY <1>1, <1>2, TypeCorrect, Controller, CallPageAssumption, PTL
  DEF Spec, ImplementsCallProtocol, Protocol!Spec
=============================================================================
