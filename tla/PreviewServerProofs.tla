------------------------- MODULE PreviewServerProofs -------------------------
(***************************************************************************)
(* Theorems about PreviewServer, for any number of browsers and frames and *)
(* any channel capacity.                                                   *)
(***************************************************************************)
EXTENDS PreviewServer, FiniteSetTheorems, SequenceTheorems, TLAPS

-----------------------------------------------------------------------------
(* Types.                                                                  *)

LEMMA CountType ==
  ASSUME PreviewAssumption, NEW S \in SUBSET Clients
  PROVE  Cardinality(S) \in Nat
  BY FS_Subset, FS_CardinalityType DEF PreviewAssumption

(* A broadcast has a frame to send. *)
Broadcasting == visiting # {} => frameCounter # 0

LEMMA BroadcastingStep ==
  ASSUME PreviewAssumption, TypeOK, Broadcasting, [Next]_vars
  PROVE  Broadcasting'
<1> USE DEF Broadcasting, TypeOK, Unlocked, hubVars
<1>1. ASSUME NEW c \in Clients,
             \/ Register(c) \/ StartPumps(c) \/ Unregister(c) \/ Cleanup(c)
             \/ TakeMessage(c) \/ Deliver(c) \/ WriteFails(c) \/ WriterReturns(c)
             \/ PeerLeaves(c)
      PROVE  Broadcasting'
  BY <1>1 DEF Register, StartPumps, Unregister, Cleanup, TakeMessage, Deliver,
     WriteFails, WriterReturns, PeerLeaves
<1>2. ASSUME NEW c \in Clients, Broadcast(c)
      PROVE  Broadcasting'
  BY <1>2 DEF Broadcast
<1>3. CASE TakeFrame
  BY <1>3 DEF TakeFrame
<1>4. CASE UNCHANGED vars
  BY <1>4 DEF vars
<1> QED
  BY <1>1, <1>2, <1>3, <1>4 DEF Next

LEMMA TypeStep ==
  ASSUME PreviewAssumption, TypeOK, Broadcasting, [Next]_vars
  PROVE  TypeOK'
<1> USE DEF TypeOK, Readers, hubVars, writerVars
<1>1. ASSUME NEW c \in Clients, Register(c)
      PROVE  TypeOK'
  <2>1. clients' \in SUBSET Clients /\ Cardinality(clients') \in Nat
    BY <1>1, CountType DEF Register
  <2> QED
    BY <1>1, <2>1 DEF Register
<1>2. ASSUME NEW c \in Clients, StartPumps(c)
      PROVE  TypeOK'
  BY <1>2 DEF StartPumps
<1>3. ASSUME NEW c \in Clients, Unregister(c)
      PROVE  TypeOK'
  <2>1. clients' \in SUBSET Clients /\ Cardinality(clients') \in Nat
    BY <1>3, CountType DEF Unregister
  <2>2. clientCount' \in [Clients -> Nat] /\ reader' \in [Clients -> Readers]
    BY <1>3, <2>1 DEF Unregister
  <2> QED
    BY <1>3, <2>1, <2>2 DEF Unregister
<1>4. ASSUME NEW c \in Clients, Cleanup(c)
      PROVE  TypeOK'
  <2>1. reader' \in [Clients -> Readers]
    BY <1>4 DEF Cleanup
  <2>2. active' \in Nat
    BY <1>4 DEF Cleanup
  <2>3. UNCHANGED <<clients, visiting, frameCounter, send, writer, hand, shown,
                    clientCount, peer>>
    BY <1>4 DEF Cleanup
  <2> QED
    BY <2>1, <2>2, <2>3
<1>5. ASSUME NEW c \in Clients, TakeMessage(c)
      PROVE  TypeOK'
  <2>1. /\ Head(send[c]) \in Frames /\ Tail(send[c]) \in Seq(Frames)
        /\ Len(Tail(send[c])) <= SendCap
    BY <1>5 DEF TakeMessage, PreviewAssumption
  <2>2. hand' \in [Clients -> 0 .. MaxFrames]
    BY <1>5, <2>1 DEF TakeMessage, Frames
  <2>3. /\ send' \in [Clients -> Seq(Frames)]
        /\ \A d \in Clients : Len(send'[d]) <= SendCap
    BY <1>5, <2>1 DEF TakeMessage
  <2> QED
    BY <1>5, <2>2, <2>3 DEF TakeMessage
<1>6. ASSUME NEW c \in Clients, Deliver(c)
      PROVE  TypeOK'
  BY <1>6 DEF Deliver, PreviewAssumption
<1>7. ASSUME NEW c \in Clients, WriteFails(c)
      PROVE  TypeOK'
  BY <1>7 DEF WriteFails, PreviewAssumption
<1>8. ASSUME NEW c \in Clients, WriterReturns(c)
      PROVE  TypeOK'
  BY <1>8 DEF WriterReturns
<1>9. ASSUME NEW c \in Clients, Broadcast(c)
      PROVE  TypeOK'
  <2>1. frameCounter \in Frames
    BY <1>9 DEF Broadcast, Broadcasting, Frames
  <2>2. /\ send' \in [Clients -> Seq(Frames)]
        /\ \A d \in Clients : Len(send'[d]) <= SendCap
    <3>1. CASE Len(send[c]) < SendCap
      <4>1. /\ Append(send[c], frameCounter) \in Seq(Frames)
            /\ Len(Append(send[c], frameCounter)) <= SendCap
        BY <2>1, <3>1 DEF PreviewAssumption
      <4> QED
        BY <1>9, <3>1, <4>1 DEF Broadcast
    <3>2. CASE ~ Len(send[c]) < SendCap
      BY <1>9, <3>2 DEF Broadcast
    <3> QED
      BY <3>1, <3>2
  <2> QED
    BY <1>9, <2>2 DEF Broadcast
<1>10. ASSUME NEW c \in Clients, PeerLeaves(c)
       PROVE  TypeOK'
  BY <1>10 DEF PeerLeaves
<1>11. CASE TakeFrame
  BY <1>11 DEF TakeFrame, PreviewAssumption
<1>12. CASE UNCHANGED vars
  BY <1>12 DEF vars
<1> QED
  BY <1>1, <1>2, <1>3, <1>4, <1>5, <1>6, <1>7, <1>8, <1>9, <1>10, <1>11, <1>12
  DEF Next

(* Every variable of the hub keeps its type, and no channel its capacity. *)
THEOREM TypeCorrect == Spec => []TypeOK
<1>1. PreviewAssumption /\ Init => TypeOK /\ Broadcasting
  <2> SUFFICES ASSUME PreviewAssumption, Init
               PROVE  TypeOK /\ Broadcasting
    OBVIOUS
  <2>1. <<>> \in Seq(Frames) /\ Len(<<>>) = 0
    OBVIOUS
  <2> QED
    BY <2>1 DEF Init, TypeOK, Broadcasting, PreviewAssumption, Readers
<1>2. PreviewAssumption /\ TypeOK /\ Broadcasting /\ [Next]_vars
        => TypeOK' /\ Broadcasting'
  BY TypeStep, BroadcastingStep
<1> QED
  BY <1>1, <1>2, PreviewAssumption, PTL DEF Spec

-----------------------------------------------------------------------------
(* The map of clients.                                                     *)

(* A client is in the map from handleWS to readPump's cleanup, which comes *)
(* before its channel is closed, and broadcasts stay inside the map.       *)
Registry ==
  /\ \A c \in Clients : c \in clients <=> reader[c] \in {"registered", "reading"}
  /\ visiting \subseteq clients

LEMMA RegistryStep ==
  ASSUME TypeOK, Registry, [Next]_vars
  PROVE  Registry'
<1> USE DEF Registry, TypeOK, hubVars, writerVars, Unlocked
<1>1. ASSUME NEW c \in Clients, Register(c)
      PROVE  Registry'
  BY <1>1 DEF Register
<1>2. ASSUME NEW c \in Clients, StartPumps(c)
      PROVE  Registry'
  BY <1>2 DEF StartPumps
<1>3. ASSUME NEW c \in Clients, Unregister(c)
      PROVE  Registry'
  BY <1>3 DEF Unregister
<1>4. ASSUME NEW c \in Clients, Cleanup(c)
      PROVE  Registry'
  BY <1>4 DEF Cleanup
<1>5. ASSUME NEW c \in Clients,
             \/ TakeMessage(c) \/ Deliver(c) \/ WriteFails(c) \/ WriterReturns(c)
             \/ Broadcast(c) \/ PeerLeaves(c)
      PROVE  Registry'
  BY <1>5 DEF TakeMessage, Deliver, WriteFails, WriterReturns, Broadcast, PeerLeaves
<1>6. CASE TakeFrame
  BY <1>6 DEF TakeFrame
<1>7. CASE UNCHANGED vars
  BY <1>7 DEF vars
<1> QED
  BY <1>1, <1>2, <1>3, <1>4, <1>5, <1>6, <1>7 DEF Next

(* The hub never sends on a closed channel. *)
THEOREM NeverSendsOnClosed == Spec => []NoSendOnClosedChannel
<1>1. Init => Registry
  BY DEF Init, Registry
<1>2. TypeOK /\ Registry /\ [Next]_vars => Registry'
  BY RegistryStep
<1>3. TypeOK /\ Registry => NoSendOnClosedChannel
  BY DEF TypeOK, Registry, NoSendOnClosedChannel, SendClosed
<1> QED
  BY <1>1, <1>2, <1>3, TypeCorrect, PTL DEF Spec

-----------------------------------------------------------------------------
(* Frames in order.                                                        *)

(* A client's frames increase from the one its browser shows, by the one   *)
(* being written, through its channel, up to the last one broadcast, which *)
(* a client still to be visited does not have yet.                         *)
Ordered(c) ==
  /\ hand[c] # 0 => shown[c] < hand[c]
  /\ \A k \in DOMAIN send[c] : shown[c] < send[c][k] /\ hand[c] < send[c][k]
  /\ \A j, k \in DOMAIN send[c] : j < k => send[c][j] < send[c][k]

UpToDate(c) ==
  /\ shown[c] <= frameCounter /\ hand[c] <= frameCounter
  /\ \A k \in DOMAIN send[c] : send[c][k] <= frameCounter
  /\ c \in visiting =>
       /\ shown[c] < frameCounter /\ hand[c] < frameCounter
       /\ \A k \in DOMAIN send[c] : send[c][k] < frameCounter

OrderInv == \A c \in Clients : Ordered(c) /\ UpToDate(c)

LEMMA SeqFacts ==
  ASSUME NEW q \in Seq(Frames)
  PROVE  /\ Len(q) \in Nat /\ DOMAIN q = 1 .. Len(q)
         /\ \A k \in DOMAIN q : q[k] \in Frames
  OBVIOUS

(* Order says of the stream of frames what it says of its three parts. *)
LEMMA OrderedStream ==
  ASSUME PreviewAssumption, TypeOK, NEW c \in Clients, Ordered(c)
  PROVE  \A i, j \in DOMAIN Stream(c) : i < j => Stream(c)[i] < Stream(c)[j]
<1>1. /\ shown[c] \in 0 .. MaxFrames /\ hand[c] \in 0 .. MaxFrames
      /\ send[c] \in Seq(Frames)
  BY DEF TypeOK
<1> DEFINE q == send[c]
           n == Len(q)
<1>2. n \in Nat /\ DOMAIN q = 1 .. n /\ \A k \in 1 .. n : q[k] \in Nat
  BY <1>1, SeqFacts DEF Frames, PreviewAssumption
<1>3. CASE hand[c] = 0
  <2>1. Stream(c) = <<shown[c]>> \o q
    BY <1>1, <1>3 DEF Stream, InHand
  <2>2. /\ DOMAIN Stream(c) = 1 .. n + 1
        /\ Stream(c)[1] = shown[c]
        /\ \A k \in 2 .. n + 1 : Stream(c)[k] = q[k - 1]
    BY <1>1, <1>2, <2>1
  <2>3. \A k \in 2 .. n + 1 : Stream(c)[1] < Stream(c)[k]
    BY <1>2, <2>2 DEF Ordered
  <2>4. \A j, k \in 2 .. n + 1 : j < k => Stream(c)[j] < Stream(c)[k]
    <3> SUFFICES ASSUME NEW j \in 2 .. n + 1, NEW k \in 2 .. n + 1, j < k
                 PROVE  q[j - 1] < q[k - 1]
      BY <1>2, <2>2
    <3>1. j - 1 \in DOMAIN q /\ k - 1 \in DOMAIN q /\ j - 1 < k - 1
      BY <1>2
    <3> QED
      BY <3>1 DEF Ordered
  <2> HIDE DEF q, n
  <2> QED
    BY <1>2, <2>2, <2>3, <2>4
<1>4. CASE hand[c] # 0
  <2>1. Stream(c) = <<shown[c], hand[c]>> \o q
    BY <1>1, <1>4 DEF Stream, InHand
  <2>2. /\ DOMAIN Stream(c) = 1 .. n + 2
        /\ Stream(c)[1] = shown[c] /\ Stream(c)[2] = hand[c]
        /\ \A k \in 3 .. n + 2 : Stream(c)[k] = q[k - 2]
    BY <1>1, <1>2, <2>1
  <2>3. /\ Stream(c)[1] < Stream(c)[2]
        /\ \A k \in 3 .. n + 2 : Stream(c)[1] < Stream(c)[k]
        /\ \A k \in 3 .. n + 2 : Stream(c)[2] < Stream(c)[k]
    <3>1. \A k \in 3 .. n + 2 : k - 2 \in DOMAIN q
      BY <1>2
    <3>2. shown[c] < hand[c]
      BY <1>4 DEF Ordered
    <3>3. \A k \in 3 .. n + 2 : shown[c] < q[k - 2] /\ hand[c] < q[k - 2]
      BY <3>1 DEF Ordered
    <3> QED
      BY <2>2, <3>2, <3>3
  <2>4. \A j, k \in 3 .. n + 2 : j < k => Stream(c)[j] < Stream(c)[k]
    <3> SUFFICES ASSUME NEW j \in 3 .. n + 2, NEW k \in 3 .. n + 2, j < k
                 PROVE  q[j - 2] < q[k - 2]
      BY <1>2, <2>2
    <3>1. j - 2 \in DOMAIN q /\ k - 2 \in DOMAIN q /\ j - 2 < k - 2
      BY <1>2
    <3> QED
      BY <3>1 DEF Ordered
  <2> HIDE DEF q, n
  <2> QED
    BY <1>2, <2>2, <2>3, <2>4
<1> QED
  BY <1>3, <1>4

LEMMA OrderStep ==
  ASSUME PreviewAssumption, TypeOK, OrderInv, [Next]_vars
  PROVE  OrderInv'
<1> SUFFICES ASSUME NEW d \in Clients
             PROVE  Ordered(d)' /\ UpToDate(d)'
  BY DEF OrderInv
<1>1. Ordered(d) /\ UpToDate(d)
  BY DEF OrderInv
<1>2. /\ shown[d] \in Nat /\ hand[d] \in Nat /\ frameCounter \in Nat
      /\ send[d] \in Seq(Frames)
      /\ DOMAIN send[d] = 1 .. Len(send[d]) /\ Len(send[d]) \in Nat
      /\ \A k \in DOMAIN send[d] : send[d][k] \in Nat
  BY SeqFacts DEF TypeOK, PreviewAssumption, Frames
<1>3. CASE \E c \in Clients :
             \/ Register(c) \/ StartPumps(c) \/ Unregister(c) \/ Cleanup(c)
             \/ WriterReturns(c) \/ PeerLeaves(c)
  <2>1. UNCHANGED <<visiting, frameCounter, send, shown, hand>>
    BY <1>3 DEF Register, StartPumps, Unregister, Cleanup, WriterReturns, PeerLeaves,
       hubVars, writerVars
  <2> QED
    BY <1>1, <2>1 DEF Ordered, UpToDate
<1>4. ASSUME NEW c \in Clients, TakeMessage(c)
      PROVE  Ordered(d)' /\ UpToDate(d)'
  <2>1. UNCHANGED <<visiting, frameCounter, shown>>
    BY <1>4 DEF TakeMessage, hubVars
  <2>2. CASE d = c
    <3>1. hand'[d] = send[d][1] /\ send'[d] = Tail(send[d]) /\ Len(send[d]) > 0
      BY <1>2, <1>4, <2>2 DEF TakeMessage, TypeOK
    <3>2. /\ DOMAIN send'[d] = 1 .. Len(send[d]) - 1
          /\ \A k \in DOMAIN send'[d] : /\ send'[d][k] = send[d][k + 1]
                                        /\ k + 1 \in DOMAIN send[d] /\ 1 < k + 1
          /\ 1 \in DOMAIN send[d]
      BY <1>2, <3>1
    <3>3. Ordered(d)'
      <4>1. \A j, k \in DOMAIN send'[d] : j < k => j + 1 < k + 1
        BY <1>2, <3>2
      <4> QED
        BY <1>1, <2>1, <3>1, <3>2, <4>1 DEF Ordered
    <3>4. UpToDate(d)'
      BY <1>1, <2>1, <3>1, <3>2 DEF UpToDate
    <3> QED
      BY <3>3, <3>4
  <2>3. CASE d # c
    <3>1. hand'[d] = hand[d] /\ send'[d] = send[d]
      BY <1>4, <2>3 DEF TakeMessage, TypeOK
    <3> QED
      BY <1>1, <2>1, <3>1 DEF Ordered, UpToDate
  <2> QED
    BY <2>2, <2>3
<1>5. ASSUME NEW c \in Clients, Deliver(c) \/ WriteFails(c)
      PROVE  Ordered(d)' /\ UpToDate(d)'
  <2>1. UNCHANGED <<visiting, frameCounter, send>>
    BY <1>5 DEF Deliver, WriteFails, hubVars
  <2>2. /\ hand'[d] \in {0, hand[d]}
        /\ shown'[d] = shown[d] \/ (shown'[d] = hand[d] /\ hand'[d] = 0)
    <3>1. CASE d = c
      BY <1>5, <3>1 DEF Deliver, WriteFails, TypeOK
    <3>2. CASE d # c
      BY <1>5, <3>2 DEF Deliver, WriteFails, TypeOK
    <3> QED
      BY <3>1, <3>2
  <2>3. Ordered(d)'
    <3>1. send'[d] = send[d]
      BY <2>1
    <3>2. hand'[d] # 0 => shown'[d] < hand'[d]
      BY <1>1, <2>2 DEF Ordered
    <3>3. ASSUME NEW k \in DOMAIN send[d]
          PROVE  shown'[d] < send[d][k] /\ hand'[d] < send[d][k]
      <4>1. /\ shown[d] < send[d][k] /\ hand[d] < send[d][k]
            /\ shown[d] \in Nat /\ send[d][k] \in Nat
        BY <1>1, <1>2 DEF Ordered
      <4>2. 0 < send[d][k]
        BY <4>1
      <4> QED
        BY <2>2, <4>1, <4>2
    <3>4. \A j, k \in DOMAIN send[d] : j < k => send[d][j] < send[d][k]
      BY <1>1 DEF Ordered
    <3> QED
      BY <3>1, <3>2, <3>3, <3>4 DEF Ordered
  <2>4. UpToDate(d)'
    BY <1>1, <1>2, <2>1, <2>2 DEF UpToDate
  <2> QED
    BY <2>3, <2>4
<1>6. ASSUME NEW c \in Clients, Broadcast(c)
      PROVE  Ordered(d)' /\ UpToDate(d)'
  <2>1. UNCHANGED <<frameCounter, shown, hand>> /\ visiting' = visiting \ {c}
    BY <1>6 DEF Broadcast, writerVars
  <2>2. CASE send'[d] = send[d]
    BY <1>1, <1>2, <2>1, <2>2 DEF Ordered, UpToDate
  <2>3. CASE d = c /\ send'[d] = Append(send[d], frameCounter)
    <3>1. /\ DOMAIN send'[d] = 1 .. Len(send[d]) + 1
          /\ \A k \in DOMAIN send[d] : send'[d][k] = send[d][k]
          /\ send'[d][Len(send[d]) + 1] = frameCounter
      BY <1>2, <2>3
    <3>2. d \in visiting /\ d \notin visiting'
      BY <1>6, <2>1, <2>3 DEF Broadcast
    <3>3. \A k \in DOMAIN send'[d] : k \in DOMAIN send[d] \/ k = Len(send[d]) + 1
      BY <1>2, <3>1
    <3>4. Len(send[d]) + 1 \notin DOMAIN send[d]
      BY <1>2
    <3>5. \A j, k \in DOMAIN send'[d] : j < k => j \in DOMAIN send[d]
      BY <1>2, <3>1
    <3>6. Ordered(d)'
      BY <1>1, <2>1, <3>1, <3>2, <3>3, <3>5 DEF Ordered, UpToDate
    <3>7. UpToDate(d)'
      BY <1>1, <1>2, <2>1, <3>1, <3>2, <3>3 DEF UpToDate
    <3> QED
      BY <3>6, <3>7
  <2> QED
    BY <1>6, <2>2, <2>3 DEF Broadcast, TypeOK
<1>7. CASE TakeFrame
  <2>1. frameCounter' = frameCounter + 1 /\ UNCHANGED <<send, shown, hand>>
    BY <1>7 DEF TakeFrame, writerVars
  <2>2. Ordered(d)'
    BY <1>1, <2>1 DEF Ordered
  <2>3. UpToDate(d)'
    <3>1. shown[d] < frameCounter + 1 /\ hand[d] < frameCounter + 1
      BY <1>1, <1>2 DEF UpToDate
    <3>2. \A k \in DOMAIN send[d] : send[d][k] < frameCounter + 1
      BY <1>1, <1>2 DEF UpToDate
    <3>3. \A n \in Nat : n < frameCounter + 1 => n <= frameCounter + 1
      BY <1>2
    <3> QED
      BY <1>2, <2>1, <3>1, <3>2, <3>3 DEF UpToDate
  <2> QED
    BY <2>2, <2>3
<1>8. CASE UNCHANGED vars
  BY <1>1, <1>8 DEF vars, Ordered, UpToDate
<1> QED
  BY <1>3, <1>4, <1>5, <1>6, <1>7, <1>8 DEF Next

(* A browser gets frames in order and none twice, however many are dropped. *)
THEOREM InOrder == Spec => []FramesInOrder
<1>1. PreviewAssumption /\ Init => OrderInv
  <2> SUFFICES ASSUME PreviewAssumption, Init, NEW c \in Clients
               PROVE  Ordered(c) /\ UpToDate(c)
    BY DEF OrderInv
  <2>1. /\ send[c] = <<>> /\ shown[c] = 0 /\ hand[c] = 0 /\ frameCounter = 0
        /\ visiting = {}
    BY DEF Init
  <2> QED
    BY <2>1 DEF Ordered, UpToDate
<1>2. PreviewAssumption /\ TypeOK /\ OrderInv /\ [Next]_vars => OrderInv'
  BY OrderStep
<1>3. PreviewAssumption /\ TypeOK /\ OrderInv => FramesInOrder
  BY OrderedStream DEF OrderInv, FramesInOrder
<1> QED
  BY <1>1, <1>2, <1>3, TypeCorrect, PreviewAssumption, PTL DEF Spec

-----------------------------------------------------------------------------
(* The preview server is a LossyBroadcast.                                 *)

(* writePump has a frame in hand exactly while it writes, it starts after  *)
(* handleWS registered the client, and readPump cleans up only after a     *)
(* browser that went away or a writePump that returned.                    *)
PumpInv ==
  \A c \in Clients :
    /\ writer[c] = "writing" <=> hand[c] # 0
    /\ reader[c] \in {"none", "registered"} <=> writer[c] = "none"
    /\ reader[c] \in {"deleted", "connClosed", "sendClosed", "done"}
         => ~ peer[c] \/ writer[c] = "done"

LEMMA PumpStep ==
  ASSUME PreviewAssumption, TypeOK, PumpInv, [Next]_vars
  PROVE  PumpInv'
<1> USE DEF PumpInv, TypeOK, Readers, hubVars, writerVars
<1>1. ASSUME NEW c \in Clients,
             Register(c) \/ StartPumps(c) \/ Unregister(c) \/ Cleanup(c)
      PROVE  PumpInv'
  BY <1>1 DEF Register, StartPumps, Unregister, ReadFails, Cleanup
<1>2. ASSUME NEW c \in Clients, TakeMessage(c)
      PROVE  PumpInv'
  <2>1. send[c] \in Seq(Frames) /\ send[c] # <<>>
    BY <1>2 DEF TakeMessage
  <2>2. Head(send[c]) # 0
    <3>1. Head(send[c]) \in Frames
      BY <2>1, HeadTailProperties
    <3> QED
      BY <3>1 DEF Frames, PreviewAssumption
  <2> QED
    BY <1>2, <2>2 DEF TakeMessage
<1>3. ASSUME NEW c \in Clients,
             Deliver(c) \/ WriteFails(c) \/ WriterReturns(c)
      PROVE  PumpInv'
  BY <1>3 DEF Deliver, WriteFails, WriterReturns
<1>4. ASSUME NEW c \in Clients, Broadcast(c) \/ PeerLeaves(c)
      PROVE  PumpInv'
  BY <1>4 DEF Broadcast, PeerLeaves
<1>5. CASE TakeFrame
  BY <1>5 DEF TakeFrame
<1>6. CASE UNCHANGED vars
  BY <1>6 DEF vars
<1> QED
  BY <1>1, <1>2, <1>3, <1>4, <1>5, <1>6 DEF Next

(* What may be in front of a queue, and what may be behind it. *)
LEMMA InFront ==
  ASSUME NEW a \in Nat, NEW p \in Seq(Nat), NEW q \in Seq(Nat)
  PROVE  /\ <<a>> \o p \o q # <<>>
         /\ Head(<<a>> \o p \o q) = a
         /\ Tail(<<a>> \o p \o q) = <<>> \o p \o q
<1>1. <<a>> \in Seq(Nat)
  OBVIOUS
<1>2. <<a>> \o p \o q = <<a>> \o (p \o q)
  BY <1>1, ConcatAssociative
<1>3. p \o q \in Seq(Nat) /\ <<>> \o p \o q = p \o q
  BY ConcatProperties, ConcatEmptySeq
<1>4. ASSUME NEW s \in Seq(Nat)
      PROVE  <<a>> \o s # <<>> /\ Head(<<a>> \o s) = a /\ Tail(<<a>> \o s) = s
  <2>1. Len(<<a>> \o s) = Len(s) + 1 /\ <<a>> \o s \in Seq(Nat)
    BY <1>1, ConcatProperties
  <2>2. \A k \in 1 .. Len(s) : (<<a>> \o s)[k + 1] = s[k]
    OBVIOUS
  <2>3. (<<a>> \o s)[1] = a
    OBVIOUS
  <2>4. <<a>> \o s # <<>>
    BY <2>1
  <2>5. Tail(<<a>> \o s) \in Seq(Nat) /\ Len(Tail(<<a>> \o s)) = Len(s)
    BY <2>1, <2>4
  <2>6. \A k \in 1 .. Len(s) : Tail(<<a>> \o s)[k] = s[k]
    BY <2>1, <2>2, <2>4
  <2> QED
    BY <2>1, <2>3, <2>4, <2>5, <2>6, SeqEqual
<1> QED
  BY <1>2, <1>3, <1>4

LEMMA Behind ==
  ASSUME NEW h \in Seq(Nat), NEW s \in Seq(Nat), NEW n \in Nat
  PROVE  /\ h \o s \o <<n>> = Append(h \o s \o <<>>, n)
         /\ h \o Append(s, n) \o <<>> = h \o s \o <<n>>
         /\ Len(h \o s \o <<n>>) = Len(h) + Len(s) + 1
         /\ SubSeq(h \o s \o <<n>>, 1, Len(h \o s \o <<n>>) - 1) = h \o s \o <<>>
<1>1. <<n>> \in Seq(Nat) /\ h \o s \in Seq(Nat) /\ Append(s, n) \in Seq(Nat)
  BY ConcatProperties, AppendProperties
<1>2. h \o s \o <<>> = h \o s /\ h \o Append(s, n) \o <<>> = h \o Append(s, n)
  BY <1>1, ConcatEmptySeq, ConcatProperties
<1>3. \A t \in Seq(Nat) : Append(t, n) = t \o <<n>>
  BY AppendIsConcat
<1>4. h \o (s \o <<n>>) = h \o s \o <<n>>
  BY <1>1, ConcatAssociative
<1>5. ASSUME NEW t \in Seq(Nat)
      PROVE  Len(t \o <<n>>) = Len(t) + 1 /\ SubSeq(t \o <<n>>, 1, Len(t \o <<n>>) - 1) = t
  <2>1. Len(t \o <<n>>) = Len(t) + 1 /\ t \o <<n>> \in Seq(Nat)
    BY <1>1, ConcatProperties
  <2>2. \A k \in 1 .. Len(t) : (t \o <<n>>)[k] = t[k]
    OBVIOUS
  <2> DEFINE u == SubSeq(t \o <<n>>, 1, Len(t))
  <2>3. u \in Seq(Nat) /\ Len(u) = Len(t) /\ \A k \in 1 .. Len(t) : u[k] = t[k]
    BY <2>1, <2>2
  <2>4. u = t
    BY <2>3, SeqEqual
  <2>5. Len(t) + 1 - 1 = Len(t)
    OBVIOUS
  <2> QED
    BY <2>1, <2>4, <2>5
<1>6. Len(h \o s) = Len(h) + Len(s)
  BY ConcatProperties
<1> QED
  BY <1>1, <1>2, <1>3, <1>4, <1>5, <1>6

(* The queue of a LossyBroadcast, by its parts. *)
LEMMA OwedType ==
  ASSUME PreviewAssumption, TypeOK, NEW c \in Clients
  PROVE  /\ InHand(c) \in Seq(Nat) /\ send[c] \in Seq(Nat)
         /\ frameCounter \in Nat /\ hand[c] \in Nat
         /\ Owed(c) \in Seq(Nat)
<1>1. send[c] \in Seq(Nat)
  <2>1. send[c] \in Seq(Frames) /\ Frames \subseteq Nat
    BY DEF TypeOK, Frames, PreviewAssumption
  <2> QED
    BY <2>1, SeqMonotonic
<1>2. frameCounter \in Nat /\ hand[c] \in Nat
  BY DEF TypeOK, PreviewAssumption
<1>3. InHand(c) \in Seq(Nat) /\ Coming(c) \in Seq(Nat)
  BY <1>2 DEF InHand, Coming
<1> QED
  BY <1>1, <1>2, <1>3, ConcatProperties DEF Owed

(* Steps that leave parts of what the LossyBroadcast sees alone. *)
Members == [c \in Clients |-> Membership(c)]
Well == [c \in Clients |-> peer[c] /\ writer[c] # "done"]
Queues == [c \in Clients |-> Owed(c)]

LEMMA QueuesKept ==
  ASSUME UNCHANGED <<visiting, frameCounter, send, hand>>
  PROVE  UNCHANGED Queues
  BY DEF Queues, Owed, InHand, Coming

LEMMA OneQueueMoves ==
  ASSUME NEW c \in Clients, NEW q,
         Owed(c)' = q, \A d \in Clients \ {c} : Owed(d)' = Owed(d)
  PROVE  Queues' = [Queues EXCEPT ![c] = q]
  BY DEF Queues

LEMMA MembersKept == UNCHANGED reader => UNCHANGED Members
  BY DEF Members, Membership

LEMMA WellKept == UNCHANGED <<peer, writer>> => UNCHANGED Well
  BY DEF Well

LEMMA OwedKept ==
  ASSUME NEW d \in Clients, frameCounter' = frameCounter,
         send'[d] = send[d], hand'[d] = hand[d], d \in visiting' <=> d \in visiting
  PROVE  Owed(d)' = Owed(d)
  BY DEF Owed, InHand, Coming

(* A browser that goes, or whose writePump returns, is not well. *)
LEMMA OneSickens ==
  ASSUME TypeOK, NEW c \in Clients,
         \/ peer' = [peer EXCEPT ![c] = FALSE] /\ UNCHANGED writer
         \/ writer' = [writer EXCEPT ![c] = "done"] /\ UNCHANGED peer
  PROVE  Well' = [Well EXCEPT ![c] = FALSE]
<1>1. (peer'[c] /\ writer'[c] # "done") = FALSE
  BY DEF TypeOK
<1>2. \A d \in Clients \ {c} : peer'[d] = peer[d] /\ writer'[d] = writer[d]
  BY DEF TypeOK
<1> QED
  BY <1>1, <1>2 DEF Well

(* The frame in hand leaves the queue when a write ends, well or badly. *)
LEMMA HandLeaves ==
  ASSUME PreviewAssumption, TypeOK, NEW c \in Clients, hand[c] # 0,
         hand' = [hand EXCEPT ![c] = 0],
         UNCHANGED <<visiting, frameCounter, send>>
  PROVE  /\ Queues[c] # <<>> /\ Head(Queues[c]) = hand[c]
         /\ Queues' = [Queues EXCEPT ![c] = Tail(Queues[c])]
<1>1. Owed(c) = <<hand[c]>> \o send[c] \o Coming(c)
  BY DEF Owed, InHand
<1>2. /\ Owed(c)' = <<>> \o send[c] \o Coming(c)
      /\ \A d \in Clients \ {c} : Owed(d)' = Owed(d)
  <2>1. hand'[c] = 0 /\ \A d \in Clients \ {c} : hand'[d] = hand[d]
    BY DEF TypeOK
  <2>2. Owed(c)' = <<>> \o send[c] \o Coming(c)
    BY <2>1 DEF Owed, InHand, Coming
  <2> QED
    BY <2>1, <2>2, OwedKept
<1>3. Coming(c) \in Seq(Nat)
  BY OwedType DEF Coming
<1>4. Owed(c) # <<>> /\ Head(Owed(c)) = hand[c] /\ Tail(Owed(c)) = Owed(c)'
  <2>1. hand[c] \in Nat /\ send[c] \in Seq(Nat)
    BY OwedType
  <2>2. /\ <<hand[c]>> \o send[c] \o Coming(c) # <<>>
        /\ Head(<<hand[c]>> \o send[c] \o Coming(c)) = hand[c]
        /\ Tail(<<hand[c]>> \o send[c] \o Coming(c)) = <<>> \o send[c] \o Coming(c)
    BY <1>3, <2>1, InFront
  <2> QED
    BY <1>1, <1>2, <2>2, Zenon
<1>5. Queues[c] = Owed(c)
  BY DEF Queues
<1> QED
  BY <1>2, <1>4, <1>5, OneQueueMoves

(* Every step of the preview server is a step of the LossyBroadcast, or    *)
(* none: taking a frame from the channel and sending one into it move it   *)
(* inside the queue.                                                       *)
LEMMA FeedStep ==
  ASSUME PreviewAssumption, TypeOK, Registry, PumpInv, [Next]_vars
  PROVE  [Feed!Next]_(Feed!vars)
<1>1. ASSUME NEW c \in Clients, Register(c)
      PROVE  Feed!Join(c)
  <2>1. /\ UNCHANGED <<visiting, frameCounter, send, hand, writer, shown, peer>>
        /\ reader[c] = "none" /\ reader' = [reader EXCEPT ![c] = "registered"]
    BY <1>1 DEF Register, writerVars
  <2>2. Members[c] = "new" /\ Members' = [Members EXCEPT ![c] = "in"]
    BY <2>1 DEF Members, Membership, TypeOK, Readers
  <2> QED
    BY <2>1, <2>2, QueuesKept, WellKept DEF Feed!Join, Members, Well, Queues
<1>2. ASSUME NEW c \in Clients, StartPumps(c)
      PROVE  UNCHANGED Feed!vars
  <2>1. /\ UNCHANGED <<visiting, frameCounter, send, hand, shown, peer>>
        /\ reader[c] = "registered" /\ reader' = [reader EXCEPT ![c] = "reading"]
        /\ writer[c] = "none" /\ writer' = [writer EXCEPT ![c] = "waiting"]
    BY <1>2 DEF StartPumps, hubVars, PumpInv
  <2>2. UNCHANGED Members
    BY <2>1 DEF Members, Membership, TypeOK, Readers
  <2>3. UNCHANGED Well
    BY <2>1 DEF Well, TypeOK
  <2> QED
    BY <2>1, <2>2, <2>3, QueuesKept DEF Feed!vars, Members, Well, Queues
<1>3. ASSUME NEW c \in Clients, Unregister(c)
      PROVE  Feed!PutOut(c)
  <2>1. /\ UNCHANGED <<visiting, frameCounter, send, hand, writer, shown, peer>>
        /\ reader[c] = "reading" /\ reader' = [reader EXCEPT ![c] = "deleted"]
        /\ ReadFails(c)
    BY <1>3 DEF Unregister, writerVars
  <2>2. Members[c] = "in" /\ Members' = [Members EXCEPT ![c] = "out"]
    BY <2>1 DEF Members, Membership, TypeOK, Readers
  <2>3. ~ Well[c]
    BY <2>1 DEF Well, ReadFails
  <2> QED
    BY <2>1, <2>2, <2>3, QueuesKept, WellKept
    DEF Feed!PutOut, Members, Well, Queues
<1>4. ASSUME NEW c \in Clients, Cleanup(c)
      PROVE  UNCHANGED Feed!vars
  <2>1. UNCHANGED <<visiting, frameCounter, send, hand, writer, shown, peer>>
    BY <1>4 DEF Cleanup, hubVars, writerVars
  <2>2. /\ reader[c] \notin {"none", "registered", "reading"}
        /\ reader'[c] \notin {"none", "registered", "reading"}
        /\ \A d \in Clients \ {c} : reader'[d] = reader[d]
    BY <1>4 DEF Cleanup, TypeOK
  <2>3. UNCHANGED Members
    BY <2>2 DEF Members, Membership
  <2> QED
    BY <2>1, <2>3, QueuesKept, WellKept DEF Feed!vars, Members, Well, Queues
<1>5. ASSUME NEW c \in Clients, TakeMessage(c)
      PROVE  UNCHANGED Feed!vars
  <2>1. /\ UNCHANGED <<visiting, frameCounter, reader, shown, peer>>
        /\ writer[c] = "waiting" /\ writer' = [writer EXCEPT ![c] = "writing"]
        /\ send[c] # <<>> /\ send' = [send EXCEPT ![c] = Tail(send[c])]
        /\ hand' = [hand EXCEPT ![c] = Head(send[c])]
    BY <1>5 DEF TakeMessage, hubVars
  <2>2. hand[c] = 0
    BY <2>1 DEF PumpInv
  <2>3. hand'[c] # 0 /\ hand'[c] = Head(send[c])
    <3>1. Head(send[c]) \in Frames
      BY <2>1, HeadTailProperties DEF TypeOK
    <3> QED
      BY <2>1, <3>1 DEF TypeOK, Frames, PreviewAssumption
  <2>4. Owed(c) = <<>> \o send[c] \o Coming(c)
    BY <2>2 DEF Owed, InHand
  <2>5. Owed(c)' = <<Head(send[c])>> \o Tail(send[c]) \o Coming(c)
    BY <2>1, <2>3 DEF Owed, InHand, Coming, TypeOK
  <2>6. send[c] = <<Head(send[c])>> \o Tail(send[c])
    BY <2>1, OwedType, HeadTailProperties
  <2>7. Owed(c)' = Owed(c)
    BY <2>4, <2>5, <2>6, OwedType, ConcatEmptySeq
  <2>8. \A d \in Clients \ {c} : Owed(d)' = Owed(d)
    BY <2>1, OwedKept DEF TypeOK
  <2>9. UNCHANGED Queues
    BY <2>7, <2>8 DEF Queues
  <2>10. UNCHANGED Well
    BY <2>1 DEF Well, TypeOK
  <2> QED
    BY <2>1, <2>9, <2>10, MembersKept DEF Feed!vars, Members, Well, Queues
<1>6. ASSUME NEW c \in Clients, Deliver(c)
      PROVE  Feed!Show(c) \/ Feed!Lose(c)
  <2>1. /\ UNCHANGED <<visiting, frameCounter, send, reader, peer>>
        /\ writer[c] = "writing" /\ writer' = [writer EXCEPT ![c] = "waiting"]
        /\ hand' = [hand EXCEPT ![c] = 0]
        /\ shown' = IF peer[c] THEN [shown EXCEPT ![c] = hand[c]] ELSE shown
    BY <1>6 DEF Deliver, hubVars
  <2>2. /\ Queues[c] # <<>> /\ Head(Queues[c]) = hand[c]
        /\ Queues' = [Queues EXCEPT ![c] = Tail(Queues[c])]
    BY <2>1, HandLeaves DEF PumpInv
  <2>3. UNCHANGED Well
    BY <2>1 DEF Well, TypeOK
  <2>4. CASE peer[c]
    <3>1. Well[c]
      BY <2>1, <2>4 DEF Well
    <3> QED
      BY <2>1, <2>2, <2>3, <2>4, <3>1, MembersKept
      DEF Feed!Show, Members, Well, Queues
  <2>5. CASE ~ peer[c]
    <3>1. ~ Well[c]
      BY <2>5 DEF Well
    <3> QED
      BY <2>1, <2>2, <2>3, <2>5, <3>1, MembersKept
      DEF Feed!Lose, Members, Well, Queues
  <2> QED
    BY <2>4, <2>5
<1>7. ASSUME NEW c \in Clients, WriteFails(c)
      PROVE  Feed!Sicken(c) \/ Feed!Lose(c)
  <2>1. /\ UNCHANGED <<visiting, frameCounter, send, reader, peer, shown>>
        /\ writer[c] = "writing" /\ writer' = [writer EXCEPT ![c] = "done"]
        /\ hand' = [hand EXCEPT ![c] = 0]
    BY <1>7 DEF WriteFails, hubVars
  <2>2. /\ Queues[c] # <<>>
        /\ Queues' = [Queues EXCEPT ![c] = Tail(Queues[c])]
    BY <2>1, HandLeaves DEF PumpInv
  <2>3. Well' = [Well EXCEPT ![c] = FALSE]
    BY <2>1, OneSickens
  <2>4. CASE Well[c]
    BY <2>1, <2>2, <2>3, <2>4, MembersKept DEF Feed!Sicken, Members, Well, Queues
  <2>5. CASE ~ Well[c]
    <3>1. UNCHANGED Well
      BY <2>3, <2>5 DEF Well
    <3> QED
      BY <2>1, <2>2, <2>5, <3>1, MembersKept DEF Feed!Lose, Members, Well, Queues
  <2> QED
    BY <2>4, <2>5
<1>8. ASSUME NEW c \in Clients, WriterReturns(c)
      PROVE  UNCHANGED Feed!vars
  <2>1. /\ UNCHANGED <<visiting, frameCounter, send, reader, hand, peer, shown>>
        /\ writer[c] = "waiting" /\ writer' = [writer EXCEPT ![c] = "done"]
        /\ ~ peer[c] \/ ConnClosed(c) \/ SendClosed(c)
    BY <1>8 DEF WriterReturns, hubVars
  <2>2. ~ peer[c]
    BY <2>1 DEF PumpInv, ConnClosed, SendClosed
  <2>3. UNCHANGED Well
    BY <2>1, <2>2 DEF Well, TypeOK
  <2> QED
    BY <2>1, <2>3, MembersKept, QueuesKept DEF Feed!vars, Members, Well, Queues
<1>9. ASSUME NEW c \in Clients, Broadcast(c)
      PROVE  UNCHANGED Feed!vars \/ Feed!LeaveOut(c)
  <2>1. /\ UNCHANGED <<frameCounter, reader, writer, hand, shown, peer>>
        /\ c \in visiting /\ visiting' = visiting \ {c}
        /\ send' = IF Len(send[c]) < SendCap
                     THEN [send EXCEPT ![c] = Append(send[c], frameCounter)] ELSE send
    BY <1>9 DEF Broadcast, writerVars
  <2>2. Owed(c) = InHand(c) \o send[c] \o <<frameCounter>>
    BY <2>1 DEF Owed, Coming
  <2>3. \A d \in Clients \ {c} : Owed(d)' = Owed(d)
    BY <2>1, OwedKept DEF TypeOK
  <2>4. Owed(c)' = InHand(c) \o send'[c] \o <<>>
    BY <2>1 DEF Owed, Coming, InHand
  <2>5. CASE Len(send[c]) < SendCap
    <3>1. send'[c] = Append(send[c], frameCounter)
      BY <2>1, <2>5 DEF TypeOK
    <3>2. Owed(c)' = Owed(c)
      <4>1. InHand(c) \in Seq(Nat) /\ send[c] \in Seq(Nat) /\ frameCounter \in Nat
        BY OwedType
      <4>2. InHand(c) \o Append(send[c], frameCounter) \o <<>>
              = InHand(c) \o send[c] \o <<frameCounter>>
        BY <4>1, Behind
      <4> QED
        BY <2>2, <2>4, <3>1, <4>2, Zenon
    <3>3. UNCHANGED Queues
      BY <2>3, <3>2 DEF Queues
    <3> QED
      BY <2>1, <3>3, MembersKept, WellKept DEF Feed!vars, Members, Well, Queues
  <2>6. CASE ~ Len(send[c]) < SendCap
    <3>1. send'[c] = send[c]
      BY <2>1, <2>6
    <3>2. Owed(c)' = SubSeq(Owed(c), 1, Len(Owed(c)) - 1)
      BY <2>2, <2>4, <3>1, OwedType, Behind
    <3>3. Len(Owed(c)) > SendCap
      <4>1. Len(Owed(c)) = Len(InHand(c)) + Len(send[c]) + 1
        BY <2>2, OwedType, Behind
      <4>2. Len(InHand(c)) \in Nat /\ Len(send[c]) \in Nat
        BY OwedType, LenProperties
      <4> QED
        BY <2>6, <4>1, <4>2 DEF PreviewAssumption
    <3>4. Queues[c] = Owed(c)
      BY DEF Queues
    <3>5. Queues' = [Queues EXCEPT ![c] = SubSeq(Queues[c], 1, Len(Queues[c]) - 1)]
      BY <2>3, <3>2, <3>4, OneQueueMoves
    <3>6. Feed!LeaveOut(c)
      BY <2>1, <3>3, <3>4, <3>5, MembersKept, WellKept
      DEF Feed!LeaveOut, Members, Well, Queues
    <3> QED
      BY <3>6
  <2> QED
    BY <2>5, <2>6
<1>10. ASSUME NEW c \in Clients, PeerLeaves(c)
       PROVE  UNCHANGED Feed!vars \/ Feed!Sicken(c)
  <2>1. /\ UNCHANGED <<visiting, frameCounter, send, reader, writer, hand, shown>>
        /\ peer' = [peer EXCEPT ![c] = FALSE]
    BY <1>10 DEF PeerLeaves, hubVars, writerVars
  <2>2. Well' = [Well EXCEPT ![c] = FALSE]
    BY <2>1, OneSickens
  <2>3. CASE Well[c]
    BY <2>1, <2>2, <2>3, MembersKept, QueuesKept
    DEF Feed!Sicken, Members, Well, Queues
  <2>4. CASE ~ Well[c]
    <3>1. UNCHANGED Well
      BY <2>2, <2>4 DEF Well
    <3> QED
      BY <2>1, <3>1, MembersKept, QueuesKept DEF Feed!vars, Members, Well, Queues
  <2> QED
    BY <2>3, <2>4
<1>11. CASE TakeFrame
  <2>1. /\ UNCHANGED <<send, reader, writer, hand, shown, peer>>
        /\ visiting = {} /\ visiting' = clients
        /\ frameCounter' = frameCounter + 1
    BY <1>11 DEF TakeFrame, writerVars, Unlocked
  <2>2. ASSUME NEW d \in Clients
        PROVE  Owed(d)' = IF Members[d] = "in" THEN Append(Queues[d], frameCounter')
                                               ELSE Queues[d]
    <3>1. Queues[d] = InHand(d) \o send[d] \o <<>>
      BY <2>1 DEF Queues, Owed, Coming
    <3>2. Members[d] = "in" <=> d \in clients
      BY DEF Members, Membership, Registry, TypeOK, Readers
    <3>3. Owed(d)' = InHand(d) \o send[d] \o
                       (IF d \in clients THEN <<frameCounter'>> ELSE <<>>)
      BY <2>1 DEF Owed, Coming, InHand
    <3>4. frameCounter' \in Nat
      BY <2>1, OwedType
    <3>5. CASE d \in clients
      BY <3>1, <3>2, <3>3, <3>4, <3>5, OwedType, Behind
    <3>6. CASE d \notin clients
      BY <3>1, <3>2, <3>3, <3>6
    <3> QED
      BY <3>5, <3>6
  <2>3. Queues' = [d \in Clients |-> IF Members[d] = "in"
                                       THEN Append(Queues[d], frameCounter')
                                       ELSE Queues[d]]
    BY <2>2 DEF Queues
  <2> QED
    BY <2>1, <2>3, MembersKept, WellKept
    DEF Feed!Next, Feed!Produce, Members, Well, Queues
<1>12. CASE UNCHANGED vars
  <2>1. UNCHANGED <<visiting, frameCounter, send, reader, writer, hand, shown, peer>>
    BY <1>12 DEF vars
  <2> QED
    BY <2>1, MembersKept, WellKept, QueuesKept DEF Feed!vars, Members, Well, Queues
<1> QED
  BY <1>1, <1>2, <1>3, <1>4, <1>5, <1>6, <1>7, <1>8, <1>9, <1>10, <1>11, <1>12
  DEF Next, Feed!Next

(* The preview server implements a LossyBroadcast: for any number of       *)
(* browsers and frames and any capacity of the channels, a browser that is *)
(* there and takes its frames gets those of its membership in order and    *)
(* once, less the newest when its channel is full.                         *)
THEOREM Implementation == Spec => ImplementsLossyBroadcast
<1>1. Init => Feed!Init /\ PumpInv /\ Registry
  <2> SUFFICES ASSUME Init
               PROVE  Feed!Init /\ PumpInv /\ Registry
    OBVIOUS
  <2>1. /\ frameCounter = 0 /\ visiting = {} /\ shown = [c \in Clients |-> 0]
        /\ \A c \in Clients : /\ send[c] = <<>> /\ hand[c] = 0 /\ peer[c]
                              /\ reader[c] = "none" /\ writer[c] = "none"
    BY DEF Init
  <2>2. \A c \in Clients : Membership(c) = "new" /\ Owed(c) = <<>>
    BY <2>1 DEF Membership, Owed, InHand, Coming
  <2>3. Well = [c \in Clients |-> TRUE]
    BY <2>1 DEF Well, Init
  <2>4. Feed!Init
    BY <2>1, <2>2, <2>3 DEF Feed!Init, Well
  <2>5. PumpInv
    BY <2>1 DEF PumpInv
  <2>6. Registry
    BY <2>1 DEF Registry, Init
  <2> QED
    BY <2>4, <2>5, <2>6
<1>2. PreviewAssumption /\ TypeOK /\ PumpInv /\ [Next]_vars => PumpInv'
  BY PumpStep
<1>3. TypeOK /\ Registry /\ [Next]_vars => Registry'
  BY RegistryStep
<1>4. PreviewAssumption /\ TypeOK /\ Registry /\ PumpInv /\ [Next]_vars
        => [Feed!Next]_(Feed!vars)
  BY FeedStep
<1> QED
  BY <1>1, <1>2, <1>3, <1>4, TypeCorrect, PreviewAssumption, PTL
  DEF Spec, ImplementsLossyBroadcast, Feed!Spec
=============================================================================
