---------------------------- MODULE PreviewServer ----------------------------
(***************************************************************************)
(* The live preview of the Go virtual studio (pkg/server/server.go): the   *)
(* hub that broadcasts encoded frames to WebSocket clients, and the        *)
(* goroutines of every client.                                             *)
(*                                                                         *)
(* A step is what a goroutine does between two points where another one    *)
(* can be seen: a channel operation, a lock, a call on the connection.     *)
(* broadcastFrames holds clientsMutex for reading while it visits the      *)
(* clients, one send at a time; the map cannot change meanwhile.  The      *)
(* rates updateStats computes and the end of the studio are left out.      *)
(***************************************************************************)
EXTENDS Naturals, Sequences, FiniteSets

CONSTANTS
  Clients,     \* the WebSocket connections ever made
  SendCap,     \* capacity of a client's send channel, 100 in the code
  MaxFrames    \* bound: frames that are broadcast

ASSUME PreviewAssumption ==
  /\ IsFiniteSet(Clients)
  /\ SendCap \in Nat \ {0}
  /\ MaxFrames \in Nat

VARIABLES
  clients,      \* keys of the clients map
  visiting,     \* clients broadcastFrames still has to visit, under RLock
  frameCounter, \* frames taken from frameChan: the last one's number
  send,         \* send[c]: the client's channel
  reader,       \* reader[c]: handleWS, then readPump and its deferred cleanup
  writer,       \* writer[c]: 0: not started; writePump is waiting, or ...
  hand,         \* hand[c]: ... writing this frame (0: none)
  clientCount,  \* clientCount[c]: handleWS's or readPump's local
  active,       \* stats.ActiveClients
  peer,         \* peer[c]: is the browser still there?
  shown         \* history: shown[c]: the last frame the browser got, 0: none

vars == <<clients, visiting, frameCounter, send, reader, writer, hand,
          clientCount, active, peer, shown>>

Frames == 1 .. MaxFrames
Readers == {"none", "registered", "reading", "deleted", "connClosed",
            "sendClosed", "done"}

TypeOK ==
  /\ clients \in SUBSET Clients /\ visiting \in SUBSET Clients
  /\ frameCounter \in 0 .. MaxFrames
  /\ send \in [Clients -> Seq(Frames)]
  /\ \A c \in Clients : Len(send[c]) <= SendCap
  /\ reader \in [Clients -> Readers]
  /\ writer \in [Clients -> {"none", "waiting", "writing", "done"}]
  /\ hand \in [Clients -> 0 .. MaxFrames]
  /\ clientCount \in [Clients -> Nat] /\ active \in Nat
  /\ peer \in [Clients -> BOOLEAN]
  /\ shown \in [Clients -> 0 .. MaxFrames]

Init ==
  /\ clients = {} /\ visiting = {} /\ frameCounter = 0
  /\ send = [c \in Clients |-> <<>>]
  /\ reader = [c \in Clients |-> "none"]
  /\ writer = [c \in Clients |-> "none"]
  /\ hand = [c \in Clients |-> 0]
  /\ clientCount = [c \in Clients |-> 0] /\ active = 0
  /\ peer = [c \in Clients |-> TRUE]
  /\ shown = [c \in Clients |-> 0]

Unlocked == visiting = {}      \* nobody holds clientsMutex
ConnClosed(c) == reader[c] \in {"connClosed", "sendClosed", "done"}
SendClosed(c) == reader[c] \in {"sendClosed", "done"}

writerVars == <<writer, hand, shown>>
hubVars    == <<clients, visiting, frameCounter>>

-----------------------------------------------------------------------------
(* handleWS and readPump.                                                  *)

(* handleWS: the client is put into the map and counted, under the lock. *)
Register(c) ==
  /\ reader[c] = "none"
  /\ Unlocked
  /\ clients' = clients \cup {c}
  /\ clientCount' = [clientCount EXCEPT ![c] = Cardinality(clients')]
  /\ reader' = [reader EXCEPT ![c] = "registered"]
  /\ UNCHANGED <<visiting, frameCounter, send, writerVars, active, peer>>

(* handleWS: the statistics are updated and the pumps started. *)
StartPumps(c) ==
  /\ reader[c] = "registered"
  /\ active' = clientCount[c]
  /\ reader' = [reader EXCEPT ![c] = "reading"]
  /\ writer' = [writer EXCEPT ![c] = "waiting"]
  /\ UNCHANGED <<hubVars, send, hand, clientCount, peer, shown>>

(* Mutant: the connection has no read deadline. *)
ReadFails_NoDeadline(c) == ~ peer[c]

(* ReadMessage fails once the browser is gone, or when its read deadline   *)
(* passes because writePump, which pings it, has returned.                 *)
ReadFails(c) == ~ peer[c] \/ writer[c] = "done"

(* Mutant: the client is deleted without the lock. *)
Unregister_Unlocked(c) ==
  /\ reader[c] = "reading" /\ ReadFails(c)
  /\ clients' = clients \ {c}
  /\ clientCount' = [clientCount EXCEPT ![c] = Cardinality(clients')]
  /\ reader' = [reader EXCEPT ![c] = "deleted"]
  /\ UNCHANGED <<visiting, frameCounter, send, writerVars, active, peer>>

(* readPump's cleanup, under the lock. *)
Unregister(c) ==
  /\ reader[c] = "reading" /\ ReadFails(c)
  /\ Unlocked
  /\ clients' = clients \ {c}
  /\ clientCount' = [clientCount EXCEPT ![c] = Cardinality(clients')]
  /\ reader' = [reader EXCEPT ![c] = "deleted"]
  /\ UNCHANGED <<visiting, frameCounter, send, writerVars, active, peer>>

(* ... conn.Close(), close(send), and the statistics. *)
Cleanup(c) ==
  /\ \/ /\ reader[c] = "deleted"
        /\ reader' = [reader EXCEPT ![c] = "connClosed"]
        /\ UNCHANGED active
     \/ /\ reader[c] = "connClosed"
        /\ reader' = [reader EXCEPT ![c] = "sendClosed"]
        /\ UNCHANGED active
     \/ /\ reader[c] = "sendClosed"
        /\ reader' = [reader EXCEPT ![c] = "done"]
        /\ active' = clientCount[c]
  /\ UNCHANGED <<hubVars, send, writerVars, clientCount, peer>>

-----------------------------------------------------------------------------
(* writePump.                                                              *)

(* A frame is received from the channel; a closed one still delivers what  *)
(* it holds.                                                               *)
TakeMessage(c) ==
  /\ writer[c] = "waiting"
  /\ send[c] # <<>>
  /\ hand' = [hand EXCEPT ![c] = Head(send[c])]
  /\ send' = [send EXCEPT ![c] = Tail(@)]
  /\ writer' = [writer EXCEPT ![c] = "writing"]
  /\ UNCHANGED <<hubVars, reader, clientCount, active, peer, shown>>

(* WriteMessage succeeds; if the browser is gone, the frame is lost in the *)
(* buffers below.                                                          *)
Deliver(c) ==
  /\ writer[c] = "writing"
  /\ ~ ConnClosed(c)
  /\ shown' = IF peer[c] THEN [shown EXCEPT ![c] = hand[c]] ELSE shown
  /\ hand' = [hand EXCEPT ![c] = 0]
  /\ writer' = [writer EXCEPT ![c] = "waiting"]
  /\ UNCHANGED <<hubVars, send, reader, clientCount, active, peer>>

(* WriteMessage fails: the connection is broken or closed, or the browser  *)
(* did not take the frame in 10 seconds.  writePump returns and leaves the *)
(* rest to readPump.                                                       *)
WriteFails(c) ==
  /\ writer[c] = "writing"
  /\ hand' = [hand EXCEPT ![c] = 0]
  /\ writer' = [writer EXCEPT ![c] = "done"]
  /\ UNCHANGED <<hubVars, send, reader, clientCount, active, peer, shown>>

(* The channel is closed and empty, or a ping fails, as it may do once the *)
(* browser is gone and does once the connection is closed.                 *)
WriterReturns(c) ==
  /\ writer[c] = "waiting"
  /\ \/ SendClosed(c) /\ send[c] = <<>>
     \/ ~ peer[c] \/ ConnClosed(c)
  /\ writer' = [writer EXCEPT ![c] = "done"]
  /\ UNCHANGED <<hubVars, send, reader, hand, clientCount, active, peer, shown>>

-----------------------------------------------------------------------------
(* broadcastFrames.                                                        *)

(* A frame is taken from frameChan and the lock for reading.               *)
TakeFrame ==
  /\ Unlocked
  /\ frameCounter < MaxFrames
  /\ frameCounter' = frameCounter + 1
  /\ visiting' = clients
  /\ UNCHANGED <<clients, send, reader, writerVars, clientCount, active, peer>>

(* Mutants: the send waits for room; a visited client may be visited again; *)
(* the capacity of the channel is not respected.                            *)
Broadcast_Waits(c) ==
  /\ c \in visiting
  /\ visiting' = visiting \ {c}
  /\ Len(send[c]) < SendCap
  /\ send' = [send EXCEPT ![c] = Append(@, frameCounter)]
  /\ UNCHANGED <<clients, frameCounter, reader, writerVars, clientCount, active,
                 peer>>

Broadcast_Again(c) ==
  /\ c \in visiting
  /\ visiting' \in {visiting, visiting \ {c}}
  /\ send' = IF Len(send[c]) < SendCap
               THEN [send EXCEPT ![c] = Append(@, frameCounter)] ELSE send
  /\ UNCHANGED <<clients, frameCounter, reader, writerVars, clientCount, active,
                 peer>>

Broadcast_Overfills(c) ==
  /\ c \in visiting
  /\ visiting' = visiting \ {c}
  /\ send' = [send EXCEPT ![c] = Append(@, frameCounter)]
  /\ UNCHANGED <<clients, frameCounter, reader, writerVars, clientCount, active,
                 peer>>

(* The frame is sent to a client, or dropped when its channel is full: the *)
(* hub is the only sender, so there is room when len() said so.            *)
Broadcast(c) ==
  /\ c \in visiting
  /\ visiting' = visiting \ {c}
  /\ send' = IF Len(send[c]) < SendCap
               THEN [send EXCEPT ![c] = Append(@, frameCounter)] ELSE send
  /\ UNCHANGED <<clients, frameCounter, reader, writerVars, clientCount, active,
                 peer>>

-----------------------------------------------------------------------------
(* The environment.                                                        *)

PeerLeaves(c) ==
  /\ reader[c] # "none" /\ peer[c]
  /\ peer' = [peer EXCEPT ![c] = FALSE]
  /\ UNCHANGED <<hubVars, send, reader, writerVars, clientCount, active>>

Next ==
  \/ \E c \in Clients :
       \/ Register(c) \/ StartPumps(c) \/ Unregister(c) \/ Cleanup(c)
       \/ TakeMessage(c) \/ Deliver(c) \/ WriteFails(c) \/ WriterReturns(c)
       \/ Broadcast(c)
       \/ PeerLeaves(c)
  \/ TakeFrame

Spec == Init /\ [][Next]_vars

(* Goroutines run, and a write ends within its deadline, one way or the    *)
(* other.  A pending Lock of an RWMutex keeps new readers out, so that     *)
(* Unregister, enabled between broadcasts again and again, happens.        *)
(* Nothing makes frames come, browsers take them, or browsers leave.       *)
FairSpec ==
  /\ Spec
  /\ \A c \in Clients :
       /\ WF_vars(StartPumps(c)) /\ SF_vars(Unregister(c)) /\ WF_vars(Cleanup(c))
       /\ WF_vars(TakeMessage(c)) /\ WF_vars(Deliver(c) \/ WriteFails(c))
       /\ WF_vars(SendClosed(c) /\ WriterReturns(c))
       /\ WF_vars(Broadcast(c))

-----------------------------------------------------------------------------
(* Properties.                                                             *)

(* The hub never sends on a closed channel, which would panic and end the  *)
(* studio: a client it is about to visit has not been cleaned up, however  *)
(* its disconnection interleaves with the broadcast.                       *)
NoSendOnClosedChannel == \A c \in visiting : ~ SendClosed(c)

InHand(c) == IF hand[c] = 0 THEN <<>> ELSE <<hand[c]>>
Stream(c) == <<shown[c]>> \o InHand(c) \o send[c]

(* A browser gets frames in the order they were encoded and none twice,    *)
(* whatever is dropped on the way (broadcastFrames, writePump).            *)
FramesInOrder ==
  \A c \in Clients : \A i, j \in DOMAIN Stream(c) :
    i < j => Stream(c)[i] < Stream(c)[j]

(* What a viewer is owed: the frame being written to it, those in its      *)
(* channel, and the one the hub is about to send to it.                    *)
Coming(c) == IF c \in visiting THEN <<frameCounter>> ELSE <<>>
Owed(c) == InHand(c) \o send[c] \o Coming(c)
Membership(c) == CASE reader[c] = "none" -> "new"
                   [] reader[c] \in {"registered", "reading"} -> "in"
                   [] OTHER -> "out"

Feed == INSTANCE LossyBroadcast WITH
  Viewers <- Clients, Lag <- SendCap, produced <- frameCounter, seen <- shown,
  member <- [c \in Clients |-> Membership(c)],
  well <- [c \in Clients |-> peer[c] /\ writer[c] # "done"],
  queue <- [c \in Clients |-> Owed(c)]

(* The preview server is a LossyBroadcast: a browser that is there and     *)
(* takes its frames gets every frame of its membership, in order and once, *)
(* except the newest when its channel is full, and is never put out,       *)
(* however the pumps, the hub and other browsers interleave.               *)
ImplementsLossyBroadcast == Feed!Spec

(* A lagging or dead browser holds nobody up: every broadcast gets round   *)
(* all its clients, and so the lock is released.                           *)
BroadcastsEnd == visiting # {} ~> visiting = {}

(* A browser that is gone, or that took no frame in time, leaves the map   *)
(* and its goroutines end.                                                 *)
GoneClientsLeave ==
  \A c \in Clients :
    reader[c] # "none" /\ (~ peer[c] \/ writer[c] = "done")
      ~> c \notin clients /\ reader[c] = "done" /\ writer[c] = "done"
=============================================================================
