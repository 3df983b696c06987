---------------------------- MODULE LossyBroadcast ----------------------------
(***************************************************************************)
(* What a live preview promises its viewers: every frame produced waits    *)
(* for exactly the viewers who are in at that moment, they see their       *)
(* frames in the order of production and none twice, and a frame is left   *)
(* out for a viewer who is well only when more than Lag wait for it: then  *)
(* it is the newest that is left out.  Nobody who is well is put out.      *)
(***************************************************************************)
EXTENDS Naturals, Sequences

CONSTANTS
  Viewers,
  Lag       \* the frames that may wait for a viewer before any is left out

VARIABLES
  produced, \* how many frames there have been; they are numbered from 1
  member,   \* member[v]: "new", "in" or "out"
  well,     \* well[v]: the viewer is there and takes frames
  queue,    \* queue[v]: the frames that wait for the viewer
  seen      \* seen[v]: the last frame the viewer saw, 0: none

vars == <<produced, member, well, queue, seen>>

Init ==
  /\ produced = 0
  /\ member = [v \in Viewers |-> "new"]
  /\ well = [v \in Viewers |-> TRUE]
  /\ queue = [v \in Viewers |-> <<>>]
  /\ seen = [v \in Viewers |-> 0]

Join(v) ==
  /\ member[v] = "new"
  /\ member' = [member EXCEPT ![v] = "in"]
  /\ UNCHANGED <<produced, well, queue, seen>>

PutOut(v) ==
  /\ member[v] = "in" /\ ~ well[v]
  /\ member' = [member EXCEPT ![v] = "out"]
  /\ UNCHANGED <<produced, well, queue, seen>>

Produce ==
  /\ produced' = produced + 1
  /\ queue' = [v \in Viewers |-> IF member[v] = "in" THEN Append(queue[v], produced')
                                                     ELSE queue[v]]
  /\ UNCHANGED <<member, well, seen>>

LeaveOut(v) ==
  /\ Len(queue[v]) > Lag
  /\ queue' = [queue EXCEPT ![v] = SubSeq(@, 1, Len(@) - 1)]
  /\ UNCHANGED <<produced, member, well, seen>>

Show(v) ==
  /\ well[v] /\ queue[v] # <<>>
  /\ seen' = [seen EXCEPT ![v] = Head(queue[v])]
  /\ queue' = [queue EXCEPT ![v] = Tail(@)]
  /\ UNCHANGED <<produced, member, well>>

(* The viewer goes, perhaps while a frame is on the way, which is then     *)
(* lost, as are all that follow.                                           *)
Sicken(v) ==
  /\ well[v]
  /\ well' = [well EXCEPT ![v] = FALSE]
  /\ \/ UNCHANGED queue
     \/ queue[v] # <<>> /\ queue' = [queue EXCEPT ![v] = Tail(@)]
  /\ UNCHANGED <<produced, member, seen>>

Lose(v) ==
  /\ ~ well[v] /\ queue[v] # <<>>
  /\ queue' = [queue EXCEPT ![v] = Tail(@)]
  /\ UNCHANGED <<produced, member, well, seen>>

Next ==
  \/ \E v \in Viewers :
       Join(v) \/ PutOut(v) \/ LeaveOut(v) \/ Show(v) \/ Sicken(v) \/ Lose(v)
  \/ Produce

Spec == Init /\ [][Next]_vars

===============================================================================
