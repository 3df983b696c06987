------------------------------ MODULE Presence ------------------------------
(***************************************************************************)
(* What the signaling service promises about who is online, with no server,*)
(* sockets or messages in it: clients enter once and leave once, and every *)
(* client keeps a list of the others that is allowed to lag behind but     *)
(* never invents a client that has not entered and never forgets one that  *)
(* has not left.  Signaling is shown to implement it.                      *)
(***************************************************************************)
CONSTANT Clients

VARIABLES
  status,   \* status[c]: "new", then "member", then "left"
  view      \* view[c]: the other clients that c believes are online

vars == <<status, view>>

TypeOK ==
  /\ status \in [Clients -> {"new", "member", "left"}]
  /\ view \in [Clients -> SUBSET Clients]

Init ==
  /\ status = [c \in Clients |-> "new"]
  /\ view = [c \in Clients |-> {}]

Enter(c) ==
  /\ status[c] = "new"
  /\ status' = [status EXCEPT ![c] = "member"]
  /\ UNCHANGED view

Leave(c) ==
  /\ status[c] = "member"
  /\ status' = [status EXCEPT ![c] = "left"]
  /\ UNCHANGED view

Entered == {x \in Clients : status[x] # "new"}
Gone    == {x \in Clients : status[x] = "left"}

(* c's list catches up with some of what has happened. *)
Learn(c, known) ==
  /\ status[c] # "new"
  /\ known \ view[c] \subseteq Entered \ {c}
  /\ view[c] \ known \subseteq Gone
  /\ view' = [view EXCEPT ![c] = known]
  /\ UNCHANGED status

Next ==
  \E c \in Clients :
    \/ Enter(c)
    \/ Leave(c)
    \/ \E known \in SUBSET Clients : Learn(c, known)

Spec == Init /\ [][Next]_vars
=============================================================================
