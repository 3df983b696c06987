----------------------------- MODULE CommandLife -----------------------------
(***************************************************************************)
(* What giving commands and waiting for them promises: a command that is   *)
(* taken is pending until it ends, and ends once; one that is not taken    *)
(* never ends.  Functions wait inside each other, and only the innermost   *)
(* stops waiting: a firm one when its command has ended, unless waiting    *)
(* may fail.                                                               *)
(***************************************************************************)
EXTENDS Naturals, Sequences

CONSTANTS
  Cmds,
  MayFail,  \* may a function give up waiting?
  MayInsist \* may a function wait for a command that was not taken?

VARIABLES
  state,    \* state[c]: "new", "pending", "ended" or "refused"
  waiting,  \* the functions that wait, the innermost last: [cmd, firm]
  left      \* the commands taken for a function that does not wait

vars == <<state, waiting, left>>

Init ==
  /\ state = [c \in Cmds |-> "new"]
  /\ waiting = <<>>
  /\ left = {}

Outer == SubSeq(waiting, 1, Len(waiting) - 1)

Becomes(c, s) == state[c] = "new" /\ state' = [state EXCEPT ![c] = s]

End(C) ==
  /\ \A c \in C : state[c] = "pending"
  /\ state' = [c \in Cmds |-> IF c \in C THEN "ended" ELSE state[c]]

Returns ==
  /\ waiting # <<>>
  /\ LET f == waiting[Len(waiting)]
     IN f.firm => MayFail \/ state'[f.cmd] = "ended"

(* A command that is waited for. *)
Order(c, firm) ==
  /\ Becomes(c, "pending") \/ (MayInsist /\ Becomes(c, "refused"))
  /\ waiting' = Append(waiting, [cmd |-> c, firm |-> firm])
  /\ UNCHANGED left

(* A function returns, and the one that called it orders at once. *)
OrderNext(c, firm) ==
  /\ Becomes(c, "pending") \/ (MayInsist /\ Becomes(c, "refused"))
  /\ Returns
  /\ waiting' = Append(Outer, [cmd |-> c, firm |-> firm])
  /\ UNCHANGED left

(* A command that is not waited for: it may end at once. *)
Fire(c) ==
  /\ \/ Becomes(c, "pending") /\ left' = left \cup {c}
     \/ (Becomes(c, "refused") \/ Becomes(c, "ended")) /\ UNCHANGED left
  /\ UNCHANGED waiting

Complete(C) == End(C) /\ UNCHANGED <<waiting, left>>

(* A function returns; what it does last may end commands. *)
Return(C) ==
  /\ End(C) /\ Returns
  /\ waiting' = Outer
  /\ UNCHANGED left

Next ==
  \/ \E c \in Cmds, firm \in BOOLEAN : Order(c, firm) \/ OrderNext(c, firm)
  \/ \E c \in Cmds : Fire(c)
  \/ \E C \in SUBSET Cmds : Complete(C) \/ Return(C)

Spec == Init /\ [][Next]_vars

===============================================================================
