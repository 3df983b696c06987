----------------------------- MODULE JobService -----------------------------
(***************************************************************************)
(* What a job service with one worker promises: jobs are run one at a      *)
(* time, once each, in exactly the order in which they were accepted, and  *)
(* short of a crash every accepted job stays with the service until it     *)
(* has ended.  A crash loses whatever has not ended, and nothing else.     *)
(***************************************************************************)
EXTENDS Sequences

CONSTANT Jobs

VARIABLES
  state,  \* state[j]: "new", "waiting", "running", "ended" or "lost"
  line    \* the jobs that wait, in the order they were accepted

vars == <<state, line>>

Init ==
  /\ state = [j \in Jobs |-> "new"]
  /\ line = <<>>

Accept(j) ==
  /\ state[j] = "new"
  /\ state' = [state EXCEPT ![j] = "waiting"]
  /\ line' = Append(line, j)

Start ==
  /\ \A j \in Jobs : state[j] # "running"
  /\ line # <<>>
  /\ state' = [state EXCEPT ![Head(line)] = "running"]
  /\ line' = Tail(line)

End(j) ==
  /\ state[j] = "running"
  /\ state' = [state EXCEPT ![j] = "ended"]
  /\ UNCHANGED line

Crash ==
  /\ state' = [j \in Jobs |-> IF state[j] \in {"waiting", "running"} THEN "lost" ELSE state[j]]
  /\ line' = <<>>

Next ==
  \/ \E j \in Jobs : Accept(j) \/ End(j)
  \/ Start
  \/ Crash

Spec == Init /\ [][Next]_vars

=============================================================================
