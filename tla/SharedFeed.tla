------------------------------ MODULE SharedFeed ------------------------------
(***************************************************************************)
(* What a channel that several takers share promises: what is offered is   *)
(* numbered in order; it waits, or is lost, and lost only when Room others *)
(* wait already; and whoever takes takes what has waited longest, which    *)
(* nobody else then has.                                                   *)
(***************************************************************************)
EXTENDS Naturals, FiniteSets

CONSTANTS
  Takers,
  Room      \* how many may wait

VARIABLES
  offered,  \* how many have been offered: the last one's number
  waiting,  \* the set of those that wait
  lost,     \* the set of those that were lost
  had       \* had[t]: the set of those taker t got

vars == <<offered, waiting, lost, had>>

Init ==
  /\ offered = 0
  /\ waiting = {}
  /\ lost = {}
  /\ had = [t \in Takers |-> {}]

Keep ==
  /\ Cardinality(waiting) < Room
  /\ offered' = offered + 1
  /\ waiting' = waiting \cup {offered'}
  /\ UNCHANGED <<lost, had>>

Lose ==
  /\ Cardinality(waiting) = Room
  /\ offered' = offered + 1
  /\ lost' = lost \cup {offered'}
  /\ UNCHANGED <<waiting, had>>

Take(t) ==
  \E n \in waiting :
    /\ \A m \in waiting : n <= m
    /\ waiting' = waiting \ {n}
    /\ had' = [had EXCEPT ![t] = @ \cup {n}]
    /\ UNCHANGED <<offered, lost>>

Next == Keep \/ Lose \/ \E t \in Takers : Take(t)

Spec == Init /\ [][Next]_vars

===============================================================================
