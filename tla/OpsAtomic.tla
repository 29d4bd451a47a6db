------------------------------- MODULE OpsAtomic ------------------------------
(* What the operations records promise: each request is decided once, in one   *)
(* step.  An accepted creation stores a record under a free name; an accepted  *)
(* transition moves a stored record along the transition table and increments  *)
(* its revision; a refused request leaves every record alone.                  *)
EXTENDS OpsModel

VARIABLES items, outcome

atomicVars == <<items, outcome>>

Init ==
  /\ items = Seed
  /\ outcome = [p \in Request |-> "pending"]

Decide(p, how) ==
  /\ outcome[p] = "pending"
  /\ outcome' = [outcome EXCEPT ![p] = how]

Create(p) ==
  \E id \in RecordId, status \in StatusText :
    /\ items[id] = NoRecord
    /\ items' = [items EXCEPT ![id] = [status |-> status, revision |-> 1]]
    /\ Decide(p, "accepted")

Transition(p) ==
  \E id \in RecordId, target \in OpsStatus :
    /\ items[id] # NoRecord
    /\ CanMove(items[id].status, target)
    /\ items' = [items EXCEPT ![id] = [status |-> target, revision |-> @.revision + 1]]
    /\ Decide(p, "accepted")

Refuse(p) ==
  /\ Decide(p, "refused")
  /\ UNCHANGED items

Next == \E p \in Request : Create(p) \/ Transition(p) \/ Refuse(p)

Spec == Init /\ [][Next]_atomicVars
===============================================================================
