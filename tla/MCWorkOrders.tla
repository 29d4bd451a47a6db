----------------------------- MODULE MCWorkOrders -----------------------------
(* Small instances of WorkOrders for TLC; the inspections stay out of them.    *)
EXTENDS WorkOrders, TLC

CONSTANTS TWR118, TWR301, NoItem, noFinding, noOrder, c1, c2, c3, c4

MCTower == {TWR118, TWR301}
MCClient4 == {c1, c2, c3, c4}
Symmetry4 == Permutations(MCClient4)

MCNoInspections == [id \in {} |-> NoItem]

\* The high finding of seedFindings, which has no order, and room for two more.
MCSeedFindings == [f \in 1..3 |->
  IF f = 1 THEN [tower |-> TWR301, severity |-> "high"] ELSE noFinding]
===============================================================================
