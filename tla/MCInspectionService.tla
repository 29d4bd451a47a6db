-------------------------- MODULE MCInspectionService -------------------------
(* A small instance of InspectionService for TLC.                               *)
EXTENDS InspectionService

CONSTANTS TWR118, TWR204, NoItem, c1, c2, c3

MCTower == {TWR118, TWR204}
MCClient3 == {c1, c2, c3}

\* The first two inspections of seedInspections, and room for two more.
MCSeed == [id \in 1..4 |->
  CASE id = 1 -> [tower |-> TWR118, due |-> 10, status |-> "scheduled", stamped |-> FALSE]
    [] id = 2 -> [tower |-> TWR204, due |-> 5, status |-> "in_progress", stamped |-> FALSE]
    [] OTHER  -> NoItem]

MCDueInDays == {0, 30, 366}
===============================================================================
