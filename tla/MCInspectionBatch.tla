--------------------------- MODULE MCInspectionBatch --------------------------
(* Small instances of InspectionBatch for TLC.                                 *)
EXTENDS InspectionBatch

CONSTANTS TWR118, TWR204, NoItem, noCutoff, b1, b2, b3

MCTower == {TWR118, TWR204}
MCBatch3 == {b1, b2, b3}

\* Three inspections in progress on two towers, due on different days, and one
\* scheduled that no batch may touch; cutoffs on a due day, a day after one, and after all.
MCSeed == [id \in 1..4 |->
  [ tower   |-> IF id = 2 THEN TWR204 ELSE TWR118,
    due     |-> 5 * id,
    status  |-> IF id = 4 THEN "scheduled" ELSE "in_progress",
    stamped |-> FALSE ]]
MCCutoff == {5, 11, 30}
===============================================================================
