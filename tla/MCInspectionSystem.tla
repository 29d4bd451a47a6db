-------------------------- MODULE MCInspectionSystem --------------------------
(* Small instances of InspectionSystem for TLC.                                *)
EXTENDS InspectionSystem

CONSTANTS TWR118, NoItem, badStatus, noCutoff, c1, e1, b1

MCTower == {TWR118}
MCContext == {c1, e1, b1}
MCClient1 == {c1}
MCExporter1 == {e1}
MCBatch1 == {b1}

MCDueInDays == {0, 1}
MCCutoff == {10}

\* One scheduled and one overdue inspection in progress, and room for one more.
MCSeed == [id \in 1..3 |->
  IF id = 3 THEN NoItem
  ELSE [tower |-> TWR118, due |-> 5,
        status |-> IF id = 1 THEN "scheduled" ELSE "in_progress", stamped |-> FALSE]]
===============================================================================
