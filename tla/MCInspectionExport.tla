--------------------------- MODULE MCInspectionExport -------------------------
(* Small instances of InspectionExport for TLC.                                *)
EXTENDS InspectionExport, TLC

CONSTANTS TWR118, NoItem, e1, e2, badStatus

MCTower == {TWR118}
MCExporter2 == {e1, e2}
MCExporter1 == {e1}
Symmetry2 == Permutations(MCExporter2)

Item(status) == [tower |-> TWR118, due |-> 10, status |-> status, stamped |-> status = "completed"]

\* Two scheduled inspections and one under way: with a pool of two, one export
\* fits and two exports contend.
MCSeed3 == [id \in 1..3 |-> Item(IF id = 3 THEN "in_progress" ELSE "scheduled")]

\* One inspection more than the pool of four has tokens.
MCSeed5 == [id \in 1..5 |-> Item("scheduled")]
===============================================================================
