----------------------------- MODULE MCOpsRecords -----------------------------
(* Small instances of OpsRecords for TLC.                                      *)
EXTENDS OpsRecords, TLC

CONSTANTS blank, ops0001, ops001, OPS001, NoOpsRecord, p1, p2, p3

MCRequest3 == {p1, p2, p3}
MCRequest2 == {p1, p2}
Symmetry3 == Permutations(MCRequest3)

\* The name of seedOpsRecords, the first generated name and a client's
\* capitalised spelling of that name.
MCRecordId == {blank, ops0001, ops001}
MCSpelling == MCRecordId \cup {OPS001}
MCNormal == [id \in MCSpelling |-> IF id = OPS001 THEN ops001 ELSE id]
MCGenerated == <<ops001>>

\* seedOpsRecords: one record is active at revision 1.
MCSeed == [id \in MCRecordId |->
             IF id = ops0001 THEN [status |-> "active", revision |-> 1] ELSE NoOpsRecord]

MCAnyExpectation == {0, 1}
MCVersioned == {1, 2}
MCUnversioned == {0}
===============================================================================
