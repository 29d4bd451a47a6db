----------------------------- MODULE MCTowerReads ------------------------------
(* A small instance of TowerReads for TLC.                                     *)
EXTENDS TowerReads, TLC

CONSTANTS TWR118, TWR301, NoItem, otherTower, r1

MCTower == {TWR118, TWR301}
MCReader == {r1}

\* TWR-301 is one high finding short of level "high"; the survey of TWR-118 is
\* out of range.
MCTowerInfo == (TWR118 :> [corrosion |-> -1, wind |-> 34]) @@ (TWR301 :> [corrosion |-> 7, wind |-> 71])
MCSeed == [id \in 1..2 |->
  IF id = 1 THEN [tower |-> TWR118, due |-> -1, status |-> "scheduled", stamped |-> FALSE] ELSE NoItem]

\* Two seeded findings and room for two more, high ones.
MCFindings == [n \in 1..4 |->
  CASE n = 1 -> [id |-> 1, tower |-> otherTower, severity |-> "unlisted"]
    [] n = 2 -> [id |-> 2, tower |-> TWR301, severity |-> "medium"]
    [] OTHER -> NoItem]
MCNewFindings == { [tower |-> TWR301, severity |-> "high"] }

\* With 16 bits and pages of 200, page 165 wraps to a negative offset and page
\* 8193 back to the first item.
MCFilters == { [tower |-> "", severity |-> "", status |-> ""],
               [tower |-> TWR301, severity |-> "high", status |-> "scheduled"] }
MCPages == {3, 165, 8193}
MCSizes == {0, 2, 1000}
===============================================================================
