----------------------------- MODULE MCTowerServer -----------------------------
(* A small instance of TowerServer for TLC.                                    *)
EXTENDS TowerServer

CONSTANTS TWR118, NoItem, c1, c2, s1, u1

MCTower == {TWR118}
MCClient == {c1, c2}
MCSubscriber == {s1}
MCStatusClient == {u1}

MCSeed == [id \in {1} |-> [tower |-> TWR118, due |-> 5, status |-> "scheduled", stamped |-> FALSE]]
MCSeedStatus == [t \in MCTower |-> "clear"]
MCDueInDays == {1}
===============================================================================
