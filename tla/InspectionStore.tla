---------------------------- MODULE InspectionStore ---------------------------
(* What the inspection handlers, the export and the batch share: the           *)
(* inspections of InspectionStore, the counter of newInspectionID, TowerAudit, *)
(* and the contexts the store's methods look at.  Each operator below is one   *)
(* method, atomic under the mutex it takes.                                    *)
(*                                                                             *)
(* An inspection is named by its number ("ins-%04d").  Region, inspector and   *)
(* findings never influence control; CompletedAt is kept as whether it is set. *)
(* The slice is a function of the number: its order is left out, so whoever    *)
(* walks a listing may meet its inspections in any order.                      *)
EXTENDS Integers, Sequences, FiniteSets

CONSTANTS
  Tower,           \* the towers newInspectionStore is given
  MaxInspections,  \* bound on the numbers newInspectionID hands out
  SeedInspections, \* the inspections newRootHandler adds, by number
  SeedCounter,     \* the number seedCounters starts the counter from
  NoInspection,    \* the value of a number the store does not hold
  Context          \* the contexts of all requests

InspectionId == 1..MaxInspections

InspectionStatus == {"scheduled", "in_progress", "completed", "cancelled"}

\* due is the scheduled day, today being 0.
TowerInspection == [tower : Tower, due : Int, status : InspectionStatus, stamped : BOOLEAN]

ASSUME StoreSeeds ==
  /\ MaxInspections \in Nat
  /\ SeedCounter \in 0..MaxInspections
  /\ NoInspection \notin TowerInspection
  /\ SeedInspections \in [InspectionId -> TowerInspection \cup {NoInspection}]
  /\ \A id \in InspectionId :
       SeedInspections[id] # NoInspection =>
         (SeedInspections[id].status = "completed") = SeedInspections[id].stamped

\* seedCounters leaves the counter at the last seeded number.
ASSUME StoreSeedCounter ==
  \A id \in InspectionId : SeedInspections[id] # NoInspection => id <= SeedCounter

ASSUME StoreTowers == Tower \cap InspectionId = {}

ASSUME StoreContexts == IsFiniteSet(Context)

VARIABLES inspections, inspectionSequence, towerAudit, cancelled

storeVars == <<inspections, inspectionSequence, towerAudit, cancelled>>

\* Schedule, Start, Complete and the export file their events under the
\* inspection, the batch, findings and orders under the tower; TowerAudit.For
\* answers for either kind of key.
AuditKey == InspectionId \cup Tower
EventType == {"scheduled", "started", "completed", "exported", "batch_completed",
              "finding_recorded", "order_generated", "order_assigned", "order_resolved"}

StoreTypeOK ==
  /\ inspections \in [InspectionId -> TowerInspection \cup {NoInspection}]
  /\ inspectionSequence \in 0..MaxInspections
  /\ towerAudit \in [AuditKey -> Seq(EventType)]
  /\ cancelled \subseteq Context

StoreInit ==
  /\ inspections = SeedInspections
  /\ inspectionSequence = SeedCounter
  /\ towerAudit = [key \in AuditKey |-> <<>>]
  /\ cancelled = {}

-------------------------------------------------------------------------------

Stored(id) == inspections[id] # NoInspection

\* newInspectionID: one atomic increment.
NewInspectionID(id) ==
  /\ inspectionSequence < MaxInspections
  /\ id = inspectionSequence + 1
  /\ inspectionSequence' = id

\* The error of AddInspection, GetInspection, UpdateInspectionStatus.
AddError(c, id) ==
  IF c \in cancelled THEN "internal" ELSE IF Stored(id) THEN "conflict" ELSE "ok"

FindError(c, id) ==
  IF c \in cancelled THEN "internal" ELSE IF ~Stored(id) THEN "not_found" ELSE "ok"

\* Mutants: the completion time is set as soon as work begins, or the status is
\* misspelt.
WrittenEarly(item, status) ==
  [item EXCEPT !.status = status, !.stamped = (status # "scheduled") \/ @]
WrittenMisspelt(item, status) ==
  [item EXCEPT !.status = IF status = "completed" THEN "complete" ELSE status]

\* UpdateInspectionStatus writes the status blindly: CompletedAt is set with
\* "completed" and is never cleared.
Written(item, status) ==
  [item EXCEPT !.status = status, !.stamped = (status = "completed") \/ @]

AddInspection(id, item) == inspections' = [inspections EXCEPT ![id] = item]

UpdateInspectionStatus(id, status) ==
  inspections' = [inspections EXCEPT ![id] = Written(@, status)]

\* ListInspections: the inspections a status filter keeps.
Listed(status) == {id \in InspectionId : Stored(id) /\ inspections[id].status = status}

\* Mutant: Add replaces the events under its key.
AddEventOnly(key, event) == towerAudit' = [towerAudit EXCEPT ![key] = <<event>>]

\* TowerAudit.Add.
AddEvent(key, event) == towerAudit' = [towerAudit EXCEPT ![key] = Append(@, event)]

Count(key, event) == Cardinality({i \in DOMAIN towerAudit[key] : towerAudit[key][i] = event})

inspectionStatusForError ==
  [ not_found |-> 404, conflict |-> 409, transition |-> 409,
    invalid   |-> 400, internal |-> 500 ]

===============================================================================
