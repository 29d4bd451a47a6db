---------------------------- MODULE InspectionBatch ---------------------------
(* TowerBatchProcessor.Run: complete every overdue inspection in progress, one *)
(* after the other, under a lease that admits one run at a time.  Nothing in   *)
(* the repository calls newTowerBatchProcessor yet: a run is whoever will.     *)
EXTENDS InspectionStore

CONSTANTS
  Batch,   \* the calls of Run a behaviour may contain
  Cutoff,  \* the cutoffs they are called with, as days
  NoCutoff \* a cutoff that does not parse

ASSUME BatchCalls ==
  /\ Batch \subseteq Context
  /\ Cutoff \subseteq Int
  /\ NoCutoff \notin Int

VARIABLES
  batchPc,      \* where each run stands
  cutoff,       \* the cutoff it was given
  lease,        \* the occupancy of TowerBatchProcessor.lease
  overdue,      \* the listed inspections the loop has not come to yet
  current,      \* the inspection the loop is at, 0 for none
  completed,    \* the ids it has completed
  batchResult   \* "none", nil as "ok", or the error it returned

batchVars == <<batchPc, cutoff, lease, overdue, current, completed, batchResult>>

BatchTypeOK ==
  /\ batchPc \in [Batch -> {"new", "parse", "list", "loop", "audit", "done"}]
  /\ cutoff \in [Batch -> Cutoff \cup {NoCutoff}]
  /\ lease \in {0, 1}
  /\ overdue \in [Batch -> SUBSET InspectionId]
  /\ current \in [Batch -> 0..MaxInspections]
  /\ completed \in [Batch -> SUBSET InspectionId]
  /\ batchResult \in [Batch -> {"none", "ok", "conflict", "invalid", "not_found", "internal"}]

BatchInit ==
  /\ batchPc = [b \in Batch |-> "new"]
  /\ cutoff = [b \in Batch |-> NoCutoff]
  /\ lease = 0
  /\ overdue = [b \in Batch |-> {}]
  /\ current = [b \in Batch |-> 0]
  /\ completed = [b \in Batch |-> {}]
  /\ batchResult = [b \in Batch |-> "none"]

BatchGoto(b, label) == batchPc' = [batchPc EXCEPT ![b] = label]

Return(b, result) ==
  /\ BatchGoto(b, "done")
  /\ batchResult' = [batchResult EXCEPT ![b] = result]

\* Mutant: nobody looks whether the lease is taken.
LeaseIgnored == TRUE

\* Every return after acquireLease gives the lease back first.
ReleaseLease == lease' = 0

LeaseFree == lease = 0

\* Mutant: the day before the cutoff does not count.
OverdueLate(id, day) == inspections[id].due + 1 < day

\* TowerPlanner.Overdue, for an inspection that is in progress.
Overdue(id, day) == inspections[id].due < day

-------------------------------------------------------------------------------

\* acquireLease does not wait: a second run is refused.
Run(b) ==
  \E day \in Cutoff \cup {NoCutoff} :
    /\ batchPc[b] = "new"
    /\ \/ /\ ~LeaseFree
          /\ Return(b, "conflict")
          /\ UNCHANGED <<lease, cutoff>>
       \/ /\ LeaseFree
          /\ lease' = 1
          /\ cutoff' = [cutoff EXCEPT ![b] = day]
          /\ BatchGoto(b, "parse")
          /\ UNCHANGED batchResult
    /\ UNCHANGED <<storeVars, overdue, current, completed>>

Parse(b) ==
  /\ batchPc[b] = "parse"
  /\ \/ /\ cutoff[b] = NoCutoff
        /\ ReleaseLease
        /\ Return(b, "invalid")
     \/ /\ cutoff[b] # NoCutoff
        /\ BatchGoto(b, "list")
        /\ UNCHANGED <<lease, batchResult>>
  /\ UNCHANGED <<storeVars, cutoff, overdue, current, completed>>

BatchList(b) ==
  /\ batchPc[b] = "list"
  /\ \/ /\ b \in cancelled
        /\ ReleaseLease
        /\ Return(b, "internal")
        /\ UNCHANGED overdue
     \/ /\ b \notin cancelled
        /\ overdue' = [overdue EXCEPT ![b] = {id \in Listed("in_progress") : Overdue(id, cutoff[b])}]
        /\ BatchGoto(b, "loop")
        /\ UNCHANGED <<lease, batchResult>>
  /\ UNCHANGED <<storeVars, cutoff, current, completed>>

\* One turn of the loop up to the store: an error ends the run with what it has
\* completed so far.
Complete(b, id) ==
  /\ batchPc[b] = "loop"
  /\ id \in overdue[b]
  /\ \/ /\ FindError(b, id) # "ok"
        /\ ReleaseLease
        /\ Return(b, FindError(b, id))
        /\ UNCHANGED <<inspections, overdue, current, completed>>
     \/ /\ FindError(b, id) = "ok"
        /\ UpdateInspectionStatus(id, "completed")
        /\ overdue' = [overdue EXCEPT ![b] = @ \ {id}]
        /\ current' = [current EXCEPT ![b] = id]
        /\ completed' = [completed EXCEPT ![b] = @ \cup {id}]
        /\ BatchGoto(b, "audit")
        /\ UNCHANGED <<lease, batchResult>>
  /\ UNCHANGED <<inspectionSequence, towerAudit, cancelled, cutoff>>

\* The event goes under the tower, not under the inspection.
BatchAudit(b) ==
  /\ batchPc[b] = "audit"
  /\ AddEvent(inspections[current[b]].tower, "batch_completed")
  /\ current' = [current EXCEPT ![b] = 0]
  /\ BatchGoto(b, "loop")
  /\ UNCHANGED <<inspections, inspectionSequence, cancelled, cutoff, lease, overdue, completed, batchResult>>

Finish(b) ==
  /\ batchPc[b] = "loop"
  /\ overdue[b] = {}
  /\ ReleaseLease
  /\ Return(b, "ok")
  /\ UNCHANGED <<storeVars, cutoff, overdue, current, completed>>

CancelBatch(b) ==
  /\ batchPc[b] \in {"parse", "list", "loop", "audit"}
  /\ b \notin cancelled
  /\ cancelled' = cancelled \cup {b}
  /\ UNCHANGED <<inspections, inspectionSequence, towerAudit, batchVars>>

BatchStep(b) ==
  \/ Parse(b) \/ BatchList(b) \/ BatchAudit(b) \/ Finish(b)
  \/ \E id \in InspectionId : Complete(b, id)

BatchNext == \E b \in Batch : Run(b) \/ BatchStep(b) \/ CancelBatch(b)

BatchSpecInit == StoreInit /\ BatchInit
BatchSpec == BatchSpecInit /\ [][BatchNext]_<<storeVars, batchVars>>

\* A run never waits for anyone: its lease is refused, not waited for.
BatchFairness == \A b \in Batch : WF_<<storeVars, batchVars>>(BatchStep(b))
FairBatchSpec == BatchSpec /\ BatchFairness

-------------------------------------------------------------------------------
(* Properties                                                                  *)

BatchSpecTypeOK == StoreTypeOK /\ BatchTypeOK

Running == {b \in Batch : batchPc[b] \notin {"new", "done"}}

\* The lease is taken exactly while a run is under way, and one run at a time
\* is: no return path keeps the lease, and none gives back another run's.
LeaseIsExclusive == Cardinality(Running) = lease

\* "Run completes every in-progress inspection whose scheduled date is before
\* the cutoff": a run that returns no error leaves none behind.
NoneLeftOverdue ==
  \A b \in Batch : batchResult[b] = "ok" =>
    \A id \in Listed("in_progress") : inspections[id].due >= cutoff[b]

\* The batch files one event under a tower for each of its inspections that a
\* run completed, less the one whose event is about to be filed.
AuditTrailsBatches ==
  \A t \in Tower :
    Count(t, "batch_completed") =
      Cardinality({run \in Batch \X InspectionId :
                     LET b == run[1]  id == run[2]
                     IN  id \in completed[b] /\ id # current[b] /\ inspections[id].tower = t})

\* Every run that has begun returns, and so gives the lease back.
EveryBatchReturns == \A b \in Batch : batchPc[b] # "new" ~> batchResult[b] # "none"
===============================================================================
