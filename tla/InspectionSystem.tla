---------------------------- MODULE InspectionSystem --------------------------
(* Service, export and batch over one store, one audit and one counter, as     *)
(* newRootHandler wires the first two: every step of one may fall between any  *)
(* two steps of the others.                                                    *)
EXTENDS InspectionStore

CONSTANTS Client, DueInDays, Exporter, BadStatus, inspectionExportLeaseLimit,
          Batch, Cutoff, NoCutoff

VARIABLES pc, call, reply,
          exportPc, move, worker, tokens, sent, finalized, exportReply,
          batchPc, cutoff, lease, overdue, current, completed, batchResult

Service == INSTANCE InspectionService
Export  == INSTANCE InspectionExport
Batches == INSTANCE InspectionBatch

ASSUME SystemContexts ==
  /\ Client \cap Exporter = {} /\ Client \cap Batch = {} /\ Exporter \cap Batch = {}
  /\ Client \cup Exporter \cup Batch \subseteq Context

\* What each of the three asks of its own parameters.
ASSUME SystemParameters ==
  /\ DueInDays \subseteq Int
  /\ BadStatus \notin InspectionStatus
  /\ inspectionExportLeaseLimit \in Nat \ {0}
  /\ Cutoff \subseteq Int /\ NoCutoff \notin Int

serviceVars == <<pc, call, reply>>
exportVars  == <<exportPc, move, worker, tokens, sent, finalized, exportReply>>
batchVars   == <<batchPc, cutoff, lease, overdue, current, completed, batchResult>>
vars == <<storeVars, serviceVars, exportVars, batchVars>>

Init == StoreInit /\ Service!ServiceInit /\ Export!ExportInit /\ Batches!BatchInit

Next ==
  \/ Service!ServiceNext /\ UNCHANGED <<exportVars, batchVars>>
  \/ Export!ExportNext   /\ UNCHANGED <<serviceVars, batchVars>>
  \/ Batches!BatchNext   /\ UNCHANGED <<serviceVars, exportVars>>

Spec == Init /\ [][Next]_vars

\* Every goroutine is as runnable here as it is alone.
FairSpec ==
  Spec /\ Service!ServiceFairness /\ Export!ExportFairness /\ Batches!BatchFairness

-------------------------------------------------------------------------------
(* Properties                                                                  *)

TypeOK ==
  /\ StoreTypeOK
  /\ Service!ServiceTypeOK
  /\ Export!ExportTypeOK
  /\ Batches!BatchTypeOK

\* Three writers share the audit, and each event is filed under its own kind:
\* an inspection's trail is exactly the accepted requests and the exports that
\* moved it, a tower's exactly the batch completions.
TrailsAreComplete ==
  /\ Service!AuditTrailsRequests
  /\ Export!AuditTrailsExports
  /\ Batches!AuditTrailsBatches

\* A completion time has an author: an accepted Complete, a batch, or a worker
\* of an export to "completed" that wrote.  None is a by-product of a race.
EveryStampHasAnAuthor ==
  \A id \in InspectionId : Stored(id) /\ inspections[id].stamped =>
    \/ Service!AcceptedOf("complete", id) # {}
    \/ \E b \in Batch : id \in completed[b]
    \/ \E e \in Exporter :
         move[e].to = "completed" /\ worker[e][id] \in {"written", "sent", "ended"}
    \/ SeedInspections[id] # NoInspection /\ SeedInspections[id].stamped

\* Only a race reopens a completed inspection: one that is in progress although it
\* was completed has been started twice, or a worker of an export wrote it.  A
\* batch and one Start, in whatever order their steps come, never do.
ReopenedByRace ==
  \A id \in InspectionId :
    Stored(id) /\ inspections[id].status = "in_progress" /\ inspections[id].stamped =>
      \/ Cardinality(Service!AcceptedOf("start", id)) >= 2
      \/ \E e \in Exporter : worker[e][id] \in {"written", "sent", "ended"}

\* Every request is answered, although clients, workers and batch write to what
\* the others have listed.
EveryoneAnswered ==
  /\ Service!EveryClientAnswered
  /\ Export!EveryExportAnswered
  /\ Batches!EveryBatchReturns
===============================================================================
