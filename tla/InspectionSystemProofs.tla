------------------------- MODULE InspectionSystemProofs ------------------------
(* Proofs about InspectionSystem, for every set of requests, exports, runs and *)
(* seeds.  Each of the three is proved about by itself, with what it does to   *)
(* the store and what it bears from the others; here they meet.                *)
EXTENDS InspectionSystem, SequenceCounts

S == INSTANCE InspectionServiceProofs
J == INSTANCE InspectionJobsProofs

\* The three invariants over one store.
SystemInv == StoreTypeOK /\ S!ServiceInv /\ J!ExportInv /\ J!BatchInv

\* A worker of an export has written the inspection.
Exported(id) == \E e \in Exporter : worker[e][id] \in {"written", "sent", "ended"}

AcceptedOf(op, id) == S!AcceptedOf(op, id)

\* What is known of an inspection that no export has written: a scheduled one
\* has never been started, whoever is about to complete it has seen it leave
\* "scheduled", whoever is about to start it too late has been overtaken by
\* another Start, and only the second Start can reopen it.
StartedOnce(id) ==
  /\ \A c \in Client : pc[c] = "update" /\ call[c].id = id =>
       /\ call[c].op = "complete" => inspections[id].status # "scheduled"
       /\ call[c].op = "start" /\ inspections[id].status # "scheduled" => AcceptedOf("start", id) # {}
  /\ \A b \in Batch : id \in overdue[b] => inspections[id].status # "scheduled"
  /\ Stored(id) /\ inspections[id].status = "scheduled" =>
       AcceptedOf("start", id) = {} /\ ~inspections[id].stamped
  /\ Stored(id) /\ inspections[id].status = "in_progress" /\ inspections[id].stamped =>
       Cardinality(AcceptedOf("start", id)) >= 2

Races == \A id \in InspectionId : Exported(id) \/ StartedOnce(id)

-------------------------------------------------------------------------------
(* The components composed here are the ones those proofs are about            *)

LEMMA SameSets ==
  /\ \A X : S!IsFiniteSet(X) = IsFiniteSet(X)
  /\ \A X : J!IsFiniteSet(X) = IsFiniteSet(X)
<1>1. \A X : S!IsFiniteSet(X) = IsFiniteSet(X)
  BY DEF S!IsFiniteSet, IsFiniteSet
<1>2. \A X : J!IsFiniteSet(X) = IsFiniteSet(X)
  BY DEF J!IsFiniteSet, IsFiniteSet
<1>3. QED BY <1>1, <1>2

LEMMA SameCounts ==
  /\ \A X : S!Cardinality(X) = Cardinality(X) /\ Service!Cardinality(X) = Cardinality(X)
  /\ \A X : J!Cardinality(X) = Cardinality(X)
  /\ \A X : Export!Cardinality(X) = Cardinality(X) /\ Batches!Cardinality(X) = Cardinality(X)
<1>1. \A X : S!Cardinality(X) = Cardinality(X)
  BY DEF S!Cardinality, Cardinality
<1>2. \A X : Service!Cardinality(X) = Cardinality(X)
  BY DEF Service!Cardinality, Cardinality
<1>3. \A X : J!Cardinality(X) = Cardinality(X)
  BY DEF J!Cardinality, Cardinality
<1>4. \A X : Export!Cardinality(X) = Cardinality(X)
  BY DEF Export!Cardinality, Cardinality
<1>5. \A X : Batches!Cardinality(X) = Cardinality(X)
  BY DEF Batches!Cardinality, Cardinality
<1>6. QED BY <1>1, <1>2, <1>3, <1>4, <1>5

LEMMA SameSeedsS ==
  S!StoreSeeds /\ S!StoreSeedCounter /\ S!StoreTowers /\ S!StoreContexts /\ S!ServiceParameters
<1>1. S!StoreSeeds /\ S!StoreSeedCounter
  BY StoreSeeds, StoreSeedCounter
  DEF S!StoreSeeds, S!StoreSeedCounter, S!InspectionId, InspectionId,
      S!TowerInspection, TowerInspection, S!InspectionStatus, InspectionStatus
<1>2. S!StoreTowers /\ S!StoreContexts /\ S!ServiceParameters
  BY StoreTowers, StoreContexts, SystemContexts, SystemParameters, SameSets
  DEF S!StoreTowers, S!StoreContexts, S!ServiceParameters, S!InspectionId, InspectionId
<1>3. QED BY <1>1, <1>2

LEMMA SameSeedsJ ==
  /\ J!StoreSeeds /\ J!StoreSeedCounter /\ J!StoreTowers /\ J!StoreContexts
  /\ J!ExportRequests /\ J!BatchCalls
<1>1. J!StoreSeeds /\ J!StoreSeedCounter
  BY StoreSeeds, StoreSeedCounter
  DEF J!StoreSeeds, J!StoreSeedCounter, J!InspectionId, InspectionId,
      J!TowerInspection, TowerInspection, J!InspectionStatus, InspectionStatus
<1>2. J!StoreTowers /\ J!StoreContexts /\ J!ExportRequests /\ J!BatchCalls
  BY StoreTowers, StoreContexts, SystemContexts, SystemParameters, SameSets
  DEF J!StoreTowers, J!StoreContexts, J!ExportRequests, J!BatchCalls, J!InspectionId, InspectionId,
      J!InspectionStatus, InspectionStatus
<1>3. QED BY <1>1, <1>2

LEMMA SameStore ==
  /\ S!InspectionId = InspectionId /\ J!InspectionId = InspectionId
  /\ S!AuditKey = AuditKey /\ J!AuditKey = AuditKey
  /\ S!EventType = EventType /\ J!EventType = EventType
  /\ S!TowerInspection = TowerInspection /\ J!TowerInspection = TowerInspection
  /\ S!InspectionStatus = InspectionStatus /\ J!InspectionStatus = InspectionStatus
BY DEF S!InspectionId, J!InspectionId, InspectionId, S!AuditKey, J!AuditKey, AuditKey,
  S!EventType, J!EventType, EventType, S!TowerInspection, J!TowerInspection, TowerInspection,
  S!InspectionStatus, J!InspectionStatus, InspectionStatus

LEMMA SameStoreState ==
  /\ S!StoreTypeOK <=> StoreTypeOK
  /\ J!StoreTypeOK <=> StoreTypeOK
  /\ S!StoreInit <=> StoreInit
  /\ J!StoreInit <=> StoreInit
BY SameStore DEF S!StoreTypeOK, J!StoreTypeOK, StoreTypeOK, S!StoreInit, J!StoreInit, StoreInit

LEMMA SameService ==
  /\ S!ServiceTypeOK <=> Service!ServiceTypeOK
  /\ S!ServiceInit <=> Service!ServiceInit
  /\ S!AuditTrailsRequests <=> Service!AuditTrailsRequests
  /\ \A op, id : S!AcceptedOf(op, id) = Service!AcceptedOf(op, id)
<1>1. /\ S!ServiceTypeOK <=> Service!ServiceTypeOK
      /\ S!ServiceInit <=> Service!ServiceInit
  BY DEF S!ServiceTypeOK, Service!ServiceTypeOK, S!ServiceInit, Service!ServiceInit,
    S!NoCall, Service!NoCall, S!TowerInspection, Service!TowerInspection, S!InspectionStatus, Service!InspectionStatus
<1>2. \A id, e : S!Count(id, e) = Service!Count(id, e)
  BY SameCounts DEF S!Count, Service!Count
<1>3. \A op, id : S!AcceptedOf(op, id) = Service!AcceptedOf(op, id)
  BY DEF S!AcceptedOf, Service!AcceptedOf, S!Accepted, Service!Accepted
<1>4. \A op : S!EventOf(op) = Service!EventOf(op)
  BY DEF S!EventOf, Service!EventOf
<1>5. S!AuditTrailsRequests <=> Service!AuditTrailsRequests
  BY <1>2, <1>3, <1>4, SameCounts DEF S!AuditTrailsRequests, Service!AuditTrailsRequests,
    S!InspectionId, Service!InspectionId
<1>6. QED BY <1>1, <1>3, <1>5

LEMMA SameExport ==
  /\ J!ExportTypeOK <=> Export!ExportTypeOK
  /\ J!ExportInit <=> Export!ExportInit
  /\ J!AuditTrailsExports <=> Export!AuditTrailsExports
<1>1. /\ J!ExportTypeOK <=> Export!ExportTypeOK
      /\ J!ExportInit <=> Export!ExportInit
  BY DEF J!ExportTypeOK, Export!ExportTypeOK, J!ExportInit, Export!ExportInit, J!NoMove, Export!NoMove,
    J!InspectionStatus, Export!InspectionStatus, J!InspectionId, Export!InspectionId,
    J!WorkerState, Export!WorkerState
<1>2. \A id, e : J!Count(id, e) = Export!Count(id, e)
  BY SameCounts DEF J!Count, Export!Count
<1>3. J!AuditTrailsExports <=> Export!AuditTrailsExports
  BY <1>2, SameCounts DEF J!AuditTrailsExports, Export!AuditTrailsExports,
    J!InspectionId, Export!InspectionId
<1>4. QED BY <1>1, <1>3

LEMMA SameBatches ==
  /\ J!BatchTypeOK <=> Batches!BatchTypeOK
  /\ J!BatchInit <=> Batches!BatchInit
  /\ J!AuditTrailsBatches <=> Batches!AuditTrailsBatches
<1>1. /\ J!BatchTypeOK <=> Batches!BatchTypeOK
      /\ J!BatchInit <=> Batches!BatchInit
  BY DEF J!BatchTypeOK, Batches!BatchTypeOK, J!BatchInit, Batches!BatchInit,
    J!InspectionId, Batches!InspectionId
<1>2. \A id, e : J!Count(id, e) = Batches!Count(id, e)
  BY SameCounts DEF J!Count, Batches!Count
<1>3. J!AuditTrailsBatches <=> Batches!AuditTrailsBatches
  BY <1>2, SameCounts DEF J!AuditTrailsBatches, Batches!AuditTrailsBatches,
    J!InspectionId, Batches!InspectionId
<1>4. QED BY <1>1, <1>3

LEMMA SameServiceStep ==
  ASSUME NEW c \in Client,
         Service!PostSchedule(c) \/ Service!PostMove(c) \/ Service!ServiceStep(c) \/ Service!CancelClient(c)
  PROVE  S!ServiceNext
<1>1. \A id : S!FindError(c, id) = Service!FindError(c, id) /\ S!AddError(c, id) = Service!AddError(c, id)
  BY DEF S!FindError, Service!FindError, S!AddError, Service!AddError, S!Stored, Service!Stored
<1>2. S!ReadError(c) = Service!ReadError(c)
  BY <1>1 DEF S!ReadError, Service!ReadError, S!Required, Service!Required
<1>3. \A err : Service!Refuse(c, err) => S!Refuse(c, err)
  BY DEF S!Refuse, Service!Refuse, S!Answer, Service!Answer, S!Goto, Service!Goto, S!NoCall, Service!NoCall,
    S!inspectionStatusForError, Service!inspectionStatusForError
<1>4. Service!PostSchedule(c) => S!PostSchedule(c)
  BY <1>3 DEF S!PostSchedule, Service!PostSchedule, S!InspectionId, Service!InspectionId,
    S!NextDueDateRefused, Service!NextDueDateRefused, S!NewInspectionID, Service!NewInspectionID, S!Goto, Service!Goto
<1>5. Service!PostMove(c) => S!PostMove(c)
  BY DEF S!PostMove, Service!PostMove, S!InspectionId, Service!InspectionId, S!Goto, Service!Goto,
    S!storeVars, Service!storeVars
<1>6. Service!Add(c) => S!Add(c)
  BY <1>1, <1>3 DEF S!Add, Service!Add, S!AddInspection, Service!AddInspection, S!Goto, Service!Goto
<1>7. Service!Get(c) => S!Get(c)
  BY <1>2, <1>3 DEF S!Get, Service!Get, S!Goto, Service!Goto, S!storeVars, Service!storeVars
<1>8. Service!Update(c) => S!Update(c)
  BY <1>1, <1>3 DEF S!Update, Service!Update, S!UpdateInspectionStatus, Service!UpdateInspectionStatus,
    S!Written, Service!Written, S!Target, Service!Target, S!Goto, Service!Goto
<1>9. Service!Audit(c) => S!Audit(c)
  BY DEF S!Audit, Service!Audit, S!AddEvent, Service!AddEvent, S!EventOf, Service!EventOf,
    S!Answer, Service!Answer, S!Goto, Service!Goto
<1>10. Service!Publish(c) => S!Publish(c)
  BY DEF S!Publish, Service!Publish, S!Answer, Service!Answer, S!Goto, Service!Goto, S!storeVars, Service!storeVars
<1>11. Service!CancelClient(c) => S!CancelClient(c)
  BY DEF S!CancelClient, Service!CancelClient, S!serviceVars, Service!serviceVars
<1>12. QED
  BY <1>4, <1>5, <1>6, <1>7, <1>8, <1>9, <1>10, <1>11
  DEF S!Work, Service!Work, S!ServiceStep, Service!ServiceStep, S!ServiceNext

LEMMA SameExportStep ==
  ASSUME Export!ExportNext
  PROVE  J!ExportNext
BY DEF J!ExportNext, Export!ExportNext, J!PostExport, Export!PostExport, J!ExportStep, Export!ExportStep,
  J!List, Export!List, J!Wait, Export!Wait, J!Finalize, Export!Finalize, J!CancelExport, Export!CancelExport,
  J!WorkerStep, Export!WorkerStep, J!Acquire, Export!Acquire, J!Write, Export!Write, J!Send, Export!Send,
  J!Release, Export!Release, J!ExportAnswer, Export!ExportAnswer, J!ExportGoto, Export!ExportGoto,
  J!WorkerGoto, Export!WorkerGoto, J!PoolFull, Export!PoolFull, J!storeVars, Export!storeVars,
  J!exportVars, Export!exportVars, J!InspectionStatus, Export!InspectionStatus,
  J!InspectionId, Export!InspectionId, J!Listed, Export!Listed, J!Stored, Export!Stored,
  J!FindError, Export!FindError, J!UpdateInspectionStatus, Export!UpdateInspectionStatus,
  J!Written, Export!Written, J!AddEvent, Export!AddEvent

LEMMA SameBatchStep ==
  ASSUME Batches!BatchNext
  PROVE  J!BatchNext
BY DEF J!BatchNext, Batches!BatchNext, J!Run, Batches!Run, J!BatchStep, Batches!BatchStep,
  J!Parse, Batches!Parse, J!BatchList, Batches!BatchList, J!Complete, Batches!Complete,
  J!BatchAudit, Batches!BatchAudit, J!Finish, Batches!Finish, J!CancelBatch, Batches!CancelBatch,
  J!Return, Batches!Return, J!BatchGoto, Batches!BatchGoto, J!LeaseFree, Batches!LeaseFree,
  J!ReleaseLease, Batches!ReleaseLease, J!storeVars, Batches!storeVars, J!batchVars, Batches!batchVars,
  J!InspectionStatus, Batches!InspectionStatus, J!InspectionId, Batches!InspectionId,
  J!Listed, Batches!Listed, J!Stored, Batches!Stored, J!Overdue, Batches!Overdue,
  J!FindError, Batches!FindError, J!UpdateInspectionStatus, Batches!UpdateInspectionStatus,
  J!Written, Batches!Written, J!AddEvent, Batches!AddEvent

-------------------------------------------------------------------------------
(* Types and trails: what one component does, the other two bear               *)

LEMMA WrittenType ==
  ASSUME NEW item \in TowerInspection, NEW status \in InspectionStatus
  PROVE  /\ Written(item, status) \in TowerInspection
         /\ Written(item, status).status = status
         /\ Written(item, status).tower = item.tower
         /\ Written(item, status).stamped = ((status = "completed") \/ item.stamped)
BY DEF Written, TowerInspection

LEMMA NotAnInspection == NoInspection \notin TowerInspection
BY StoreSeeds

\* Somebody rewrites the status of a stored inspection, and nothing else.
Rewrites(id, status) ==
  /\ Stored(id) /\ inspections[id] \in TowerInspection /\ status \in InspectionStatus
  /\ inspections' = [inspections EXCEPT ![id] = Written(@, status)]

\* No inspection leaves the store or its tower.
Keeps ==
  \A id \in InspectionId :
    Stored(id) => Stored(id)' /\ inspections'[id].tower = inspections[id].tower

LEMMA RewriteEffect ==
  ASSUME StoreTypeOK, NEW n \in InspectionId, NEW status, Rewrites(n, status)
  PROVE  /\ Keeps
         /\ \A id \in InspectionId : id # n => inspections'[id] = inspections[id]
         /\ inspections'[n].status = status
         /\ inspections'[n].stamped <=> (status = "completed") \/ inspections[n].stamped
<1> DEFINE new == Written(inspections[n], status)
<1>1. /\ new \in TowerInspection /\ new.status = status /\ new.tower = inspections[n].tower
      /\ new.stamped = ((status = "completed") \/ inspections[n].stamped)
      /\ inspections' = [inspections EXCEPT ![n] = new]
  BY WrittenType DEF Rewrites
<1> HIDE DEF new
<1>2. QED BY <1>1, NotAnInspection DEF StoreTypeOK, Keeps, Stored

\* What a step of the exports or of the runs is to the store.
LEMMA ExportStores ==
  ASSUME StoreTypeOK, J!ExportInv, J!ExportNext
  PROVE  /\ \/ UNCHANGED inspections
            \/ \E e \in Exporter, id \in InspectionId :
                 Rewrites(id, move[e].to) /\ worker'[e][id] = "written" /\ move' = move
         /\ UNCHANGED towerAudit \/ \E id \in InspectionId : AddEvent(id, "exported")
         /\ cancelled \subseteq cancelled'
<1>1. /\ UNCHANGED inspections \/ \E e \in Exporter, id \in J!InspectionId : J!Exports(e, id)
      /\ UNCHANGED towerAudit \/ \E id \in J!InspectionId : J!AddEvent(id, "exported")
      /\ cancelled \subseteq cancelled'
  BY SameSeedsJ, SameStoreState, J!ExportEffect
<1>2. \A e, id : J!Exports(e, id) =>
        Rewrites(id, move[e].to) /\ worker'[e][id] = "written" /\ move' = move
  BY SameStore DEF J!Exports, Rewrites, J!Written, Written, J!Stored, Stored
<1>3. \A id : J!AddEvent(id, "exported") => AddEvent(id, "exported")
  BY DEF J!AddEvent, AddEvent
<1>4. QED BY <1>1, <1>2, <1>3, SameStore

LEMMA BatchStores ==
  ASSUME StoreTypeOK, J!BatchInv, J!BatchNext
  PROVE  /\ \/ UNCHANGED inspections
            \/ \E b \in Batch, id \in InspectionId :
                 Rewrites(id, "completed") /\ id \in overdue[b] /\ id \in completed'[b]
         /\ UNCHANGED towerAudit \/ \E t \in Tower : AddEvent(t, "batch_completed")
         /\ cancelled \subseteq cancelled'
         /\ \A b \in Batch : /\ completed[b] \subseteq completed'[b]
                             /\ overdue'[b] \subseteq overdue[b] \cup Listed("in_progress")
<1>1. /\ UNCHANGED inspections \/ \E b \in Batch, id \in J!InspectionId : J!Completes(b, id)
      /\ UNCHANGED towerAudit \/ \E t \in Tower : J!AddEvent(t, "batch_completed")
      /\ cancelled \subseteq cancelled'
      /\ \A b \in Batch : /\ completed[b] \subseteq completed'[b]
                          /\ overdue'[b] \subseteq overdue[b] \cup J!Listed("in_progress")
  BY SameSeedsJ, SameStoreState, J!BatchEffect
<1>2. \A b, id : J!Completes(b, id) =>
        Rewrites(id, "completed") /\ id \in overdue[b] /\ id \in completed'[b]
  BY SameStore DEF J!Completes, Rewrites, J!Written, Written, J!Stored, Stored, InspectionStatus
<1>3. \A t : J!AddEvent(t, "batch_completed") => AddEvent(t, "batch_completed")
  BY DEF J!AddEvent, AddEvent
<1>4. J!Listed("in_progress") = Listed("in_progress")
  BY SameStore DEF J!Listed, Listed, J!Stored, Stored
<1>5. QED BY <1>1, <1>2, <1>3, <1>4, SameStore

LEMMA ServiceStores ==
  ASSUME StoreTypeOK, S!ServiceInv, S!ServiceNext
  PROVE  /\ Keeps
         /\ \/ UNCHANGED towerAudit
            \/ \E id \in InspectionId, event \in {"scheduled", "started", "completed"} : AddEvent(id, event)
         /\ cancelled \ Client \subseteq cancelled'
<1>1. /\ \A id \in S!InspectionId :
           S!Stored(id) => S!Stored(id)' /\ inspections'[id].tower = inspections[id].tower
      /\ \/ UNCHANGED towerAudit
         \/ \E id \in S!InspectionId, event \in {"scheduled", "started", "completed"} : S!AddEvent(id, event)
      /\ cancelled \ Client \subseteq cancelled'
  BY SameSeedsS, SameStoreState, S!ServiceShares
<1>2. Keeps
  BY <1>1, SameStore DEF Keeps, S!Stored, Stored
<1>3. \A id, event : S!AddEvent(id, event) => AddEvent(id, event)
  BY DEF S!AddEvent, AddEvent
<1>4. QED BY <1>1, <1>2, <1>3, SameStore

\* What each bears from the other two.
LEMMA OthersKeep ==
  ASSUME StoreTypeOK, Keeps, NEW events \in SUBSET EventType,
         UNCHANGED towerAudit \/ \E key \in AuditKey, event \in events : AddEvent(key, event)
  PROVE  /\ events \cap {"scheduled", "started", "completed"} = {} /\ S!ServiceInv /\ UNCHANGED serviceVars
              => S!ServiceInv'
         /\ "exported" \notin events /\ J!ExportInv /\ UNCHANGED exportVars
            /\ (\A e \in Exporter : e \in cancelled => e \in cancelled')
              => J!ExportInv'
         /\ "batch_completed" \notin events /\ J!BatchInv /\ UNCHANGED batchVars
              => J!BatchInv'
<1>1. \A key, event : AddEvent(key, event) => S!AddEvent(key, event) /\ J!AddEvent(key, event)
  BY DEF AddEvent, S!AddEvent, J!AddEvent
<1>2. \A id \in InspectionId : Stored(id) => Stored(id)'
  BY DEF Keeps
<1>3. ASSUME events \cap {"scheduled", "started", "completed"} = {}, S!ServiceInv, UNCHANGED serviceVars
      PROVE  S!ServiceInv'
  <2>1. \A id \in S!InspectionId : S!Stored(id) => S!Stored(id)'
    BY <1>2, SameStore DEF S!Stored, Stored
  <2>2. \/ UNCHANGED towerAudit
        \/ \E key \in S!AuditKey, event \in S!EventType \ {"scheduled", "started", "completed"} :
             S!AddEvent(key, event)
    BY <1>1, <1>3, SameStore
  <2>3. UNCHANGED S!serviceVars
    BY <1>3 DEF serviceVars, S!serviceVars
  <2>4. QED BY <1>3, <2>1, <2>2, <2>3, SameSeedsS, SameStoreState, S!ServiceInvOthers
<1>4. ASSUME "exported" \notin events, J!ExportInv, UNCHANGED exportVars,
             \A e \in Exporter : e \in cancelled => e \in cancelled'
      PROVE  J!ExportInv'
  <2>1. \A id \in J!InspectionId : J!Stored(id) => J!Stored(id)'
    BY <1>2, SameStore DEF J!Stored, Stored
  <2>2. \/ UNCHANGED towerAudit
        \/ \E key \in J!AuditKey, event \in J!EventType \ {"exported"} : J!AddEvent(key, event)
    BY <1>1, <1>4, SameStore
  <2>3. UNCHANGED J!exportVars
    BY <1>4 DEF exportVars, J!exportVars
  <2>4. QED BY <1>4, <2>1, <2>2, <2>3, SameSeedsJ, SameStoreState, J!ExportInvOthers
<1>5. ASSUME "batch_completed" \notin events, J!BatchInv, UNCHANGED batchVars
      PROVE  J!BatchInv'
  <2>1. \A id \in J!InspectionId :
          J!Stored(id) => J!Stored(id)' /\ inspections'[id].tower = inspections[id].tower
    BY SameStore DEF Keeps, J!Stored, Stored
  <2>2. \/ UNCHANGED towerAudit
        \/ \E key \in J!AuditKey, event \in J!EventType \ {"batch_completed"} : J!AddEvent(key, event)
    BY <1>1, <1>5, SameStore
  <2>3. UNCHANGED J!batchVars
    BY <1>5 DEF batchVars, J!batchVars
  <2>4. QED BY <1>5, <2>1, <2>2, <2>3, SameSeedsJ, SameStoreState, J!BatchInvOthers
<1>6. QED BY <1>3, <1>4, <1>5

\* A step of the system is a step of one of the three.
LEMMA OneSteps ==
  ASSUME Next
  PROVE  \/ S!ServiceNext /\ UNCHANGED <<exportVars, batchVars>>
         \/ J!ExportNext  /\ UNCHANGED <<serviceVars, batchVars>>
         \/ J!BatchNext   /\ UNCHANGED <<serviceVars, exportVars>>
BY SameServiceStep, SameExportStep, SameBatchStep DEF Next, Service!ServiceNext

LEMMA InitInv == ASSUME Init PROVE SystemInv
BY SameSeedsS, SameSeedsJ, SameStoreState, SameService, SameExport, SameBatches,
   S!InitType, S!ServiceInvInit, J!ExportInvInit, J!BatchInvInit
DEF Init, SystemInv

\* Whoever takes the step, no inspection is lost or moved to another tower.
LEMMA StepKeeps == ASSUME SystemInv, Next PROVE Keeps
<1>1. CASE UNCHANGED inspections
  BY <1>1 DEF Keeps, Stored
<1>2. CASE \E id \in InspectionId : \E status : Rewrites(id, status)
  BY <1>2, RewriteEffect DEF SystemInv
<1>3. CASE S!ServiceNext
  BY <1>3, ServiceStores DEF SystemInv
<1>4. QED BY <1>1, <1>2, <1>3, OneSteps, ExportStores, BatchStores DEF SystemInv

LEMMA NextInv == ASSUME SystemInv, Next PROVE SystemInv'
<1>1. CASE S!ServiceNext /\ UNCHANGED <<exportVars, batchVars>>
  <2>1. StoreTypeOK' /\ S!ServiceInv'
    <3>1. S!StoreTypeOK' /\ S!ServiceInv'
      BY <1>1, SameSeedsS, SameStoreState, S!ServiceInvNext DEF SystemInv
    <3>2. QED BY <3>1, SameStore DEF S!StoreTypeOK, StoreTypeOK
  <2> DEFINE events == {"scheduled", "started", "completed"}
  <2>2. /\ events \in SUBSET EventType /\ "exported" \notin events /\ "batch_completed" \notin events
        /\ UNCHANGED towerAudit \/ \E key \in AuditKey, event \in events : AddEvent(key, event)
    BY <1>1, ServiceStores DEF SystemInv, EventType, AuditKey
  <2>3. \A e \in Exporter : e \in cancelled => e \in cancelled'
    BY <1>1, ServiceStores, SystemContexts DEF SystemInv
  <2>4. J!ExportInv' /\ J!BatchInv'
    BY <1>1, <2>2, <2>3, StepKeeps, OthersKeep DEF SystemInv
  <2>5. QED BY <2>1, <2>4 DEF SystemInv
<1>2. CASE J!ExportNext /\ UNCHANGED <<serviceVars, batchVars>>
  <2>1. StoreTypeOK' /\ J!ExportInv'
    <3>1. J!StoreTypeOK' /\ J!ExportInv'
      BY <1>2, SameSeedsJ, SameStoreState, J!ExportInvNext DEF SystemInv
    <3>2. QED BY <3>1, SameStore DEF J!StoreTypeOK, StoreTypeOK
  <2> DEFINE events == {"exported"}
  <2>2. /\ events \in SUBSET EventType /\ "batch_completed" \notin events
        /\ events \cap {"scheduled", "started", "completed"} = {}
        /\ UNCHANGED towerAudit \/ \E key \in AuditKey, event \in events : AddEvent(key, event)
    BY <1>2, ExportStores DEF SystemInv, EventType, AuditKey
  <2>3. S!ServiceInv' /\ J!BatchInv'
    BY <1>2, <2>2, StepKeeps, OthersKeep DEF SystemInv
  <2>4. QED BY <2>1, <2>3 DEF SystemInv
<1>3. CASE J!BatchNext /\ UNCHANGED <<serviceVars, exportVars>>
  <2>1. StoreTypeOK' /\ J!BatchInv'
    <3>1. J!StoreTypeOK' /\ J!BatchInv'
      BY <1>3, SameSeedsJ, SameStoreState, J!BatchInvNext DEF SystemInv
    <3>2. QED BY <3>1, SameStore DEF J!StoreTypeOK, StoreTypeOK
  <2> DEFINE events == {"batch_completed"}
  <2>2. /\ events \in SUBSET EventType /\ "exported" \notin events
        /\ events \cap {"scheduled", "started", "completed"} = {}
        /\ UNCHANGED towerAudit \/ \E key \in AuditKey, event \in events : AddEvent(key, event)
    BY <1>3, BatchStores DEF SystemInv, EventType, AuditKey
  <2>3. \A e \in Exporter : e \in cancelled => e \in cancelled'
    BY <1>3, BatchStores DEF SystemInv
  <2>4. S!ServiceInv' /\ J!ExportInv'
    BY <1>3, <2>2, <2>3, StepKeeps, OthersKeep DEF SystemInv
  <2>5. QED BY <2>1, <2>4 DEF SystemInv
<1>4. QED BY <1>1, <1>2, <1>3, OneSteps

\* A step that changes nothing is one that each bears from the others.
LEMMA StutterInv == ASSUME SystemInv, UNCHANGED vars PROVE SystemInv'
<1>1. UNCHANGED <<storeVars, serviceVars, exportVars, batchVars>>
  BY DEF vars
<1>2. /\ UNCHANGED <<inspections, inspectionSequence, towerAudit, cancelled>>
      /\ UNCHANGED serviceVars /\ UNCHANGED exportVars /\ UNCHANGED batchVars
  BY <1>1 DEF storeVars
<1>3. StoreTypeOK' /\ Keeps
  BY <1>2 DEF SystemInv, StoreTypeOK, Keeps, Stored
<1>4. {} \in SUBSET EventType
  OBVIOUS
<1>5. QED BY <1>2, <1>3, <1>4, OthersKeep DEF SystemInv

LEMMA SystemInvariant == Spec => []SystemInv
<1>1. Init => SystemInv
  BY InitInv
<1>2. SystemInv /\ [Next]_vars => SystemInv'
  BY NextInv, StutterInv
<1>3. QED BY <1>1, <1>2, PTL DEF Spec

\* Every variable keeps its type, whatever the three do to one another.
THEOREM TypeCorrect == Spec => []TypeOK
<1>1. SystemInv => TypeOK
  BY SameService, SameExport, SameBatches DEF SystemInv, TypeOK, S!ServiceInv, J!ExportInv, J!BatchInv
<1>2. QED BY <1>1, SystemInvariant, PTL

\* Three writers share the audit and none files another's events: every trail
\* holds exactly the events of those who were accepted.
THEOREM TrailsComplete == Spec => []TrailsAreComplete
<1>1. SystemInv => TrailsAreComplete
  BY SameService, SameExport, SameBatches
  DEF SystemInv, TrailsAreComplete, S!ServiceInv, J!ExportInv, J!BatchInv
<1>2. QED BY <1>1, SystemInvariant, PTL

-------------------------------------------------------------------------------
(* Who has written an inspection stays known                                   *)

Ops == {"schedule", "start", "complete"}

\* What a step of the service does to the inspections and to the accepted
\* requests, of which the client c is the only one to change.
ServiceMove(c) ==
  LET id == call[c].id
      op == call[c].op IN
  /\ \A d \in Client : d # c => pc'[d] = pc[d] /\ call'[d] = call[d]
  /\ \/ /\ UNCHANGED inspections
        /\ \A o \in Ops, i \in InspectionId : AcceptedOf(o, i)' = AcceptedOf(o, i)
        /\ pc'[c] = "update" =>
             /\ call'[c] = call[c]
             /\ pc[c] = "update" \/ (Stored(id) /\ inspections[id].status = S!Required(op))
     \/ /\ pc[c] = "add" /\ pc'[c] = "audit" /\ call'[c] = call[c]
        /\ id \in InspectionId /\ op = "schedule" /\ ~Stored(id)
        /\ call[c].item.status = "scheduled" /\ ~call[c].item.stamped
        /\ inspections' = [inspections EXCEPT ![id] = call[c].item]
        /\ \A o \in Ops, i \in InspectionId :
             o # "schedule" => AcceptedOf(o, i)' = AcceptedOf(o, i)
     \/ /\ pc[c] = "update" /\ pc'[c] = "audit" /\ call'[c] = call[c]
        /\ id \in InspectionId /\ op \in {"start", "complete"}
        /\ Rewrites(id, S!Target(op))
        /\ c \notin AcceptedOf(op, id)
        /\ \A o \in Ops, i \in InspectionId :
             AcceptedOf(o, i)' = IF o = op /\ i = id THEN AcceptedOf(o, i) \cup {c} ELSE AcceptedOf(o, i)

LEMMA ServiceMoves ==
  ASSUME SystemInv, S!ServiceNext
  PROVE  \E c \in Client : ServiceMove(c)
<1>1. PICK c \in Client : S!Only(c) /\ S!ServiceEffect(c)
  BY SameSeedsS, SameStoreState, S!StepEffect DEF SystemInv, S!ServiceInv
<1> DEFINE id == call[c].id
           op == call[c].op
<1>2. ASSUME NEW o \in Ops, NEW i \in InspectionId
      PROVE  /\ AcceptedOf(o, i)' = IF (S!Adds(c) \/ S!Updates(c)) /\ op = o /\ id = i
                                    THEN AcceptedOf(o, i) \cup {c} ELSE AcceptedOf(o, i)
             /\ S!Adds(c) \/ S!Updates(c) => c \notin AcceptedOf(o, i)
  BY <1>1, SameSeedsS, SameStore, S!AcceptedStep DEF SystemInv, S!ServiceInv, AcceptedOf, Ops
<1>3. \A d \in Client : d # c => pc'[d] = pc[d] /\ call'[d] = call[d]
  BY <1>1 DEF S!Only
<1>4. S!HandlerOK(c)
  BY DEF SystemInv, S!ServiceInv, S!HandlersOK
<1>5. CASE S!Adds(c)
  <2>1. /\ pc[c] = "add" /\ pc'[c] = "audit" /\ call'[c] = call[c] /\ ~Stored(id)
        /\ inspections' = [inspections EXCEPT ![id] = call[c].item]
    BY <1>5 DEF S!Adds, S!Stored, Stored
  <2>2. /\ id \in InspectionId /\ op = "schedule"
        /\ call[c].item.status = "scheduled" /\ ~call[c].item.stamped
    BY <1>4, <2>1, SameStore DEF S!HandlerOK
  <2>3. \A o \in Ops, i \in InspectionId : o # "schedule" => AcceptedOf(o, i)' = AcceptedOf(o, i)
    BY <1>2, <2>2
  <2>4. ServiceMove(c)
    BY <1>3, <2>1, <2>2, <2>3 DEF ServiceMove
  <2>5. QED BY <2>4
<1>6. CASE S!Updates(c)
  <2>1. /\ pc[c] = "update" /\ pc'[c] = "audit" /\ call'[c] = call[c]
    BY <1>6 DEF S!Updates
  <2>2. id \in InspectionId /\ op \in {"start", "complete"}
    BY <1>4, <2>1, SameStore DEF S!HandlerOK
  <2>3. Rewrites(id, S!Target(op))
    BY <1>6, <2>2, SameStore DEF S!Updates, S!Stored, Stored, Rewrites, S!Target, InspectionStatus,
      S!Written, Written
  <2>4. /\ c \notin AcceptedOf(op, id)
        /\ \A o \in Ops, i \in InspectionId :
             AcceptedOf(o, i)' = IF o = op /\ i = id THEN AcceptedOf(o, i) \cup {c} ELSE AcceptedOf(o, i)
    BY <1>2, <1>6, <2>2 DEF Ops
  <2>5. ServiceMove(c)
    BY <1>3, <2>1, <2>2, <2>3, <2>4 DEF ServiceMove
  <2>6. QED BY <2>5
<1>7. CASE ~S!Adds(c) /\ ~S!Updates(c)
  <2>1. UNCHANGED inspections
    BY <1>1, <1>7 DEF S!ServiceEffect, S!Files, S!Passes
  <2>2. \A o \in Ops, i \in InspectionId : AcceptedOf(o, i)' = AcceptedOf(o, i)
    BY <1>2, <1>7
  <2>3. pc'[c] = "update" =>
          /\ call'[c] = call[c]
          /\ pc[c] = "update" \/ (Stored(id) /\ inspections[id].status = S!Required(op))
    BY <1>1, <1>7 DEF S!ServiceEffect, S!Files, S!Passes, S!Stored, Stored
  <2>4. ServiceMove(c)
    BY <1>3, <2>1, <2>2, <2>3 DEF ServiceMove
  <2>5. QED BY <2>4
<1>8. QED BY <1>5, <1>6, <1>7

\* No one takes back what was accepted, completed or written.
LEMMA AuthorsStay ==
  ASSUME SystemInv, Next
  PROVE  /\ \A o \in {"start", "complete"}, i \in InspectionId : AcceptedOf(o, i) \subseteq AcceptedOf(o, i)'
         /\ \A b \in Batch : completed[b] \subseteq completed'[b]
         /\ \A e \in Exporter, i \in InspectionId : worker[e][i] \in {"written", "sent", "ended"} =>
              worker'[e][i] \in {"written", "sent", "ended"} /\ move'[e] = move[e]
<1>1. \A o \in {"start", "complete"}, i \in InspectionId : AcceptedOf(o, i) \subseteq AcceptedOf(o, i)'
  <2>1. CASE UNCHANGED serviceVars
    BY <2>1 DEF serviceVars, AcceptedOf, S!AcceptedOf, S!Accepted
  <2>2. CASE S!ServiceNext
    <3>1. PICK c \in Client : ServiceMove(c)
      BY <2>2, ServiceMoves
    <3>2. QED BY <3>1 DEF ServiceMove, Ops
  <2>3. QED BY <2>1, <2>2, OneSteps
<1>2. \A b \in Batch : completed[b] \subseteq completed'[b]
  BY OneSteps, BatchStores DEF SystemInv, batchVars
<1>3. ASSUME NEW e \in Exporter, NEW i \in InspectionId, worker[e][i] \in {"written", "sent", "ended"}
      PROVE  worker'[e][i] \in {"written", "sent", "ended"} /\ move'[e] = move[e]
  <2>1. CASE UNCHANGED exportVars
    BY <1>3, <2>1 DEF exportVars
  <2>2. CASE J!ExportNext
    BY <1>3, <2>2, SameSeedsJ, SameStore, SameStoreState, J!WroteKept DEF SystemInv, J!Wrote
  <2>3. QED BY <2>1, <2>2, OneSteps
<1>4. QED BY <1>1, <1>2, <1>3

Author(id) ==
  \/ AcceptedOf("complete", id) # {}
  \/ \E b \in Batch : id \in completed[b]
  \/ \E e \in Exporter :
       move[e].to = "completed" /\ worker[e][id] \in {"written", "sent", "ended"}
  \/ SeedInspections[id] # NoInspection /\ SeedInspections[id].stamped

Authored == \A id \in InspectionId : Stored(id) /\ inspections[id].stamped => Author(id)

LEMMA NextAuthored == ASSUME SystemInv, Authored, Next PROVE Authored'
<1> SUFFICES ASSUME NEW id \in InspectionId, Stored(id)', inspections'[id].stamped
             PROVE  Author(id)'
  BY DEF Authored
<1>1. Author(id) => Author(id)'
  BY AuthorsStay DEF Author
<1>2. CASE inspections'[id] = inspections[id]
  BY <1>1, <1>2 DEF Authored, Stored
<1>3. ASSUME NEW n \in InspectionId, NEW status, Rewrites(n, status), status = "completed" => Author(n)'
      PROVE  Author(id)'
  <2>1. CASE id # n
    BY <1>2, <1>3, <2>1, RewriteEffect DEF SystemInv
  <2>2. CASE id = n /\ status # "completed"
    <3>1. inspections'[n].stamped <=> (status = "completed") \/ inspections[n].stamped
      BY <1>3, RewriteEffect DEF SystemInv
    <3>2. Stored(id) /\ inspections[id].stamped
      BY <1>3, <2>2, <3>1 DEF Rewrites
    <3>3. QED BY <1>1, <3>2 DEF Authored
  <2>3. QED BY <1>3, <2>1, <2>2
<1>4. CASE S!ServiceNext
  <2>1. PICK c \in Client : ServiceMove(c)
    BY <1>4, ServiceMoves
  <2>2. CASE UNCHANGED inspections
    BY <1>2, <2>2
  <2>3. CASE pc[c] = "add" /\ ~UNCHANGED inspections
    <3>1. /\ ~call[c].item.stamped /\ call[c].id \in InspectionId
          /\ inspections' = [inspections EXCEPT ![call[c].id] = call[c].item]
      BY <2>1, <2>3 DEF ServiceMove
    <3>2. id # call[c].id
      BY <3>1 DEF SystemInv, StoreTypeOK
    <3>3. QED BY <1>2, <3>1, <3>2 DEF SystemInv, StoreTypeOK
  <2>4. CASE pc[c] = "update" /\ ~UNCHANGED inspections
    <3>1. PICK n \in InspectionId, op \in {"start", "complete"} : n = call[c].id /\ op = call[c].op
      BY <2>1, <2>4 DEF ServiceMove
    <3>2. Rewrites(n, S!Target(op)) /\ c \in AcceptedOf(op, n)'
      BY <2>1, <2>4, <3>1 DEF ServiceMove, Ops
    <3>3. S!Target(op) = "completed" => Author(n)'
      BY <3>2 DEF S!Target, Author
    <3>4. QED BY <1>3, <3>2, <3>3
  <2>5. QED BY <2>1, <2>2, <2>3, <2>4 DEF ServiceMove
<1>5. CASE J!ExportNext
  <2>1. CASE UNCHANGED inspections
    BY <1>2, <2>1
  <2>2. CASE ~UNCHANGED inspections
    <3>1. PICK e \in Exporter, n \in InspectionId :
            Rewrites(n, move[e].to) /\ worker'[e][n] = "written" /\ move' = move
      BY <1>5, <2>2, ExportStores DEF SystemInv
    <3>2. move[e].to = "completed" => Author(n)'
      BY <3>1 DEF Author
    <3>3. QED BY <1>3, <3>1, <3>2
  <2>3. QED BY <2>1, <2>2
<1>6. CASE J!BatchNext
  <2>1. CASE UNCHANGED inspections
    BY <1>2, <2>1
  <2>2. CASE ~UNCHANGED inspections
    <3>1. PICK b \in Batch, n \in InspectionId : Rewrites(n, "completed") /\ n \in completed'[b]
      BY <1>6, <2>2, BatchStores DEF SystemInv
    <3>2. Author(n)'
      BY <3>1 DEF Author
    <3>3. QED BY <1>3, <3>1, <3>2
  <2>3. QED BY <2>1, <2>2
<1>7. QED BY <1>4, <1>5, <1>6, OneSteps

\* A completion time is never a by-product of a race: somebody whose write was
\* "completed" has been accepted, or the seed had it.
THEOREM StampsHaveAuthors == Spec => []EveryStampHasAnAuthor
<1>1. Authored => EveryStampHasAnAuthor
  BY SameService DEF Authored, Author, AcceptedOf, EveryStampHasAnAuthor
<1>2. Init => Authored
  BY DEF Init, StoreInit, Authored, Author, Stored
<1>3. SystemInv /\ Authored /\ [Next]_vars => Authored'
  <2> SUFFICES ASSUME SystemInv, Authored, [Next]_vars PROVE Authored'
    OBVIOUS
  <2>1. CASE UNCHANGED vars
    BY <2>1 DEF vars, storeVars, serviceVars, exportVars, batchVars, Authored, Author, Stored,
      AcceptedOf, S!AcceptedOf, S!Accepted
  <2>2. QED BY <2>1, NextAuthored
<1>4. QED BY <1>1, <1>2, <1>3, SystemInvariant, PTL DEF Spec

-------------------------------------------------------------------------------
(* Who reopens a completed inspection                                          *)

\* Whoever is about to write the inspection was so before the step, or has read
\* its status in it.
Followed(id) ==
  /\ \A d \in Client : pc'[d] = "update" /\ call'[d].id = id =>
       /\ call'[d] = call[d]
       /\ pc[d] = "update" \/ inspections[id].status = S!Required(call[d].op)
  /\ \A b \in Batch : id \in overdue'[b] => id \in overdue[b] \/ inspections[id].status = "in_progress"

LEMMA StartersFinite == ASSUME NEW id PROVE IsFiniteSet(AcceptedOf("start", id))
BY StoreContexts, SystemContexts, FS_Subset DEF AcceptedOf, S!AcceptedOf

LEMMA FollowedKeeps ==
  ASSUME NEW id \in InspectionId, StartedOnce(id), Followed(id),
         inspections'[id] = inspections[id], AcceptedOf("start", id)' = AcceptedOf("start", id)
  PROVE  StartedOnce(id)'
<1>1. ASSUME NEW c \in Client, pc'[c] = "update", call'[c].id = id
      PROVE  /\ call'[c].op = "complete" => inspections'[id].status # "scheduled"
             /\ call'[c].op = "start" /\ inspections'[id].status # "scheduled" => AcceptedOf("start", id)' # {}
  <2>1. /\ call'[c] = call[c] /\ call[c].id = id
        /\ pc[c] = "update" \/ inspections[id].status = S!Required(call[c].op)
    BY <1>1 DEF Followed
  <2>2. QED BY <2>1 DEF StartedOnce, S!Required
<1>2. \A b \in Batch : id \in overdue'[b] => inspections'[id].status # "scheduled"
  BY DEF Followed, StartedOnce
<1>3. Stored(id)' <=> Stored(id)
  BY DEF Stored
<1>4. QED BY <1>1, <1>2, <1>3 DEF StartedOnce

\* A write of "completed" by someone who has seen the inspection leave "scheduled".
LEMMA CompletionKeeps ==
  ASSUME SystemInv, NEW id \in InspectionId, StartedOnce(id), Followed(id),
         Rewrites(id, "completed"), inspections[id].status # "scheduled",
         AcceptedOf("start", id)' = AcceptedOf("start", id)
  PROVE  StartedOnce(id)'
<1>1. inspections'[id].status = "completed"
  BY RewriteEffect DEF SystemInv
<1>2. ASSUME NEW c \in Client, pc'[c] = "update", call'[c].id = id, call'[c].op = "start"
      PROVE  AcceptedOf("start", id)' # {}
  BY <1>2 DEF Followed, StartedOnce, S!Required
<1>3. QED BY <1>1, <1>2 DEF StartedOnce

\* A Start writes: if it comes too late another one came before it.
LEMMA StartKeeps ==
  ASSUME SystemInv, NEW id \in InspectionId, StartedOnce(id), NEW c \in Client,
         pc[c] = "update", call[c].id = id, call[c].op = "start",
         Rewrites(id, "in_progress"), c \notin AcceptedOf("start", id),
         AcceptedOf("start", id)' = AcceptedOf("start", id) \cup {c}
  PROVE  StartedOnce(id)'
<1>1. /\ inspections'[id].status = "in_progress"
      /\ inspections'[id].stamped <=> inspections[id].stamped
  BY RewriteEffect DEF SystemInv
<1>2. AcceptedOf("start", id)' # {}
  OBVIOUS
<1>3. inspections'[id].stamped => Cardinality(AcceptedOf("start", id))' >= 2
  <2> SUFFICES ASSUME inspections[id].stamped PROVE Cardinality(AcceptedOf("start", id) \cup {c}) >= 2
    BY <1>1
  <2>1. AcceptedOf("start", id) # {}
    BY DEF StartedOnce, Rewrites
  <2>2. /\ Cardinality(AcceptedOf("start", id) \cup {c}) = Cardinality(AcceptedOf("start", id)) + 1
        /\ Cardinality(AcceptedOf("start", id)) \in Nat /\ Cardinality(AcceptedOf("start", id)) # 0
    BY <2>1, StartersFinite, FS_AddElement, FS_CardinalityType, FS_EmptySet
  <2>3. QED BY <2>2
<1>4. QED BY <1>1, <1>2, <1>3 DEF StartedOnce

\* A new inspection: nobody can have started, read or listed it before.
LEMMA AddKeeps ==
  ASSUME SystemInv, NEW id \in InspectionId, NEW c \in Client, ~Stored(id),
         pc'[c] = "audit", inspections'[id].status = "scheduled", ~inspections'[id].stamped,
         \A d \in Client : d # c => pc'[d] = pc[d] /\ call'[d] = call[d],
         AcceptedOf("start", id)' = AcceptedOf("start", id), UNCHANGED overdue
  PROVE  StartedOnce(id)'
<1>1. AcceptedOf("start", id) = {}
  BY SameStore DEF SystemInv, S!ServiceInv, S!HandlersOK, S!HandlerOK, AcceptedOf, S!AcceptedOf, S!Stored, Stored
<1>2. \A d \in Client : pc'[d] = "update" => call'[d].id # id
  BY SameStore DEF SystemInv, S!ServiceInv, S!HandlersOK, S!HandlerOK, S!Stored, Stored
<1>3. \A b \in Batch : id \notin overdue'[b]
  BY SameStore DEF SystemInv, J!BatchInv, J!AllListsOK, J!ListsOK, J!Stored, Stored
<1>4. QED BY <1>1, <1>2, <1>3 DEF StartedOnce

LEMMA ServiceRaces ==
  ASSUME SystemInv, NEW id \in InspectionId, StartedOnce(id), S!ServiceNext, UNCHANGED batchVars
  PROVE  StartedOnce(id)'
<1>1. PICK c \in Client : ServiceMove(c)
  BY ServiceMoves
<1>2. UNCHANGED overdue
  BY DEF batchVars
<1>3. \A d \in Client : d # c => pc'[d] = pc[d] /\ call'[d] = call[d]
  BY <1>1 DEF ServiceMove
<1>4. pc'[c] = "audit" => Followed(id)
  BY <1>2, <1>3 DEF Followed
<1>5. CASE UNCHANGED inspections
  <2>1. /\ AcceptedOf("start", id)' = AcceptedOf("start", id) \/ pc'[c] = "audit"
    BY <1>1, <1>5 DEF ServiceMove, Ops
  <2>2. CASE pc'[c] # "audit"
    <3>1. pc'[c] = "update" =>
            /\ call'[c] = call[c]
            /\ pc[c] = "update" \/ inspections[call[c].id].status = S!Required(call[c].op)
      BY <1>1, <2>2 DEF ServiceMove
    <3>2. Followed(id)
      BY <1>2, <1>3, <3>1 DEF Followed
    <3>3. QED BY <1>5, <2>1, <2>2, <3>2, FollowedKeeps
  <2>3. CASE pc'[c] = "audit" /\ AcceptedOf("start", id)' = AcceptedOf("start", id)
    BY <1>4, <1>5, <2>3, FollowedKeeps
  <2>4. CASE pc[c] = "update" /\ pc'[c] = "audit" /\ AcceptedOf("start", id)' # AcceptedOf("start", id)
    <3>1. /\ call[c].id = id /\ call[c].op = "start" /\ Rewrites(id, "in_progress")
          /\ c \notin AcceptedOf("start", id)
          /\ AcceptedOf("start", id)' = AcceptedOf("start", id) \cup {c}
      BY <1>1, <2>4 DEF ServiceMove, Ops, S!Target
    <3>2. QED BY <2>4, <3>1, StartKeeps
  <2>5. QED BY <1>1, <1>5, <2>1, <2>2, <2>3, <2>4 DEF ServiceMove, Ops
<1>6. CASE pc[c] = "add" /\ ~UNCHANGED inspections
  <2>1. /\ pc'[c] = "audit" /\ call[c].id \in InspectionId /\ ~Stored(call[c].id)
        /\ call[c].item.status = "scheduled" /\ ~call[c].item.stamped
        /\ inspections' = [inspections EXCEPT ![call[c].id] = call[c].item]
        /\ AcceptedOf("start", id)' = AcceptedOf("start", id)
    BY <1>1, <1>6 DEF ServiceMove, Ops
  <2>2. CASE id = call[c].id
    BY <1>2, <1>3, <2>1, <2>2, AddKeeps DEF SystemInv, StoreTypeOK
  <2>3. CASE id # call[c].id
    BY <1>4, <2>1, <2>3, FollowedKeeps DEF SystemInv, StoreTypeOK
  <2>4. QED BY <2>2, <2>3
<1>7. CASE pc[c] = "update" /\ ~UNCHANGED inspections
  <2>1. PICK n \in InspectionId, op \in {"start", "complete"} : n = call[c].id /\ op = call[c].op
    BY <1>1, <1>7 DEF ServiceMove
  <2>2. /\ pc'[c] = "audit" /\ Rewrites(n, S!Target(op)) /\ c \notin AcceptedOf(op, n)
        /\ AcceptedOf("start", id)' =
             IF op = "start" /\ n = id THEN AcceptedOf("start", id) \cup {c} ELSE AcceptedOf("start", id)
    BY <1>1, <1>7, <2>1 DEF ServiceMove, Ops
  <2>3. CASE n # id
    BY <1>4, <2>2, <2>3, RewriteEffect, FollowedKeeps DEF SystemInv
  <2>4. CASE n = id /\ op = "start"
    BY <1>7, <2>1, <2>2, <2>4, StartKeeps DEF S!Target
  <2>5. CASE n = id /\ op = "complete"
    <3>1. inspections[id].status # "scheduled"
      BY <1>7, <2>1, <2>5 DEF StartedOnce
    <3>2. QED BY <1>4, <2>2, <2>5, <3>1, CompletionKeeps DEF S!Target
  <2>6. QED BY <2>3, <2>4, <2>5
<1>8. QED BY <1>1, <1>5, <1>6, <1>7 DEF ServiceMove

LEMMA BatchRaces ==
  ASSUME SystemInv, NEW id \in InspectionId, StartedOnce(id), J!BatchNext, UNCHANGED serviceVars
  PROVE  StartedOnce(id)'
<1>1. UNCHANGED <<pc, call, reply>>
  BY DEF serviceVars
<1>2. AcceptedOf("start", id)' = AcceptedOf("start", id)
  BY <1>1 DEF AcceptedOf, S!AcceptedOf, S!Accepted
<1>3. Followed(id)
  BY <1>1, BatchStores DEF Followed, Listed, SystemInv
<1>4. CASE UNCHANGED inspections
  BY <1>2, <1>3, <1>4, FollowedKeeps
<1>5. CASE ~UNCHANGED inspections
  <2>1. PICK b \in Batch, n \in InspectionId : Rewrites(n, "completed") /\ n \in overdue[b]
    BY <1>5, BatchStores DEF SystemInv
  <2>2. CASE n = id
    BY <1>2, <1>3, <2>1, <2>2, CompletionKeeps DEF StartedOnce
  <2>3. CASE n # id
    BY <1>2, <1>3, <2>1, <2>3, RewriteEffect, FollowedKeeps DEF SystemInv
  <2>4. QED BY <2>2, <2>3
<1>6. QED BY <1>4, <1>5

\* An export that does not write the inspection leaves all that counts as it is.
LEMMA ExportRaces ==
  ASSUME SystemInv, NEW id \in InspectionId, StartedOnce(id), ~Exported(id)', J!ExportNext,
         UNCHANGED <<serviceVars, batchVars>>
  PROVE  StartedOnce(id)'
<1>1. UNCHANGED <<pc, call, reply, overdue>>
  BY DEF serviceVars, batchVars
<1>2. AcceptedOf("start", id)' = AcceptedOf("start", id)
  BY <1>1 DEF AcceptedOf, S!AcceptedOf, S!Accepted
<1>3. Followed(id)
  BY <1>1 DEF Followed
<1>4. inspections'[id] = inspections[id]
  <2>1. CASE UNCHANGED inspections
    BY <2>1
  <2>2. CASE ~UNCHANGED inspections
    <3>1. PICK e \in Exporter, n \in InspectionId :
            Rewrites(n, move[e].to) /\ worker'[e][n] = "written"
      BY <2>2, ExportStores DEF SystemInv
    <3>2. n # id
      BY <3>1 DEF Exported
    <3>3. QED BY <3>1, <3>2, RewriteEffect DEF SystemInv
  <2>3. QED BY <2>1, <2>2
<1>5. QED BY <1>2, <1>3, <1>4, FollowedKeeps

LEMMA NextRaces == ASSUME SystemInv, Races, Next PROVE Races'
<1> SUFFICES ASSUME NEW id \in InspectionId, ~Exported(id)' PROVE StartedOnce(id)'
  BY DEF Races
<1>1. StartedOnce(id)
  BY AuthorsStay DEF Races, Exported
<1>2. QED BY <1>1, OneSteps, ServiceRaces, BatchRaces, ExportRaces

\* Only a race reopens a completed inspection: while no export has written it,
\* one that is in progress again has been started twice.
THEOREM RacesReopen == Spec => []ReopenedByRace
<1>1. Races => ReopenedByRace
  BY SameService DEF Races, StartedOnce, Exported, AcceptedOf, ReopenedByRace
<1>2. Init => Races
  <2> SUFFICES ASSUME Init, NEW id \in InspectionId PROVE StartedOnce(id)
    BY DEF Races
  <2>1. /\ \A c \in Client : pc[c] = "new" /\ reply[c] = 0
        /\ \A b \in Batch : overdue[b] = {}
    BY DEF Init, Service!ServiceInit, Batches!BatchInit
  <2>2. AcceptedOf("start", id) = {}
    BY <2>1 DEF AcceptedOf, S!AcceptedOf, S!Accepted
  <2>3. Stored(id) => ((inspections[id].status = "completed") <=> inspections[id].stamped)
    BY StoreSeeds DEF Init, StoreInit, Stored, TowerInspection
  <2>4. QED BY <2>1, <2>2, <2>3 DEF StartedOnce
<1>3. SystemInv /\ Races /\ [Next]_vars => Races'
  <2> SUFFICES ASSUME SystemInv, Races, [Next]_vars PROVE Races'
    OBVIOUS
  <2>1. CASE UNCHANGED vars
    BY <2>1 DEF vars, storeVars, serviceVars, exportVars, batchVars, Races, Exported, StartedOnce, Stored,
      AcceptedOf, S!AcceptedOf, S!Accepted
  <2>2. QED BY <2>1, NextRaces
<1>4. QED BY <1>1, <1>2, <1>3, SystemInvariant, PTL DEF Spec
===============================================================================
