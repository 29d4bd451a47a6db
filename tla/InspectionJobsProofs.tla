-------------------------- MODULE InspectionJobsProofs -------------------------
(* Proofs about the two jobs that change many inspections at once, each by     *)
(* itself: InspectionExport, for every set of exports, seeds and towers, and   *)
(* for every capacity of the token pool; InspectionBatch, for every set of     *)
(* runs and cutoffs.                                                           *)
EXTENDS InspectionExport, InspectionBatch, SequenceCounts

exportSpecVars == <<storeVars, exportVars>>
batchSpecVars  == <<storeVars, batchVars>>

-------------------------------------------------------------------------------
(* The store                                                                 *)

\* UpdateInspectionStatus keeps an inspection an inspection.
LEMMA WrittenType ==
  ASSUME NEW item \in TowerInspection, NEW status \in InspectionStatus
  PROVE  /\ Written(item, status) \in TowerInspection
         /\ Written(item, status).status = status
         /\ Written(item, status).due = item.due
         /\ Written(item, status).tower = item.tower
BY DEF Written, TowerInspection

LEMMA NotAnInspection == NoInspection \notin TowerInspection
BY StoreSeeds

\* TowerAudit.Add adds one to the count of its key and event and to no other.
LEMMA AddEventCount ==
  ASSUME StoreTypeOK, NEW key \in AuditKey, NEW event \in EventType, AddEvent(key, event),
         NEW k \in AuditKey, NEW e
  PROVE  Count(k, e)' = IF k = key /\ e = event THEN Count(k, e) + 1 ELSE Count(k, e)
<1>1. towerAudit[key] \in Seq(EventType)
  BY DEF StoreTypeOK
<1>2. towerAudit'[k] = IF k = key THEN Append(towerAudit[k], event) ELSE towerAudit[k]
  BY DEF StoreTypeOK, AddEvent
<1>3. Count(k, e)' = Cardinality(Places(towerAudit'[k], e)) /\ Count(k, e) = Cardinality(Places(towerAudit[k], e))
  BY DEF Count, Places
<1>4. CASE k = key
  BY <1>1, <1>2, <1>3, <1>4, AppendCount
<1>5. CASE k # key
  BY <1>2, <1>3, <1>5
<1>6. QED BY <1>4, <1>5

-------------------------------------------------------------------------------
(* Exports: what a handler and its workers know                              *)

Active == {"waiting"} \cup Holding

\* A handler's goroutine: it has no workers before it has listed, none is left
\* at work once it is past the wait, and it answers once, with all ids audited.
HandlerOK(e) ==
  /\ exportPc[e] \in {"new", "list"} => \A id \in InspectionId : worker[e][id] = "none"
  /\ exportPc[e] = "list" => move[e].to \in InspectionStatus
  /\ (exportReply[e] = 0) = (exportPc[e] # "done")
  /\ exportReply[e] = 200 => finalized[e] = Len(sent[e])

\* A worker: its inspection is stored, it has a status to write, the handler
\* waits while it is at work, and only a cancelled export makes it fail.
WorkerOK(e, id) ==
  /\ worker[e][id] # "none" => Stored(id) /\ move[e].to \in InspectionStatus
  /\ worker[e][id] \in Active => exportPc[e] = "wait"
  /\ worker[e][id] = "failing" => e \in cancelled

ExportsOK == \A e \in Exporter : HandlerOK(e) /\ \A id \in InspectionId : WorkerOK(e, id)

-------------------------------------------------------------------------------
(* Lemmas about the sets the properties count                                  *)

LEMMA ExportersFinite == IsFiniteSet(Exporter) /\ IsFiniteSet(InspectionId)
<1>1. IsFiniteSet(Exporter)
  BY ExportRequests, StoreContexts, FS_Subset
<1>2. IsFiniteSet(InspectionId)
  BY StoreSeeds, FS_Interval DEF InspectionId
<1>3. QED BY <1>1, <1>2

LEMMA WorkersInFinite ==
  ASSUME NEW states
  PROVE  IsFiniteSet(WorkersIn(states)) /\ Cardinality(WorkersIn(states)) \in Nat
<1>1. IsFiniteSet(Exporter \X InspectionId)
  BY ExportersFinite, FS_Product
<1>2. WorkersIn(states) \in SUBSET (Exporter \X InspectionId)
  BY DEF WorkersIn
<1>3. IsFiniteSet(WorkersIn(states))
  BY <1>1, <1>2, FS_Subset
<1>4. QED BY <1>3, FS_CardinalityType

LEMMA WorkersFinite ==
  ASSUME NEW e, NEW states
  PROVE  IsFiniteSet(Workers(e, states)) /\ Cardinality(Workers(e, states)) \in Nat
<1>1. Workers(e, states) \in SUBSET InspectionId
  BY DEF Workers
<1>2. IsFiniteSet(Workers(e, states))
  BY <1>1, ExportersFinite, FS_Subset
<1>3. QED BY <1>2, FS_CardinalityType

\* One worker changes its state and no other does.
LEMMA OneWorkerMoves ==
  ASSUME ExportSpecTypeOK, NEW e \in Exporter, NEW id \in InspectionId, NEW state \in WorkerState,
         WorkerGoto(e, id, state)
  PROVE  /\ worker' \in [Exporter -> [InspectionId -> WorkerState]]
         /\ \A f \in Exporter, n \in InspectionId :
              worker'[f][n] = IF f = e /\ n = id THEN state ELSE worker[f][n]
BY DEF ExportSpecTypeOK, ExportTypeOK, WorkerGoto

\* It then enters or leaves the workers that are in some of the states.
LEMMA WorkersInMove ==
  ASSUME ExportSpecTypeOK, NEW e \in Exporter, NEW id \in InspectionId, NEW state \in WorkerState,
         WorkerGoto(e, id, state), NEW states
  PROVE  WorkersIn(states)' = IF state \in states
                              THEN WorkersIn(states) \cup {<<e, id>>}
                              ELSE WorkersIn(states) \ {<<e, id>>}
<1>1. \A w \in Exporter \X InspectionId :
        /\ w = <<w[1], w[2]>> /\ w[1] \in Exporter /\ w[2] \in InspectionId
        /\ worker'[w[1]][w[2]] = IF w = <<e, id>> THEN state ELSE worker[w[1]][w[2]]
  <2> SUFFICES ASSUME NEW f \in Exporter, NEW n \in InspectionId
               PROVE  worker'[f][n] = IF <<f, n>> = <<e, id>> THEN state ELSE worker[f][n]
    OBVIOUS
  <2>1. QED BY OneWorkerMoves
<1>2. WorkersIn(states)' = {w \in Exporter \X InspectionId : worker'[w[1]][w[2]] \in states}
  BY DEF WorkersIn
<1>3. <<e, id>> \in Exporter \X InspectionId
  OBVIOUS
<1>4. QED BY <1>1, <1>2, <1>3 DEF WorkersIn

LEMMA WorkersMove ==
  ASSUME ExportSpecTypeOK, NEW e \in Exporter, NEW id \in InspectionId, NEW state \in WorkerState,
         WorkerGoto(e, id, state), NEW states
  PROVE  /\ Workers(e, states)' = IF state \in states
                                  THEN Workers(e, states) \cup {id}
                                  ELSE Workers(e, states) \ {id}
         /\ \A f \in Exporter : f # e => Workers(f, states)' = Workers(f, states)
BY OneWorkerMoves DEF Workers

\* List gives a worker that waits to some of the inspections of its own export.
LEMMA ListStarts ==
  ASSUME ExportSpecTypeOK, ExportsOK, NEW e \in Exporter, List(e)
  PROVE  \A f \in Exporter, n \in InspectionId :
           \/ worker'[f][n] = worker[f][n]
           \/ worker[f][n] = "none" /\ worker'[f][n] = "waiting"
<1>1. CASE worker' = worker
  BY <1>1
<1>2. CASE worker' # worker
  <2> DEFINE new == [id \in InspectionId |->
                       IF id \in Listed(move[e].from) THEN "waiting" ELSE "none"]
  <2>1. worker' = [worker EXCEPT ![e] = new]
    BY <1>2 DEF List
  <2>2. \A n \in InspectionId : new[n] \in {"none", "waiting"} /\ worker[e][n] = "none"
    BY DEF List, ExportsOK, HandlerOK
  <2> HIDE DEF new
  <2>3. worker \in [Exporter -> [InspectionId -> WorkerState]]
    BY DEF ExportSpecTypeOK, ExportTypeOK
  <2>4. \A f \in Exporter : worker'[f] = IF f = e THEN new ELSE worker[f]
    BY <2>1, <2>3
  <2>5. QED BY <2>2, <2>4
<1>3. QED BY <1>1, <1>2

-------------------------------------------------------------------------------
(* Types and tokens: the pool's occupancy stays in its range because it counts *)
(* the workers that hold a token.                                              *)

LEMMA ExportInitType == ExportSpecInit => ExportSpecTypeOK /\ ExportsOK /\ TokensAreHeld
<1> SUFFICES ASSUME ExportSpecInit PROVE ExportSpecTypeOK /\ ExportsOK /\ TokensAreHeld
  OBVIOUS
<1>1. StoreTypeOK
  BY StoreSeeds DEF ExportSpecInit, StoreInit, StoreTypeOK
<1>2. ExportTypeOK
  BY ExportRequests DEF ExportSpecInit, ExportInit, ExportTypeOK, WorkerState, NoMove
<1>3. ExportsOK
  BY DEF ExportSpecInit, ExportInit, ExportsOK, HandlerOK, WorkerOK, Active, Holding
<1>4. Holders = {}
  BY DEF ExportSpecInit, ExportInit, Holders, WorkersIn, Holding
<1>5. TokensAreHeld
  BY <1>4, FS_EmptySet DEF ExportSpecInit, ExportInit, TokensAreHeld
<1>6. QED BY <1>1, <1>2, <1>3, <1>5 DEF ExportSpecTypeOK

\* Steps that leave the workers alone leave the holders alone.
LEMMA SameHolders ==
  ASSUME TokensAreHeld, worker' = worker, tokens' = tokens
  PROVE  TokensAreHeld'
BY DEF TokensAreHeld, Holders, WorkersIn

LEMMA PostExportType ==
  ASSUME ExportSpecTypeOK, ExportsOK, TokensAreHeld, NEW e \in Exporter, PostExport(e)
  PROVE  ExportSpecTypeOK' /\ ExportsOK' /\ TokensAreHeld'
<1>1. PICK from, to \in InspectionStatus \cup {BadStatus} : PostExport(e)!(from, to)
  BY DEF PostExport
<1>2. exportPc[e] = "new" /\ UNCHANGED <<storeVars, worker, tokens, sent, finalized>>
  BY <1>1
<1>3. TokensAreHeld'
  BY <1>2, SameHolders
<1>4. CASE BadStatus \in {from, to} \/ from = to
  <2>1. /\ exportPc' = [exportPc EXCEPT ![e] = "done"]
        /\ exportReply' = [exportReply EXCEPT ![e] = 500]
        /\ move' = move
    BY <1>1, <1>4 DEF ExportAnswer, ExportGoto
  <2>2. ExportSpecTypeOK'
    BY <1>2, <2>1 DEF ExportSpecTypeOK, StoreTypeOK, ExportTypeOK, storeVars
  <2>3. ExportsOK'
    BY <1>2, <2>1 DEF ExportSpecTypeOK, ExportTypeOK, ExportsOK, HandlerOK, WorkerOK, Active, Holding, Stored,
         storeVars
  <2>4. QED BY <1>3, <2>2, <2>3
<1>5. CASE BadStatus \notin {from, to} /\ from # to
  <2> DEFINE new == [from |-> from, to |-> to]
  <2>1. /\ move' = [move EXCEPT ![e] = new]
        /\ exportPc' = [exportPc EXCEPT ![e] = "list"]
        /\ exportReply' = exportReply
    BY <1>1, <1>5 DEF ExportGoto
  <2>2. new.to \in InspectionStatus
        /\ new \in [from : InspectionStatus \cup {BadStatus}, to : InspectionStatus \cup {BadStatus}]
    BY <1>5
  <2> HIDE DEF new
  <2>3. ExportSpecTypeOK'
    BY <1>2, <2>1, <2>2 DEF ExportSpecTypeOK, StoreTypeOK, ExportTypeOK, storeVars
  <2>4. ExportsOK'
    BY <1>2, <2>1, <2>2 DEF ExportSpecTypeOK, ExportTypeOK, ExportsOK, HandlerOK, WorkerOK, Active, Holding,
         Stored, storeVars
  <2>5. QED BY <1>3, <2>3, <2>4
<1>6. QED BY <1>1, <1>4, <1>5

LEMMA ListType ==
  ASSUME ExportSpecTypeOK, ExportsOK, TokensAreHeld, NEW e \in Exporter, List(e)
  PROVE  ExportSpecTypeOK' /\ ExportsOK' /\ TokensAreHeld'
<1>1. exportPc[e] = "list" /\ UNCHANGED <<storeVars, move, tokens, sent, finalized>>
  BY DEF List
<1>2. CASE e \in cancelled
  <2>1. /\ exportPc' = [exportPc EXCEPT ![e] = "done"]
        /\ exportReply' = [exportReply EXCEPT ![e] = 500]
        /\ worker' = worker
    BY <1>2 DEF List, ExportAnswer, ExportGoto
  <2>2. ExportSpecTypeOK'
    BY <1>1, <2>1 DEF ExportSpecTypeOK, StoreTypeOK, ExportTypeOK, storeVars
  <2>3. ExportsOK'
    BY <1>1, <2>1 DEF ExportSpecTypeOK, ExportTypeOK, ExportsOK, HandlerOK, WorkerOK, Active, Holding, Stored,
         storeVars
  <2>4. QED BY <1>1, <2>1, <2>2, <2>3, SameHolders
<1>3. CASE e \notin cancelled
  <2> DEFINE new == [id \in InspectionId |->
                       IF id \in Listed(move[e].from) THEN "waiting" ELSE "none"]
  <2>1. /\ worker' = [worker EXCEPT ![e] = new]
        /\ exportPc' = [exportPc EXCEPT ![e] = "wait"]
        /\ exportReply' = exportReply
    BY <1>3 DEF List, ExportGoto
  <2>2. /\ new \in [InspectionId -> WorkerState]
        /\ \A id \in InspectionId : new[id] = "none" \/ (new[id] = "waiting" /\ Stored(id))
    BY DEF WorkerState, Listed
  <2> HIDE DEF new
  <2>3. ExportSpecTypeOK'
    BY <1>1, <2>1, <2>2 DEF ExportSpecTypeOK, StoreTypeOK, ExportTypeOK, storeVars
  <2>4. ExportsOK'
    BY <1>1, <2>1, <2>2 DEF ExportSpecTypeOK, ExportTypeOK, ExportsOK, HandlerOK, WorkerOK, Active, Holding,
         Stored, storeVars
  <2>5. \A w \in Exporter \X InspectionId :
          worker[w[1]][w[2]] \in Holding <=> worker'[w[1]][w[2]] \in Holding
    BY <1>1, <2>1, <2>2 DEF ExportSpecTypeOK, ExportTypeOK, ExportsOK, HandlerOK, Holding
  <2>6. Holders' = Holders
    BY <2>5 DEF Holders, WorkersIn
  <2>7. QED BY <1>1, <2>3, <2>4, <2>6 DEF TokensAreHeld
<1>4. QED BY <1>2, <1>3

LEMMA WaitType ==
  ASSUME ExportSpecTypeOK, ExportsOK, TokensAreHeld, NEW e \in Exporter, Wait(e)
  PROVE  ExportSpecTypeOK' /\ ExportsOK' /\ TokensAreHeld'
<1>1. /\ exportPc[e] = "wait"
      /\ exportPc' = [exportPc EXCEPT ![e] = "finalize"]
      /\ \A id \in InspectionId : worker[e][id] \notin Active
      /\ UNCHANGED <<storeVars, move, worker, tokens, sent, finalized, exportReply>>
  BY DEF Wait, ExportGoto, Active, Holding
<1>2. ExportSpecTypeOK'
  BY <1>1 DEF ExportSpecTypeOK, StoreTypeOK, ExportTypeOK, storeVars
<1>3. ExportsOK'
  BY <1>1 DEF ExportSpecTypeOK, ExportTypeOK, ExportsOK, HandlerOK, WorkerOK, Stored, storeVars
<1>4. QED BY <1>1, <1>2, <1>3, SameHolders

LEMMA FinalizeType ==
  ASSUME ExportSpecTypeOK, ExportsOK, TokensAreHeld, NEW e \in Exporter, Finalize(e)
  PROVE  ExportSpecTypeOK' /\ ExportsOK' /\ TokensAreHeld'
<1>1. /\ exportPc[e] = "finalize"
      /\ UNCHANGED <<inspections, inspectionSequence, cancelled, move, worker, tokens, sent>>
  BY DEF Finalize
<1>2. TokensAreHeld'
  BY <1>1, SameHolders
<1>3. CASE finalized[e] < Len(sent[e])
  <2> DEFINE id == sent[e][finalized[e] + 1]
  <2>1. id \in AuditKey
    <3>1. sent[e] \in Seq(InspectionId) /\ finalized[e] + 1 \in 1..Len(sent[e])
      BY <1>3 DEF ExportSpecTypeOK, ExportTypeOK
    <3>2. QED BY <3>1, ElementOfSeq DEF AuditKey
  <2>2. /\ towerAudit' = [towerAudit EXCEPT ![id] = Append(@, "exported")]
        /\ finalized' = [finalized EXCEPT ![e] = @ + 1]
        /\ UNCHANGED <<exportPc, exportReply>>
    BY <1>3 DEF Finalize, AddEvent
  <2> HIDE DEF id
  <2>3. ExportSpecTypeOK'
    BY <1>1, <2>1, <2>2 DEF ExportSpecTypeOK, StoreTypeOK, ExportTypeOK, EventType
  <2>4. ExportsOK'
    BY <1>1, <2>2 DEF ExportSpecTypeOK, ExportTypeOK, ExportsOK, HandlerOK, WorkerOK, Stored
  <2>5. QED BY <1>2, <2>3, <2>4
<1>4. CASE ~(finalized[e] < Len(sent[e]))
  <2>1. /\ finalized[e] = Len(sent[e])
        /\ exportPc' = [exportPc EXCEPT ![e] = "done"]
        /\ exportReply' = [exportReply EXCEPT ![e] = 200]
        /\ UNCHANGED <<towerAudit, finalized>>
    BY <1>4 DEF Finalize, ExportAnswer, ExportGoto
  <2>2. ExportSpecTypeOK'
    BY <1>1, <2>1 DEF ExportSpecTypeOK, StoreTypeOK, ExportTypeOK
  <2>3. ExportsOK'
    BY <1>1, <2>1 DEF ExportSpecTypeOK, ExportTypeOK, ExportsOK, HandlerOK, WorkerOK, Stored
  <2>4. QED BY <1>2, <2>2, <2>3
<1>5. QED BY <1>3, <1>4

\* What a worker's step does to its own state, to the handlers' and to the pool.
LEMMA WorkerStepType ==
  ASSUME ExportSpecTypeOK, ExportsOK, TokensAreHeld, NEW e \in Exporter, NEW id \in InspectionId,
         NEW state \in WorkerState \ {"none"}, WorkerGoto(e, id, state),
         worker[e][id] \in Active,
         state = "failing" => e \in cancelled,
         StoreTypeOK', \A n \in InspectionId : Stored(n) => Stored(n)',
         sent' = sent \/ sent' = [sent EXCEPT ![e] = Append(@, id)],
         UNCHANGED <<exportPc, move, finalized, exportReply, cancelled>>,
         CASE state \in Holding /\ worker[e][id] \notin Holding ->
                tokens < inspectionExportLeaseLimit /\ tokens' = tokens + 1
           [] state \notin Holding /\ worker[e][id] \in Holding -> tokens' = tokens - 1
           [] OTHER -> tokens' = tokens
  PROVE  ExportSpecTypeOK' /\ ExportsOK' /\ TokensAreHeld'
<1>1. /\ worker' \in [Exporter -> [InspectionId -> WorkerState]]
      /\ \A f \in Exporter, n \in InspectionId :
           worker'[f][n] = IF f = e /\ n = id THEN state ELSE worker[f][n]
  BY OneWorkerMoves
<1>2. Holders' = IF state \in Holding THEN Holders \cup {<<e, id>>} ELSE Holders \ {<<e, id>>}
  BY WorkersInMove DEF Holders
<1>3. <<e, id>> \in Holders <=> worker[e][id] \in Holding
  BY DEF Holders, WorkersIn
<1>4. IsFiniteSet(Holders) /\ Cardinality(Holders) \in Nat /\ tokens = Cardinality(Holders)
  BY WorkersInFinite DEF Holders, TokensAreHeld
<1>5. TokensAreHeld' /\ tokens' \in 0..inspectionExportLeaseLimit
  <2>0. tokens \in 0..inspectionExportLeaseLimit /\ inspectionExportLeaseLimit \in Nat
    BY ExportRequests DEF ExportSpecTypeOK, ExportTypeOK
  <2>1. CASE state \in Holding /\ worker[e][id] \notin Holding
    <3>1. Cardinality(Holders') = Cardinality(Holders) + 1
      BY <1>2, <1>3, <1>4, <2>1, FS_AddElement
    <3>2. QED BY <1>4, <2>0, <2>1, <3>1 DEF TokensAreHeld
  <2>2. CASE state \notin Holding /\ worker[e][id] \in Holding
    <3>1. Cardinality(Holders') = Cardinality(Holders) - 1
      BY <1>2, <1>3, <1>4, <2>2, FS_RemoveElement
    <3>2. Holders # {}
      BY <1>3, <2>2
    <3>3. Cardinality(Holders) # 0
      BY <1>4, <3>2, FS_EmptySet
    <3>4. tokens' = tokens - 1
      BY <2>2
    <3>5. QED BY <1>4, <2>0, <3>1, <3>3, <3>4 DEF TokensAreHeld
  <2>3. CASE (state \in Holding) = (worker[e][id] \in Holding)
    <3>1. Holders' = Holders
      BY <1>2, <1>3, <2>3
    <3>2. tokens' = tokens
      BY <2>3
    <3>3. QED BY <2>0, <3>1, <3>2 DEF TokensAreHeld
  <2>4. QED BY <2>1, <2>2, <2>3
<1>6. ExportSpecTypeOK'
  <2>1. sent' \in [Exporter -> Seq(InspectionId)]
    <3>1. sent \in [Exporter -> Seq(InspectionId)] /\ sent[e] \in Seq(InspectionId)
      BY DEF ExportSpecTypeOK, ExportTypeOK
    <3>2. Append(sent[e], id) \in Seq(InspectionId)
      BY <3>1, AppendProperties
    <3>3. QED BY <3>1, <3>2
  <2>2. QED BY <1>1, <1>5, <2>1 DEF ExportSpecTypeOK, ExportTypeOK
<1>7. ExportsOK'
  <2> SUFFICES ASSUME NEW f \in Exporter PROVE HandlerOK(f)' /\ \A n \in InspectionId : WorkerOK(f, n)'
    BY DEF ExportsOK
  <2>1. exportPc[e] = "wait" /\ Stored(id) /\ move[e].to \in InspectionStatus
    BY DEF ExportsOK, WorkerOK, Active, Holding
  <2>2. exportReply[f] = 200 => f # e
    BY <2>1 DEF ExportsOK, HandlerOK
  <2>3. f # e => sent'[f] = sent[f]
    BY DEF ExportSpecTypeOK, ExportTypeOK
  <2>4. HandlerOK(f)'
    BY <1>1, <2>1, <2>2, <2>3 DEF ExportsOK, HandlerOK
  <2>5. ASSUME NEW n \in InspectionId PROVE WorkerOK(f, n)'
    BY <1>1, <2>1 DEF ExportsOK, WorkerOK
  <2>6. QED BY <2>4, <2>5
<1>8. QED BY <1>5, <1>6, <1>7

LEMMA WorkerType ==
  ASSUME ExportSpecTypeOK, ExportsOK, TokensAreHeld, NEW e \in Exporter, NEW id \in InspectionId,
         WorkerStep(e, id)
  PROVE  ExportSpecTypeOK' /\ ExportsOK' /\ TokensAreHeld'
<1>1. CASE Acquire(e, id)
  <2>1. StoreTypeOK' /\ \A n \in InspectionId : Stored(n) => Stored(n)'
    BY <1>1 DEF Acquire, ExportSpecTypeOK, StoreTypeOK, Stored, storeVars
  <2>2. /\ worker[e][id] = "waiting"
        /\ UNCHANGED <<exportPc, move, sent, finalized, exportReply, cancelled>>
    BY <1>1 DEF Acquire, storeVars
  <2>3. CASE PoolFull /\ WorkerGoto(e, id, "lost") /\ tokens' = tokens
    BY <2>1, <2>2, <2>3, WorkerStepType DEF Active, Holding, WorkerState
  <2>4. CASE ~PoolFull /\ WorkerGoto(e, id, "holding") /\ tokens' = tokens + 1
    <3>1. tokens < inspectionExportLeaseLimit
      BY <2>4, ExportRequests DEF PoolFull, ExportSpecTypeOK, ExportTypeOK
    <3>2. QED BY <2>1, <2>2, <2>4, <3>1, WorkerStepType DEF Active, Holding, WorkerState
  <2>5. QED BY <1>1, <2>3, <2>4 DEF Acquire
<1>2. CASE Write(e, id)
  <2>1. /\ worker[e][id] = "holding"
        /\ UNCHANGED <<inspectionSequence, towerAudit, cancelled, exportPc, move, tokens, sent,
                       finalized, exportReply>>
    BY <1>2 DEF Write
  <2>2. Stored(id) /\ move[e].to \in InspectionStatus
    BY <2>1 DEF ExportsOK, WorkerOK
  <2>3. CASE FindError(e, id) # "ok"
    <3>1. inspections' = inspections /\ WorkerGoto(e, id, "failing")
      BY <1>2, <2>3 DEF Write
    <3>2. e \in cancelled
      BY <2>2, <2>3 DEF FindError
    <3>3. StoreTypeOK' /\ \A n \in InspectionId : Stored(n) => Stored(n)'
      BY <2>1, <3>1 DEF ExportSpecTypeOK, StoreTypeOK, Stored
    <3>4. QED BY <2>1, <3>1, <3>2, <3>3, WorkerStepType DEF Active, Holding, WorkerState
  <2>4. CASE FindError(e, id) = "ok"
    <3> DEFINE new == Written(inspections[id], move[e].to)
    <3>1. inspections' = [inspections EXCEPT ![id] = new] /\ WorkerGoto(e, id, "written")
      BY <1>2, <2>4 DEF Write, UpdateInspectionStatus
    <3>2. new \in TowerInspection
      BY <2>2, WrittenType DEF ExportSpecTypeOK, StoreTypeOK, Stored
    <3> HIDE DEF new
    <3>3. StoreTypeOK' /\ \A n \in InspectionId : Stored(n) => Stored(n)'
      BY <2>1, <3>1, <3>2, NotAnInspection DEF ExportSpecTypeOK, StoreTypeOK, Stored
    <3>4. QED BY <2>1, <3>1, <3>3, WorkerStepType DEF Active, Holding, WorkerState
  <2>5. QED BY <2>3, <2>4
<1>3. CASE Send(e, id)
  <2>1. /\ worker[e][id] = "written"
        /\ WorkerGoto(e, id, "sent")
        /\ sent' = [sent EXCEPT ![e] = Append(@, id)]
        /\ UNCHANGED <<exportPc, move, tokens, finalized, exportReply, cancelled>>
    BY <1>3 DEF Send, storeVars
  <2>2. StoreTypeOK' /\ \A n \in InspectionId : Stored(n) => Stored(n)'
    BY <1>3 DEF Send, ExportSpecTypeOK, StoreTypeOK, Stored, storeVars
  <2>3. QED BY <2>1, <2>2, WorkerStepType DEF Active, Holding, WorkerState
<1>4. CASE Release(e, id)
  <2>1. StoreTypeOK' /\ \A n \in InspectionId : Stored(n) => Stored(n)'
    BY <1>4 DEF Release, ExportSpecTypeOK, StoreTypeOK, Stored, storeVars
  <2>2. PICK state \in {"ended", "lost"} :
          /\ worker[e][id] \in {"sent", "failing"}
          /\ WorkerGoto(e, id, state)
          /\ tokens' = tokens - 1
          /\ UNCHANGED <<exportPc, move, sent, finalized, exportReply, cancelled>>
    BY <1>4 DEF Release, storeVars
  <2>3. QED BY <2>1, <2>2, WorkerStepType DEF Active, Holding, WorkerState
<1>5. QED BY <1>1, <1>2, <1>3, <1>4 DEF WorkerStep

LEMMA ExportNextType ==
  ExportSpecTypeOK /\ ExportsOK /\ TokensAreHeld /\ [ExportNext]_exportSpecVars => ExportSpecTypeOK' /\ ExportsOK' /\ TokensAreHeld'
<1> SUFFICES ASSUME ExportSpecTypeOK, ExportsOK, TokensAreHeld, [ExportNext]_exportSpecVars
             PROVE  ExportSpecTypeOK' /\ ExportsOK' /\ TokensAreHeld'
  OBVIOUS
<1>1. CASE UNCHANGED exportSpecVars
  BY <1>1, SameHolders DEF exportSpecVars, storeVars, exportVars, ExportSpecTypeOK, StoreTypeOK, ExportTypeOK, ExportsOK,
       HandlerOK, WorkerOK, Stored
<1>2. ASSUME NEW e \in Exporter, CancelExport(e) PROVE ExportSpecTypeOK' /\ ExportsOK' /\ TokensAreHeld'
  BY <1>2, ExportRequests, SameHolders DEF CancelExport, exportVars, ExportSpecTypeOK, StoreTypeOK,
       ExportTypeOK, ExportsOK, HandlerOK, WorkerOK, Stored
<1>3. QED
  BY <1>1, <1>2, PostExportType, ListType, WaitType, FinalizeType, WorkerType
  DEF ExportNext, ExportStep

\* Every variable keeps its type; of the pool's occupancy that says that acquire
\* never overfills the channel and release never finds it empty.
THEOREM ExportTypeCorrect == ExportSpec => []ExportSpecTypeOK
BY ExportInitType, ExportNextType, PTL DEF ExportSpec, exportSpecVars

\* The pool's tokens are exactly those the workers hold: acquire and the
\* deferred release pair up on every path through a worker.
THEOREM TokensBalance == ExportSpec => []TokensAreHeld
BY ExportInitType, ExportNextType, PTL DEF ExportSpec, exportSpecVars

-------------------------------------------------------------------------------
(* What a 200 reports                                                          *)

Gone == {"sent", "ended"}

\* The ids channel holds each inspection whose worker has sent it, once.
SentOK(e) ==
  /\ Len(sent[e]) = Cardinality(Workers(e, Gone))
  /\ {sent[e][n] : n \in 1..Len(sent[e])} = Workers(e, Gone)

AllSentOK == \A e \in Exporter : SentOK(e)

LEMMA InitSent == ExportSpecInit => AllSentOK
<1> SUFFICES ASSUME ExportSpecInit, NEW e \in Exporter PROVE SentOK(e)
  BY DEF AllSentOK
<1>1. sent[e] = <<>> /\ Workers(e, Gone) = {}
  BY DEF ExportSpecInit, ExportInit, Workers, Gone
<1>2. QED BY <1>1, FS_EmptySet, EmptySeq DEF SentOK

LEMMA SameSent ==
  ASSUME NEW e \in Exporter, SentOK(e), sent'[e] = sent[e],
         \A id \in InspectionId : worker[e][id] \in Gone <=> worker'[e][id] \in Gone
  PROVE  SentOK(e)'
<1>1. Workers(e, Gone)' = Workers(e, Gone)
  BY DEF Workers
<1>2. QED BY <1>1 DEF SentOK

LEMMA SendSent ==
  ASSUME ExportSpecTypeOK, NEW e \in Exporter, SentOK(e), NEW id \in InspectionId, Send(e, id)
  PROVE  SentOK(e)'
<1> DEFINE old == sent[e]
           gone == Workers(e, Gone)
<1>1. /\ worker[e][id] = "written"
      /\ WorkerGoto(e, id, "sent")
      /\ sent'[e] = Append(old, id)
  BY DEF Send, ExportSpecTypeOK, ExportTypeOK
<1>2. Workers(e, Gone)' = gone \cup {id} /\ id \notin gone
  <2>1. "sent" \in Gone /\ "sent" \in WorkerState /\ id \notin gone
    BY <1>1 DEF Gone, WorkerState, Workers
  <2>2. QED BY <1>1, <2>1, WorkersMove
<1>3. old \in Seq(InspectionId)
  BY DEF ExportSpecTypeOK, ExportTypeOK
<1>4. Len(old) = Cardinality(gone) /\ {old[n] : n \in 1..Len(old)} = gone
  BY DEF SentOK
<1>5. IsFiniteSet(gone)
  BY WorkersFinite
<1> HIDE DEF old, gone
<1>6. Cardinality(gone \cup {id}) = Cardinality(gone) + 1
  BY <1>2, <1>5, FS_AddElement
<1> DEFINE new == Append(old, id)
<1>7. /\ Len(new) = Len(old) + 1 /\ Len(old) \in Nat
      /\ \A n \in 1..Len(old) : new[n] = old[n]
      /\ new[Len(old) + 1] = id
  BY <1>3, AppendProperties, LenProperties
<1> HIDE DEF new
<1>8. {new[n] : n \in 1..Len(new)} = {old[n] : n \in 1..Len(old)} \cup {id}
  <2>1. 1..Len(new) = (1..Len(old)) \cup {Len(old) + 1}
    BY <1>7
  <2>2. QED BY <1>7, <2>1
<1>9. sent'[e] = new
  BY <1>1 DEF new
<1>10. QED BY <1>2, <1>4, <1>6, <1>7, <1>8, <1>9 DEF SentOK

LEMMA NextSent == ExportSpecTypeOK /\ ExportsOK /\ AllSentOK /\ [ExportNext]_exportSpecVars => AllSentOK'
<1> SUFFICES ASSUME ExportSpecTypeOK, ExportsOK, AllSentOK, [ExportNext]_exportSpecVars, NEW e \in Exporter
             PROVE  SentOK(e)'
  BY DEF AllSentOK
<1>1. SentOK(e)
  BY DEF AllSentOK
<1>2. CASE UNCHANGED <<worker, sent>>
  BY <1>1, <1>2, SameSent
<1>3. ASSUME NEW f \in Exporter, List(f) PROVE SentOK(e)'
  <2>1. sent' = sent
    BY <1>3 DEF List
  <2>2. \A id \in InspectionId : worker[e][id] \in Gone <=> worker'[e][id] \in Gone
    BY <1>3, ListStarts DEF Gone
  <2>3. QED BY <1>1, <2>1, <2>2, SameSent
<1>4. ASSUME NEW f \in Exporter, NEW n \in InspectionId, WorkerStep(f, n) PROVE SentOK(e)'
  <2>1. CASE Send(f, n) /\ f = e
    BY <1>1, <2>1, SendSent
  <2>2. CASE Send(f, n) /\ f # e
    <3>1. sent'[e] = sent[e]
      BY <2>2 DEF Send, ExportSpecTypeOK, ExportTypeOK
    <3>2. \A id \in InspectionId : worker'[e][id] = worker[e][id]
      BY <2>2, OneWorkerMoves DEF Send, WorkerState
    <3>3. QED BY <1>1, <3>1, <3>2, SameSent
  <2>3. CASE ~Send(f, n)
    <3>1. PICK state \in WorkerState :
            WorkerGoto(f, n, state) /\ (worker[f][n] \in Gone <=> state \in Gone)
      BY <1>4, <2>3 DEF WorkerStep, Acquire, Write, Release, Gone, WorkerState
    <3>2. \A id \in InspectionId : worker[e][id] \in Gone <=> worker'[e][id] \in Gone
      BY <3>1, OneWorkerMoves
    <3>3. sent' = sent
      BY <1>4, <2>3 DEF WorkerStep, Acquire, Write, Release
    <3>4. QED BY <1>1, <3>2, <3>3, SameSent
  <2>4. QED BY <2>1, <2>2, <2>3
<1>5. \/ UNCHANGED <<worker, sent>>
      \/ \E f \in Exporter : List(f) \/ \E n \in InspectionId : WorkerStep(f, n)
  BY DEF ExportNext, ExportStep, PostExport, Wait, Finalize, CancelExport, exportSpecVars, exportVars
<1>6. QED BY <1>2, <1>3, <1>4, <1>5

\* An export that answers 200 has left no worker behind that would still write,
\* and reports and audits exactly the inspections whose workers ended well.
THEOREM ReportIsTrue == ExportSpec => []ReportMatchesWorkers
<1>1. ExportSpecTypeOK /\ ExportsOK /\ AllSentOK => ReportMatchesWorkers
  <2> SUFFICES ASSUME ExportSpecTypeOK, ExportsOK, AllSentOK, NEW e \in Exporter, exportReply[e] = 200
               PROVE  /\ Workers(e, {"waiting"} \cup Holding) = {}
                      /\ Len(sent[e]) = Cardinality(Workers(e, {"ended"}))
                      /\ {sent[e][n] : n \in 1..Len(sent[e])} = Workers(e, {"ended"})
                      /\ finalized[e] = Len(sent[e])
    BY DEF ReportMatchesWorkers
  <2>1. exportPc[e] = "done" /\ finalized[e] = Len(sent[e])
    BY DEF ExportsOK, HandlerOK
  <2>2. Workers(e, {"waiting"} \cup Holding) = {}
    BY <2>1 DEF ExportsOK, WorkerOK, Active, Workers
  <2>3. Workers(e, Gone) = Workers(e, {"ended"})
    <3>1. \A id \in InspectionId : worker[e][id] # "sent"
      BY <2>2 DEF Workers, Holding
    <3>2. QED BY <3>1 DEF Workers, Gone
  <2>4. SentOK(e)
    BY DEF AllSentOK
  <2>5. Len(sent[e]) = Cardinality(Workers(e, {"ended"}))
    BY <2>3, <2>4 DEF SentOK
  <2>6. {sent[e][n] : n \in 1..Len(sent[e])} = Workers(e, {"ended"})
    BY <2>3, <2>4, Zenon DEF SentOK
  <2>7. QED BY <2>1, <2>2, <2>5, <2>6
<1>2. ExportSpec => [](ExportSpecTypeOK /\ ExportsOK)
  BY ExportInitType, ExportNextType, PTL DEF ExportSpec, exportSpecVars
<1>3. QED BY <1>1, <1>2, InitSent, NextSent, PTL DEF ExportSpec, exportSpecVars

-------------------------------------------------------------------------------
(* When a worker is refused a token                                            *)

Begun == WorkersIn(WorkerState \ {"none"})

LEMMA BegunCount ==
  /\ IsFiniteSet(Begun') /\ Cardinality(Begun') \in Nat
  /\ IsFiniteSet(Begun)  /\ Cardinality(Begun)  \in Nat
<1>1. Begun' \in SUBSET (Exporter \X InspectionId)
  BY DEF Begun, WorkersIn
<1>2. IsFiniteSet(Begun')
  BY <1>1, ExportersFinite, FS_Product, FS_Subset
<1>3. QED BY <1>2, WorkersInFinite, FS_CardinalityType DEF Begun

\* A worker never stops having begun, so their number only grows.
LEMMA BegunGrows ==
  ASSUME ExportSpecTypeOK, ExportsOK, [ExportNext]_exportSpecVars
  PROVE  Begun \subseteq Begun' /\ Cardinality(Begun) <= Cardinality(Begun')
<1>1. \A f \in Exporter, n \in InspectionId :
        worker[f][n] \in WorkerState \ {"none"} => worker'[f][n] \in WorkerState \ {"none"}
  <2>1. CASE worker' = worker
    BY <2>1
  <2>2. ASSUME NEW e \in Exporter, List(e)
        PROVE  \A f \in Exporter, n \in InspectionId :
                 worker[f][n] \in WorkerState \ {"none"} => worker'[f][n] \in WorkerState \ {"none"}
    BY <2>2, ListStarts DEF WorkerState
  <2>3. ASSUME NEW e \in Exporter, NEW id \in InspectionId, WorkerStep(e, id)
        PROVE  \A f \in Exporter, n \in InspectionId :
                 worker[f][n] \in WorkerState \ {"none"} => worker'[f][n] \in WorkerState \ {"none"}
    <3>1. PICK state \in WorkerState \ {"none"} : WorkerGoto(e, id, state)
      BY <2>3 DEF WorkerStep, Acquire, Write, Send, Release, WorkerState
    <3>2. QED BY <3>1, OneWorkerMoves
  <2>4. QED
    BY <2>1, <2>2, <2>3
    DEF ExportNext, ExportStep, PostExport, Wait, Finalize, CancelExport, exportSpecVars, exportVars
<1>2. \A w \in Exporter \X InspectionId : w[1] \in Exporter /\ w[2] \in InspectionId
  OBVIOUS
<1>3. Begun \subseteq Begun'
  BY <1>1, <1>2 DEF Begun, WorkersIn
<1>4. QED BY <1>3, BegunCount, FS_Subset

\* A worker that finds the pool full makes one more than the pool has tokens.
LEMMA PoolFullIsContention ==
  ASSUME ExportSpecTypeOK, ExportsOK, TokensAreHeld, [ExportNext]_exportSpecVars,
         NEW e \in Exporter, NEW id \in InspectionId, Acquire(e, id), PoolFull
  PROVE  Cardinality(Begun') > inspectionExportLeaseLimit
<1>1. tokens = inspectionExportLeaseLimit /\ tokens \in Nat
  BY ExportRequests DEF PoolFull, ExportSpecTypeOK, ExportTypeOK
<1>2. <<e, id>> \notin Holders /\ <<e, id>> \in Begun
  BY DEF Acquire, Holders, WorkersIn, Holding, Begun, WorkerState
<1>3. IsFiniteSet(Holders) /\ Cardinality(Holders) = tokens
  BY WorkersInFinite DEF Holders, TokensAreHeld
<1>4. Cardinality(Holders \cup {<<e, id>>}) = tokens + 1
  BY <1>2, <1>3, FS_AddElement
<1>5. Holders \cup {<<e, id>>} \in SUBSET Begun
  BY <1>2 DEF Holders, WorkersIn, Holding, Begun, WorkerState
<1>6. Cardinality(Holders \cup {<<e, id>>}) <= Cardinality(Begun)
  BY <1>5, BegunCount, FS_Subset
<1>7. Cardinality(Begun) <= Cardinality(Begun')
  BY BegunGrows
<1>8. QED BY <1>1, <1>4, <1>6, <1>7, BegunCount

LEMMA NextLost ==
  ExportSpecTypeOK /\ ExportsOK /\ TokensAreHeld /\ LostOnlyInContention /\ [ExportNext]_exportSpecVars
    => LostOnlyInContention'
<1> SUFFICES ASSUME ExportSpecTypeOK, ExportsOK, TokensAreHeld, LostOnlyInContention, [ExportNext]_exportSpecVars,
                    NEW e \in Exporter, NEW id \in InspectionId,
                    worker'[e][id] = "lost", e \notin cancelled'
             PROVE  Cardinality(Begun') > inspectionExportLeaseLimit
  BY DEF LostOnlyInContention, Workers, Begun
<1>1. e \notin cancelled
  BY DEF ExportNext, ExportStep, PostExport, List, Wait, Finalize, WorkerStep, Acquire, Write, Send,
     Release, CancelExport, exportSpecVars, storeVars
<1>2. CASE worker[e][id] = "lost"
  <2>1. Cardinality(Begun) > inspectionExportLeaseLimit
    BY <1>1, <1>2 DEF LostOnlyInContention, Workers, Begun
  <2>2. Cardinality(Begun) <= Cardinality(Begun')
    BY BegunGrows
  <2>3. QED BY <2>1, <2>2, BegunCount, ExportRequests
<1>3. CASE worker[e][id] # "lost"
  <2>1. \A f \in Exporter : ~List(f)
    BY <1>3, ListStarts
  <2>2. PICK f \in Exporter, n \in InspectionId : WorkerStep(f, n)
    BY <1>3, <2>1 DEF ExportNext, ExportStep, PostExport, Wait, Finalize, CancelExport, exportSpecVars,
       exportVars
  <2>3. PICK state \in WorkerState : WorkerGoto(f, n, state)
    BY <2>2 DEF WorkerStep, Acquire, Write, Send, Release, WorkerState
  <2>4. f = e /\ n = id /\ state = "lost"
    BY <1>3, <2>3, OneWorkerMoves
  <2>5. worker[e][id] # "failing"
    BY <1>1 DEF ExportsOK, WorkerOK
  <2>6. Acquire(e, id) /\ PoolFull
    BY <2>2, <2>4, <2>5 DEF WorkerStep, Acquire, Write, Send, Release, WorkerGoto, ExportSpecTypeOK,
       ExportTypeOK
  <2>7. QED BY <2>6, PoolFullIsContention
<1>4. QED BY <1>2, <1>3

\* An export that nobody cancels drops an inspection only when more workers have
\* been started than the pool has tokens.
THEOREM DropsNeedContention == ExportSpec => []LostOnlyInContention
<1>1. ExportSpec => [](ExportSpecTypeOK /\ ExportsOK /\ TokensAreHeld)
  BY ExportInitType, ExportNextType, PTL DEF ExportSpec, exportSpecVars
<1>2. ExportSpecInit => LostOnlyInContention
  BY DEF ExportSpecInit, ExportInit, LostOnlyInContention, Workers
<1>3. QED BY <1>1, <1>2, NextLost, PTL DEF ExportSpec, exportSpecVars

-------------------------------------------------------------------------------
(* The audit trail of the exports                                              *)

\* finalize has audited a part of what was sent, and no inspection was sent twice.
AuditedOK(e) ==
  /\ finalized[e] <= Len(sent[e])
  /\ \A i, j \in 1..Len(sent[e]) : sent[e][i] = sent[e][j] => i = j

AllAuditedOK == \A e \in Exporter : AuditedOK(e)

\* The exports that have audited an inspection.
Audited(id) == {e \in Exporter : \E n \in 1..finalized[e] : sent[e][n] = id}

LEMMA InitAudited ==
  ASSUME ExportInit, StoreInit
  PROVE  AllAuditedOK /\ AuditTrailsExports
<1>1. \A e \in Exporter : sent[e] = <<>> /\ Len(sent[e]) = 0 /\ finalized[e] = 0
  BY EmptySeq DEF ExportInit
<1>2. AllAuditedOK
  BY <1>1 DEF AllAuditedOK, AuditedOK
<1>3. ASSUME NEW id \in InspectionId PROVE Count(id, "exported") = Cardinality(Audited(id))
  <2>1. Audited(id) = {}
    BY <1>1 DEF Audited
  <2>2. towerAudit[id] = <<>>
    BY DEF StoreInit, AuditKey
  <2>3. {i \in DOMAIN towerAudit[id] : towerAudit[id][i] = "exported"} = {}
    BY <2>2
  <2>4. QED BY <2>1, <2>3, FS_EmptySet DEF Count
<1>4. QED BY <1>2, <1>3 DEF AuditTrailsExports, Audited

LEMMA AuditedFinite ==
  ASSUME NEW id
  PROVE  IsFiniteSet(Audited(id)) /\ Cardinality(Audited(id)) \in Nat
<1>1. Audited(id) \in SUBSET Exporter
  BY DEF Audited
<1>2. IsFiniteSet(Audited(id))
  BY <1>1, ExportersFinite, FS_Subset
<1>3. QED BY <1>2, FS_CardinalityType

\* An export that neither sends nor finalizes audits nothing.
LEMMA SameAudited ==
  ASSUME AllAuditedOK, AuditTrailsExports, UNCHANGED <<sent, finalized, towerAudit>>
  PROVE  AllAuditedOK' /\ AuditTrailsExports'
BY DEF AllAuditedOK, AuditedOK, AuditTrailsExports, Count

\* What is sent goes behind what is audited.
LEMMA SendAudits ==
  ASSUME ExportSpecTypeOK, AllSentOK, AllAuditedOK, AuditTrailsExports,
         NEW e \in Exporter, NEW id \in InspectionId, Send(e, id)
  PROVE  AllAuditedOK' /\ AuditTrailsExports'
<1> DEFINE old == sent[e]
           new == Append(old, id)
<1>1. /\ worker[e][id] = "written"
      /\ sent' = [sent EXCEPT ![e] = new]
      /\ UNCHANGED <<finalized, towerAudit>>
  BY DEF Send, storeVars
<1>2. old \in Seq(InspectionId) /\ sent \in [Exporter -> Seq(InspectionId)] /\ finalized \in [Exporter -> Nat]
  BY DEF ExportSpecTypeOK, ExportTypeOK
<1>3. id \notin {old[n] : n \in 1..Len(old)}
  BY <1>1 DEF AllSentOK, SentOK, Workers, Gone
<1>4. finalized[e] <= Len(old) /\ \A i, j \in 1..Len(old) : old[i] = old[j] => i = j
  BY DEF AllAuditedOK, AuditedOK
<1> HIDE DEF old
<1>5. /\ Len(new) = Len(old) + 1 /\ Len(old) \in Nat
      /\ \A n \in 1..Len(old) : new[n] = old[n]
      /\ new[Len(old) + 1] = id
  BY <1>2, AppendProperties, LenProperties
<1> HIDE DEF new
<1>6. sent'[e] = new /\ \A f \in Exporter : f # e => sent'[f] = sent[f]
  BY <1>1, <1>2
<1>7. finalized[e] <= Len(new) /\ \A i, j \in 1..Len(new) : new[i] = new[j] => i = j
  <2>1. finalized[e] <= Len(new)
    BY <1>2, <1>4, <1>5
  <2>2. \A i \in 1..Len(new) :
          \/ i \in 1..Len(old) /\ new[i] = old[i] /\ new[i] # id
          \/ i = Len(old) + 1 /\ new[i] = id
    BY <1>3, <1>5
  <2>3. QED BY <1>4, <2>1, <2>2
<1>8. AllAuditedOK'
  BY <1>1, <1>6, <1>7 DEF AllAuditedOK, AuditedOK
<1>9. \A n \in 1..finalized[e] : new[n] = old[n]
  BY <1>2, <1>4, <1>5
<1>10. \A n \in InspectionId : Audited(n)' = Audited(n)
  BY <1>1, <1>6, <1>9 DEF Audited, old
<1>11. QED BY <1>1, <1>8, <1>10 DEF AuditTrailsExports, Audited, Count

\* finalize audits the next inspection, which it has not audited before.
LEMMA FinalizeAudits ==
  ASSUME ExportSpecTypeOK, AllAuditedOK, AuditTrailsExports, NEW e \in Exporter, Finalize(e)
  PROVE  AllAuditedOK' /\ AuditTrailsExports'
<1>1. sent' = sent
  BY DEF Finalize
<1>2. CASE ~(finalized[e] < Len(sent[e]))
  BY <1>1, <1>2, SameAudited DEF Finalize
<1>3. CASE finalized[e] < Len(sent[e])
  <2> DEFINE last == finalized[e] + 1
             next == sent[e][last]
  <2>1. /\ AddEvent(next, "exported")
        /\ finalized' = [finalized EXCEPT ![e] = last]
    BY <1>3 DEF Finalize
  <2>2. sent[e] \in Seq(InspectionId) /\ finalized \in [Exporter -> Nat] /\ Len(sent[e]) \in Nat
    BY LenProperties DEF ExportSpecTypeOK, ExportTypeOK
  <2>3. last \in 1..Len(sent[e]) /\ next \in InspectionId
    <3>1. last \in 1..Len(sent[e])
      BY <1>3, <2>2
    <3>2. QED BY <2>2, <3>1, ElementOfSeq
  <2>4. AllAuditedOK'
    BY <1>1, <2>1, <2>2, <2>3 DEF AllAuditedOK, AuditedOK
  <2>5. e \notin Audited(next)
    BY <2>2, <2>3 DEF Audited, AllAuditedOK, AuditedOK
  <2>6. \A id \in InspectionId : Audited(id)' = IF id = next THEN Audited(id) \cup {e} ELSE Audited(id)
    <3>1. 1..last = (1..finalized[e]) \cup {last}
      BY <2>2
    <3>2. finalized'[e] = last /\ \A f \in Exporter : f # e => finalized'[f] = finalized[f]
      BY <2>1, <2>2
    <3> HIDE DEF last, next
    <3>3. ASSUME NEW id, NEW f \in Exporter
          PROVE  (\E n \in 1..finalized'[f] : sent'[f][n] = id) <=>
                   (\E n \in 1..finalized[f] : sent[f][n] = id) \/ (f = e /\ sent[e][last] = id)
      BY <1>1, <3>1, <3>2
    <3>4. QED BY <3>3, <2>3 DEF Audited, next
  <2>7. ASSUME NEW id \in InspectionId PROVE Count(id, "exported")' = Cardinality(Audited(id)')
    <3>1. Count(id, "exported") = Cardinality(Audited(id))
      BY DEF AuditTrailsExports, Audited
    <3>2. Count(id, "exported")' =
            IF id = next THEN Count(id, "exported") + 1 ELSE Count(id, "exported")
      <4>1. next \in AuditKey /\ id \in AuditKey /\ "exported" \in EventType
        BY <2>3 DEF EventType, AuditKey
      <4> HIDE DEF next
      <4>2. QED BY <2>1, <4>1, AddEventCount DEF ExportSpecTypeOK
    <3>3. CASE id = next
      <4>1. Cardinality(Audited(id) \cup {e}) = Cardinality(Audited(id)) + 1
        BY <2>5, <3>3, AuditedFinite, FS_AddElement
      <4>2. QED BY <2>6, <3>1, <3>2, <3>3, <4>1
    <3>4. CASE id # next
      BY <2>6, <3>1, <3>2, <3>4
    <3>5. QED BY <3>3, <3>4
  <2>8. QED BY <2>4, <2>7 DEF AuditTrailsExports, Audited
<1>4. QED BY <1>2, <1>3

LEMMA NextAudited ==
  ASSUME ExportSpecTypeOK, AllSentOK, AllAuditedOK, AuditTrailsExports, ExportNext
  PROVE  AllAuditedOK' /\ AuditTrailsExports'
<1>1. CASE UNCHANGED <<sent, finalized, towerAudit>>
  BY <1>1, SameAudited
<1>2. CASE ~UNCHANGED <<sent, finalized, towerAudit>>
  <2>1. PICK e \in Exporter : Finalize(e) \/ \E id \in InspectionId : Send(e, id)
    BY <1>2 DEF ExportNext, ExportStep, PostExport, List, Wait, WorkerStep, Acquire, Write, Release,
         CancelExport, storeVars, exportVars
  <2>2. QED BY <2>1, FinalizeAudits, SendAudits
<1>3. QED BY <1>1, <1>2

-------------------------------------------------------------------------------
(* Exports beside other components                                             *)

ExportInv ==
  /\ ExportTypeOK /\ ExportsOK /\ TokensAreHeld
  /\ AllSentOK /\ AllAuditedOK /\ AuditTrailsExports

LEMMA ExportInvInit == ASSUME StoreInit, ExportInit PROVE ExportInv
BY ExportInitType, InitSent, InitAudited DEF ExportSpecInit, ExportSpecTypeOK, ExportInv

LEMMA ExportInvNext == ASSUME StoreTypeOK, ExportInv, ExportNext PROVE StoreTypeOK' /\ ExportInv'
<1>1. ExportSpecTypeOK' /\ ExportsOK' /\ TokensAreHeld'
  BY ExportNextType DEF ExportSpecTypeOK, ExportInv
<1>2. AllSentOK' /\ AllAuditedOK' /\ AuditTrailsExports'
  BY NextSent, NextAudited DEF ExportSpecTypeOK, ExportInv
<1>3. QED BY <1>1, <1>2 DEF ExportSpecTypeOK, ExportInv

\* A step of another component that takes no inspection out of the store, takes
\* back no cancellation and files no event of theirs leaves the exports as true.
LEMMA ExportInvOthers ==
  ASSUME StoreTypeOK, ExportInv, UNCHANGED exportVars,
         \A id \in InspectionId : Stored(id) => Stored(id)',
         \A e \in Exporter : e \in cancelled => e \in cancelled',
         \/ UNCHANGED towerAudit
         \/ \E key \in AuditKey, event \in EventType \ {"exported"} : AddEvent(key, event)
  PROVE  ExportInv'
<1>1. ExportTypeOK'
  BY DEF ExportInv, exportVars, ExportTypeOK
<1>2. ExportsOK'
  BY DEF ExportInv, exportVars, ExportsOK, HandlerOK, WorkerOK
<1>3. TokensAreHeld'
  BY SameHolders DEF ExportInv, exportVars
<1>4. AllSentOK' /\ AllAuditedOK'
  <2>1. \A e : Workers(e, Gone)' = Workers(e, Gone)
    BY DEF exportVars, Workers
  <2>2. QED BY <2>1 DEF ExportInv, exportVars, AllSentOK, SentOK, AllAuditedOK, AuditedOK
<1>5. AuditTrailsExports'
  <2> SUFFICES ASSUME NEW id \in InspectionId PROVE Count(id, "exported")' = Cardinality(Audited(id)')
    BY DEF AuditTrailsExports, Audited
  <2>1. Count(id, "exported") = Cardinality(Audited(id))
    BY DEF ExportInv, AuditTrailsExports, Audited
  <2>2. Audited(id)' = Audited(id)
    BY DEF exportVars, Audited
  <2>3. Count(id, "exported")' = Count(id, "exported")
    <3>1. CASE UNCHANGED towerAudit
      BY <3>1 DEF Count
    <3>2. CASE ~UNCHANGED towerAudit
      BY <3>2, AddEventCount DEF AuditKey
    <3>3. QED BY <3>1, <3>2
  <2>4. QED BY <2>1, <2>2, <2>3
<1>6. QED BY <1>1, <1>2, <1>3, <1>4, <1>5 DEF ExportInv

Wrote == {"written", "sent", "ended"}

\* A worker has written the status it was asked to.
Exports(e, id) ==
  /\ Stored(id) /\ inspections[id] \in TowerInspection /\ move[e].to \in InspectionStatus
  /\ inspections' = [inspections EXCEPT ![id] = Written(@, move[e].to)]
  /\ worker'[e][id] = "written"
  /\ UNCHANGED move

\* All that a step of the exports does to what is shared.
LEMMA ExportEffect ==
  ASSUME StoreTypeOK, ExportInv, ExportNext
  PROVE  /\ UNCHANGED inspections \/ \E e \in Exporter, id \in InspectionId : Exports(e, id)
         /\ UNCHANGED towerAudit \/ \E id \in InspectionId : AddEvent(id, "exported")
         /\ cancelled \subseteq cancelled'
<1>1. UNCHANGED inspections \/ \E e \in Exporter, id \in InspectionId : Exports(e, id)
  <2>1. SUFFICES ASSUME ~UNCHANGED inspections
                 PROVE  \E e \in Exporter, id \in InspectionId : Exports(e, id)
    OBVIOUS
  <2>2. PICK e \in Exporter, id \in InspectionId : Write(e, id)
    BY <2>1 DEF ExportNext, ExportStep, PostExport, List, Wait, Finalize, WorkerStep, Acquire, Send,
         Release, CancelExport, storeVars
  <2>3. FindError(e, id) = "ok" /\ UpdateInspectionStatus(id, move[e].to) /\ UNCHANGED move
    BY <2>1, <2>2 DEF Write
  <2>4. worker'[e][id] = "written"
    BY <2>1, <2>2 DEF Write, WorkerGoto, ExportInv, ExportTypeOK
  <2>5. Stored(id) /\ inspections[id] \in TowerInspection /\ move[e].to \in InspectionStatus
    BY <2>2 DEF Write, StoreTypeOK, Stored, ExportInv, ExportsOK, WorkerOK
  <2>6. Exports(e, id)
    BY <2>3, <2>4, <2>5 DEF Exports, UpdateInspectionStatus
  <2>7. QED BY <2>6
<1>2. UNCHANGED towerAudit \/ \E id \in InspectionId : AddEvent(id, "exported")
  <2>1. CASE \E e \in Exporter : Finalize(e)
    <3>1. PICK e \in Exporter : Finalize(e)
      BY <2>1
    <3>2. CASE ~(finalized[e] < Len(sent[e]))
      BY <3>1, <3>2 DEF Finalize
    <3>3. CASE finalized[e] < Len(sent[e])
      <4>1. sent[e] \in Seq(InspectionId) /\ finalized[e] + 1 \in 1..Len(sent[e])
        BY <3>3 DEF ExportInv, ExportTypeOK
      <4>2. sent[e][finalized[e] + 1] \in InspectionId
        BY <4>1, ElementOfSeq
      <4>3. QED BY <3>1, <3>3, <4>2 DEF Finalize
    <3>4. QED BY <3>2, <3>3
  <2>2. CASE ~\E e \in Exporter : Finalize(e)
    BY <2>2 DEF ExportNext, ExportStep, PostExport, List, Wait, WorkerStep, Acquire, Write, Send,
       Release, CancelExport, storeVars
  <2>3. QED BY <2>1, <2>2
<1>3. cancelled \subseteq cancelled'
  BY DEF ExportNext, ExportStep, PostExport, List, Wait, Finalize, WorkerStep, Acquire, Write, Send,
     Release, CancelExport, storeVars
<1>4. QED BY <1>1, <1>2, <1>3

\* A worker that has written stays known for it, and for what it was to write.
LEMMA WroteKept ==
  ASSUME StoreTypeOK, ExportInv, ExportNext, NEW e \in Exporter, NEW id \in InspectionId,
         worker[e][id] \in Wrote
  PROVE  worker'[e][id] \in Wrote /\ move'[e] = move[e]
<1>1. ExportSpecTypeOK
  BY DEF ExportSpecTypeOK, ExportInv
<1>2. worker'[e][id] \in Wrote
  <2>1. CASE worker' = worker
    BY <2>1
  <2>2. ASSUME NEW f \in Exporter, List(f) PROVE worker'[e][id] \in Wrote
    BY <1>1, <2>2, ListStarts DEF ExportInv, Wrote
  <2>3. ASSUME NEW f \in Exporter, NEW n \in InspectionId, WorkerStep(f, n)
        PROVE  worker'[e][id] \in Wrote
    <3>1. PICK state \in WorkerState :
            WorkerGoto(f, n, state) /\ (worker[f][n] \in Wrote => state \in Wrote)
      BY <2>3 DEF WorkerStep, Acquire, Write, Send, Release, WorkerState, Wrote
    <3>2. QED BY <1>1, <3>1, OneWorkerMoves
  <2>4. QED BY <2>1, <2>2, <2>3
    DEF ExportNext, ExportStep, PostExport, Wait, Finalize, CancelExport, exportVars
<1>3. move'[e] = move[e]
  <2>1. CASE move' = move
    BY <2>1
  <2>2. ASSUME NEW f \in Exporter, PostExport(f) PROVE move'[e] = move[e]
    <3>1. exportPc[f] = "new"
      BY <2>2 DEF PostExport
    <3>2. f # e
      BY <3>1 DEF ExportInv, ExportsOK, HandlerOK, Wrote
    <3>3. move' = move \/ \E new : move' = [move EXCEPT ![f] = new]
      BY <2>2 DEF PostExport
    <3>4. QED BY <3>2, <3>3 DEF ExportInv, ExportTypeOK
  <2>3. QED BY <2>1, <2>2
    DEF ExportNext, ExportStep, List, Wait, Finalize, WorkerStep, Acquire, Write, Send, Release,
        CancelExport, exportVars
<1>4. QED BY <1>2, <1>3

-------------------------------------------------------------------------------
(* Batch runs: what a run knows                                              *)

\* What a run knows at each point of its code: from the parse on its cutoff is
\* a day, and at the audit its current inspection is stored.
RunOK(b) ==
  /\ batchPc[b] \in {"list", "loop", "audit"} \/ batchResult[b] = "ok" => cutoff[b] \in Int
  /\ batchPc[b] = "audit" => current[b] \in InspectionId /\ Stored(current[b])
  /\ batchResult[b] # "none" => batchPc[b] = "done"

RunsOK == \A b \in Batch : RunOK(b)

-------------------------------------------------------------------------------
(* Types                                                                       *)

LEMMA BatchInitType == BatchSpecInit => BatchSpecTypeOK /\ RunsOK
<1>1. StoreInit => StoreTypeOK
  BY StoreSeeds DEF StoreInit, StoreTypeOK
<1>2. BatchInit => BatchTypeOK /\ RunsOK
  BY StoreSeeds DEF BatchInit, BatchTypeOK, RunsOK, RunOK
<1>3. QED BY <1>1, <1>2 DEF BatchSpecInit, BatchSpecTypeOK

LEMMA FindErrors ==
  ASSUME NEW c, NEW id
  PROVE  /\ FindError(c, id) \in {"ok", "internal", "not_found"}
         /\ FindError(c, id) = "ok" => Stored(id)
BY DEF FindError

LEMMA RunType ==
  ASSUME BatchSpecTypeOK, RunsOK, NEW b \in Batch, Run(b)
  PROVE  BatchSpecTypeOK' /\ RunsOK'
<1>1. PICK day \in Cutoff \cup {NoCutoff} : Run(b)!(day)
  BY DEF Run
<1>2. CASE ~LeaseFree
  <2>1. /\ batchPc[b] = "new"
        /\ batchPc' = [batchPc EXCEPT ![b] = "done"]
        /\ batchResult' = [batchResult EXCEPT ![b] = "conflict"]
        /\ UNCHANGED <<inspections, inspectionSequence, towerAudit, cancelled, lease, cutoff,
                       overdue, current, completed>>
    BY <1>1, <1>2 DEF Return, BatchGoto, storeVars
  <2>2. QED BY <2>1 DEF BatchSpecTypeOK, StoreTypeOK, BatchTypeOK, RunsOK, RunOK, Stored
<1>3. CASE LeaseFree
  <2>1. /\ batchPc[b] = "new"
        /\ batchPc' = [batchPc EXCEPT ![b] = "parse"]
        /\ cutoff' = [cutoff EXCEPT ![b] = day]
        /\ lease' = 1
        /\ UNCHANGED <<inspections, inspectionSequence, towerAudit, cancelled, batchResult,
                       overdue, current, completed>>
    BY <1>1, <1>3 DEF BatchGoto, storeVars
  <2>2. BatchSpecTypeOK'
    BY <2>1 DEF BatchSpecTypeOK, StoreTypeOK, BatchTypeOK
  <2>3. RunsOK'
    BY <2>1 DEF BatchSpecTypeOK, BatchTypeOK, RunsOK, RunOK, Stored
  <2>4. QED BY <2>2, <2>3
<1>4. QED BY <1>2, <1>3

LEMMA CompleteType ==
  ASSUME BatchSpecTypeOK, RunsOK, NEW b \in Batch, NEW id \in InspectionId, Complete(b, id)
  PROVE  BatchSpecTypeOK' /\ RunsOK'
<1>1. CASE FindError(b, id) # "ok"
  <2> DEFINE err == FindError(b, id)
  <2>1. /\ batchPc' = [batchPc EXCEPT ![b] = "done"]
        /\ batchResult' = [batchResult EXCEPT ![b] = err]
        /\ lease' = 0
        /\ UNCHANGED <<inspections, inspectionSequence, towerAudit, cancelled, cutoff,
                       overdue, current, completed>>
    BY <1>1 DEF Complete, ReleaseLease, Return, BatchGoto
  <2>2. err \in {"internal", "not_found"}
    BY <1>1, FindErrors
  <2> HIDE DEF err
  <2>3. QED BY <2>1, <2>2 DEF BatchSpecTypeOK, StoreTypeOK, BatchTypeOK, RunsOK, RunOK, Stored
<1>2. CASE FindError(b, id) = "ok"
  <2>1. Stored(id) /\ inspections[id] \in TowerInspection
    BY <1>2, FindErrors DEF BatchSpecTypeOK, StoreTypeOK, Stored
  <2> DEFINE new == Written(inspections[id], "completed")
  <2>2. new \in TowerInspection
    BY <2>1, WrittenType DEF InspectionStatus
  <2>3. /\ inspections' = [inspections EXCEPT ![id] = new]
        /\ overdue' = [overdue EXCEPT ![b] = @ \ {id}]
        /\ current' = [current EXCEPT ![b] = id]
        /\ completed' = [completed EXCEPT ![b] = @ \cup {id}]
        /\ batchPc' = [batchPc EXCEPT ![b] = "audit"]
        /\ UNCHANGED <<inspectionSequence, towerAudit, cancelled, cutoff, lease, batchResult>>
    BY <1>2 DEF Complete, UpdateInspectionStatus, BatchGoto
  <2> HIDE DEF new
  <2>4. StoreTypeOK'
    BY <2>2, <2>3 DEF BatchSpecTypeOK, StoreTypeOK
  <2>5. BatchTypeOK'
    BY <2>3, StoreSeeds DEF BatchSpecTypeOK, BatchTypeOK, InspectionId
  <2>6. RunsOK'
    BY <2>2, <2>3, NotAnInspection, batchPc[b] = "loop"
    DEF BatchSpecTypeOK, StoreTypeOK, BatchTypeOK, RunsOK, RunOK, Stored, Complete
  <2>7. QED BY <2>4, <2>5, <2>6 DEF BatchSpecTypeOK
<1>3. QED BY <1>1, <1>2

LEMMA BatchAuditType ==
  ASSUME BatchSpecTypeOK, RunsOK, NEW b \in Batch, BatchAudit(b)
  PROVE  BatchSpecTypeOK' /\ RunsOK'
<1> DEFINE key == inspections[current[b]].tower
<1>1. key \in AuditKey
  BY DEF BatchAudit, RunsOK, RunOK, BatchSpecTypeOK, StoreTypeOK, Stored, TowerInspection, AuditKey
<1>2. /\ towerAudit' = [towerAudit EXCEPT ![key] = Append(@, "batch_completed")]
      /\ current' = [current EXCEPT ![b] = 0]
      /\ batchPc' = [batchPc EXCEPT ![b] = "loop"]
      /\ batchPc[b] = "audit"
      /\ UNCHANGED <<inspections, inspectionSequence, cancelled, cutoff, lease, overdue,
                     completed, batchResult>>
  BY DEF BatchAudit, AddEvent, BatchGoto
<1> HIDE DEF key
<1>3. StoreTypeOK'
  BY <1>1, <1>2 DEF BatchSpecTypeOK, StoreTypeOK, EventType
<1>4. BatchTypeOK' /\ RunsOK'
  BY <1>2, StoreSeeds DEF BatchSpecTypeOK, BatchTypeOK, RunsOK, RunOK, Stored
<1>5. QED BY <1>3, <1>4 DEF BatchSpecTypeOK

LEMMA BatchNextType == BatchSpecTypeOK /\ RunsOK /\ [BatchNext]_batchSpecVars => BatchSpecTypeOK' /\ RunsOK'
<1> SUFFICES ASSUME BatchSpecTypeOK, RunsOK, [BatchNext]_batchSpecVars PROVE BatchSpecTypeOK' /\ RunsOK'
  OBVIOUS
<1>1. CASE UNCHANGED batchSpecVars
  BY <1>1 DEF batchSpecVars, storeVars, batchVars, BatchSpecTypeOK, StoreTypeOK, BatchTypeOK, RunsOK, RunOK, Stored
<1>2. ASSUME NEW b \in Batch, Run(b) PROVE BatchSpecTypeOK' /\ RunsOK'
  BY <1>2, RunType
<1>3. ASSUME NEW b \in Batch, Parse(b) PROVE BatchSpecTypeOK' /\ RunsOK'
  BY <1>3, BatchCalls DEF Parse, ReleaseLease, Return, BatchGoto, BatchSpecTypeOK, StoreTypeOK, BatchTypeOK,
       RunsOK, RunOK, storeVars, Stored
<1>4. ASSUME NEW b \in Batch, BatchList(b) PROVE BatchSpecTypeOK' /\ RunsOK'
  BY <1>4 DEF BatchList, ReleaseLease, Return, BatchGoto, BatchSpecTypeOK, StoreTypeOK, BatchTypeOK,
       RunsOK, RunOK, storeVars, Stored, Listed
<1>5. ASSUME NEW b \in Batch, NEW id \in InspectionId, Complete(b, id) PROVE BatchSpecTypeOK' /\ RunsOK'
  BY <1>5, CompleteType
<1>6. ASSUME NEW b \in Batch, BatchAudit(b) PROVE BatchSpecTypeOK' /\ RunsOK'
  BY <1>6, BatchAuditType
<1>7. ASSUME NEW b \in Batch, Finish(b) PROVE BatchSpecTypeOK' /\ RunsOK'
  BY <1>7 DEF Finish, ReleaseLease, Return, BatchGoto, BatchSpecTypeOK, StoreTypeOK, BatchTypeOK,
       RunsOK, RunOK, storeVars, Stored
<1>8. ASSUME NEW b \in Batch, CancelBatch(b) PROVE BatchSpecTypeOK' /\ RunsOK'
  BY <1>8, BatchCalls DEF CancelBatch, BatchSpecTypeOK, StoreTypeOK, BatchTypeOK, RunsOK, RunOK, batchVars,
       Stored
<1>9. QED
  BY <1>1, <1>2, <1>3, <1>4, <1>5, <1>6, <1>7, <1>8 DEF BatchNext, BatchStep

\* Every variable keeps its type, whatever the runs do.
THEOREM BatchTypeCorrect == BatchSpec => []BatchSpecTypeOK
<1>1. BatchSpecTypeOK /\ RunsOK /\ [BatchNext]_batchSpecVars => BatchSpecTypeOK' /\ RunsOK'
  BY BatchNextType
<1>2. QED BY BatchInitType, <1>1, PTL DEF BatchSpec, batchSpecVars

-------------------------------------------------------------------------------
(* The lease                                                                   *)

\* Inductive as it stands: the run that takes the lease finds it free, and only
\* the run that has it gives it back.
LeaseHeld ==
  /\ lease = 0 => Running = {}
  /\ lease = 1 => \E b \in Batch : Running = {b}

\* A step of a run under way is a step of the one that has the lease.
LEMMA RunHasLease ==
  ASSUME BatchSpecTypeOK, LeaseHeld, NEW b \in Batch, batchPc[b] \notin {"new", "done"}
  PROVE  lease = 1 /\ Running = {b}
<1>1. b \in Running
  BY DEF Running
<1>2. QED BY <1>1 DEF LeaseHeld, BatchSpecTypeOK, BatchTypeOK

LEMMA InitLease == BatchSpecInit => LeaseHeld
BY DEF BatchSpecInit, BatchInit, LeaseHeld, Running

\* A run that goes on keeps the lease, a run that returns leaves it free.
LEMMA RunMovesOn ==
  ASSUME BatchSpecTypeOK, LeaseHeld, NEW b \in Batch, batchPc[b] \notin {"new", "done"},
         NEW label, batchPc' = [batchPc EXCEPT ![b] = label],
         IF label = "done" THEN lease' = 0 ELSE label # "new" /\ lease' = lease
  PROVE  LeaseHeld'
<1>1. lease = 1 /\ Running = {b}
  BY RunHasLease
<1>2. \A d \in Batch : batchPc'[d] = IF d = b THEN label ELSE batchPc[d]
  BY DEF BatchSpecTypeOK, BatchTypeOK
<1>3. CASE label = "done"
  BY <1>1, <1>2, <1>3 DEF LeaseHeld, Running
<1>4. CASE label # "done"
  <2>1. Running' = {b}
    BY <1>1, <1>2, <1>4 DEF Running
  <2>2. QED BY <1>1, <1>4, <2>1 DEF LeaseHeld
<1>5. QED BY <1>3, <1>4

LEMMA NextLease == BatchSpecTypeOK /\ LeaseHeld /\ [BatchNext]_batchSpecVars => LeaseHeld'
<1> SUFFICES ASSUME BatchSpecTypeOK, LeaseHeld, [BatchNext]_batchSpecVars PROVE LeaseHeld'
  OBVIOUS
<1>1. CASE UNCHANGED batchSpecVars
  BY <1>1 DEF batchSpecVars, batchVars, LeaseHeld, Running
<1>2. ASSUME NEW b \in Batch, Run(b) PROVE LeaseHeld'
  <2>1. batchPc[b] = "new"
    BY <1>2 DEF Run
  <2>2. \/ lease' = lease /\ batchPc' = [batchPc EXCEPT ![b] = "done"]
        \/ lease = 0 /\ lease' = 1 /\ batchPc' = [batchPc EXCEPT ![b] = "parse"]
    BY <1>2 DEF Run, LeaseFree, Return, BatchGoto
  <2>3. CASE lease' = lease /\ batchPc' = [batchPc EXCEPT ![b] = "done"]
    <3>1. Running' = Running
      BY <2>1, <2>3 DEF Running, BatchSpecTypeOK, BatchTypeOK
    <3>2. QED BY <2>3, <3>1 DEF LeaseHeld
  <2>4. CASE lease = 0 /\ lease' = 1 /\ batchPc' = [batchPc EXCEPT ![b] = "parse"]
    <3>1. Running' = {b}
      BY <2>4 DEF LeaseHeld, Running, BatchSpecTypeOK, BatchTypeOK
    <3>2. QED BY <2>4, <3>1 DEF LeaseHeld
  <2>5. QED BY <2>2, <2>3, <2>4
<1>3. ASSUME NEW b \in Batch, BatchStep(b) PROVE LeaseHeld'
  <2>1. /\ batchPc[b] \notin {"new", "done"}
        /\ \E label \in {"list", "loop", "audit", "done"} :
             /\ batchPc' = [batchPc EXCEPT ![b] = label]
             /\ IF label = "done" THEN lease' = 0 ELSE label # "new" /\ lease' = lease
    BY <1>3 DEF BatchStep, Parse, BatchList, Complete, BatchAudit, Finish, ReleaseLease, Return,
         BatchGoto
  <2>2. QED BY <2>1, RunMovesOn
<1>4. ASSUME NEW b \in Batch, CancelBatch(b) PROVE LeaseHeld'
  BY <1>4 DEF CancelBatch, batchVars, LeaseHeld, Running
<1>5. QED BY <1>1, <1>2, <1>3, <1>4 DEF BatchNext

\* acquireLease and the deferred release admit one run at a time, and the lease
\* is taken exactly while a run is under way.
THEOREM OneRunAtATime == BatchSpec => []LeaseIsExclusive
<1>1. BatchSpecTypeOK /\ LeaseHeld => LeaseIsExclusive
  <2> SUFFICES ASSUME BatchSpecTypeOK, LeaseHeld PROVE Cardinality(Running) = lease
    BY DEF LeaseIsExclusive
  <2>1. CASE lease = 0
    BY <2>1, FS_EmptySet DEF LeaseHeld
  <2>2. CASE lease = 1
    BY <2>2, FS_Singleton DEF LeaseHeld
  <2>3. QED BY <2>1, <2>2 DEF BatchSpecTypeOK, BatchTypeOK
<1>2. QED BY InitLease, NextLease, BatchTypeCorrect, <1>1, PTL DEF BatchSpec, batchSpecVars

-------------------------------------------------------------------------------
(* What a run leaves behind                                                    *)

\* The listing a run walks still holds every inspection in progress that is
\* overdue for it: nothing comes to be in progress or changes its day meanwhile.
ListingOK(b) ==
  batchPc[b] \in {"loop", "audit"} =>
    \A id \in Listed("in_progress") : Overdue(id, cutoff[b]) => id \in overdue[b]

ListingsOK == \A b \in Batch : ListingOK(b)

LEMMA InitListings == BatchSpecInit => ListingsOK /\ NoneLeftOverdue
BY DEF BatchSpecInit, BatchInit, ListingsOK, ListingOK, NoneLeftOverdue

\* A step of the store completes inspections and does nothing else to them.
LEMMA ListingShrinks ==
  ASSUME BatchSpecTypeOK, RunsOK, [BatchNext]_batchSpecVars, NEW id \in Listed("in_progress")'
  PROVE  id \in Listed("in_progress") /\ inspections'[id] = inspections[id]
<1>1. CASE inspections' = inspections
  BY <1>1 DEF Listed, Stored
<1>2. CASE inspections' # inspections
  <2>1. PICK b \in Batch, n \in InspectionId :
          FindError(b, n) = "ok" /\ UpdateInspectionStatus(n, "completed")
    BY <1>2 DEF BatchNext, BatchStep, Run, Parse, BatchList, Complete, BatchAudit, Finish,
         CancelBatch, batchSpecVars, storeVars
  <2>2. inspections[n] \in TowerInspection
    BY <2>1, FindErrors DEF BatchSpecTypeOK, StoreTypeOK, Stored
  <2>3. Written(inspections[n], "completed").status = "completed"
    BY <2>2, WrittenType DEF InspectionStatus
  <2>4. id # n
    BY <2>1, <2>3 DEF Listed, UpdateInspectionStatus, BatchSpecTypeOK, StoreTypeOK
  <2>5. QED BY <2>1, <2>4 DEF Listed, Stored, UpdateInspectionStatus, BatchSpecTypeOK, StoreTypeOK
<1>3. QED BY <1>1, <1>2

LEMMA NextListings ==
  BatchSpecTypeOK /\ RunsOK /\ ListingsOK /\ [BatchNext]_batchSpecVars => ListingsOK'
<1> SUFFICES ASSUME BatchSpecTypeOK, RunsOK, ListingsOK, [BatchNext]_batchSpecVars, NEW b \in Batch,
                    batchPc'[b] \in {"loop", "audit"},
                    NEW id \in Listed("in_progress")', Overdue(id, cutoff[b])'
             PROVE  id \in overdue'[b]
  BY DEF ListingsOK, ListingOK
<1>1. id \in Listed("in_progress") /\ inspections'[id] = inspections[id]
  BY ListingShrinks
<1>2. CASE BatchList(b)
  BY <1>1, <1>2 DEF BatchList, Return, BatchGoto, BatchSpecTypeOK, BatchTypeOK, Overdue, Listed, storeVars
<1>3. CASE batchPc[b] \in {"loop", "audit"} /\ cutoff'[b] = cutoff[b] /\ overdue'[b] = overdue[b]
  BY <1>1, <1>3 DEF ListingsOK, ListingOK, Overdue
<1>4. ASSUME NEW n \in InspectionId, Complete(b, n) PROVE id \in overdue'[b]
  <2>1. FindError(b, n) = "ok" /\ batchPc[b] = "loop" /\ cutoff' = cutoff
    BY <1>4 DEF Complete, Return, BatchGoto, BatchSpecTypeOK, BatchTypeOK
  <2>2. overdue' = [overdue EXCEPT ![b] = @ \ {n}]
    BY <1>4, <2>1 DEF Complete
  <2>3. id # n
    <3>1. inspections' = [inspections EXCEPT ![n] = Written(inspections[n], "completed")]
      BY <1>4, <2>1 DEF Complete, UpdateInspectionStatus
    <3>2. Written(inspections[n], "completed").status = "completed"
      BY <2>1, FindErrors, WrittenType DEF BatchSpecTypeOK, StoreTypeOK, Stored, InspectionStatus
    <3>3. QED BY <3>1, <3>2 DEF Listed, BatchSpecTypeOK, StoreTypeOK
  <2>4. QED BY <1>1, <2>1, <2>2, <2>3 DEF ListingsOK, ListingOK, Overdue, BatchSpecTypeOK, BatchTypeOK
<1>5. \/ BatchList(b)
      \/ batchPc[b] \in {"loop", "audit"} /\ cutoff'[b] = cutoff[b] /\ overdue'[b] = overdue[b]
      \/ \E n \in InspectionId : Complete(b, n)
  <2>1. CASE UNCHANGED batchSpecVars
    BY <2>1 DEF batchSpecVars, batchVars
  <2>2. ASSUME NEW d \in Batch, d # b, Run(d) \/ BatchStep(d) \/ CancelBatch(d)
        PROVE  batchPc[b] = batchPc'[b] /\ cutoff'[b] = cutoff[b] /\ overdue'[b] = overdue[b]
    BY <2>2 DEF Run, BatchStep, Parse, BatchList, Complete, BatchAudit, Finish, CancelBatch,
         Return, BatchGoto, batchVars, BatchSpecTypeOK, BatchTypeOK
  <2>3. CASE Run(b) \/ BatchStep(b) \/ CancelBatch(b)
    BY <2>3 DEF Run, BatchStep, Parse, BatchAudit, Finish, CancelBatch,
         Return, BatchGoto, batchVars, BatchSpecTypeOK, BatchTypeOK
  <2>4. QED BY <2>1, <2>2, <2>3 DEF BatchNext
<1>6. QED BY <1>2, <1>3, <1>4, <1>5

LEMMA NextNoneLeft ==
  BatchSpecTypeOK /\ RunsOK /\ ListingsOK /\ NoneLeftOverdue /\ [BatchNext]_batchSpecVars => NoneLeftOverdue'
<1> SUFFICES ASSUME BatchSpecTypeOK, RunsOK, ListingsOK, NoneLeftOverdue, [BatchNext]_batchSpecVars,
                    NEW b \in Batch, batchResult'[b] = "ok", NEW id \in Listed("in_progress")'
             PROVE  inspections'[id].due >= cutoff'[b]
  BY DEF NoneLeftOverdue
<1>1. id \in Listed("in_progress") /\ inspections'[id] = inspections[id]
  BY ListingShrinks
<1>2. CASE batchResult[b] = "ok"
  <2>1. batchPc[b] = "done"
    BY <1>2 DEF RunsOK, RunOK
  <2>2. cutoff'[b] = cutoff[b]
    BY <2>1 DEF BatchNext, Run, BatchStep, Parse, BatchList, Complete, BatchAudit, Finish,
         CancelBatch, batchSpecVars, batchVars, BatchSpecTypeOK, BatchTypeOK
  <2>3. QED BY <1>1, <1>2, <2>2 DEF NoneLeftOverdue
<1>3. CASE batchResult[b] # "ok"
  <2>1. Finish(b)
    <3>1. batchResult'[b] # batchResult[b]
      BY <1>3
    <3>2. ~UNCHANGED batchSpecVars
      BY <3>1 DEF batchSpecVars, batchVars
    <3>3. \A d \in Batch : d # b => ~(Run(d) \/ BatchStep(d) \/ CancelBatch(d))
      BY <3>1 DEF Run, BatchStep, Parse, BatchList, Complete, BatchAudit, Finish, CancelBatch,
           Return, batchVars, BatchSpecTypeOK, BatchTypeOK
    <3>4. ~Run(b) /\ ~Parse(b) /\ ~BatchList(b) /\ ~BatchAudit(b) /\ ~CancelBatch(b)
      BY <1>3 DEF Run, Parse, BatchList, BatchAudit, CancelBatch, Return, batchVars, BatchSpecTypeOK,
           BatchTypeOK
    <3>5. \A n \in InspectionId : ~Complete(b, n)
      <4> SUFFICES ASSUME NEW n \in InspectionId, Complete(b, n) PROVE FALSE
        OBVIOUS
      <4> DEFINE err == FindError(b, n)
      <4>1. batchResult' = batchResult \/ (err # "ok" /\ batchResult' = [batchResult EXCEPT ![b] = err])
        BY DEF Complete, Return
      <4> HIDE DEF err
      <4>2. QED BY <1>3, <4>1 DEF BatchSpecTypeOK, BatchTypeOK
    <3>6. QED BY <3>2, <3>3, <3>4, <3>5 DEF BatchNext, BatchStep
  <2>2. batchPc[b] = "loop" /\ overdue[b] = {} /\ cutoff' = cutoff
    BY <2>1 DEF Finish
  <2>3. ~(inspections[id].due < cutoff[b])
    BY <1>1, <2>2 DEF ListingsOK, ListingOK, Overdue
  <2>4. inspections[id].due \in Int /\ cutoff[b] \in Int
    BY <1>1, <2>2 DEF RunsOK, RunOK, BatchSpecTypeOK, StoreTypeOK, TowerInspection, Listed, Stored
  <2>5. QED BY <1>1, <2>2, <2>3, <2>4
<1>4. QED BY <1>2, <1>3

\* TowerBatchProcessor.Run completes every overdue inspection in progress
\* before it returns nil, and none comes back afterwards.
THEOREM RunCompletesOverdue == BatchSpec => []NoneLeftOverdue
<1>1. BatchSpec => [](BatchSpecTypeOK /\ RunsOK)
  BY BatchInitType, BatchNextType, PTL DEF BatchSpec, batchSpecVars
<1>2. QED BY <1>1, InitListings, NextListings, NextNoneLeft, PTL DEF BatchSpec, batchSpecVars

-------------------------------------------------------------------------------
(* The audit trail of the runs                                                 *)

\* A run's lists: what it has completed or is to complete is stored, the loop
\* takes out of the one what it puts into the other, and the inspection it is at
\* is the one it has just completed.
ListsOK(b) ==
  /\ \A id \in overdue[b] \cup completed[b] : Stored(id)
  /\ overdue[b] \cap completed[b] = {}
  /\ batchPc[b] \in {"new", "parse", "list"} => completed[b] = {}
  /\ IF batchPc[b] = "audit" THEN current[b] \in completed[b] ELSE current[b] = 0

AllListsOK == \A b \in Batch : ListsOK(b)

\* What a run has completed and filed, by tower.
Filed(t) == {run \in Batch \X InspectionId :
               LET b == run[1]  id == run[2]
               IN  id \in completed[b] /\ id # current[b] /\ inspections[id].tower = t}

LEMMA FiledFinite ==
  ASSUME NEW t
  PROVE  IsFiniteSet(Filed(t)) /\ Cardinality(Filed(t)) \in Nat
<1>1. IsFiniteSet(Batch) /\ IsFiniteSet(InspectionId)
  BY BatchCalls, StoreContexts, StoreSeeds, FS_Subset, FS_Interval DEF InspectionId
<1>2. IsFiniteSet(Batch \X InspectionId)
  BY <1>1, FS_Product
<1>3. Filed(t) \in SUBSET (Batch \X InspectionId)
  BY DEF Filed
<1>4. IsFiniteSet(Filed(t))
  BY <1>2, <1>3, FS_Subset
<1>5. QED BY <1>4, FS_CardinalityType

LEMMA InitTrails ==
  ASSUME StoreInit, BatchInit
  PROVE  AllListsOK /\ AuditTrailsBatches
<1>1. AllListsOK
  BY DEF BatchInit, AllListsOK, ListsOK
<1>2. ASSUME NEW t \in Tower PROVE Count(t, "batch_completed") = Cardinality(Filed(t))
  <2>1. Filed(t) = {}
    BY DEF BatchInit, Filed
  <2>2. towerAudit[t] = <<>>
    BY DEF StoreInit, AuditKey
  <2>3. {i \in DOMAIN towerAudit[t] : towerAudit[t][i] = "batch_completed"} = {}
    BY <2>2
  <2>4. QED BY <2>1, <2>3, FS_EmptySet DEF Count
<1>3. QED BY <1>1, <1>2 DEF AuditTrailsBatches, Filed

\* An inspection a run completes keeps its tower and stays stored.
LEMMA CompleteKeeps ==
  ASSUME StoreTypeOK, NEW b \in Batch, NEW n \in InspectionId, Complete(b, n),
         NEW id \in InspectionId, Stored(id)
  PROVE  Stored(id)' /\ inspections'[id].tower = inspections[id].tower
<1>1. CASE FindError(b, n) # "ok"
  BY <1>1 DEF Complete, Stored
<1>2. CASE FindError(b, n) = "ok"
  <2>1. inspections[n] \in TowerInspection
    BY <1>2, FindErrors DEF StoreTypeOK, Stored
  <2> DEFINE new == Written(inspections[n], "completed")
  <2>2. new \in TowerInspection /\ new.tower = inspections[n].tower
    BY <2>1, WrittenType DEF InspectionStatus
  <2>3. inspections' = [inspections EXCEPT ![n] = new]
    BY <1>2 DEF Complete, UpdateInspectionStatus
  <2> HIDE DEF new
  <2>4. QED BY <2>2, <2>3, NotAnInspection DEF StoreTypeOK, Stored
<1>3. QED BY <1>1, <1>2

\* Completing an inspection moves it from one list to the other and makes it the
\* current one: its event is not filed yet.
LEMMA CompleteTrails ==
  ASSUME BatchSpecTypeOK, RunsOK, AllListsOK, AuditTrailsBatches,
         NEW b \in Batch, NEW n \in InspectionId, Complete(b, n)
  PROVE  AllListsOK' /\ AuditTrailsBatches'
<1>1. \A id \in InspectionId : Stored(id) => Stored(id)' /\ inspections'[id].tower = inspections[id].tower
  BY CompleteKeeps DEF BatchSpecTypeOK
<1>2. towerAudit' = towerAudit /\ batchPc[b] = "loop" /\ n \in overdue[b]
  BY DEF Complete
<1>3. \A d \in Batch : overdue[d] \subseteq InspectionId /\ completed[d] \subseteq InspectionId
  BY DEF BatchSpecTypeOK, BatchTypeOK
<1>4. ListsOK(b)
  BY DEF AllListsOK
<1>5. CASE FindError(b, n) # "ok"
  <2>1. batchPc' = [batchPc EXCEPT ![b] = "done"] /\ UNCHANGED <<overdue, current, completed>>
    BY <1>5 DEF Complete, Return, BatchGoto
  <2>2. AllListsOK'
    BY <1>1, <1>2, <1>3, <2>1 DEF AllListsOK, ListsOK, BatchSpecTypeOK, BatchTypeOK
  <2>3. \A t : Filed(t)' = Filed(t)
    BY <1>1, <1>3, <2>1 DEF Filed, AllListsOK, ListsOK
  <2>4. QED BY <1>2, <2>2, <2>3 DEF AuditTrailsBatches, Filed, Count
<1>6. CASE FindError(b, n) = "ok"
  <2>1. /\ overdue' = [overdue EXCEPT ![b] = @ \ {n}]
        /\ current' = [current EXCEPT ![b] = n]
        /\ completed' = [completed EXCEPT ![b] = @ \cup {n}]
        /\ batchPc' = [batchPc EXCEPT ![b] = "audit"]
    BY <1>6 DEF Complete, BatchGoto
  <2>2. /\ overdue'[b] = overdue[b] \ {n} /\ completed'[b] = completed[b] \cup {n}
        /\ current'[b] = n /\ batchPc'[b] = "audit"
        /\ \A d \in Batch : d # b => /\ overdue'[d] = overdue[d] /\ completed'[d] = completed[d]
                                     /\ current'[d] = current[d] /\ batchPc'[d] = batchPc[d]
    BY <2>1 DEF BatchSpecTypeOK, BatchTypeOK
  <2>3. AllListsOK'
    BY <1>1, <1>2, <1>3, <1>4, <2>2 DEF AllListsOK, ListsOK
  <2>4. ASSUME NEW d \in Batch, NEW id \in InspectionId
        PROVE  /\ (id \in completed'[d] /\ id # current'[d]) <=> (id \in completed[d] /\ id # current[d])
               /\ id \in completed[d] => inspections'[id].tower = inspections[id].tower
    <3>1. CASE d = b
      <4>1. current[b] = 0 /\ n \notin completed[b] /\ 0 \notin InspectionId
        BY <1>2, <1>4 DEF ListsOK, InspectionId
      <4>2. QED BY <1>1, <1>4, <2>2, <3>1, <4>1 DEF ListsOK
    <3>2. CASE d # b
      BY <1>1, <2>2, <3>2 DEF AllListsOK, ListsOK
    <3>3. QED BY <3>1, <3>2
  <2>5. \A t : Filed(t)' = Filed(t)
    BY <2>4 DEF Filed
  <2>6. QED BY <1>2, <2>3, <2>5 DEF AuditTrailsBatches, Filed, Count
<1>7. QED BY <1>5, <1>6

\* The audit files the event of the current inspection under its tower.
LEMMA BatchAuditTrails ==
  ASSUME BatchSpecTypeOK, RunsOK, AllListsOK, AuditTrailsBatches, NEW b \in Batch, BatchAudit(b)
  PROVE  AllListsOK' /\ AuditTrailsBatches'
<1> DEFINE n == current[b]
           key == inspections[n].tower
<1>1. /\ batchPc[b] = "audit" /\ AddEvent(key, "batch_completed")
      /\ current' = [current EXCEPT ![b] = 0] /\ batchPc' = [batchPc EXCEPT ![b] = "loop"]
      /\ UNCHANGED <<inspections, overdue, completed>>
  BY DEF BatchAudit, BatchGoto
<1>2. /\ n \in completed[b] /\ n \in InspectionId /\ Stored(n)
      /\ completed[b] \subseteq InspectionId
  BY <1>1 DEF AllListsOK, ListsOK, BatchSpecTypeOK, BatchTypeOK
<1>3. key \in Tower
  BY <1>2 DEF BatchSpecTypeOK, StoreTypeOK, Stored, TowerInspection
<1>4. /\ current'[b] = 0 /\ batchPc'[b] = "loop"
      /\ \A d \in Batch : d # b => current'[d] = current[d] /\ batchPc'[d] = batchPc[d]
  BY <1>1 DEF BatchSpecTypeOK, BatchTypeOK
<1>5. AllListsOK'
  BY <1>1, <1>4 DEF AllListsOK, ListsOK, Stored
<1>6. ASSUME NEW t \in Tower
      PROVE  /\ Filed(t)' = IF t = key THEN Filed(t) \cup {<<b, n>>} ELSE Filed(t)
             /\ <<b, n>> \notin Filed(t)
  <2>1. 0 \notin InspectionId
    BY DEF InspectionId
  <2>2. ASSUME NEW d \in Batch, NEW id \in InspectionId
        PROVE  (id \in completed'[d] /\ id # current'[d]) <=>
                 (id \in completed[d] /\ id # current[d]) \/ (d = b /\ id = n)
    BY <1>1, <1>2, <1>4, <2>1, <2>2
  <2>3. \A run \in Batch \X InspectionId :
          /\ run[1] \in Batch /\ run[2] \in InspectionId
          /\ run = <<b, n>> <=> run[1] = b /\ run[2] = n
    OBVIOUS
  <2>4. <<b, n>> \in Batch \X InspectionId /\ <<b, n>>[1] = b /\ <<b, n>>[2] = n
    BY <1>2
  <2>5. ASSUME NEW run \in Batch \X InspectionId
        PROVE  run \in Filed(t)' <=> run \in Filed(t) \/ (run = <<b, n>> /\ t = key)
    BY <1>1, <2>2, <2>3 DEF Filed
  <2>6. <<b, n>> \notin Filed(t)
    BY <2>4 DEF Filed
  <2>7. Filed(t)' \subseteq Batch \X InspectionId /\ Filed(t) \subseteq Batch \X InspectionId
    BY DEF Filed
  <2> HIDE DEF key, n
  <2>8. QED BY <2>4, <2>5, <2>6, <2>7
<1>7. ASSUME NEW t \in Tower PROVE Count(t, "batch_completed")' = Cardinality(Filed(t)')
  <2>1. Count(t, "batch_completed") = Cardinality(Filed(t))
    BY DEF AuditTrailsBatches, Filed
  <2>2. Count(t, "batch_completed")' =
          IF t = key THEN Count(t, "batch_completed") + 1 ELSE Count(t, "batch_completed")
    <3>1. key \in AuditKey /\ t \in AuditKey /\ "batch_completed" \in EventType
      BY <1>3 DEF AuditKey, EventType
    <3> HIDE DEF key
    <3>2. QED BY <1>1, <3>1, AddEventCount DEF BatchSpecTypeOK
  <2> HIDE DEF key, n
  <2>3. CASE t = key
    <3>1. Cardinality(Filed(t) \cup {<<b, n>>}) = Cardinality(Filed(t)) + 1
      BY <1>6, FiledFinite, FS_AddElement
    <3>2. QED BY <1>6, <2>1, <2>2, <2>3, <3>1
  <2>4. CASE t # key
    BY <1>6, <2>1, <2>2, <2>4
  <2>5. QED BY <2>3, <2>4
<1>8. QED BY <1>5, <1>7 DEF AuditTrailsBatches, Filed

\* Every other step of a run touches neither inspections nor audit, and of the
\* lists the listing only, before anything is completed.
LEMMA OtherTrails ==
  ASSUME BatchSpecTypeOK, RunsOK, AllListsOK, AuditTrailsBatches,
         NEW b \in Batch, Run(b) \/ Parse(b) \/ BatchList(b) \/ Finish(b) \/ CancelBatch(b)
  PROVE  AllListsOK' /\ AuditTrailsBatches'
<1>1. UNCHANGED <<inspections, towerAudit, current, completed>>
  BY DEF Run, Parse, BatchList, Finish, CancelBatch, storeVars, batchVars
<1>2. \A d \in Batch : d # b => batchPc'[d] = batchPc[d] /\ overdue'[d] = overdue[d]
  BY DEF Run, Parse, BatchList, Finish, CancelBatch, Return, BatchGoto, batchVars, BatchSpecTypeOK, BatchTypeOK
<1>3. /\ \A id \in overdue'[b] : Stored(id)
      /\ overdue'[b] = overdue[b] \/ completed[b] = {}
      /\ (batchPc'[b] = "audit") = (batchPc[b] = "audit")
      /\ batchPc'[b] \in {"new", "parse", "list"} => batchPc[b] \in {"new", "parse", "list"}
  BY DEF Run, Parse, BatchList, Finish, CancelBatch, Return, BatchGoto, batchVars, BatchSpecTypeOK, BatchTypeOK,
     AllListsOK, ListsOK, Listed
<1>4. AllListsOK'
  <2> SUFFICES ASSUME NEW d \in Batch PROVE ListsOK(d)'
    BY DEF AllListsOK
  <2>1. CASE d = b
    BY <1>1, <1>3, <2>1 DEF AllListsOK, ListsOK, Stored
  <2>2. CASE d # b
    BY <1>1, <1>2, <2>2 DEF AllListsOK, ListsOK, Stored
  <2>3. QED BY <2>1, <2>2
<1>5. QED BY <1>1, <1>4 DEF AuditTrailsBatches, Count

-------------------------------------------------------------------------------
(* Runs beside other components                                                *)

BatchInv == BatchTypeOK /\ RunsOK /\ AllListsOK /\ AuditTrailsBatches

LEMMA BatchInvInit == ASSUME StoreInit, BatchInit PROVE BatchInv
BY BatchInitType, InitTrails DEF BatchSpecInit, BatchSpecTypeOK, BatchInv

LEMMA BatchInvNext == ASSUME StoreTypeOK, BatchInv, BatchNext PROVE StoreTypeOK' /\ BatchInv'
<1>1. BatchSpecTypeOK /\ RunsOK /\ AllListsOK /\ AuditTrailsBatches
  BY DEF BatchSpecTypeOK, BatchInv
<1>2. BatchSpecTypeOK' /\ RunsOK'
  BY <1>1, BatchNextType
<1>3. AllListsOK' /\ AuditTrailsBatches'
  BY <1>1, CompleteTrails, BatchAuditTrails, OtherTrails DEF BatchNext, BatchStep
<1>4. QED BY <1>2, <1>3 DEF BatchSpecTypeOK, BatchInv

\* A step of another component that keeps the inspections stored and their
\* towers, and files no event of theirs, leaves the runs as true.
LEMMA BatchInvOthers ==
  ASSUME StoreTypeOK, BatchInv, UNCHANGED batchVars,
         \A id \in InspectionId :
           Stored(id) => Stored(id)' /\ inspections'[id].tower = inspections[id].tower,
         \/ UNCHANGED towerAudit
         \/ \E key \in AuditKey, event \in EventType \ {"batch_completed"} : AddEvent(key, event)
  PROVE  BatchInv'
<1>1. /\ UNCHANGED <<batchPc, cutoff, lease, overdue, current, completed, batchResult>>
      /\ \A b \in Batch : overdue[b] \subseteq InspectionId /\ completed[b] \subseteq InspectionId
  BY DEF batchVars, BatchInv, BatchTypeOK
<1>2. BatchTypeOK' /\ RunsOK'
  BY <1>1 DEF BatchInv, BatchTypeOK, RunsOK, RunOK
<1>3. AllListsOK'
  BY <1>1 DEF BatchInv, AllListsOK, ListsOK
<1>4. AuditTrailsBatches'
  <2> SUFFICES ASSUME NEW t \in Tower PROVE Count(t, "batch_completed")' = Cardinality(Filed(t)')
    BY DEF AuditTrailsBatches, Filed
  <2>1. Count(t, "batch_completed") = Cardinality(Filed(t))
    BY DEF BatchInv, AuditTrailsBatches, Filed
  <2>2. Filed(t)' = Filed(t)
    BY <1>1 DEF Filed, BatchInv, AllListsOK, ListsOK
  <2>3. Count(t, "batch_completed")' = Count(t, "batch_completed")
    <3>1. CASE UNCHANGED towerAudit
      BY <3>1 DEF Count
    <3>2. CASE ~UNCHANGED towerAudit
      BY <3>2, AddEventCount DEF AuditKey
    <3>3. QED BY <3>1, <3>2
  <2>4. QED BY <2>1, <2>2, <2>3
<1>5. QED BY <1>2, <1>3, <1>4 DEF BatchInv

\* A run has completed an inspection.
Completes(b, id) ==
  /\ id \in overdue[b] /\ Stored(id) /\ inspections[id] \in TowerInspection
  /\ inspections' = [inspections EXCEPT ![id] = Written(@, "completed")]
  /\ id \in completed'[b]

\* All that a step of the runs does to what is shared, and to their lists.
LEMMA BatchEffect ==
  ASSUME StoreTypeOK, BatchInv, BatchNext
  PROVE  /\ UNCHANGED inspections \/ \E b \in Batch, id \in InspectionId : Completes(b, id)
         /\ UNCHANGED towerAudit \/ \E t \in Tower : AddEvent(t, "batch_completed")
         /\ cancelled \subseteq cancelled'
         /\ \A b \in Batch : /\ completed[b] \subseteq completed'[b]
                             /\ overdue'[b] \subseteq overdue[b] \cup Listed("in_progress")
<1>1. UNCHANGED inspections \/ \E b \in Batch, id \in InspectionId : Completes(b, id)
  <2>1. SUFFICES ASSUME ~UNCHANGED inspections
                 PROVE  \E b \in Batch, id \in InspectionId : Completes(b, id)
    OBVIOUS
  <2>2. PICK b \in Batch, id \in InspectionId : Complete(b, id)
    BY <2>1 DEF BatchNext, BatchStep, Run, Parse, BatchList, BatchAudit, Finish, CancelBatch, storeVars
  <2>3. FindError(b, id) = "ok" /\ UpdateInspectionStatus(id, "completed") /\ id \in overdue[b]
    BY <2>1, <2>2 DEF Complete
  <2>4. id \in completed'[b]
    BY <2>1, <2>2 DEF Complete, BatchInv, BatchTypeOK
  <2>5. Stored(id) /\ inspections[id] \in TowerInspection
    BY <2>3, FindErrors DEF StoreTypeOK, Stored
  <2>6. Completes(b, id)
    BY <2>3, <2>4, <2>5 DEF Completes, UpdateInspectionStatus
  <2>7. QED BY <2>6
<1>2. UNCHANGED towerAudit \/ \E t \in Tower : AddEvent(t, "batch_completed")
  <2>1. ASSUME NEW b \in Batch, BatchAudit(b) PROVE \E t \in Tower : AddEvent(t, "batch_completed")
    <3>1. inspections[current[b]].tower \in Tower
      BY <2>1 DEF BatchAudit, BatchInv, RunsOK, RunOK, StoreTypeOK, Stored, TowerInspection
    <3>2. QED BY <2>1, <3>1 DEF BatchAudit
  <2>2. QED BY <2>1
    DEF BatchNext, BatchStep, Run, Parse, BatchList, Complete, Finish, CancelBatch, storeVars
<1>3. cancelled \subseteq cancelled'
  BY DEF BatchNext, BatchStep, Run, Parse, BatchList, Complete, BatchAudit, Finish, CancelBatch, storeVars
<1>4. ASSUME NEW b \in Batch
      PROVE  /\ completed[b] \subseteq completed'[b]
             /\ overdue'[b] \subseteq overdue[b] \cup Listed("in_progress")
  <2>1. /\ completed' = completed
           \/ \E d \in Batch, id \in InspectionId : completed' = [completed EXCEPT ![d] = @ \cup {id}]
        /\ \/ overdue' = overdue
           \/ \E d \in Batch, id \in InspectionId : overdue' = [overdue EXCEPT ![d] = @ \ {id}]
           \/ \E d \in Batch : BatchList(d)
    BY DEF BatchNext, BatchStep, Run, Parse, Complete, BatchAudit, Finish, CancelBatch, BatchList, batchVars
  <2>2. completed[b] \subseteq completed'[b]
    BY <2>1 DEF BatchInv, BatchTypeOK
  <2>3. ASSUME NEW d \in Batch, BatchList(d)
        PROVE  overdue'[b] \subseteq overdue[b] \cup Listed("in_progress")
    <3>1. CASE overdue' = overdue
      BY <3>1
    <3>2. CASE overdue' # overdue
      <4> DEFINE new == {id \in Listed("in_progress") : Overdue(id, cutoff[d])}
      <4>1. overdue' = [overdue EXCEPT ![d] = new]
        BY <2>3, <3>2 DEF BatchList
      <4>2. new \subseteq Listed("in_progress")
        OBVIOUS
      <4> HIDE DEF new
      <4>3. QED BY <4>1, <4>2 DEF BatchInv, BatchTypeOK
    <3>3. QED BY <3>1, <3>2
  <2>4. overdue'[b] \subseteq overdue[b] \cup Listed("in_progress")
    BY <2>1, <2>3 DEF BatchInv, BatchTypeOK
  <2>5. QED BY <2>2, <2>4
<1>5. QED BY <1>1, <1>2, <1>3, <1>4
===============================================================================
