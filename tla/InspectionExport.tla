---------------------------- MODULE InspectionExport --------------------------
(* POST /api/export: InspectionExporter.Export moves the inspections of one    *)
(* status to another, with one worker goroutine per inspection and a pool of   *)
(* tokens (a buffered channel) that all exports share.  The handler's export   *)
(* goroutine lists, starts the workers, waits for them and audits.             *)
EXTENDS InspectionStore

CONSTANTS
  Exporter,                   \* the export requests a behaviour may contain
  BadStatus,                  \* a status inspectionStatusValid refuses
  inspectionExportLeaseLimit  \* the capacity of the token channel

ASSUME ExportRequests ==
  /\ Exporter \subseteq Context
  /\ BadStatus \notin InspectionStatus
  /\ inspectionExportLeaseLimit \in Nat \ {0}

VARIABLES
  exportPc,     \* where each export's handler stands
  move,         \* the statuses it was asked to export from and to
  worker,       \* its worker goroutines, by inspection
  tokens,       \* the occupancy of InspectionExporter.tokens
  sent,         \* the numbers in its ids channel, in order
  finalized,    \* how many of them finalize has audited
  exportReply   \* the HTTP status sent, 0 before

exportVars == <<exportPc, move, worker, tokens, sent, finalized, exportReply>>

NoMove == [from |-> BadStatus, to |-> BadStatus]

\* A worker is absent, waits for the start signal or a token, holds a token
\* before and after its write and after its send, has lost its error, or ended.
WorkerState == {"none", "waiting", "holding", "written", "sent", "failing", "lost", "ended"}
Holding == {"holding", "written", "sent", "failing"}

ExportTypeOK ==
  /\ exportPc \in [Exporter -> {"new", "list", "wait", "finalize", "done"}]
  /\ move \in [Exporter -> [from : InspectionStatus \cup {BadStatus},
                            to   : InspectionStatus \cup {BadStatus}]]
  /\ worker \in [Exporter -> [InspectionId -> WorkerState]]
  /\ tokens \in 0..inspectionExportLeaseLimit
  /\ sent \in [Exporter -> Seq(InspectionId)]
  /\ finalized \in [Exporter -> Nat]
  /\ exportReply \in [Exporter -> {0, 200, 500}]

ExportInit ==
  /\ exportPc = [e \in Exporter |-> "new"]
  /\ move = [e \in Exporter |-> NoMove]
  /\ worker = [e \in Exporter |-> [id \in InspectionId |-> "none"]]
  /\ tokens = 0
  /\ sent = [e \in Exporter |-> <<>>]
  /\ finalized = [e \in Exporter |-> 0]
  /\ exportReply = [e \in Exporter |-> 0]

ExportGoto(e, label) == exportPc' = [exportPc EXCEPT ![e] = label]

ExportAnswer(e, code) ==
  /\ ExportGoto(e, "done")
  /\ exportReply' = [exportReply EXCEPT ![e] = code]

WorkerGoto(e, id, state) == worker' = [worker EXCEPT ![e][id] = state]

-------------------------------------------------------------------------------
(* The handler's goroutine                                                     *)

\* Every error of Export is answered 500.
PostExport(e) ==
  \E from, to \in InspectionStatus \cup {BadStatus} :
    /\ exportPc[e] = "new"
    /\ \/ /\ BadStatus \in {from, to} \/ from = to
          /\ ExportAnswer(e, 500)
          /\ UNCHANGED move
       \/ /\ BadStatus \notin {from, to} /\ from # to
          /\ move' = [move EXCEPT ![e] = [from |-> from, to |-> to]]
          /\ ExportGoto(e, "list")
          /\ UNCHANGED exportReply
    /\ UNCHANGED <<storeVars, worker, tokens, sent, finalized>>

\* ListInspections, the loop that makes a worker for each match, and the close
\* of the start channel, which lets them all go.
List(e) ==
  /\ exportPc[e] = "list"
  /\ \/ /\ e \in cancelled
        /\ ExportAnswer(e, 500)
        /\ UNCHANGED worker
     \/ /\ e \notin cancelled
        /\ worker' = [worker EXCEPT ![e] =
             [id \in InspectionId |-> IF id \in Listed(move[e].from) THEN "waiting" ELSE "none"]]
        /\ ExportGoto(e, "wait")
        /\ UNCHANGED exportReply
  /\ UNCHANGED <<storeVars, move, tokens, sent, finalized>>

\* Mutants: nobody waits for the workers, or one id is awaited from each.
WaitForNoOne(e) ==
  /\ exportPc[e] = "wait"
  /\ ExportGoto(e, "finalize")
  /\ UNCHANGED <<storeVars, move, worker, tokens, sent, finalized, exportReply>>

WaitForIds(e) ==
  /\ \A id \in InspectionId : worker[e][id] \in {"none", "ended"}
  /\ WaitForNoOne(e)

\* wg.Wait returns when every worker is done; errCh is not read.
Wait(e) ==
  /\ exportPc[e] = "wait"
  /\ \A id \in InspectionId : worker[e][id] \in {"none", "lost", "ended"}
  /\ ExportGoto(e, "finalize")
  /\ UNCHANGED <<storeVars, move, worker, tokens, sent, finalized, exportReply>>

\* finalize adds one audit event per exported inspection, in order, and then
\* the handler answers.
Finalize(e) ==
  /\ exportPc[e] = "finalize"
  /\ \/ /\ finalized[e] < Len(sent[e])
        /\ AddEvent(sent[e][finalized[e] + 1], "exported")
        /\ finalized' = [finalized EXCEPT ![e] = @ + 1]
        /\ UNCHANGED <<exportPc, exportReply>>
     \/ /\ finalized[e] = Len(sent[e])
        /\ ExportAnswer(e, 200)
        /\ UNCHANGED <<towerAudit, finalized>>
  /\ UNCHANGED <<inspections, inspectionSequence, cancelled, move, worker, tokens, sent>>

-------------------------------------------------------------------------------
(* The workers                                                                 *)

\* Mutant: the capacity is one too small.
PoolFullEarly == tokens + 1 >= inspectionExportLeaseLimit

\* acquire puts a token in the channel unless it is full; it never waits.
PoolFull == tokens >= inspectionExportLeaseLimit

Acquire(e, id) ==
  /\ worker[e][id] = "waiting"
  /\ \/ /\ PoolFull
        /\ WorkerGoto(e, id, "lost")
        /\ UNCHANGED tokens
     \/ /\ ~PoolFull
        /\ tokens' = tokens + 1
        /\ WorkerGoto(e, id, "holding")
  /\ UNCHANGED <<storeVars, exportPc, move, sent, finalized, exportReply>>

\* UpdateInspectionStatus, whatever the inspection's status is by now.
Write(e, id) ==
  /\ worker[e][id] = "holding"
  /\ \/ /\ FindError(e, id) # "ok"
        /\ WorkerGoto(e, id, "failing")
        /\ UNCHANGED inspections
     \/ /\ FindError(e, id) = "ok"
        /\ UpdateInspectionStatus(id, move[e].to)
        /\ WorkerGoto(e, id, "written")
  /\ UNCHANGED <<inspectionSequence, towerAudit, cancelled, exportPc, move, tokens, sent, finalized, exportReply>>

\* ids <- item.ID never blocks: the channel has room for every listed item.
Send(e, id) ==
  /\ worker[e][id] = "written"
  /\ sent' = [sent EXCEPT ![e] = Append(@, id)]
  /\ WorkerGoto(e, id, "sent")
  /\ UNCHANGED <<storeVars, exportPc, move, tokens, finalized, exportReply>>

\* Mutant: the release is the last statement instead of a deferred one.
ReleaseAtEnd(e, id) ==
  /\ \/ worker[e][id] = "sent"    /\ WorkerGoto(e, id, "ended") /\ tokens' = tokens - 1
     \/ worker[e][id] = "failing" /\ WorkerGoto(e, id, "lost")  /\ UNCHANGED tokens
  /\ UNCHANGED <<storeVars, exportPc, move, sent, finalized, exportReply>>

\* The deferred release and wg.Done, after a send as after an error.
Release(e, id) ==
  /\ \/ worker[e][id] = "sent"    /\ WorkerGoto(e, id, "ended")
     \/ worker[e][id] = "failing" /\ WorkerGoto(e, id, "lost")
  /\ tokens' = tokens - 1
  /\ UNCHANGED <<storeVars, exportPc, move, sent, finalized, exportReply>>

WorkerStep(e, id) == Acquire(e, id) \/ Write(e, id) \/ Send(e, id) \/ Release(e, id)

\* The environment: the client goes away, or the handler's 10 s run out.
CancelExport(e) ==
  /\ exportPc[e] \in {"list", "wait"}
  /\ e \notin cancelled
  /\ cancelled' = cancelled \cup {e}
  /\ UNCHANGED <<inspections, inspectionSequence, towerAudit, exportVars>>

ExportStep(e) ==
  List(e) \/ Wait(e) \/ Finalize(e) \/ \E id \in InspectionId : WorkerStep(e, id)

ExportNext == \E e \in Exporter : PostExport(e) \/ ExportStep(e) \/ CancelExport(e)

ExportSpecInit == StoreInit /\ ExportInit
ExportSpec == ExportSpecInit /\ [][ExportNext]_<<storeVars, exportVars>>

\* Handler and workers are goroutines of their own, each runnable until it ends:
\* only Wait waits, and it waits for the workers.
ExportFairness ==
  \A e \in Exporter :
    /\ WF_<<storeVars, exportVars>>(List(e) \/ Wait(e) \/ Finalize(e))
    /\ \A id \in InspectionId : WF_<<storeVars, exportVars>>(WorkerStep(e, id))
FairExportSpec == ExportSpec /\ ExportFairness

-------------------------------------------------------------------------------
(* Properties                                                                  *)

ExportSpecTypeOK == StoreTypeOK /\ ExportTypeOK

\* A worker is named by its export and its inspection.
WorkersIn(states) == {w \in Exporter \X InspectionId : worker[w[1]][w[2]] \in states}

Holders == WorkersIn(Holding)

Workers(e, states) == {id \in InspectionId : worker[e][id] \in states}

\* The pool's tokens are exactly those the workers hold: no path through a
\* worker leaks one or gives back one it does not have.
TokensAreHeld == tokens = Cardinality(Holders)

\* What a 200 reports: the ids are those of the workers that ended well, each
\* once and each audited; every other match has been dropped with its error.
\* Nothing is left running that would write after the reply.
ReportMatchesWorkers ==
  \A e \in Exporter : exportReply[e] = 200 =>
    /\ Workers(e, {"waiting"} \cup Holding) = {}
    /\ Len(sent[e]) = Cardinality(Workers(e, {"ended"}))
    /\ {sent[e][n] : n \in 1..Len(sent[e])} = Workers(e, {"ended"})
    /\ finalized[e] = Len(sent[e])

\* The "exported" events of an inspection are those of the exports that moved
\* it, and none is filed for an inspection whose worker failed.
AuditTrailsExports ==
  \A id \in InspectionId :
    Count(id, "exported") =
      Cardinality({e \in Exporter : \E n \in 1..finalized[e] : sent[e][n] = id})

\* A worker loses its error for want of a token only under contention: while
\* the workers of all exports fit in the pool, every uncancelled export moves
\* everything it listed.
LostOnlyInContention ==
  \A e \in Exporter :
    /\ Workers(e, {"lost"}) # {}
    /\ e \notin cancelled
    => Cardinality(WorkersIn(WorkerState \ {"none"})) > inspectionExportLeaseLimit

\* Every export that has arrived is answered, cancelled or not.
EveryExportAnswered == \A e \in Exporter : exportPc[e] # "new" ~> exportReply[e] # 0

\* "Export moves every inspection currently in `from` status": an export that
\* nobody cancelled and that answers success has moved every one it listed.
ExportMovesEvery ==
  \A e \in Exporter :
    exportReply[e] = 200 /\ e \notin cancelled => Workers(e, {"lost"}) = {}
===============================================================================
