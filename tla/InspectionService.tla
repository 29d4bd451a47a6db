--------------------------- MODULE InspectionService --------------------------
(* InspectionService.Schedule, Start and Complete behind inspectionAPI.  A     *)
(* client is a request goroutine that runs its handler once.  Start and        *)
(* Complete read the status in one critical section and write it in another.   *)
EXTENDS InspectionStore

CONSTANTS
  Client,     \* the requests a behaviour may contain, each a Context
  DueInDays   \* the due_in_days clients send

VARIABLES
  pc,     \* where each request's goroutine stands
  call,   \* the operation, the inspection's number and, for Schedule, the item
  reply   \* the HTTP status sent, 0 before

serviceVars == <<pc, call, reply>>

NoCall == [op |-> "none", id |-> 0, item |-> NoInspection]

ServiceTypeOK ==
  /\ pc \in [Client -> {"new", "add", "get", "update", "audit", "publish", "done"}]
  /\ call \in [Client -> [ op   : {"none", "schedule", "start", "complete"},
                           id   : 0..MaxInspections,
                           item : TowerInspection \cup {NoInspection} ]]
  /\ reply \in [Client -> {0, 200, 201, 400, 404, 409, 500}]

ServiceInit ==
  /\ pc = [c \in Client |-> "new"]
  /\ call = [c \in Client |-> NoCall]
  /\ reply = [c \in Client |-> 0]

Goto(c, label) == pc' = [pc EXCEPT ![c] = label]

\* Mutant: a handler whose context is done returns without a response.
AnswerUnlessCancelled(c, code) ==
  Goto(c, "done") /\ reply' = [reply EXCEPT ![c] = IF c \in cancelled THEN 0 ELSE code]

Answer(c, code) == Goto(c, "done") /\ reply' = [reply EXCEPT ![c] = code]

\* An error is answered at once; the handler's locals and its context go.
Refuse(c, err) ==
  /\ err # "ok"
  /\ Answer(c, inspectionStatusForError[err])
  /\ call' = [call EXCEPT ![c] = NoCall]
  /\ cancelled' = cancelled \ {c}
  /\ UNCHANGED <<inspections, inspectionSequence, towerAudit>>

-------------------------------------------------------------------------------
(* POST /api/inspections                                                       *)

\* TowerPlanner.NextDueDate refuses what is not 1..365 days away.
NextDueDateRefused(days) == days < 1 \/ days > 365

\* Schedule up to the number it takes.  "named" is whether tower and inspector
\* are given, "known" whether the store has the tower.
PostSchedule(c) ==
  \E named, known \in BOOLEAN, days \in DueInDays, tower \in Tower, id \in InspectionId :
    /\ pc[c] = "new"
    /\ \/ /\ ~named
          /\ Refuse(c, "invalid")
       \/ /\ named /\ ~known
          /\ Refuse(c, "not_found")
       \/ /\ named /\ known /\ NextDueDateRefused(days)
          /\ Refuse(c, "invalid")
       \/ /\ named /\ known /\ ~NextDueDateRefused(days)
          /\ NewInspectionID(id)
          /\ call' = [call EXCEPT ![c] =
               [ op |-> "schedule", id |-> id,
                 item |-> [tower |-> tower, due |-> days, status |-> "scheduled", stamped |-> FALSE] ]]
          /\ Goto(c, "add")
          /\ UNCHANGED <<inspections, towerAudit, cancelled, reply>>

Add(c) ==
  LET id == call[c].id IN
  /\ pc[c] = "add"
  /\ \/ Refuse(c, AddError(c, id))
     \/ /\ AddError(c, id) = "ok"
        /\ AddInspection(id, call[c].item)
        /\ Goto(c, "audit")
        /\ UNCHANGED <<inspectionSequence, towerAudit, cancelled, call, reply>>

-------------------------------------------------------------------------------
(* POST /api/inspections/{id}/start and /complete                              *)

Required(op) == IF op = "start" THEN "scheduled" ELSE "in_progress"
Target(op)   == IF op = "start" THEN "in_progress" ELSE "completed"

PostMove(c) ==
  \E op \in {"start", "complete"}, id \in InspectionId :
    /\ pc[c] = "new"
    /\ call' = [call EXCEPT ![c] = [op |-> op, id |-> id, item |-> NoInspection]]
    /\ Goto(c, "get")
    /\ UNCHANGED <<storeVars, reply>>

\* Mutant: the inspection is read but its status is not looked at.
ReadErrorUnchecked(c) == FindError(c, call[c].id)

\* GetInspection, then the check of the status that was read.
ReadError(c) ==
  IF FindError(c, call[c].id) # "ok" THEN FindError(c, call[c].id)
  ELSE IF inspections[call[c].id].status # Required(call[c].op) THEN "transition"
  ELSE "ok"

Get(c) ==
  /\ pc[c] = "get"
  /\ \/ Refuse(c, ReadError(c))
     \/ /\ ReadError(c) = "ok"
        /\ Goto(c, "update")
        /\ UNCHANGED <<storeVars, call, reply>>

\* UpdateInspectionStatus: the status may no longer be the one that was read.
Update(c) ==
  LET id == call[c].id IN
  /\ pc[c] = "update"
  /\ \/ Refuse(c, FindError(c, id))
     \/ /\ FindError(c, id) = "ok"
        /\ UpdateInspectionStatus(id, Target(call[c].op))
        /\ Goto(c, "audit")
        /\ UNCHANGED <<inspectionSequence, towerAudit, cancelled, call, reply>>

-------------------------------------------------------------------------------
(* TowerAudit.Add, TowerNotifier.Publish and the answer                        *)

EventOf(op) == CASE op = "schedule" -> "scheduled"
                 [] op = "start"    -> "started"
                 [] op = "complete" -> "completed"

Audit(c) ==
  /\ pc[c] = "audit"
  /\ AddEvent(call[c].id, EventOf(call[c].op))
  /\ IF call[c].op = "schedule"
       THEN Answer(c, 201)
       ELSE Goto(c, "publish") /\ UNCHANGED reply
  /\ UNCHANGED <<inspections, inspectionSequence, cancelled, call>>

\* What Publish does to the subscribers does not come back to the handler.
Publish(c) ==
  /\ pc[c] = "publish"
  /\ Answer(c, 200)
  /\ UNCHANGED <<storeVars, call>>

\* The environment: the client's connection goes away.
CancelClient(c) ==
  /\ pc[c] \in {"add", "get", "update"}
  /\ c \notin cancelled
  /\ cancelled' = cancelled \cup {c}
  /\ UNCHANGED <<inspections, inspectionSequence, towerAudit, serviceVars>>

Work(c) == Add(c) \/ Get(c) \/ Update(c) \/ Audit(c)

ServiceStep(c) == Work(c) \/ Publish(c)

ServiceNext ==
  \E c \in Client : PostSchedule(c) \/ PostMove(c) \/ ServiceStep(c) \/ CancelClient(c)

Init == StoreInit /\ ServiceInit
Spec == Init /\ [][ServiceNext]_<<storeVars, serviceVars>>

\* No step of a handler blocks for longer than another's critical section.
ServiceFairness == \A c \in Client : WF_<<storeVars, serviceVars>>(ServiceStep(c))
FairSpec == Spec /\ ServiceFairness

-------------------------------------------------------------------------------
(* Properties                                                                  *)

TypeOK == StoreTypeOK /\ ServiceTypeOK

\* The store has accepted what the request asked for.
Accepted(c) == pc[c] \in {"audit", "publish"} \/ reply[c] \in {200, 201}

AcceptedOf(op, id) == {c \in Client : Accepted(c) /\ call[c].op = op /\ call[c].id = id}

\* Although Complete reads and writes in two critical sections, no scheduled
\* inspection is ever completed without having been in progress.
NoSkippedStart ==
  [][\A id \in InspectionId :
       Stored(id) /\ inspections[id].status = "scheduled" =>
         inspections'[id].status \in {"scheduled", "in_progress"}]_storeVars

\* The audit trail of an inspection holds one event of its kind for each
\* accepted request, short only of the requests about to file theirs.
AuditTrailsRequests ==
  \A id \in InspectionId : \A op \in {"schedule", "start", "complete"} :
    Count(id, EventOf(op)) =
      Cardinality({c \in AcceptedOf(op, id) : pc[c] # "audit"})

\* Every request that has arrived is answered.
EveryClientAnswered == \A c \in Client : pc[c] # "new" ~> reply[c] # 0

\* The status of an inspection follows scheduled, in progress, completed.
StatusFollowsLifecycle ==
  [][\A id \in InspectionId :
       Stored(id) =>
         <<inspections[id].status, inspections'[id].status>> \in
           {<<"scheduled", "in_progress">>, <<"in_progress", "completed">>}
           \cup {<<s, s>> : s \in InspectionStatus}]_storeVars
===============================================================================
