------------------------ MODULE InspectionServiceProofs -----------------------
(* Proofs about InspectionService's handlers, for every set of requests and    *)
(* seeds.  The modules that run the service beside other components cite the   *)
(* lemmas; what they ask of the parameters is a hypothesis here.               *)
EXTENDS InspectionService, SequenceCounts

vars == <<storeVars, serviceVars>>

ServiceParameters == Client \subseteq Context /\ DueInDays \subseteq Int

\* What a handler knows at each point of its code: the call it serves, that the
\* inspection it is about to write or has written is stored, and that it answers
\* once, at the end.
HandlerOK(c) ==
  /\ pc[c] = "add" =>
       /\ call[c].op = "schedule" /\ call[c].id \in InspectionId
       /\ call[c].item \in TowerInspection
       /\ call[c].item.status = "scheduled" /\ ~call[c].item.stamped
  /\ pc[c] \in {"get", "update"} =>
       call[c].op \in {"start", "complete"} /\ call[c].id \in InspectionId
  /\ pc[c] = "update" => Stored(call[c].id)
  /\ pc[c] = "audit" => call[c].op \in {"schedule", "start", "complete"}
  /\ pc[c] = "publish" \/ reply[c] = 200 => call[c].op \in {"start", "complete"}
  /\ reply[c] = 201 => call[c].op = "schedule"
  /\ Accepted(c) => call[c].id \in InspectionId /\ Stored(call[c].id)
  /\ (reply[c] = 0) = (pc[c] # "done")

HandlersOK == \A c \in Client : HandlerOK(c)

-------------------------------------------------------------------------------
(* Types                                                                       *)

LEMMA InitType ==
  ASSUME StoreInit, ServiceInit
  PROVE  StoreTypeOK /\ ServiceTypeOK /\ HandlersOK
<1>1. StoreTypeOK
  BY StoreSeeds DEF StoreInit, StoreTypeOK
<1>2. ServiceTypeOK
  BY StoreSeeds DEF ServiceInit, ServiceTypeOK, NoCall
<1>3. HandlersOK
  BY DEF ServiceInit, HandlersOK, HandlerOK, Accepted, NoCall
<1>4. QED BY <1>1, <1>2, <1>3

LEMMA NotAnInspection == NoInspection \notin TowerInspection
BY StoreSeeds

LEMMA WrittenType ==
  ASSUME NEW item \in TowerInspection, NEW status \in InspectionStatus
  PROVE  /\ Written(item, status) \in TowerInspection
         /\ Written(item, status).status = status
         /\ Written(item, status).tower = item.tower
         /\ Written(item, status).stamped = ((status = "completed") \/ item.stamped)
BY DEF Written, TowerInspection

ErrorCode == {400, 404, 409, 500}
Errors == {"not_found", "conflict", "transition", "invalid", "internal"}

LEMMA ErrorCodes ==
  \A err \in Errors : inspectionStatusForError[err] \in ErrorCode
BY DEF ErrorCode, Errors, inspectionStatusForError

LEMMA KnownErrors ==
  ASSUME NEW c, NEW id
  PROVE  /\ AddError(c, id) \in Errors \cup {"ok"}
         /\ AddError(c, id) = "ok" => ~Stored(id)
         /\ FindError(c, id) \in Errors \cup {"ok"}
         /\ FindError(c, id) = "ok" => Stored(id)
BY DEF AddError, FindError, Errors

LEMMA ReadErrors ==
  ASSUME NEW c \in Client
  PROVE  /\ ReadError(c) \in Errors \cup {"ok"}
         /\ ReadError(c) = "ok" =>
              Stored(call[c].id) /\ inspections[call[c].id].status = Required(call[c].op)
<1>1. FindError(c, call[c].id) \in Errors \cup {"ok"}
      /\ (FindError(c, call[c].id) = "ok" => Stored(call[c].id))
  BY KnownErrors
<1>2. QED BY <1>1 DEF ReadError, Errors

\* Every refusal leaves the store alone and the handler with nothing.
LEMMA RefuseEffect ==
  ASSUME NEW c \in Client, NEW err \in Errors \cup {"ok"}, Refuse(c, err)
  PROVE  /\ \E code \in ErrorCode : reply' = [reply EXCEPT ![c] = code]
         /\ pc' = [pc EXCEPT ![c] = "done"]
         /\ call' = [call EXCEPT ![c] = NoCall]
         /\ cancelled' = cancelled \ {c}
         /\ UNCHANGED <<inspections, inspectionSequence, towerAudit>>
<1> DEFINE sentCode == inspectionStatusForError[err]
<1>1. err \in Errors /\ sentCode \in ErrorCode
  BY ErrorCodes DEF Refuse
<1>2. reply' = [reply EXCEPT ![c] = sentCode]
  BY DEF Refuse, Answer
<1> HIDE DEF sentCode
<1>3. /\ pc' = [pc EXCEPT ![c] = "done"]
      /\ call' = [call EXCEPT ![c] = NoCall]
      /\ cancelled' = cancelled \ {c}
      /\ UNCHANGED <<inspections, inspectionSequence, towerAudit>>
  BY DEF Refuse, Answer, Goto
<1>4. \E code \in ErrorCode : reply' = [reply EXCEPT ![c] = code]
  BY <1>1, <1>2, Zenon
<1>5. QED BY <1>3, <1>4

LEMMA NoCallType ==
  NoCall \in [op   : {"none", "schedule", "start", "complete"},
              id   : 0..MaxInspections,
              item : TowerInspection \cup {NoInspection}]
BY StoreSeeds DEF NoCall

LEMMA RefuseType ==
  ASSUME StoreTypeOK, ServiceTypeOK, HandlersOK,
         NEW c \in Client, NEW err \in Errors \cup {"ok"}, Refuse(c, err)
  PROVE  StoreTypeOK' /\ ServiceTypeOK' /\ HandlersOK'
<1>1. PICK code \in ErrorCode :
        /\ reply' = [reply EXCEPT ![c] = code]
        /\ pc' = [pc EXCEPT ![c] = "done"]
        /\ call' = [call EXCEPT ![c] = NoCall]
        /\ cancelled' = cancelled \ {c}
        /\ UNCHANGED <<inspections, inspectionSequence, towerAudit>>
  BY RefuseEffect
<1>2. StoreTypeOK'
  BY <1>1 DEF StoreTypeOK
<1>3. ServiceTypeOK'
  BY <1>1, NoCallType DEF ServiceTypeOK, ErrorCode
<1>4. HandlersOK'
  <2> SUFFICES ASSUME NEW d \in Client PROVE HandlerOK(d)'
    BY DEF HandlersOK
  <2>1. CASE d = c
    BY <1>1, <2>1 DEF ServiceTypeOK, HandlerOK, Accepted, ErrorCode
  <2>2. CASE d # c
    BY <1>1, <2>2 DEF ServiceTypeOK, HandlersOK, HandlerOK, Accepted, Stored
  <2>3. QED BY <2>1, <2>2
<1>5. QED BY <1>2, <1>3, <1>4

LEMMA PostScheduleType ==
  ASSUME ServiceParameters, StoreTypeOK, ServiceTypeOK, HandlersOK, NEW c \in Client, PostSchedule(c)
  PROVE  StoreTypeOK' /\ ServiceTypeOK' /\ HandlersOK'
<1>1. PICK named, known \in BOOLEAN, days \in DueInDays, tower \in Tower, id \in InspectionId :
        PostSchedule(c)!(named, known, days, tower, id)
  BY DEF PostSchedule
<1>2. CASE Refuse(c, "invalid") \/ Refuse(c, "not_found")
  BY <1>2, RefuseType DEF Errors
<1>3. CASE ~Refuse(c, "invalid") /\ ~Refuse(c, "not_found")
  <2> DEFINE item == [tower |-> tower, due |-> days, status |-> "scheduled", stamped |-> FALSE]
             new  == [op |-> "schedule", id |-> id, item |-> item]
  <2>1. /\ pc[c] = "new"
        /\ inspectionSequence' = id
        /\ call' = [call EXCEPT ![c] = new]
        /\ pc' = [pc EXCEPT ![c] = "add"]
        /\ UNCHANGED <<inspections, towerAudit, cancelled, reply>>
    BY <1>1, <1>3 DEF NewInspectionID, Goto
  <2>2. item \in TowerInspection /\ item.status = "scheduled" /\ ~item.stamped
    BY DEF ServiceParameters, TowerInspection, InspectionStatus
  <2>3. /\ new \in [op   : {"none", "schedule", "start", "complete"},
                    id   : 0..MaxInspections,
                    item : TowerInspection \cup {NoInspection}]
        /\ new.op = "schedule" /\ new.id \in InspectionId /\ new.item \in TowerInspection
        /\ new.item.status = "scheduled" /\ ~new.item.stamped
    BY <2>2, StoreSeeds DEF InspectionId
  <2> HIDE DEF new
  <2>4. StoreTypeOK'
    BY <2>1, StoreSeeds DEF StoreTypeOK, InspectionId
  <2>5. ServiceTypeOK'
    BY <2>1, <2>3 DEF ServiceTypeOK
  <2>6. HandlersOK'
    BY <2>1, <2>3 DEF ServiceTypeOK, HandlersOK, HandlerOK, Accepted, Stored
  <2>7. QED BY <2>4, <2>5, <2>6
<1>4. QED BY <1>2, <1>3

LEMMA PostMoveType ==
  ASSUME StoreTypeOK, ServiceTypeOK, HandlersOK, NEW c \in Client, PostMove(c)
  PROVE  StoreTypeOK' /\ ServiceTypeOK' /\ HandlersOK'
<1>1. PICK op \in {"start", "complete"}, id \in InspectionId : PostMove(c)!(op, id)
  BY DEF PostMove
<1> DEFINE new == [op |-> op, id |-> id, item |-> NoInspection]
<1>2. /\ pc[c] = "new"
      /\ call' = [call EXCEPT ![c] = new]
      /\ pc' = [pc EXCEPT ![c] = "get"]
      /\ UNCHANGED <<inspections, inspectionSequence, towerAudit, cancelled, reply>>
  BY <1>1 DEF Goto, storeVars
<1>3. /\ new \in [op   : {"none", "schedule", "start", "complete"},
                  id   : 0..MaxInspections,
                  item : TowerInspection \cup {NoInspection}]
      /\ new.op \in {"start", "complete"} /\ new.id \in InspectionId
  BY StoreSeeds DEF InspectionId
<1> HIDE DEF new
<1>4. StoreTypeOK'
  BY <1>2 DEF StoreTypeOK
<1>5. ServiceTypeOK'
  BY <1>2, <1>3 DEF ServiceTypeOK
<1>6. HandlersOK'
  BY <1>2, <1>3 DEF ServiceTypeOK, HandlersOK, HandlerOK, Accepted, Stored
<1>7. QED BY <1>4, <1>5, <1>6

\* The store has accepted a handler's write: its inspection is stored, and every
\* other stays as it is.
LEMMA AcceptType ==
  ASSUME StoreTypeOK, ServiceTypeOK, HandlersOK, NEW c \in Client,
         pc[c] \in {"add", "update"}, NEW item \in TowerInspection,
         inspections' = [inspections EXCEPT ![call[c].id] = item],
         pc' = [pc EXCEPT ![c] = "audit"],
         UNCHANGED <<inspectionSequence, towerAudit, cancelled, call, reply>>
  PROVE  StoreTypeOK' /\ ServiceTypeOK' /\ HandlersOK'
<1>1. call[c].id \in InspectionId /\ call[c].op \in {"schedule", "start", "complete"}
  BY DEF HandlersOK, HandlerOK
<1>2. \A id \in InspectionId : Stored(id) \/ id = call[c].id => Stored(id)'
  BY NotAnInspection DEF StoreTypeOK, Stored
<1>3. StoreTypeOK'
  BY DEF StoreTypeOK
<1>4. ServiceTypeOK'
  BY DEF ServiceTypeOK
<1>5. HandlersOK'
  <2> SUFFICES ASSUME NEW d \in Client PROVE HandlerOK(d)'
    BY DEF HandlersOK
  <2>1. CASE d = c
    BY <1>1, <1>2, <2>1 DEF ServiceTypeOK, HandlersOK, HandlerOK, Accepted
  <2>2. CASE d # c
    BY <1>2, <2>2 DEF ServiceTypeOK, HandlersOK, HandlerOK, Accepted
  <2>3. QED BY <2>1, <2>2
<1>6. QED BY <1>3, <1>4, <1>5

LEMMA AddEffect ==
  ASSUME HandlersOK, NEW c \in Client, Add(c), ~Refuse(c, AddError(c, call[c].id))
  PROVE  /\ pc[c] = "add" /\ ~Stored(call[c].id)
         /\ call[c].item \in TowerInspection
         /\ inspections' = [inspections EXCEPT ![call[c].id] = call[c].item]
         /\ pc' = [pc EXCEPT ![c] = "audit"]
         /\ UNCHANGED <<inspectionSequence, towerAudit, cancelled, call, reply>>
BY KnownErrors DEF Add, AddInspection, Goto, HandlersOK, HandlerOK

LEMMA UpdateEffect ==
  ASSUME StoreTypeOK, HandlersOK, NEW c \in Client, Update(c),
         ~Refuse(c, FindError(c, call[c].id))
  PROVE  LET id   == call[c].id
             item == Written(inspections[id], Target(call[c].op)) IN
         /\ pc[c] = "update" /\ Stored(id) /\ inspections[id] \in TowerInspection
         /\ item \in TowerInspection /\ item.status = Target(call[c].op)
         /\ item.stamped = (call[c].op = "complete" \/ inspections[id].stamped)
         /\ inspections' = [inspections EXCEPT ![id] = item]
         /\ pc' = [pc EXCEPT ![c] = "audit"]
         /\ UNCHANGED <<inspectionSequence, towerAudit, cancelled, call, reply>>
<1> DEFINE id == call[c].id
<1>1. pc[c] = "update" /\ id \in InspectionId /\ call[c].op \in {"start", "complete"}
  BY DEF Update, HandlersOK, HandlerOK
<1>2. Stored(id) /\ inspections[id] \in TowerInspection
  BY <1>1, KnownErrors DEF Update, StoreTypeOK, Stored, HandlersOK, HandlerOK
<1>3. Target(call[c].op) \in InspectionStatus
      /\ (Target(call[c].op) = "completed") = (call[c].op = "complete")
  BY <1>1 DEF Target, InspectionStatus
<1>4. QED BY <1>1, <1>2, <1>3, WrittenType DEF Update, UpdateInspectionStatus, Goto

LEMMA AddType ==
  ASSUME StoreTypeOK, ServiceTypeOK, HandlersOK, NEW c \in Client, Add(c)
  PROVE  StoreTypeOK' /\ ServiceTypeOK' /\ HandlersOK'
<1>1. CASE Refuse(c, AddError(c, call[c].id))
  BY <1>1, KnownErrors, RefuseType
<1>2. CASE ~Refuse(c, AddError(c, call[c].id))
  BY <1>2, AddEffect, AcceptType
<1>3. QED BY <1>1, <1>2

LEMMA UpdateType ==
  ASSUME StoreTypeOK, ServiceTypeOK, HandlersOK, NEW c \in Client, Update(c)
  PROVE  StoreTypeOK' /\ ServiceTypeOK' /\ HandlersOK'
<1>1. CASE Refuse(c, FindError(c, call[c].id))
  BY <1>1, KnownErrors, RefuseType
<1>2. CASE ~Refuse(c, FindError(c, call[c].id))
  BY <1>2, UpdateEffect, AcceptType
<1>3. QED BY <1>1, <1>2

LEMMA GetType ==
  ASSUME StoreTypeOK, ServiceTypeOK, HandlersOK, NEW c \in Client, Get(c)
  PROVE  StoreTypeOK' /\ ServiceTypeOK' /\ HandlersOK'
<1>1. CASE Refuse(c, ReadError(c))
  BY <1>1, ReadErrors, RefuseType
<1>2. CASE ~Refuse(c, ReadError(c))
  <2>1. /\ pc[c] = "get" /\ Stored(call[c].id)
        /\ pc' = [pc EXCEPT ![c] = "update"]
        /\ UNCHANGED <<inspections, inspectionSequence, towerAudit, cancelled, call, reply>>
    BY <1>2, ReadErrors DEF Get, Goto, storeVars
  <2>2. QED
    BY <2>1 DEF StoreTypeOK, ServiceTypeOK, HandlersOK, HandlerOK, Accepted, Stored
<1>3. QED BY <1>1, <1>2

LEMMA AuditType ==
  ASSUME StoreTypeOK, ServiceTypeOK, HandlersOK, NEW c \in Client, Audit(c)
  PROVE  StoreTypeOK' /\ ServiceTypeOK' /\ HandlersOK'
<1> DEFINE id == call[c].id
           event == EventOf(call[c].op)
<1>1. /\ pc[c] = "audit" /\ reply[c] = 0
      /\ id \in InspectionId /\ Stored(id)
      /\ call[c].op \in {"schedule", "start", "complete"}
  BY DEF Audit, HandlersOK, HandlerOK, Accepted
<1>2. id \in AuditKey /\ event \in EventType
  BY <1>1 DEF AuditKey, EventOf, EventType
<1>3. /\ towerAudit' = [towerAudit EXCEPT ![id] = Append(@, event)]
      /\ UNCHANGED <<inspections, inspectionSequence, cancelled, call>>
  BY DEF Audit, AddEvent
<1> HIDE DEF event
<1>4. StoreTypeOK'
  BY <1>2, <1>3 DEF StoreTypeOK
<1>5. CASE call[c].op = "schedule"
  <2>1. pc' = [pc EXCEPT ![c] = "done"] /\ reply' = [reply EXCEPT ![c] = 201]
    BY <1>5 DEF Audit, Answer, Goto
  <2>2. QED BY <1>1, <1>3, <1>4, <1>5, <2>1 DEF ServiceTypeOK, HandlersOK, HandlerOK, Accepted, Stored
<1>6. CASE call[c].op # "schedule"
  <2>1. pc' = [pc EXCEPT ![c] = "publish"] /\ reply' = reply
    BY <1>6 DEF Audit, Goto
  <2>2. QED BY <1>1, <1>3, <1>4, <1>6, <2>1 DEF ServiceTypeOK, HandlersOK, HandlerOK, Accepted, Stored
<1>7. QED BY <1>5, <1>6

LEMMA PublishType ==
  ASSUME StoreTypeOK, ServiceTypeOK, HandlersOK, NEW c \in Client, Publish(c)
  PROVE  StoreTypeOK' /\ ServiceTypeOK' /\ HandlersOK'
<1>1. /\ pc[c] = "publish"
      /\ pc' = [pc EXCEPT ![c] = "done"]
      /\ reply' = [reply EXCEPT ![c] = 200]
      /\ UNCHANGED <<inspections, inspectionSequence, towerAudit, cancelled, call>>
  BY DEF Publish, Answer, Goto, storeVars
<1>2. QED BY <1>1 DEF StoreTypeOK, ServiceTypeOK, HandlersOK, HandlerOK, Accepted, Stored

LEMMA CancelType ==
  ASSUME ServiceParameters, StoreTypeOK, ServiceTypeOK, HandlersOK, NEW c \in Client, CancelClient(c)
  PROVE  StoreTypeOK' /\ ServiceTypeOK' /\ HandlersOK'
BY DEF ServiceParameters, CancelClient, serviceVars, StoreTypeOK, ServiceTypeOK, HandlersOK, HandlerOK,
   Accepted, Stored

\* Every step of the service keeps types and what its handlers know.
LEMMA NextType ==
  ASSUME ServiceParameters, StoreTypeOK, ServiceTypeOK, HandlersOK, ServiceNext
  PROVE  StoreTypeOK' /\ ServiceTypeOK' /\ HandlersOK'
BY PostScheduleType, PostMoveType, AddType, GetType, UpdateType, AuditType, PublishType, CancelType
DEF ServiceNext, ServiceStep, Work

\* So does a step of another component that takes nothing out of the store.
LEMMA OthersType ==
  ASSUME ServiceTypeOK, HandlersOK, UNCHANGED serviceVars,
         \A id \in InspectionId : Stored(id) => Stored(id)'
  PROVE  ServiceTypeOK' /\ HandlersOK'
BY DEF serviceVars, ServiceTypeOK, HandlersOK, HandlerOK, Accepted

-------------------------------------------------------------------------------
(* What a step does to the store and to the accepted requests                  *)

\* A request goes its way while the others stand still.
Only(c) ==
  \A d \in Client : d # c => pc'[d] = pc[d] /\ call'[d] = call[d] /\ reply'[d] = reply[d]

\* AddInspection has taken the item of a Schedule.
Adds(c) ==
  /\ pc[c] = "add" /\ pc'[c] = "audit" /\ call'[c] = call[c] /\ reply'[c] = reply[c]
  /\ ~Stored(call[c].id)
  /\ inspections' = [inspections EXCEPT ![call[c].id] = call[c].item]
  /\ UNCHANGED <<inspectionSequence, towerAudit, cancelled>>

\* UpdateInspectionStatus has written for a Start or a Complete.
Updates(c) ==
  LET id   == call[c].id
      item == Written(inspections[id], Target(call[c].op)) IN
  /\ pc[c] = "update" /\ pc'[c] = "audit" /\ call'[c] = call[c] /\ reply'[c] = reply[c]
  /\ Stored(id) /\ inspections[id] \in TowerInspection
  /\ item \in TowerInspection /\ item.status = Target(call[c].op)
  /\ item.stamped = (call[c].op = "complete" \/ inspections[id].stamped)
  /\ inspections' = [inspections EXCEPT ![id] = item]
  /\ UNCHANGED <<inspectionSequence, towerAudit, cancelled>>

\* The event of an accepted request is filed, and its handler answers or publishes.
Files(c) ==
  /\ pc[c] = "audit" /\ call'[c] = call[c]
  /\ IF call[c].op = "schedule" THEN pc'[c] = "done" /\ reply'[c] = 201
                                ELSE pc'[c] = "publish" /\ reply'[c] = reply[c]
  /\ AddEvent(call[c].id, EventOf(call[c].op))
  /\ UNCHANGED <<inspections, inspectionSequence, cancelled>>

\* Nothing becomes of the store or the audit: a request that is not accepted
\* stays so, an accepted one has published, and who goes on to the update has
\* read the status it requires.
Passes(c) ==
  /\ UNCHANGED <<inspections, towerAudit>>
  /\ \/ ~Accepted(c) /\ ~Accepted(c)'
     \/ pc[c] = "publish" /\ pc'[c] = "done" /\ reply'[c] = 200 /\ call'[c] = call[c]
  /\ pc'[c] = "update" =>
       /\ call'[c] = call[c]
       /\ \/ pc[c] = "update"
          \/ Stored(call[c].id) /\ inspections[call[c].id].status = Required(call[c].op)

ServiceEffect(c) == Adds(c) \/ Updates(c) \/ Files(c) \/ Passes(c)

LEMMA RefusePasses ==
  ASSUME ServiceTypeOK, HandlersOK, NEW c \in Client, ~Accepted(c),
         NEW err \in Errors \cup {"ok"}, Refuse(c, err)
  PROVE  Only(c) /\ Passes(c)
<1>1. PICK code \in ErrorCode :
        /\ reply' = [reply EXCEPT ![c] = code]
        /\ pc' = [pc EXCEPT ![c] = "done"]
        /\ call' = [call EXCEPT ![c] = NoCall]
        /\ UNCHANGED <<inspections, inspectionSequence, towerAudit>>
  BY RefuseEffect
<1>2. Only(c)
  BY <1>1 DEF Only, ServiceTypeOK
<1>3. pc'[c] = "done" /\ reply'[c] \notin {200, 201}
  BY <1>1 DEF ServiceTypeOK, ErrorCode
<1>4. QED BY <1>1, <1>2, <1>3 DEF Passes, Accepted

LEMMA StepEffect ==
  ASSUME StoreTypeOK, ServiceTypeOK, HandlersOK, ServiceNext
  PROVE  \E c \in Client : Only(c) /\ ServiceEffect(c)
<1>1. PICK c \in Client : PostSchedule(c) \/ PostMove(c) \/ ServiceStep(c) \/ CancelClient(c)
  BY DEF ServiceNext
<1> SUFFICES Only(c) /\ ServiceEffect(c)
  OBVIOUS
<1>a. ~Accepted(c) \/ pc[c] \in {"audit", "publish", "done"}
  BY DEF Accepted, HandlersOK, HandlerOK
<1>2. CASE PostSchedule(c)
  <2>1. pc[c] = "new"
    BY <1>2 DEF PostSchedule
  <2>2. CASE Refuse(c, "invalid") \/ Refuse(c, "not_found")
    BY <1>a, <2>1, <2>2, RefusePasses DEF Errors, ServiceEffect
  <2>3. CASE ~Refuse(c, "invalid") /\ ~Refuse(c, "not_found")
    <3>1. /\ pc' = [pc EXCEPT ![c] = "add"]
          /\ \E new : call' = [call EXCEPT ![c] = new]
          /\ UNCHANGED <<inspections, towerAudit, cancelled, reply>>
      BY <1>2, <2>3 DEF PostSchedule, Goto
    <3>2. QED BY <1>a, <2>1, <3>1 DEF Only, ServiceEffect, Passes, Accepted, ServiceTypeOK
  <2>4. QED BY <2>2, <2>3
<1>3. CASE PostMove(c)
  <2>1. /\ pc[c] = "new"
        /\ pc' = [pc EXCEPT ![c] = "get"]
        /\ \E new : call' = [call EXCEPT ![c] = new]
        /\ UNCHANGED <<inspections, towerAudit, cancelled, reply>>
    BY <1>3 DEF PostMove, Goto, storeVars
  <2>2. QED BY <1>a, <2>1 DEF Only, ServiceEffect, Passes, Accepted, ServiceTypeOK
<1>4. CASE Add(c)
  <2>1. pc[c] = "add"
    BY <1>4 DEF Add
  <2>2. CASE Refuse(c, AddError(c, call[c].id))
    BY <1>a, <2>1, <2>2, KnownErrors, RefusePasses DEF ServiceEffect
  <2>3. CASE ~Refuse(c, AddError(c, call[c].id))
    BY <1>4, <2>3, AddEffect DEF Only, ServiceEffect, Adds, ServiceTypeOK
  <2>4. QED BY <2>2, <2>3
<1>5. CASE Get(c)
  <2>1. pc[c] = "get"
    BY <1>5 DEF Get
  <2>2. CASE Refuse(c, ReadError(c))
    BY <1>a, <2>1, <2>2, ReadErrors, RefusePasses DEF ServiceEffect
  <2>3. CASE ~Refuse(c, ReadError(c))
    <3>1. /\ Stored(call[c].id) /\ inspections[call[c].id].status = Required(call[c].op)
          /\ pc' = [pc EXCEPT ![c] = "update"]
          /\ UNCHANGED <<inspections, inspectionSequence, towerAudit, cancelled, call, reply>>
      BY <1>5, <2>3, ReadErrors DEF Get, Goto, storeVars
    <3>2. QED BY <1>a, <2>1, <3>1 DEF Only, ServiceEffect, Passes, Accepted, ServiceTypeOK
  <2>4. QED BY <2>2, <2>3
<1>6. CASE Update(c)
  <2>1. pc[c] = "update"
    BY <1>6 DEF Update
  <2>2. CASE Refuse(c, FindError(c, call[c].id))
    BY <1>a, <2>1, <2>2, KnownErrors, RefusePasses DEF ServiceEffect
  <2>3. CASE ~Refuse(c, FindError(c, call[c].id))
    BY <1>6, <2>3, UpdateEffect DEF Only, ServiceEffect, Updates, ServiceTypeOK
  <2>4. QED BY <2>2, <2>3
<1>7. CASE Audit(c)
  BY <1>7 DEF Audit, Answer, Goto, Only, ServiceEffect, Files, ServiceTypeOK
<1>8. CASE Publish(c)
  BY <1>8 DEF Publish, Answer, Goto, Only, ServiceEffect, Passes, ServiceTypeOK, storeVars
<1>9. CASE CancelClient(c)
  <2>1. pc[c] \in {"add", "get", "update"} /\ UNCHANGED <<inspections, towerAudit, pc, call, reply>>
    BY <1>9 DEF CancelClient, serviceVars
  <2>2. QED BY <1>a, <2>1 DEF Only, ServiceEffect, Passes, Accepted
<1>10. QED
  BY <1>1, <1>2, <1>3, <1>4, <1>5, <1>6, <1>7, <1>8, <1>9 DEF ServiceStep, Work

\* A request is accepted when the store takes its write, and stays accepted.
LEMMA AcceptedStep ==
  ASSUME ServiceTypeOK, HandlersOK, NEW c \in Client, Only(c), ServiceEffect(c),
         NEW op \in {"schedule", "start", "complete"}, NEW id \in InspectionId
  PROVE  /\ AcceptedOf(op, id)' =
              IF (Adds(c) \/ Updates(c)) /\ call[c].op = op /\ call[c].id = id
              THEN AcceptedOf(op, id) \cup {c} ELSE AcceptedOf(op, id)
         /\ Adds(c) \/ Updates(c) => c \notin AcceptedOf(op, id)
<1>1. \A d \in Client : d # c => (d \in AcceptedOf(op, id)' <=> d \in AcceptedOf(op, id))
  BY DEF Only, AcceptedOf, Accepted
<1>2. CASE Adds(c) \/ Updates(c)
  <2>1. /\ pc[c] \in {"add", "update"} /\ pc'[c] = "audit"
        /\ call'[c] = call[c] /\ reply[c] = 0
    BY <1>2 DEF Adds, Updates, HandlersOK, HandlerOK
  <2>2. c \notin AcceptedOf(op, id)
    BY <2>1 DEF AcceptedOf, Accepted
  <2>3. c \in AcceptedOf(op, id)' <=> call[c].op = op /\ call[c].id = id
    BY <2>1 DEF AcceptedOf, Accepted
  <2>4. QED BY <1>1, <1>2, <2>2, <2>3 DEF AcceptedOf
<1>3. CASE Files(c)
  <2>1. pc[c] = "audit" /\ call'[c] = call[c] /\ (pc'[c] = "publish" \/ reply'[c] = 201)
    BY <1>3 DEF Files
  <2>2. c \in AcceptedOf(op, id)' <=> c \in AcceptedOf(op, id)
    BY <2>1 DEF AcceptedOf, Accepted
  <2>3. ~Adds(c) /\ ~Updates(c)
    BY <2>1 DEF Adds, Updates
  <2>4. QED BY <1>1, <2>2, <2>3 DEF AcceptedOf
<1>4. CASE Passes(c) /\ ~Adds(c) /\ ~Updates(c)
  <2>1. c \in AcceptedOf(op, id)' <=> c \in AcceptedOf(op, id)
    BY <1>4 DEF Passes, AcceptedOf, Accepted
  <2>2. QED BY <1>1, <1>4, <2>1 DEF AcceptedOf
<1>5. QED BY <1>2, <1>3, <1>4 DEF ServiceEffect

\* An inspection stays with its tower.
LEMMA TowerKept ==
  ASSUME StoreTypeOK, ServiceTypeOK, HandlersOK, NEW c \in Client, Only(c), ServiceEffect(c),
         NEW id \in InspectionId, Stored(id)
  PROVE  inspections'[id].tower = inspections[id].tower
<1>1. CASE Adds(c)
  BY <1>1 DEF Adds, StoreTypeOK
<1>2. CASE Updates(c)
  <2>1. call[c].id \in InspectionId /\ inspections[call[c].id] \in TowerInspection
        /\ Target(call[c].op) \in InspectionStatus
    BY <1>2 DEF Updates, HandlersOK, HandlerOK, Target, InspectionStatus
  <2>2. Written(inspections[call[c].id], Target(call[c].op)).tower = inspections[call[c].id].tower
    BY <2>1, WrittenType
  <2>3. QED BY <1>2, <2>1, <2>2 DEF Updates, StoreTypeOK
<1>3. CASE Files(c) \/ Passes(c)
  BY <1>3 DEF Files, Passes
<1>4. QED BY <1>1, <1>2, <1>3 DEF ServiceEffect

-------------------------------------------------------------------------------
(* The audit trail of the requests                                             *)

\* The accepted requests that have filed their event.
Filed(op, id) == {c \in AcceptedOf(op, id) : pc[c] # "audit"}

LEMMA FiledFinite ==
  ASSUME ServiceParameters, NEW op, NEW id
  PROVE  IsFiniteSet(Filed(op, id)) /\ Cardinality(Filed(op, id)) \in Nat
<1>1. Filed(op, id) \in SUBSET Context
  BY DEF Filed, AcceptedOf, ServiceParameters
<1>2. IsFiniteSet(Filed(op, id))
  BY <1>1, StoreContexts, FS_Subset
<1>3. QED BY <1>2, FS_CardinalityType

\* A request joins them when it files its event, and none leaves.
LEMMA FiledStep ==
  ASSUME ServiceTypeOK, HandlersOK, NEW c \in Client, Only(c), ServiceEffect(c),
         NEW op \in {"schedule", "start", "complete"}, NEW id \in InspectionId
  PROVE  /\ Filed(op, id)' =
              IF Files(c) /\ call[c].op = op /\ call[c].id = id
              THEN Filed(op, id) \cup {c} ELSE Filed(op, id)
         /\ Files(c) => c \notin Filed(op, id)
<1>1. \A d \in Client : d # c => (d \in Filed(op, id)' <=> d \in Filed(op, id))
  BY DEF Only, Filed, AcceptedOf, Accepted
<1>2. CASE Files(c)
  <2>1. /\ pc[c] = "audit" /\ call'[c] = call[c] /\ pc'[c] # "audit"
        /\ pc'[c] = "publish" \/ reply'[c] = 201
    BY <1>2 DEF Files
  <2>2. c \notin Filed(op, id)
    BY <2>1 DEF Filed
  <2>3. c \in Filed(op, id)' <=> call[c].op = op /\ call[c].id = id
    BY <2>1 DEF Filed, AcceptedOf, Accepted
  <2>4. QED BY <1>1, <1>2, <2>2, <2>3 DEF Filed, AcceptedOf
<1>3. CASE ~Files(c)
  <2>1. c \in Filed(op, id)' <=> c \in Filed(op, id)
    BY <1>3 DEF ServiceEffect, Adds, Updates, Passes, Filed, AcceptedOf, Accepted, HandlersOK, HandlerOK
  <2>2. QED BY <1>1, <1>3, <2>1 DEF Filed, AcceptedOf
<1>4. QED BY <1>2, <1>3

LEMMA EventsDiffer ==
  \A a, b \in {"schedule", "start", "complete"} : EventOf(a) = EventOf(b) <=> a = b
BY DEF EventOf

\* TowerAudit.Add adds one to the count of its key and event and to no other.
LEMMA AddEventCount ==
  ASSUME StoreTypeOK, NEW key \in AuditKey, NEW event \in EventType, AddEvent(key, event),
         NEW k \in AuditKey, NEW e
  PROVE  Count(k, e)' = IF k = key /\ e = event THEN Count(k, e) + 1 ELSE Count(k, e)
<1>1. towerAudit[key] \in Seq(EventType)
  BY DEF StoreTypeOK
<1>2. towerAudit'[k] = IF k = key THEN Append(towerAudit[k], event) ELSE towerAudit[k]
  BY DEF StoreTypeOK, AddEvent
<1>3. Count(k, e)' = Cardinality(Places(towerAudit'[k], e)) /\ Count(k, e) = Cardinality(Places(towerAudit[k], e))
  BY DEF Count, Places
<1>4. CASE k = key
  BY <1>1, <1>2, <1>3, <1>4, AppendCount
<1>5. CASE k # key
  BY <1>2, <1>3, <1>5
<1>6. QED BY <1>4, <1>5

LEMMA InitTrails ==
  ASSUME StoreInit, ServiceInit
  PROVE  AuditTrailsRequests
<1> SUFFICES ASSUME NEW id \in InspectionId, NEW op \in {"schedule", "start", "complete"}
             PROVE  Count(id, EventOf(op)) = Cardinality(Filed(op, id))
  BY DEF AuditTrailsRequests, Filed
<1>1. Filed(op, id) = {}
  BY DEF ServiceInit, Filed, AcceptedOf, Accepted
<1>2. towerAudit[id] = <<>>
  BY DEF StoreInit, AuditKey
<1>3. {i \in DOMAIN towerAudit[id] : towerAudit[id][i] = EventOf(op)} = {}
  BY <1>2
<1>4. QED BY <1>1, <1>3, FS_EmptySet DEF Count

LEMMA NextTrails ==
  ASSUME ServiceParameters, StoreTypeOK, ServiceTypeOK, HandlersOK, AuditTrailsRequests, ServiceNext
  PROVE  AuditTrailsRequests'
<1>1. PICK c \in Client : Only(c) /\ ServiceEffect(c)
  BY StepEffect
<1> SUFFICES ASSUME NEW id \in InspectionId, NEW op \in {"schedule", "start", "complete"}
             PROVE  Count(id, EventOf(op))' = Cardinality(Filed(op, id)')
  BY DEF AuditTrailsRequests, Filed
<1>2. /\ Filed(op, id)' = IF Files(c) /\ call[c].op = op /\ call[c].id = id
                          THEN Filed(op, id) \cup {c} ELSE Filed(op, id)
      /\ Files(c) => c \notin Filed(op, id)
  BY <1>1, FiledStep
<1>3. Count(id, EventOf(op)) = Cardinality(Filed(op, id))
  BY DEF AuditTrailsRequests, Filed
<1>4. IsFiniteSet(Filed(op, id)) /\ Cardinality(Filed(op, id)) \in Nat
  BY FiledFinite
<1>5. CASE Files(c)
  <2> DEFINE key == call[c].id
             event == EventOf(call[c].op)
  <2>1. /\ key \in InspectionId /\ key \in AuditKey /\ id \in AuditKey
        /\ call[c].op \in {"schedule", "start", "complete"} /\ event \in EventType
    BY <1>5 DEF Files, HandlersOK, HandlerOK, Accepted, AuditKey, EventOf, EventType
  <2>2. AddEvent(key, event)
    BY <1>5 DEF Files
  <2>3. Count(id, EventOf(op))' =
          IF id = key /\ EventOf(op) = event THEN Count(id, EventOf(op)) + 1 ELSE Count(id, EventOf(op))
    BY <2>1, <2>2, AddEventCount
  <2>4. EventOf(op) = event <=> op = call[c].op
    BY <2>1, EventsDiffer
  <2> HIDE DEF event
  <2>5. CASE op = call[c].op /\ id = key
    <3>1. Cardinality(Filed(op, id) \cup {c}) = Cardinality(Filed(op, id)) + 1
      BY <1>2, <1>4, <1>5, FS_AddElement
    <3>2. QED BY <1>2, <1>3, <1>5, <2>3, <2>4, <2>5, <3>1
  <2>6. CASE ~(op = call[c].op /\ id = key)
    BY <1>2, <1>3, <2>3, <2>4, <2>6
  <2>7. QED BY <2>5, <2>6
<1>6. CASE ~Files(c)
  <2>1. towerAudit' = towerAudit
    BY <1>1, <1>6 DEF ServiceEffect, Adds, Updates, Passes
  <2>2. Count(id, EventOf(op))' = Count(id, EventOf(op))
    BY <2>1 DEF Count
  <2>3. QED BY <1>2, <1>3, <1>6, <2>2
<1>7. QED BY <1>5, <1>6

\* A step of another component that files no event of theirs leaves the trails
\* of the requests true.
LEMMA OthersTrails ==
  ASSUME StoreTypeOK, AuditTrailsRequests, UNCHANGED serviceVars,
         \/ UNCHANGED towerAudit
         \/ \E key \in AuditKey, event \in EventType \ {"scheduled", "started", "completed"} :
              AddEvent(key, event)
  PROVE  AuditTrailsRequests'
<1> SUFFICES ASSUME NEW id \in InspectionId, NEW op \in {"schedule", "start", "complete"}
             PROVE  Count(id, EventOf(op))' = Cardinality(Filed(op, id)')
  BY DEF AuditTrailsRequests, Filed
<1>1. Count(id, EventOf(op)) = Cardinality(Filed(op, id))
  BY DEF AuditTrailsRequests, Filed
<1>2. Filed(op, id)' = Filed(op, id)
  BY DEF serviceVars, Filed, AcceptedOf, Accepted
<1>3. Count(id, EventOf(op))' = Count(id, EventOf(op))
  <2>1. CASE UNCHANGED towerAudit
    BY <2>1 DEF Count
  <2>2. CASE ~UNCHANGED towerAudit
    <3>1. PICK key \in AuditKey, event \in EventType \ {"scheduled", "started", "completed"} :
            AddEvent(key, event)
      BY <2>2
    <3>2. id \in AuditKey /\ EventOf(op) # event
      BY DEF AuditKey, EventOf
    <3>3. QED BY <3>1, <3>2, AddEventCount
  <2>3. QED BY <2>1, <2>2
<1>4. QED BY <1>1, <1>2, <1>3

-------------------------------------------------------------------------------
(* The service beside other components                                         *)

ServiceInv == ServiceTypeOK /\ HandlersOK /\ AuditTrailsRequests

LEMMA ServiceInvInit == ASSUME StoreInit, ServiceInit PROVE ServiceInv
BY InitType, InitTrails DEF ServiceInv

LEMMA ServiceInvNext ==
  ASSUME ServiceParameters, StoreTypeOK, ServiceInv, ServiceNext
  PROVE  StoreTypeOK' /\ ServiceInv'
BY NextType, NextTrails DEF ServiceInv

LEMMA ServiceInvOthers ==
  ASSUME StoreTypeOK, ServiceInv, UNCHANGED serviceVars,
         \A id \in InspectionId : Stored(id) => Stored(id)',
         \/ UNCHANGED towerAudit
         \/ \E key \in AuditKey, event \in EventType \ {"scheduled", "started", "completed"} :
              AddEvent(key, event)
  PROVE  ServiceInv'
BY OthersType, OthersTrails DEF ServiceInv

\* All that a step of the service does to what is shared.
LEMMA ServiceShares ==
  ASSUME StoreTypeOK, ServiceInv, ServiceNext
  PROVE  /\ \A id \in InspectionId :
              Stored(id) => Stored(id)' /\ inspections'[id].tower = inspections[id].tower
         /\ \/ UNCHANGED towerAudit
            \/ \E id \in InspectionId, event \in {"scheduled", "started", "completed"} :
                 AddEvent(id, event)
         /\ cancelled \ Client \subseteq cancelled'
<1>1. PICK c \in Client : Only(c) /\ ServiceEffect(c)
  BY StepEffect DEF ServiceInv
<1>2. \A id \in InspectionId : Stored(id) => inspections'[id].tower = inspections[id].tower
  BY <1>1, TowerKept DEF ServiceInv
<1>3. \A id \in InspectionId : Stored(id) => Stored(id)'
  BY <1>1, NotAnInspection
  DEF ServiceEffect, Adds, Updates, Files, Passes, Stored, StoreTypeOK, ServiceInv, HandlersOK, HandlerOK
<1>4. \/ UNCHANGED towerAudit
      \/ \E id \in InspectionId, event \in {"scheduled", "started", "completed"} : AddEvent(id, event)
  <2>1. CASE Files(c)
    <3>1. /\ call[c].id \in InspectionId
          /\ EventOf(call[c].op) \in {"scheduled", "started", "completed"}
          /\ AddEvent(call[c].id, EventOf(call[c].op))
      BY <2>1 DEF Files, ServiceInv, HandlersOK, HandlerOK, Accepted, EventOf
    <3>2. QED BY <3>1
  <2>2. CASE ~Files(c)
    BY <1>1, <2>2 DEF ServiceEffect, Adds, Updates, Passes
  <2>3. QED BY <2>1, <2>2
<1>5. cancelled \ Client \subseteq cancelled'
  <2>1. ASSUME NEW d \in Client, NEW err, Refuse(d, err) PROVE cancelled \ Client \subseteq cancelled'
    BY <2>1 DEF Refuse
  <2>2. PICK d \in Client : PostSchedule(d) \/ PostMove(d) \/ ServiceStep(d) \/ CancelClient(d)
    BY DEF ServiceNext
  <2>3. CASE \E err : Refuse(d, err)
    BY <2>1, <2>3
  <2>4. CASE ~\E err : Refuse(d, err)
    BY <2>2, <2>4 DEF PostSchedule, PostMove, ServiceStep, Work, Add, Get, Update, Audit, Publish,
       CancelClient, storeVars
  <2>5. QED BY <2>3, <2>4
<1>6. QED BY <1>2, <1>3, <1>4, <1>5

-------------------------------------------------------------------------------
(* The order of the statuses                                                   *)

\* A Complete that has read "in_progress" writes to an inspection that has left
\* "scheduled" for good.
ReadStarted ==
  \A c \in Client :
    pc[c] = "update" /\ call[c].op = "complete" => inspections[call[c].id].status # "scheduled"

LEMMA InitStarted == ASSUME ServiceInit PROVE ReadStarted
BY DEF ServiceInit, ReadStarted

LEMMA StatusStep ==
  ASSUME ServiceParameters, StoreTypeOK, ServiceTypeOK, HandlersOK, ReadStarted, ServiceNext
  PROVE  /\ ReadStarted'
         /\ \A id \in InspectionId : Stored(id) =>
              /\ Stored(id)'
              /\ inspections[id].status = "scheduled" =>
                   inspections'[id].status \in {"scheduled", "in_progress"}
              /\ inspections[id].status # "scheduled" => inspections'[id].status # "scheduled"
<1>1. PICK c \in Client : Only(c) /\ ServiceEffect(c)
  BY StepEffect
<1>2. ASSUME NEW id \in InspectionId, Stored(id)
      PROVE  /\ Stored(id)'
             /\ inspections[id].status = "scheduled" =>
                  inspections'[id].status \in {"scheduled", "in_progress"}
             /\ inspections[id].status # "scheduled" => inspections'[id].status # "scheduled"
  <2>1. CASE Adds(c)
    BY <1>2, <2>1 DEF Adds, Stored, StoreTypeOK
  <2>2. CASE Updates(c)
    <3>1. call[c].op \in {"start", "complete"} /\ call[c].id \in InspectionId
      BY <2>2 DEF Updates, HandlersOK, HandlerOK
    <3>2. Target(call[c].op) # "scheduled"
          /\ (inspections[call[c].id].status = "scheduled" => Target(call[c].op) = "in_progress")
      BY <2>2, <3>1 DEF Updates, Target, ReadStarted
    <3>3. QED BY <1>2, <2>2, <3>1, <3>2, NotAnInspection DEF Updates, Stored, StoreTypeOK
  <2>3. CASE Files(c) \/ Passes(c)
    BY <1>2, <2>3 DEF Files, Passes, Stored, StoreTypeOK, InspectionStatus, TowerInspection
  <2>4. QED BY <1>1, <2>1, <2>2, <2>3 DEF ServiceEffect
<1>3. ReadStarted'
  <2> SUFFICES ASSUME NEW d \in Client, pc'[d] = "update", call'[d].op = "complete"
               PROVE  inspections'[call'[d].id].status # "scheduled"
    BY DEF ReadStarted
  <2>1. /\ call'[d] = call[d] /\ Stored(call[d].id)
        /\ inspections[call[d].id].status # "scheduled"
    <3>1. CASE d # c
      BY <1>1, <3>1 DEF Only, ReadStarted, HandlersOK, HandlerOK
    <3>2. CASE d = c
      <4>1. Passes(c)
        BY <1>1, <3>2 DEF ServiceEffect, Adds, Updates, Files
      <4>2. QED BY <3>2, <4>1 DEF Passes, ReadStarted, HandlersOK, HandlerOK, Required
    <3>3. QED BY <3>1, <3>2
  <2>2. call[d].id \in InspectionId
    <3>1. CASE d # c
      BY <1>1, <3>1 DEF Only, HandlersOK, HandlerOK
    <3>2. CASE d = c
      BY <2>1, <3>2, NextType DEF HandlersOK, HandlerOK
    <3>3. QED BY <3>1, <3>2
  <2>3. QED BY <1>2, <2>1, <2>2
<1>4. QED BY <1>2, <1>3

\* Complete reads and writes in two critical sections, and yet no scheduled
\* inspection is completed without having been in progress: it leaves
\* "scheduled" once and never comes back.
THEOREM StartFirst == ServiceParameters /\ Spec => NoSkippedStart
<1> SUFFICES ASSUME ServiceParameters PROVE Spec => NoSkippedStart
  OBVIOUS
<1> DEFINE Inv == StoreTypeOK /\ ServiceTypeOK /\ HandlersOK /\ ReadStarted
           A   == \A id \in InspectionId :
                    Stored(id) /\ inspections[id].status = "scheduled" =>
                      inspections'[id].status \in {"scheduled", "in_progress"}
<1>1. Init => Inv
  BY InitType, InitStarted DEF Init
<1>2. Inv /\ [ServiceNext]_vars => Inv' /\ [A]_storeVars
  <2> SUFFICES ASSUME Inv, [ServiceNext]_vars PROVE Inv' /\ [A]_storeVars
    OBVIOUS
  <2>1. CASE ServiceNext
    BY <2>1, NextType, StatusStep
  <2>2. CASE UNCHANGED vars
    <3>1. UNCHANGED storeVars
      BY <2>2 DEF vars
    <3>2. StoreTypeOK' /\ ReadStarted'
      BY <2>2 DEF vars, storeVars, serviceVars, StoreTypeOK, ReadStarted
    <3>3. ServiceTypeOK' /\ HandlersOK'
      BY <2>2, OthersType DEF vars, storeVars, Stored
    <3>4. QED BY <3>1, <3>2, <3>3
  <2>3. QED BY <2>1, <2>2
<1> HIDE DEF Inv
<1>3. QED BY <1>1, <1>2, PTL DEF Spec, vars, NoSkippedStart
===============================================================================
