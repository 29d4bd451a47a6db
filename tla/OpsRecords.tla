------------------------------ MODULE OpsRecords ------------------------------
(* The operations records behind /ops/records: OpsAPIHandler, OpsService,      *)
(* OpsStore, OpsStateMachine and OpsAudit.  A request is a goroutine that runs *)
(* its handler once; the steps below are the regions the code makes atomic by  *)
(* a mutex, so every interleaving of handlers at those points is a behaviour.  *)
EXTENDS OpsModel

VARIABLES
  items,             \* OpsStore.items
  history,           \* OpsStateMachine.history
  audit,             \* OpsAudit.events, per record: OpsAudit.For
  opsCreateCounter,  \* names handed out by opsCreateSequence
  pc,                \* where each request's goroutine stands
  call,              \* what each request asked for
  record,            \* the handler's local copy of the record
  reply,             \* the HTTP status sent, 0 before
  cancelled          \* requests whose context is done

vars == <<items, history, audit, opsCreateCounter, pc, call, record, reply, cancelled>>

NoCall == [op |-> "none", id |-> Blank, status |-> Unlisted, expected |-> 0]

Call == [ op       : {"none", "create", "transition"},
          id       : Spelling,
          status   : StatusText,
          expected : Expectations \cup {0} ]

Pc == {"new", "put", "get", "move", "update", "audit", "done"}

TypeOK ==
  /\ items \in [RecordId -> OpsRecord \cup {NoRecord}]
  /\ history \in Seq([from : StatusText, to : OpsStatus])
  /\ audit \in [RecordId -> Seq({"created", "status_changed"})]
  /\ opsCreateCounter \in 0..Len(Generated)
  /\ pc \in [Request -> Pc]
  /\ call \in [Request -> Call]
  /\ record \in [Request -> OpsRecord \cup {NoRecord}]
  /\ reply \in [Request -> {0, 200, 201, 400, 403, 404, 409, 500}]
  /\ cancelled \subseteq Request

Init ==
  /\ items = Seed
  /\ history = <<>>
  /\ audit = [id \in RecordId |-> <<>>]
  /\ opsCreateCounter = 0
  /\ pc = [p \in Request |-> "new"]
  /\ call = [p \in Request |-> NoCall]
  /\ record = [p \in Request |-> NoRecord]
  /\ reply = [p \in Request |-> 0]
  /\ cancelled = {}

-------------------------------------------------------------------------------
(* What the store's methods answer.  "ok" stands for a nil error.              *)

Stored(id) == id \in RecordId /\ items[id] # NoRecord

\* Mutant: Put overwrites.
PutConflictIgnored(id) == FALSE

\* OpsStore.Put and OpsStore.Update refuse under these two conditions.
PutConflict(id) == Stored(id)
UpdateConflict(current, expected) == expected > 0 /\ current.revision # expected

\* OpsStore.Get and the revision check that follows it in OpsService.Transition.
GetError(p) ==
  IF p \in cancelled THEN "internal"
  ELSE IF ~Stored(call[p].id) THEN "not_found"
  ELSE IF UpdateConflict(items[call[p].id], call[p].expected) THEN "conflict"
  ELSE "ok"

\* Mutant: Update relies on the check Transition made when it read.
UpdateErrorUnchecked(p) ==
  IF p \in cancelled THEN "internal"
  ELSE IF ~Stored(call[p].id) THEN "not_found"
  ELSE "ok"

\* OpsStore.Update checks the revision again, under the lock that writes.
UpdateError(p) ==
  IF p \in cancelled THEN "internal"
  ELSE IF ~Stored(call[p].id) THEN "not_found"
  ELSE IF UpdateConflict(items[call[p].id], call[p].expected) THEN "conflict"
  ELSE "ok"

\* Mutants: Update keeps the revision, or stores a record built afresh.
UpdatedInPlace(current, target) == [current EXCEPT !.status = target]
UpdatedAfresh(current, target) == [status |-> target, revision |-> 0]

\* The record OpsStore.Update stores: the handler's copy, one revision later.
Updated(current, target) == [status |-> target, revision |-> current.revision + 1]

\* Mutant: a status without a row in the table may go anywhere.
MoveRefusedIfListed(from, to) == from \in OpsStatus /\ ~CanMove(from, to)

\* OpsStateMachine.Move returns ErrOpsTransition.
MoveRefused(from, to) == ~CanMove(from, to)

Goto(p, label) == pc' = [pc EXCEPT ![p] = label]

\* Mutant: a handler whose context is done returns without a response.
AnswerUnlessCancelled(p, code) ==
  Goto(p, "done") /\ reply' = [reply EXCEPT ![p] = IF p \in cancelled THEN 0 ELSE code]

Answer(p, code) == Goto(p, "done") /\ reply' = [reply EXCEPT ![p] = code]

\* An error returns an empty record, and the handler's locals go with it.
Forget(p) ==
  /\ call' = [call EXCEPT ![p] = NoCall]
  /\ record' = [record EXCEPT ![p] = NoRecord]
  /\ cancelled' = cancelled \ {p}

Refuse(p, err) ==
  /\ err # "ok"
  /\ Answer(p, opsStatusForError[err])
  /\ Forget(p)
  /\ UNCHANGED <<items, history, audit, opsCreateCounter>>

-------------------------------------------------------------------------------
(* POST /ops/records                                                           *)

\* create up to OpsService.Create's policy check: a blank name consumes a number
\* of the sequence even when the policy then rejects the record.
PostCreate(p) ==
  \E id \in Spelling, status \in StatusText, complies \in BOOLEAN :
    LET n    == opsCreateCounter + 1
        name == IF id = Blank THEN Generated[n] ELSE Normal[id]
    IN
    /\ pc[p] = "new"
    /\ id = Blank => n <= Len(Generated)
    /\ opsCreateCounter' = IF id = Blank THEN n ELSE opsCreateCounter
    /\ \/ /\ ~complies
          /\ Answer(p, opsStatusForError["policy"])
          /\ Forget(p)
       \/ /\ complies
          /\ call' = [call EXCEPT ![p] =
                        [op |-> "create", id |-> name, status |-> status, expected |-> 0]]
          /\ Goto(p, "put")
          /\ UNCHANGED <<record, reply, cancelled>>
    /\ UNCHANGED <<items, history, audit>>

\* OpsStore.Put; wrapOps("create", ...) makes every one of its errors a 500.
Put(p) ==
  LET id  == call[p].id
      new == [status |-> call[p].status, revision |-> 1]
  IN
  /\ pc[p] = "put"
  /\ \/ /\ p \in cancelled \/ PutConflict(id)
        /\ Refuse(p, "create")
     \/ /\ ~(p \in cancelled \/ PutConflict(id))
        /\ items' = [items EXCEPT ![id] = new]
        /\ record' = [record EXCEPT ![p] = new]
        /\ Goto(p, "audit")
        /\ UNCHANGED <<history, audit, opsCreateCounter, call, reply, cancelled>>

-------------------------------------------------------------------------------
(* POST /ops/records/{id}/transition                                           *)

\* transition up to OpsService.Transition: the name comes from the path as it
\* is spelled, and only the four listed targets go further.
PostTransition(p) ==
  \E id \in Spelling, target \in StatusText, expected \in Expectations :
    /\ pc[p] = "new"
    /\ \/ /\ id = Blank
          /\ Refuse(p, "not_found")
       \/ /\ id # Blank
          /\ target \notin OpsStatus
          /\ Refuse(p, "invalid")
       \/ /\ id # Blank
          /\ target \in OpsStatus
          /\ call' = [call EXCEPT ![p] = [op |-> "transition", id |-> id,
                                         status |-> target, expected |-> expected]]
          /\ Goto(p, "get")
          /\ UNCHANGED <<items, history, audit, opsCreateCounter, record, reply, cancelled>>

Get(p) ==
  /\ pc[p] = "get"
  /\ \/ Refuse(p, GetError(p))
     \/ /\ GetError(p) = "ok"
        /\ record' = [record EXCEPT ![p] = items[call[p].id]]
        /\ Goto(p, "move")
        /\ UNCHANGED <<items, history, audit, opsCreateCounter, call, reply, cancelled>>

\* OpsStateMachine.Move judges the local copy and records the move in the
\* shared history, before the store has accepted it.
Move(p) ==
  LET from == record[p].status
      to   == call[p].status
  IN
  /\ pc[p] = "move"
  /\ \/ /\ MoveRefused(from, to)
        /\ Refuse(p, "transition")
     \/ /\ ~MoveRefused(from, to)
        /\ history' = IF from = to THEN history
                      ELSE Append(history, [from |-> from, to |-> to])
        /\ Goto(p, "update")
        /\ UNCHANGED <<items, audit, opsCreateCounter, call, record, reply, cancelled>>

\* The local copy keeps the revision it was read with: it is what is replied.
Update(p) ==
  LET id == call[p].id IN
  /\ pc[p] = "update"
  /\ \/ Refuse(p, UpdateError(p))
     \/ /\ UpdateError(p) = "ok"
        /\ items' = [items EXCEPT ![id] = Updated(@, call[p].status)]
        /\ record' = [record EXCEPT ![p].status = call[p].status]
        /\ Goto(p, "audit")
        /\ UNCHANGED <<history, audit, opsCreateCounter, call, reply, cancelled>>

-------------------------------------------------------------------------------
(* OpsAudit.Add and the answer, for both handlers.                             *)

EventType(op) == IF op = "create" THEN "created" ELSE "status_changed"

\* Mutant: the audit drops an event that repeats the one before it.
AuditDistinct(p) ==
  LET event == EventType(call[p].op) IN
  /\ pc[p] = "audit"
  /\ audit' = [audit EXCEPT ![call[p].id] =
                 IF @ # <<>> /\ @[Len(@)] = event THEN @ ELSE Append(@, event)]
  /\ Answer(p, IF call[p].op = "create" THEN 201 ELSE 200)
  /\ UNCHANGED <<items, history, opsCreateCounter, call, record, cancelled>>

Audit(p) ==
  /\ pc[p] = "audit"
  /\ audit' = [audit EXCEPT ![call[p].id] = Append(@, EventType(call[p].op))]
  /\ Answer(p, IF call[p].op = "create" THEN 201 ELSE 200)
  /\ UNCHANGED <<items, history, opsCreateCounter, call, record, cancelled>>

\* The environment: the client goes away, or the 3 s of opsContext run out.
\* Only the store's methods look at the context, before they take the lock.
Cancel(p) ==
  /\ pc[p] \in {"put", "get", "update"}
  /\ p \notin cancelled
  /\ cancelled' = cancelled \cup {p}
  /\ UNCHANGED <<items, history, audit, opsCreateCounter, pc, call, record, reply>>

\* The steps a goroutine that is already running takes.
Step(p) == Put(p) \/ Get(p) \/ Move(p) \/ Update(p) \/ Audit(p)

Next == \E p \in Request : PostCreate(p) \/ PostTransition(p) \/ Step(p) \/ Cancel(p)

Spec == Init /\ [][Next]_vars

\* No step of a handler blocks: mutexes are held for straight-line code only,
\* and the Go scheduler runs every runnable goroutine.
Fairness == \A p \in Request : WF_vars(Step(p))
FairSpec == Spec /\ Fairness

-------------------------------------------------------------------------------
(* Properties                                                                  *)

Committed(p) == pc[p] = "audit" \/ reply[p] \in {200, 201}

\* The requests whose transition of record id the store has accepted.
Transitions(id) == {p \in Request : Committed(p) /\ call[p].op = "transition" /\ call[p].id = id}

Creations(id) == {p \in Request : Committed(p) /\ call[p].op = "create" /\ call[p].id = id}

\* Optimistic locking (OpsStore.Update): of all transitions that name the same
\* expected revision of a record, the store accepts at most one, however their
\* reads, checks and writes interleave with each other and with transitions
\* that name no revision.
OneWinnerPerRevision ==
  \A id \in RecordId : \A p, q \in Transitions(id) :
    p # q /\ call[p].expected > 0 => call[p].expected # call[q].expected

\* A record's revision counts exactly its accepted transitions: no write to the
\* record is lost or counted twice, whatever the interleaving.
RevisionCountsWrites ==
  \A id \in RecordId : items[id] # NoRecord =>
    items[id].revision = Cardinality(Transitions(id))
                         + (IF Seed[id] = NoRecord THEN 1 ELSE Seed[id].revision)

\* A record has one creator at most, and none if it was there from the start.
OneCreator ==
  \A id \in RecordId : Cardinality(Creations(id)) =
    IF items[id] # NoRecord /\ Seed[id] = NoRecord THEN 1 ELSE 0

\* The audit trail of a record holds one event for every write to it, short
\* only of the writes whose handler stands between the store and the audit.
AuditTrailsWrites ==
  \A id \in RecordId :
    LET pending == {p \in Request : pc[p] = "audit" /\ call[p].id = id} IN
    Len(audit[id]) + Cardinality(pending)
      = Cardinality(Transitions(id)) + Cardinality(Creations(id))

\* The handler's copy of a record is a past state of it, and as long as the
\* revision is the same it is the present one: what makes the second revision
\* check in OpsStore.Update enough.
CopyIsPast ==
  \A p \in Request : pc[p] \in {"move", "update"} =>
    LET stored == items[call[p].id] IN
    /\ stored # NoRecord
    /\ record[p].revision <= stored.revision
    /\ record[p].revision = stored.revision => record[p] = stored

\* The revision a successful transition replies is older than the stored one,
\* so a client that sends it back as "expected" is told of a conflict.
ReplyIsStale ==
  \A p \in Request : reply[p] = 200 =>
    record[p].revision < items[call[p].id].revision

\* A record created with a status outside the four listed ones can never be
\* written again: the table has no row for it and no target names it.
UnlistedIsStuck ==
  [][\A id \in RecordId :
       items[id] # NoRecord /\ items[id].status = Unlisted => items'[id] = items[id]]_vars

\* Every stored status change follows opsTransitionTable.  Holds when every
\* transition names the revision it expects.
TransitionsFollowTable ==
  [][\A id \in RecordId :
       items[id] # NoRecord =>
         /\ items'[id] # NoRecord
         /\ CanMove(items[id].status, items'[id].status)]_vars

\* opsTransitionTable has no way out of "closed": no write reopens a record.
ClosedIsFinal ==
  [][\A id \in RecordId :
       items[id] # NoRecord /\ items[id].status = "closed" =>
         items'[id].status = "closed"]_vars

\* Every request that has arrived is answered, cancelled or not.
EveryRequestAnswered ==
  \A p \in Request : pc[p] # "new" ~> reply[p] # 0

-------------------------------------------------------------------------------
(* Refinement: the interleaved handlers against atomic ones.                   *)

outcome == [p \in Request |->
              IF Committed(p) THEN "accepted"
              ELSE IF pc[p] = "done" THEN "refused" ELSE "pending"]

Atomic == INSTANCE OpsAtomic WITH items <- items, outcome <- outcome

\* Reading, judging, writing and auditing in separate steps, the handlers do
\* what they would do in one: accept a creation of a free name, accept a move
\* the table allows, or refuse.  Holds when transitions name their revision.
ImplementsAtomic == Atomic!Spec
===============================================================================
