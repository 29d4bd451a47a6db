--------------------------- MODULE OpsRecordsProofs ---------------------------
(* Proofs about OpsRecords, for every set of requests, names, seeds and        *)
(* expected revisions.                                                         *)
EXTENDS OpsRecords, FiniteSetTheorems, TLAPS

\* What a handler knows at each point of its code: which call it serves, that
\* the record it has read is still stored, and that Move has allowed the write.
HandlerOK(p) ==
  /\ pc[p] = "put" => call[p].op = "create" /\ call[p].id \in RecordId
  /\ pc[p] \in {"get", "move", "update"} =>
       /\ call[p].op = "transition"
       /\ call[p].status \in OpsStatus
       /\ call[p].expected \in Expectations
  /\ pc[p] \in {"move", "update"} =>
       /\ call[p].id \in RecordId
       /\ items[call[p].id] \in OpsRecord
       /\ record[p] \in OpsRecord
  /\ pc[p] = "update" => CanMove(record[p].status, call[p].status)
  /\ pc[p] = "audit" =>
       /\ call[p].op \in {"create", "transition"}
       /\ call[p].id \in RecordId
       /\ items[call[p].id] \in OpsRecord
  /\ reply[p] \in {200, 201} =>
       /\ call[p].id \in RecordId
       /\ items[call[p].id] \in OpsRecord
  /\ reply[p] = 201 => call[p].op = "create"
  /\ reply[p] = 200 => call[p].op = "transition"
  /\ (reply[p] = 0) = (pc[p] # "done")

HandlersOK == \A p \in Request : HandlerOK(p)

-------------------------------------------------------------------------------

LEMMA ExpectationInt == 0 \in Int /\ \A e \in Expectations : e \in Int
BY OpsExpectations

LEMMA InitType == Init => TypeOK /\ HandlersOK
BY OpsNames, OpsSeed, OpsExpectations
DEF Init, TypeOK, HandlersOK, HandlerOK, NoCall, Call, Pc, StatusText, Unlisted

Refusals == {"not_found", "conflict", "transition", "invalid", "policy", "create", "internal"}

LEMMA ErrorCodes == \A err \in Refusals : opsStatusForError[err] \in {400, 403, 404, 409, 500}
BY DEF Refusals, opsStatusForError

\* Every refusal leaves the records alone and the handler with nothing.
LEMMA RefuseType ==
  ASSUME TypeOK, HandlersOK, NEW p \in Request, pc[p] # "done",
         NEW err \in Refusals \cup {"ok"}, Refuse(p, err)
  PROVE  TypeOK' /\ HandlersOK'
<1>1. /\ pc' = [pc EXCEPT ![p] = "done"]
      /\ call' = [call EXCEPT ![p] = NoCall]
      /\ record' = [record EXCEPT ![p] = NoRecord]
      /\ cancelled' = cancelled \ {p}
      /\ UNCHANGED <<items, history, audit, opsCreateCounter>>
  BY DEF Refuse, Answer, Goto, Forget
<1> DEFINE code == opsStatusForError[err]
<1>2. code \in {400, 403, 404, 409, 500} /\ reply' = [reply EXCEPT ![p] = code]
  BY ErrorCodes DEF Refuse, Answer
<1> HIDE DEF code
<1>3. NoCall \in Call
  BY OpsNames DEF NoCall, Call, StatusText, Unlisted
<1>4. TypeOK'
  BY <1>1, <1>2, <1>3 DEF TypeOK, Pc
<1>5. HandlersOK'
  <2> SUFFICES ASSUME NEW q \in Request PROVE HandlerOK(q)'
    BY DEF HandlersOK
  <2>1. CASE q = p
    BY <1>1, <1>2, <2>1 DEF TypeOK, HandlerOK
  <2>2. CASE q # p
    BY <1>1, <1>2, <2>2 DEF TypeOK, HandlersOK, HandlerOK
  <2>3. QED BY <2>1, <2>2
<1>6. QED BY <1>4, <1>5

LEMMA PostCreateType ==
  ASSUME TypeOK, HandlersOK, NEW p \in Request, PostCreate(p)
  PROVE  TypeOK' /\ HandlersOK'
<1>1. PICK id \in Spelling, status \in StatusText, complies \in BOOLEAN :
        PostCreate(p)!(id, status, complies)
  BY DEF PostCreate
<1> DEFINE n    == opsCreateCounter + 1
           name == IF id = Blank THEN Generated[n] ELSE Normal[id]
<1>2. name \in RecordId
  BY <1>1, OpsNames DEF TypeOK
<1>3. opsCreateCounter' \in 0..Len(Generated)
  BY <1>1, OpsNames DEF TypeOK
<1>4. pc[p] = "new"
  BY <1>1
<1>5. NoCall \in Call
  BY OpsNames DEF NoCall, Call, StatusText, Unlisted
<1>6. CASE ~complies
  <2>1. /\ pc' = [pc EXCEPT ![p] = "done"]
        /\ call' = [call EXCEPT ![p] = NoCall]
        /\ record' = [record EXCEPT ![p] = NoRecord]
        /\ cancelled' = cancelled \ {p}
        /\ reply' = [reply EXCEPT ![p] = 403]
        /\ UNCHANGED <<items, history, audit>>
    BY <1>1, <1>6 DEF Answer, Goto, Forget, opsStatusForError
  <2>2. TypeOK'
    BY <1>3, <1>5, <2>1 DEF TypeOK, Pc
  <2>3. HandlersOK'
    BY <2>1 DEF TypeOK, HandlersOK, HandlerOK
  <2>4. QED BY <2>2, <2>3
<1>7. CASE complies
  <2> DEFINE new == [op |-> "create", id |-> name, status |-> status, expected |-> 0]
  <2>1. /\ pc' = [pc EXCEPT ![p] = "put"]
        /\ call' = [call EXCEPT ![p] = new]
        /\ UNCHANGED <<items, history, audit, record, reply, cancelled>>
    BY <1>1, <1>7 DEF Goto
  <2>2. new \in Call /\ new.op = "create" /\ new.id \in RecordId
    BY <1>2, OpsNames DEF Call
  <2> HIDE DEF new
  <2>3. TypeOK'
    BY <1>3, <2>1, <2>2 DEF TypeOK, Pc
  <2>4. HandlersOK'
    BY <1>4, <2>1, <2>2 DEF TypeOK, HandlersOK, HandlerOK
  <2>5. QED BY <2>3, <2>4
<1>8. QED BY <1>6, <1>7

LEMMA PutType ==
  ASSUME TypeOK, HandlersOK, NEW p \in Request, Put(p)
  PROVE  TypeOK' /\ HandlersOK'
<1> DEFINE id  == call[p].id
           new == [status |-> call[p].status, revision |-> 1]
<1>1. pc[p] = "put" /\ id \in RecordId /\ call[p].op = "create" /\ call[p] \in Call
  BY DEF Put, TypeOK, HandlersOK, HandlerOK
<1>2. CASE Refuse(p, "create")
  BY <1>1, <1>2, RefuseType DEF Refusals
<1>3. CASE ~Refuse(p, "create")
  <2>1. /\ items' = [items EXCEPT ![id] = new]
        /\ record' = [record EXCEPT ![p] = new]
        /\ pc' = [pc EXCEPT ![p] = "audit"]
        /\ UNCHANGED <<history, audit, opsCreateCounter, call, reply, cancelled>>
    BY <1>3 DEF Put, Goto
  <2>2. new \in OpsRecord
    BY <1>1 DEF OpsRecord, Call
  <2> HIDE DEF new
  <2>3. TypeOK'
    BY <1>1, <2>1, <2>2 DEF TypeOK, Pc
  <2>4. HandlersOK'
    BY <1>1, <2>1, <2>2 DEF TypeOK, HandlersOK, HandlerOK
  <2>5. QED BY <2>3, <2>4
<1>4. QED BY <1>2, <1>3

LEMMA PostTransitionType ==
  ASSUME TypeOK, HandlersOK, NEW p \in Request, PostTransition(p)
  PROVE  TypeOK' /\ HandlersOK'
<1>1. PICK id \in Spelling, target \in StatusText, expected \in Expectations :
        PostTransition(p)!(id, target, expected)
  BY DEF PostTransition
<1>2. pc[p] = "new"
  BY <1>1
<1>3. CASE Refuse(p, "not_found") \/ Refuse(p, "invalid")
  BY <1>2, <1>3, RefuseType DEF Refusals
<1>4. CASE ~(Refuse(p, "not_found") \/ Refuse(p, "invalid"))
  <2> DEFINE new == [op |-> "transition", id |-> id, status |-> target, expected |-> expected]
  <2>1. /\ call' = [call EXCEPT ![p] = new]
        /\ pc' = [pc EXCEPT ![p] = "get"]
        /\ UNCHANGED <<items, history, audit, opsCreateCounter, record, reply, cancelled>>
    BY <1>1, <1>4 DEF Goto
  <2>2. target \in OpsStatus
    BY <1>1, <1>4
  <2>3. /\ new \in Call
        /\ new.op = "transition"
        /\ new.status \in OpsStatus
        /\ new.expected \in Expectations
    BY <2>2 DEF Call, StatusText
  <2> HIDE DEF new
  <2>4. TypeOK'
    BY <2>1, <2>3 DEF TypeOK, Pc
  <2>5. HandlersOK'
    BY <1>2, <2>1, <2>3 DEF TypeOK, HandlersOK, HandlerOK
  <2>6. QED BY <2>4, <2>5
<1>5. QED BY <1>3, <1>4

LEMMA GetType ==
  ASSUME TypeOK, HandlersOK, NEW p \in Request, Get(p)
  PROVE  TypeOK' /\ HandlersOK'
<1>1. pc[p] = "get"
  BY DEF Get
<1>2. CASE Refuse(p, GetError(p))
  <2>1. GetError(p) \in Refusals \cup {"ok"}
    BY DEF GetError, Refusals
  <2>2. QED BY <1>1, <1>2, <2>1, RefuseType
<1>3. CASE ~Refuse(p, GetError(p))
  <2> DEFINE read == items[call[p].id]
  <2>1. /\ GetError(p) = "ok"
        /\ record' = [record EXCEPT ![p] = read]
        /\ pc' = [pc EXCEPT ![p] = "move"]
        /\ UNCHANGED <<items, history, audit, opsCreateCounter, call, reply, cancelled>>
    BY <1>3 DEF Get, Goto
  <2>2. call[p].id \in RecordId /\ read # NoRecord
    BY <2>1 DEF GetError, Stored
  <2>3. read \in OpsRecord
    BY <2>2 DEF TypeOK
  <2>4. TypeOK'
    BY <2>1, <2>3 DEF TypeOK, Pc
  <2>5. HandlersOK'
    BY <1>1, <2>1, <2>2, <2>3 DEF TypeOK, HandlersOK, HandlerOK
  <2>6. QED BY <2>4, <2>5
<1>4. QED BY <1>2, <1>3

LEMMA MoveType ==
  ASSUME TypeOK, HandlersOK, NEW p \in Request, Move(p)
  PROVE  TypeOK' /\ HandlersOK'
<1> DEFINE from == record[p].status
           to   == call[p].status
<1>1. /\ pc[p] = "move"
      /\ from \in StatusText
      /\ to \in OpsStatus
  BY DEF Move, TypeOK, HandlersOK, HandlerOK, OpsRecord
<1>2. CASE Refuse(p, "transition")
  BY <1>1, <1>2, RefuseType DEF Refusals
<1>3. CASE ~Refuse(p, "transition")
  <2>1. /\ CanMove(from, to)
        /\ history' = IF from = to THEN history
                      ELSE Append(history, [from |-> from, to |-> to])
        /\ pc' = [pc EXCEPT ![p] = "update"]
        /\ UNCHANGED <<items, audit, opsCreateCounter, call, record, reply, cancelled>>
    BY <1>3 DEF Move, MoveRefused, Goto
  <2>2. history' \in Seq([from : StatusText, to : OpsStatus])
    <3> DEFINE entry   == [from |-> from, to |-> to]
               Entries == [from : StatusText, to : OpsStatus]
    <3>1. entry \in Entries /\ history \in Seq(Entries)
      BY <1>1 DEF TypeOK
    <3>2. history' = history \/ history' = Append(history, entry)
      BY <2>1
    <3> HIDE DEF entry, Entries
    <3>3. history' \in Seq(Entries)
      BY <3>1, <3>2
    <3>4. QED BY <3>3 DEF Entries
  <2>3. TypeOK'
    BY <2>1, <2>2 DEF TypeOK, Pc
  <2>4. HandlersOK'
    <3> SUFFICES ASSUME NEW q \in Request PROVE HandlerOK(q)'
      BY DEF HandlersOK
    <3>1. CASE q = p
      <4>1. /\ pc'[p] = "update"
            /\ UNCHANGED <<items, call, record, reply>>
        BY <2>1 DEF TypeOK
      <4>2. HandlerOK(p)
        BY DEF HandlersOK
      <4>3. CanMove(record[p].status, call[p].status)'
        BY <2>1 DEF CanMove
      <4>4. QED BY <1>1, <3>1, <4>1, <4>2, <4>3 DEF HandlerOK
    <3>2. CASE q # p
      BY <1>1, <2>1, <3>2 DEF TypeOK, HandlersOK, HandlerOK, CanMove
    <3>3. QED BY <3>1, <3>2
  <2>5. QED BY <2>3, <2>4
<1>4. QED BY <1>2, <1>3

LEMMA UpdateType ==
  ASSUME TypeOK, HandlersOK, NEW p \in Request, Update(p)
  PROVE  TypeOK' /\ HandlersOK'
<1> DEFINE id == call[p].id
<1>1. /\ pc[p] = "update"
      /\ id \in RecordId
      /\ items[id] \in OpsRecord
      /\ record[p] \in OpsRecord
      /\ call[p].status \in OpsStatus
      /\ call[p].op = "transition"
  BY DEF Update, TypeOK, HandlersOK, HandlerOK
<1>2. CASE Refuse(p, UpdateError(p))
  <2>1. UpdateError(p) \in Refusals \cup {"ok"}
    BY DEF UpdateError, Refusals
  <2>2. QED BY <1>1, <1>2, <2>1, RefuseType
<1>3. CASE ~Refuse(p, UpdateError(p))
  <2> DEFINE new == Updated(items[id], call[p].status)
             kept == [record[p] EXCEPT !.status = call[p].status]
  <2>1. /\ items' = [items EXCEPT ![id] = new]
        /\ record' = [record EXCEPT ![p] = kept]
        /\ pc' = [pc EXCEPT ![p] = "audit"]
        /\ UNCHANGED <<history, audit, opsCreateCounter, call, reply, cancelled>>
    BY <1>3 DEF Update, Goto
  <2>2. new \in OpsRecord /\ kept \in OpsRecord
    BY <1>1 DEF OpsRecord, Updated, StatusText
  <2> HIDE DEF new, kept
  <2>3. TypeOK'
    BY <1>1, <2>1, <2>2 DEF TypeOK, Pc
  <2>4. HandlersOK'
    BY <1>1, <2>1, <2>2 DEF TypeOK, HandlersOK, HandlerOK
  <2>5. QED BY <2>3, <2>4
<1>4. QED BY <1>2, <1>3

LEMMA AuditType ==
  ASSUME TypeOK, HandlersOK, NEW p \in Request, Audit(p)
  PROVE  TypeOK' /\ HandlersOK'
<1> DEFINE id    == call[p].id
           event == EventType(call[p].op)
<1>1. /\ pc[p] = "audit"
      /\ id \in RecordId
      /\ items[id] \in OpsRecord
  BY DEF Audit, TypeOK, HandlersOK, HandlerOK
<1>2. PICK code \in {200, 201} :
        /\ audit' = [audit EXCEPT ![id] = Append(@, event)]
        /\ pc' = [pc EXCEPT ![p] = "done"]
        /\ reply' = [reply EXCEPT ![p] = code]
        /\ code = IF call[p].op = "create" THEN 201 ELSE 200
        /\ UNCHANGED <<items, history, opsCreateCounter, call, record, cancelled>>
  BY DEF Audit, Answer, Goto
<1>3. audit' \in [RecordId -> Seq({"created", "status_changed"})]
  <2>1. event \in {"created", "status_changed"}
    BY DEF EventType
  <2>2. QED BY <1>1, <1>2, <2>1 DEF TypeOK
<1>4. TypeOK'
  BY <1>2, <1>3 DEF TypeOK, Pc
<1>5. HandlersOK'
  BY <1>1, <1>2 DEF TypeOK, HandlersOK, HandlerOK
<1>6. QED BY <1>4, <1>5

LEMMA CancelType ==
  ASSUME TypeOK, HandlersOK, NEW p \in Request, Cancel(p)
  PROVE  TypeOK' /\ HandlersOK'
BY DEF Cancel, TypeOK, HandlersOK, HandlerOK

LEMMA NextType == TypeOK /\ HandlersOK /\ [Next]_vars => TypeOK' /\ HandlersOK'
<1> SUFFICES ASSUME TypeOK, HandlersOK, [Next]_vars PROVE TypeOK' /\ HandlersOK'
  OBVIOUS
<1>1. CASE UNCHANGED vars
  BY <1>1 DEF vars, TypeOK, HandlersOK, HandlerOK
<1>2. ASSUME NEW p \in Request, PostCreate(p) PROVE TypeOK' /\ HandlersOK'
  BY <1>2, PostCreateType
<1>3. ASSUME NEW p \in Request, PostTransition(p) PROVE TypeOK' /\ HandlersOK'
  BY <1>3, PostTransitionType
<1>4. ASSUME NEW p \in Request, Put(p) PROVE TypeOK' /\ HandlersOK'
  BY <1>4, PutType
<1>5. ASSUME NEW p \in Request, Get(p) PROVE TypeOK' /\ HandlersOK'
  BY <1>5, GetType
<1>6. ASSUME NEW p \in Request, Move(p) PROVE TypeOK' /\ HandlersOK'
  BY <1>6, MoveType
<1>7. ASSUME NEW p \in Request, Update(p) PROVE TypeOK' /\ HandlersOK'
  BY <1>7, UpdateType
<1>8. ASSUME NEW p \in Request, Audit(p) PROVE TypeOK' /\ HandlersOK'
  BY <1>8, AuditType
<1>9. ASSUME NEW p \in Request, Cancel(p) PROVE TypeOK' /\ HandlersOK'
  BY <1>9, CancelType
<1>10. QED
  BY <1>1, <1>2, <1>3, <1>4, <1>5, <1>6, <1>7, <1>8, <1>9 DEF Next, Step

\* Type correctness: every variable keeps its type in every behaviour.
THEOREM TypeCorrect == Spec => []TypeOK
<1>1. Spec => [](TypeOK /\ HandlersOK)
  BY InitType, NextType, PTL DEF Spec
<1>2. QED BY <1>1, PTL

THEOREM HandlersCorrect == Spec => [](TypeOK /\ HandlersOK)
BY InitType, NextType, PTL DEF Spec

-------------------------------------------------------------------------------
(* What a step does to the store and to the handlers that do not take it.      *)

\* A successful OpsStore.Put and a successful OpsStore.Update by request p.
Creates(p) ==
  /\ pc[p] = "put"
  /\ items[call[p].id] = NoRecord
  /\ items' = [items EXCEPT ![call[p].id] = [status |-> call[p].status, revision |-> 1]]
  /\ record' = [record EXCEPT ![p] = [status |-> call[p].status, revision |-> 1]]
  /\ pc' = [pc EXCEPT ![p] = "audit"]
  /\ UNCHANGED <<call, reply>>

Moves(p) ==
  /\ pc[p] = "update"
  /\ ~UpdateConflict(items[call[p].id], call[p].expected)
  /\ items' = [items EXCEPT ![call[p].id] = Updated(@, call[p].status)]
  /\ record' = [record EXCEPT ![p].status = call[p].status]
  /\ pc' = [pc EXCEPT ![p] = "audit"]
  /\ UNCHANGED <<call, reply>>

LEMMA UpdatedRecord ==
  ASSUME NEW current \in OpsRecord, NEW target \in OpsStatus
  PROVE  /\ Updated(current, target) \in OpsRecord
         /\ Updated(current, target).status = target
         /\ Updated(current, target).revision = current.revision + 1
BY DEF Updated, OpsRecord, StatusText

LEMMA PutCreates ==
  ASSUME TypeOK, HandlersOK, NEW p \in Request, Put(p), ~Refuse(p, "create")
  PROVE  Creates(p)
BY DEF Put, Creates, PutConflict, Stored, HandlersOK, HandlerOK, Goto

LEMMA UpdateMoves ==
  ASSUME TypeOK, HandlersOK, NEW p \in Request, Update(p), ~Refuse(p, UpdateError(p))
  PROVE  Moves(p)
BY DEF Update, Moves, UpdateError, Goto

\* The other steps leave the store alone.
LEMMA StoreStep ==
  ASSUME TypeOK, HandlersOK, [Next]_vars, items' # items
  PROVE  \E p \in Request : Creates(p) \/ Moves(p)
<1>1. PICK p \in Request : Put(p) \/ Update(p)
  BY DEF Next, Step, PostCreate, PostTransition, Get, Move, Audit, Cancel, Refuse, vars
<1>2. ~Refuse(p, "create") /\ ~Refuse(p, UpdateError(p))
  BY DEF Refuse
<1>3. QED BY <1>1, <1>2, PutCreates, UpdateMoves

\* A stored record is never removed and keeps its revision or gains one.
LEMMA RevisionsGrow ==
  ASSUME TypeOK, HandlersOK, [Next]_vars, NEW id \in RecordId, items[id] # NoRecord
  PROVE  /\ items[id] \in OpsRecord
         /\ items'[id] \in OpsRecord
         /\ \/ items'[id] = items[id]
            \/ items'[id].revision = items[id].revision + 1
<1>1. items[id] \in OpsRecord
  BY DEF TypeOK
<1>2. CASE items' = items
  BY <1>1, <1>2
<1>3. CASE items' # items
  <2>1. PICK p \in Request : Creates(p) \/ Moves(p)
    BY <1>3, StoreStep
  <2>2. TypeOK'
    BY NextType
  <2>3. CASE Creates(p)
    BY <1>1, <2>3 DEF Creates, TypeOK
  <2>4. CASE Moves(p)
    <3>1. CASE id = call[p].id
      <4>1. items'[id] = Updated(items[id], call[p].status)
        BY <2>4, <3>1 DEF Moves, TypeOK
      <4>2. call[p].status \in OpsStatus
        BY <2>4 DEF Moves, HandlersOK, HandlerOK
      <4>3. QED BY <1>1, <4>1, <4>2, UpdatedRecord
    <3>2. CASE id # call[p].id
      BY <1>1, <2>4, <3>2 DEF Moves, TypeOK
    <3>3. QED BY <3>1, <3>2
  <2>5. QED BY <2>1, <2>3, <2>4
<1>4. QED BY <1>2, <1>3

-------------------------------------------------------------------------------
(* Optimistic locking                                                          *)

\* An accepted transition stays behind the stored revision, both with the copy
\* it replies and with the revision it named.
WinnerBehind(p) ==
  (pc[p] = "audit" /\ call[p].op = "transition") \/ reply[p] = 200 =>
    /\ record[p] \in OpsRecord
    /\ record[p].revision < items[call[p].id].revision
    /\ call[p].op = "transition"
    /\ call[p].expected < items[call[p].id].revision

WinnersBehind == \A p \in Request : WinnerBehind(p)

LEMMA InitCopy == Init => CopyIsPast /\ WinnersBehind
BY DEF Init, CopyIsPast, WinnersBehind, WinnerBehind

\* Only the request that takes the step changes its own place and locals.
LEMMA OthersKeep ==
  ASSUME TypeOK, NEW p \in Request, NEW q \in Request, q # p,
         PostCreate(p) \/ PostTransition(p) \/ Step(p) \/ Cancel(p)
  PROVE  /\ pc'[q] = pc[q]
         /\ call'[q] = call[q]
         /\ record'[q] = record[q]
         /\ reply'[q] = reply[q]
<1> USE DEF TypeOK, Goto, Answer, Forget, Refuse
<1>1. CASE PostCreate(p)
  BY <1>1 DEF PostCreate
<1>2. CASE PostTransition(p)
  BY <1>2 DEF PostTransition
<1>3. CASE Put(p)
  BY <1>3 DEF Put
<1>4. CASE Get(p)
  BY <1>4 DEF Get
<1>5. CASE Move(p)
  BY <1>5 DEF Move
<1>6. CASE Update(p)
  BY <1>6 DEF Update
<1>7. CASE Audit(p)
  BY <1>7 DEF Audit
<1>8. CASE Cancel(p)
  BY <1>8 DEF Cancel
<1>9. QED BY <1>1, <1>2, <1>3, <1>4, <1>5, <1>6, <1>7, <1>8 DEF Step

\* A handler that does not take the step keeps its relation to the store.
LEMMA OthersCopy ==
  ASSUME TypeOK, HandlersOK, CopyIsPast, WinnersBehind, [Next]_vars, NEW q \in Request,
         pc'[q] = pc[q], call'[q] = call[q], record'[q] = record[q], reply'[q] = reply[q]
  PROVE  /\ pc'[q] \in {"move", "update"} =>
              /\ items'[call'[q].id] # NoRecord
              /\ record'[q].revision <= items'[call'[q].id].revision
              /\ record'[q].revision = items'[call'[q].id].revision
                   => record'[q] = items'[call'[q].id]
         /\ WinnerBehind(q)'
<1> DEFINE id == call[q].id
<1>1. CASE pc[q] \in {"move", "update"}
  <2>1. /\ id \in RecordId
        /\ items[id] \in OpsRecord
        /\ items[id] # NoRecord
        /\ record[q] \in OpsRecord
    BY <1>1, OpsSeed DEF HandlersOK, HandlerOK
  <2>2. /\ record[q].revision <= items[id].revision
        /\ record[q].revision = items[id].revision => record[q] = items[id]
    BY <1>1 DEF CopyIsPast
  <2>3. /\ items'[id] \in OpsRecord
        /\ \/ items'[id] = items[id]
           \/ items'[id].revision = items[id].revision + 1
    BY <2>1, RevisionsGrow
  <2>4. items'[id] # NoRecord
    BY <2>3, OpsSeed
  <2>5. WinnerBehind(q)'
    BY <1>1 DEF HandlersOK, HandlerOK, WinnerBehind
  <2>6. QED BY <1>1, <2>1, <2>2, <2>3, <2>4, <2>5 DEF OpsRecord
<1>2. CASE (pc[q] = "audit" /\ call[q].op = "transition") \/ reply[q] = 200
  <2>1. /\ id \in RecordId
        /\ items[id] \in OpsRecord
        /\ items[id] # NoRecord
        /\ pc[q] \notin {"move", "update"}
    BY <1>2, OpsSeed DEF HandlersOK, HandlerOK
  <2>2. /\ record[q] \in OpsRecord
        /\ record[q].revision < items[id].revision
        /\ call[q].op = "transition"
        /\ call[q].expected < items[id].revision
    BY <1>2 DEF WinnersBehind, WinnerBehind
  <2>3. /\ items'[id] \in OpsRecord
        /\ \/ items'[id] = items[id]
           \/ items'[id].revision = items[id].revision + 1
    BY <2>1, RevisionsGrow
  <2>4. call[q].expected \in Int
    <3>1. call[q] \in Call
      BY DEF TypeOK
    <3>2. call[q].expected \in Expectations \/ call[q].expected = 0
      BY <3>1 DEF Call
    <3>3. QED BY <3>2, ExpectationInt
  <2>5. QED BY <2>1, <2>2, <2>3, <2>4 DEF WinnerBehind, OpsRecord
<1>3. QED BY <1>1, <1>2 DEF WinnerBehind

\* The handler that takes the step: Get copies the stored record, Update leaves
\* its copy behind, and no other step puts a handler where the claim applies.
LEMMA ActorCopy ==
  ASSUME TypeOK, HandlersOK, CopyIsPast, WinnersBehind, NEW p \in Request,
         PostCreate(p) \/ PostTransition(p) \/ Step(p) \/ Cancel(p)
  PROVE  /\ pc'[p] \in {"move", "update"} =>
              /\ items'[call'[p].id] # NoRecord
              /\ record'[p].revision <= items'[call'[p].id].revision
              /\ record'[p].revision = items'[call'[p].id].revision
                   => record'[p] = items'[call'[p].id]
         /\ WinnerBehind(p)'
<1> DEFINE Goal == /\ pc'[p] \in {"move", "update"} =>
                        /\ items'[call'[p].id] # NoRecord
                        /\ record'[p].revision <= items'[call'[p].id].revision
                        /\ record'[p].revision = items'[call'[p].id].revision
                             => record'[p] = items'[call'[p].id]
                   /\ WinnerBehind(p)'
<1>0. ASSUME pc'[p] \in {"put", "get", "done"}, reply'[p] # 200 PROVE Goal
  BY <1>0 DEF WinnerBehind
<1>1. ASSUME NEW err \in Refusals \cup {"ok"}, Refuse(p, err) PROVE Goal
  <2> DEFINE code == opsStatusForError[err]
  <2>1. code # 200
    BY <1>1, ErrorCodes DEF Refuse
  <2>2. pc' = [pc EXCEPT ![p] = "done"] /\ reply' = [reply EXCEPT ![p] = code]
    BY <1>1 DEF Refuse, Answer, Goto
  <2> HIDE DEF code, Goal
  <2>3. pc'[p] = "done" /\ reply'[p] = code
    BY <2>2 DEF TypeOK
  <2>4. QED BY <1>0, <2>1, <2>3
<1> SUFFICES Goal
  OBVIOUS
<1> HIDE DEF Goal
<1>2. CASE PostCreate(p)
  <2>1. pc[p] = "new" /\ reply[p] = 0
    BY <1>2 DEF PostCreate, HandlersOK, HandlerOK
  <2>2. \/ pc' = [pc EXCEPT ![p] = "done"] /\ reply' = [reply EXCEPT ![p] = 403]
        \/ pc' = [pc EXCEPT ![p] = "put"] /\ reply' = reply
    BY <1>2 DEF PostCreate, Answer, Goto, opsStatusForError
  <2>3. QED BY <1>0, <2>1, <2>2 DEF TypeOK
<1>3. CASE PostTransition(p)
  <2>1. pc[p] = "new" /\ reply[p] = 0
    BY <1>3 DEF PostTransition, HandlersOK, HandlerOK
  <2>2. \/ Refuse(p, "not_found")
        \/ Refuse(p, "invalid")
        \/ pc' = [pc EXCEPT ![p] = "get"] /\ reply' = reply
    BY <1>3 DEF PostTransition, Goto
  <2>3. QED BY <1>0, <1>1, <2>1, <2>2 DEF TypeOK, Refusals
<1>4. CASE Put(p)
  <2>1. CASE ~Refuse(p, "create")
    <3>1. Creates(p) /\ call[p].op = "create" /\ reply[p] = 0
      BY <2>1, <1>4, PutCreates DEF Creates, HandlersOK, HandlerOK
    <3>2. pc'[p] = "audit" /\ call'[p] = call[p] /\ reply'[p] = 0
      BY <3>1 DEF Creates, TypeOK
    <3>3. QED BY <3>1, <3>2 DEF Goal, WinnerBehind
  <2>2. QED BY <1>1, <2>1 DEF Refusals
<1>5. CASE Get(p)
  <2>1. GetError(p) \in Refusals \cup {"ok"}
    BY DEF GetError, Refusals
  <2>2. CASE ~Refuse(p, GetError(p))
    <3>1. /\ pc[p] = "get"
          /\ GetError(p) = "ok"
          /\ record' = [record EXCEPT ![p] = items[call[p].id]]
          /\ pc' = [pc EXCEPT ![p] = "move"]
          /\ UNCHANGED <<items, call, reply>>
      BY <1>5, <2>2 DEF Get, Goto
    <3>2. items[call[p].id] # NoRecord /\ items[call[p].id] \in OpsRecord
      BY <3>1 DEF GetError, Stored, TypeOK
    <3>3. /\ pc'[p] = "move"
          /\ record'[p] = items[call[p].id]
          /\ reply'[p] = 0
          /\ items' = items /\ call' = call
      <4>1. reply[p] = 0
        BY <3>1 DEF HandlersOK, HandlerOK
      <4>2. QED BY <3>1, <4>1 DEF TypeOK
    <3>4. QED BY <3>2, <3>3 DEF Goal, WinnerBehind, OpsRecord
  <2>3. QED BY <1>1, <2>1, <2>2
<1>6. CASE Move(p)
  <2>1. CASE ~Refuse(p, "transition")
    <3>1. /\ pc[p] = "move"
          /\ pc' = [pc EXCEPT ![p] = "update"]
          /\ UNCHANGED <<items, call, record, reply>>
      BY <1>6, <2>1 DEF Move, Goto
    <3>2. pc'[p] = "update" /\ reply[p] = 0
      <4>1. reply[p] = 0
        BY <3>1 DEF HandlersOK, HandlerOK
      <4>2. QED BY <3>1, <4>1 DEF TypeOK
    <3>3. QED BY <3>1, <3>2 DEF CopyIsPast, WinnerBehind, Goal
  <2>2. QED BY <1>1, <2>1 DEF Refusals
<1>7. CASE Update(p)
  <2>1. UpdateError(p) \in Refusals \cup {"ok"}
    BY DEF UpdateError, Refusals
  <2>2. CASE ~Refuse(p, UpdateError(p))
    <3> DEFINE id == call[p].id
    <3>1. Moves(p)
      BY <1>7, <2>2, UpdateMoves
    <3>2. /\ id \in RecordId
          /\ items[id] \in OpsRecord
          /\ record[p] \in OpsRecord
          /\ call[p].status \in OpsStatus
          /\ call[p].op = "transition"
          /\ call[p].expected \in Int
          /\ record[p].revision <= items[id].revision
      BY <3>1, OpsExpectations DEF Moves, HandlersOK, HandlerOK, CopyIsPast
    <3>3. /\ items'[id].revision = items[id].revision + 1
          /\ record'[p] \in OpsRecord
          /\ record'[p].revision = record[p].revision
      <4>1. items'[id] = Updated(items[id], call[p].status)
        BY <3>1, <3>2 DEF Moves, TypeOK
      <4>2. record'[p] = [record[p] EXCEPT !.status = call[p].status]
        BY <3>1 DEF Moves, TypeOK
      <4>3. QED BY <3>2, <4>1, <4>2, UpdatedRecord DEF OpsRecord, StatusText
    <3>4. call[p].expected < items'[id].revision
      BY <3>1, <3>2, <3>3 DEF Moves, UpdateConflict, OpsRecord
    <3>5. /\ pc'[p] = "audit"
          /\ call'[p] = call[p]
      BY <3>1 DEF Moves, TypeOK
    <3>6. QED BY <3>2, <3>3, <3>4, <3>5 DEF WinnerBehind, OpsRecord, Goal
  <2>3. QED BY <1>1, <2>1, <2>2
<1>8. CASE Audit(p)
  <2>1. /\ pc[p] = "audit"
        /\ pc'[p] = "done"
        /\ reply'[p] = IF call[p].op = "create" THEN 201 ELSE 200
        /\ UNCHANGED <<items, call, record>>
    BY <1>8 DEF Audit, Answer, Goto, TypeOK
  <2>2. call[p].op \in {"create", "transition"}
    BY <2>1 DEF HandlersOK, HandlerOK
  <2>3. QED BY <2>1, <2>2 DEF WinnersBehind, WinnerBehind, Goal
<1>9. CASE Cancel(p)
  BY <1>9 DEF Cancel, CopyIsPast, WinnersBehind, WinnerBehind, Goal
<1>10. QED
  BY <1>2, <1>3, <1>4, <1>5, <1>6, <1>7, <1>8, <1>9 DEF Step

LEMMA NextCopy ==
  TypeOK /\ HandlersOK /\ CopyIsPast /\ WinnersBehind /\ [Next]_vars
    => CopyIsPast' /\ WinnersBehind'
<1> SUFFICES ASSUME TypeOK, HandlersOK, CopyIsPast, WinnersBehind, [Next]_vars, NEW q \in Request
             PROVE  /\ pc'[q] \in {"move", "update"} =>
                         /\ items'[call'[q].id] # NoRecord
                         /\ record'[q].revision <= items'[call'[q].id].revision
                         /\ record'[q].revision = items'[call'[q].id].revision
                              => record'[q] = items'[call'[q].id]
                    /\ WinnerBehind(q)'
  BY DEF CopyIsPast, WinnersBehind
<1>1. CASE UNCHANGED vars
  BY <1>1, OthersCopy DEF vars
<1>2. ASSUME NEW p \in Request, p # q,
             PostCreate(p) \/ PostTransition(p) \/ Step(p) \/ Cancel(p)
      PROVE  /\ pc'[q] = pc[q]
             /\ call'[q] = call[q]
             /\ record'[q] = record[q]
             /\ reply'[q] = reply[q]
  BY <1>2, OthersKeep
<1>3. CASE Next
  BY <1>2, <1>3, OthersCopy, ActorCopy DEF Next
<1>4. QED BY <1>1, <1>3

\* A handler's copy is always a past state of the record, and the present one
\* as long as the revision is the same.
THEOREM CopyCorrect == Spec => []CopyIsPast
<1>1. Spec => [](TypeOK /\ HandlersOK /\ CopyIsPast /\ WinnersBehind)
  BY InitType, InitCopy, NextType, NextCopy, PTL DEF Spec
<1>2. QED BY <1>1, PTL

\* The revision a successful transition replies is already out of date.
THEOREM ReplyStale == Spec => []ReplyIsStale
<1>1. Spec => [](TypeOK /\ HandlersOK /\ CopyIsPast /\ WinnersBehind)
  BY InitType, InitCopy, NextType, NextCopy, PTL DEF Spec
<1>2. WinnersBehind => ReplyIsStale
  BY DEF WinnersBehind, WinnerBehind, ReplyIsStale
<1>3. QED BY <1>1, <1>2, PTL


-------------------------------------------------------------------------------
(* Which requests the store has accepted, step by step.                        *)

\* The three ways a step can change what is accepted.
NothingAccepted(p) ==
  /\ items' = items
  /\ Committed(p)' = Committed(p)
  /\ Committed(p) => call'[p] = call[p]

LEMMA ActorCommits ==
  ASSUME TypeOK, HandlersOK, NEW p \in Request,
         PostCreate(p) \/ PostTransition(p) \/ Step(p) \/ Cancel(p)
  PROVE  \/ Creates(p) /\ ~Committed(p) /\ Committed(p)'
         \/ Moves(p) /\ ~Committed(p) /\ Committed(p)'
         \/ NothingAccepted(p)
<1>1. ASSUME pc[p] \in Pc \ {"audit", "done"} PROVE ~Committed(p)
  BY <1>1 DEF HandlersOK, HandlerOK, Committed
<1>2. ASSUME NEW err \in Refusals \cup {"ok"}, Refuse(p, err), pc[p] \in Pc \ {"audit", "done"}
      PROVE  NothingAccepted(p)
  <2> DEFINE code == opsStatusForError[err]
  <2>1. code \notin {200, 201}
    BY <1>2, ErrorCodes DEF Refuse
  <2>2. /\ pc' = [pc EXCEPT ![p] = "done"]
        /\ reply' = [reply EXCEPT ![p] = code]
        /\ items' = items
    BY <1>2 DEF Refuse, Answer, Goto
  <2> HIDE DEF code
  <2>3. pc'[p] = "done" /\ reply'[p] = code
    BY <2>2 DEF TypeOK
  <2>4. QED BY <1>1, <1>2, <2>1, <2>2, <2>3 DEF NothingAccepted, Committed
<1>3. CASE PostCreate(p)
  <2>1. pc[p] = "new" /\ reply[p] = 0 /\ items' = items
    BY <1>3 DEF PostCreate, HandlersOK, HandlerOK
  <2>2. \/ pc' = [pc EXCEPT ![p] = "done"] /\ reply' = [reply EXCEPT ![p] = 403]
        \/ pc' = [pc EXCEPT ![p] = "put"] /\ reply' = reply
    BY <1>3 DEF PostCreate, Answer, Goto, opsStatusForError
  <2>3. QED BY <2>1, <2>2 DEF TypeOK, NothingAccepted, Committed
<1>4. CASE PostTransition(p)
  <2>1. pc[p] = "new" /\ reply[p] = 0
    BY <1>4 DEF PostTransition, HandlersOK, HandlerOK
  <2>2. \/ Refuse(p, "not_found")
        \/ Refuse(p, "invalid")
        \/ pc' = [pc EXCEPT ![p] = "get"] /\ reply' = reply /\ items' = items
    BY <1>4 DEF PostTransition, Goto
  <2>3. CASE pc' = [pc EXCEPT ![p] = "get"] /\ reply' = reply /\ items' = items
    BY <2>1, <2>3 DEF TypeOK, NothingAccepted, Committed
  <2>4. QED BY <1>2, <2>1, <2>2, <2>3 DEF Refusals, Pc
<1>5. CASE Put(p)
  <2>1. pc[p] = "put"
    BY <1>5 DEF Put
  <2>2. CASE ~Refuse(p, "create")
    <3>1. Creates(p)
      BY <1>5, <2>2, PutCreates
    <3>2. Committed(p)'
      BY <3>1 DEF Creates, TypeOK, Committed
    <3>3. QED BY <1>1, <2>1, <3>1, <3>2 DEF Pc
  <2>3. QED BY <1>2, <2>1, <2>2 DEF Refusals, Pc
<1>6. CASE Get(p)
  <2>1. pc[p] = "get" /\ reply[p] = 0
    BY <1>6 DEF Get, HandlersOK, HandlerOK
  <2>2. GetError(p) \in Refusals \cup {"ok"}
    BY DEF GetError, Refusals
  <2>3. CASE ~Refuse(p, GetError(p))
    BY <1>6, <2>1, <2>3 DEF Get, Goto, TypeOK, NothingAccepted, Committed
  <2>4. QED BY <1>2, <2>1, <2>2, <2>3 DEF Pc
<1>7. CASE Move(p)
  <2>1. pc[p] = "move" /\ reply[p] = 0
    BY <1>7 DEF Move, HandlersOK, HandlerOK
  <2>2. CASE ~Refuse(p, "transition")
    <3>1. pc' = [pc EXCEPT ![p] = "update"] /\ reply' = reply /\ items' = items
      BY <1>7, <2>2 DEF Move, Goto
    <3>2. QED BY <2>1, <3>1 DEF TypeOK, NothingAccepted, Committed
  <2>3. QED BY <1>2, <2>1, <2>2 DEF Refusals, Pc
<1>8. CASE Update(p)
  <2>1. pc[p] = "update"
    BY <1>8 DEF Update
  <2>2. UpdateError(p) \in Refusals \cup {"ok"}
    BY DEF UpdateError, Refusals
  <2>3. CASE ~Refuse(p, UpdateError(p))
    <3>1. Moves(p)
      BY <1>8, <2>3, UpdateMoves
    <3>2. Committed(p)'
      BY <3>1 DEF Moves, TypeOK, Committed
    <3>3. QED BY <1>1, <2>1, <3>1, <3>2 DEF Pc
  <2>4. QED BY <1>2, <2>1, <2>2, <2>3 DEF Pc
<1>9. CASE Audit(p)
  <2>1. /\ pc[p] = "audit"
        /\ \/ reply' = [reply EXCEPT ![p] = 200]
           \/ reply' = [reply EXCEPT ![p] = 201]
        /\ UNCHANGED <<items, call>>
    BY <1>9 DEF Audit, Answer
  <2>2. QED BY <2>1 DEF TypeOK, NothingAccepted, Committed
<1>10. CASE Cancel(p)
  BY <1>10 DEF Cancel, NothingAccepted, Committed
<1>11. QED BY <1>3, <1>4, <1>5, <1>6, <1>7, <1>8, <1>9, <1>10 DEF Step

\* The sets of accepted requests grow by the request that Creates or Moves.
Joins(S, T, p) == p \notin S /\ T = S \cup {p}

LEMMA AcceptedStep ==
  ASSUME TypeOK, HandlersOK, [Next]_vars
  PROVE  /\ \A q \in Request : Committed(q) => Committed(q)' /\ call'[q] = call[q]
         /\ \/ /\ items' = items
               /\ \A id \in RecordId : /\ Transitions(id)' = Transitions(id)
                                       /\ Creations(id)' = Creations(id)
            \/ \E p \in Request, id \in RecordId :
                 /\ Creates(p) /\ call[p].id = id
                 /\ Joins(Creations(id), Creations(id)', p)
                 /\ Transitions(id)' = Transitions(id)
                 /\ \A other \in RecordId \ {id} : /\ Transitions(other)' = Transitions(other)
                                                   /\ Creations(other)' = Creations(other)
            \/ \E p \in Request, id \in RecordId :
                 /\ Moves(p) /\ call[p].id = id
                 /\ Joins(Transitions(id), Transitions(id)', p)
                 /\ Creations(id)' = Creations(id)
                 /\ \A other \in RecordId \ {id} : /\ Transitions(other)' = Transitions(other)
                                                   /\ Creations(other)' = Creations(other)
<1>1. CASE UNCHANGED vars
  BY <1>1 DEF vars, Committed, Transitions, Creations
<1>2. CASE Next
  <2>1. PICK p \in Request : PostCreate(p) \/ PostTransition(p) \/ Step(p) \/ Cancel(p)
    BY <1>2 DEF Next
  <2>2. \A q \in Request \ {p} : Committed(q)' = Committed(q) /\ call'[q] = call[q]
    BY <2>1, OthersKeep DEF Committed
  <2>3. CASE NothingAccepted(p)
    BY <2>2, <2>3 DEF NothingAccepted, Transitions, Creations
  <2>4. CASE Creates(p) /\ ~Committed(p) /\ Committed(p)'
    <3> DEFINE id == call[p].id
    <3>1. call' = call /\ call[p].op = "create" /\ id \in RecordId
      BY <2>4 DEF Creates, HandlersOK, HandlerOK
    <3> HIDE DEF id
    <3>2. \A any \in RecordId : Transitions(any)' = Transitions(any)
      BY <2>2, <2>4, <3>1 DEF Transitions
    <3>3. \A other \in RecordId \ {id} : Creations(other)' = Creations(other)
      BY <2>2, <2>4, <3>1 DEF Creations, id
    <3>4. Joins(Creations(id), Creations(id)', p)
      BY <2>2, <2>4, <3>1 DEF Creations, Joins, id
    <3>5. \A q \in Request : Committed(q) => Committed(q)' /\ call'[q] = call[q]
      BY <2>2, <2>4, <3>1
    <3>6. QED BY <2>4, <3>1, <3>2, <3>3, <3>4, <3>5 DEF id
  <2>5. CASE Moves(p) /\ ~Committed(p) /\ Committed(p)'
    <3> DEFINE id == call[p].id
    <3>1. call' = call /\ call[p].op = "transition" /\ id \in RecordId
      BY <2>5 DEF Moves, HandlersOK, HandlerOK
    <3> HIDE DEF id
    <3>2. \A any \in RecordId : Creations(any)' = Creations(any)
      BY <2>2, <2>5, <3>1 DEF Creations
    <3>3. \A other \in RecordId \ {id} : Transitions(other)' = Transitions(other)
      BY <2>2, <2>5, <3>1 DEF Transitions, id
    <3>4. Joins(Transitions(id), Transitions(id)', p)
      BY <2>2, <2>5, <3>1 DEF Transitions, Joins, id
    <3>5. \A q \in Request : Committed(q) => Committed(q)' /\ call'[q] = call[q]
      BY <2>2, <2>5, <3>1
    <3>6. QED BY <2>5, <3>1, <3>2, <3>3, <3>4, <3>5 DEF id
  <2>6. QED BY <2>1, <2>3, <2>4, <2>5, ActorCommits
<1>3. QED BY <1>1, <1>2

LEMMA NextWinner ==
  TypeOK /\ HandlersOK /\ CopyIsPast /\ WinnersBehind /\ OneWinnerPerRevision /\ [Next]_vars
    => OneWinnerPerRevision'
<1> SUFFICES ASSUME TypeOK, HandlersOK, CopyIsPast, WinnersBehind, OneWinnerPerRevision, [Next]_vars,
                    NEW id \in RecordId, NEW q \in Transitions(id)', NEW r \in Transitions(id)',
                    q # r, call'[q].expected > 0
             PROVE  call'[q].expected # call'[r].expected
  BY DEF OneWinnerPerRevision
<1>1. \A t \in Transitions(id) : call'[t] = call[t]
  BY AcceptedStep DEF Transitions
<1>2. CASE Transitions(id)' = Transitions(id)
  BY <1>1, <1>2 DEF OneWinnerPerRevision
<1>3. CASE Transitions(id)' # Transitions(id)
  <2>1. PICK p \in Request : /\ Moves(p)
                             /\ call[p].id = id
                             /\ Transitions(id)' = Transitions(id) \cup {p}
    BY <1>3, AcceptedStep DEF Joins
  <2>2. call'[p] = call[p] /\ call[p].expected \in Int
    BY <2>1, ExpectationInt DEF Moves, HandlersOK, HandlerOK
  <2>3. \A t \in Transitions(id) : /\ call[t].expected \in Int
                                   /\ call[t].expected < items[id].revision
    <3>1. TAKE t \in Transitions(id)
    <3>2. t \in Request /\ Committed(t) /\ call[t].op = "transition" /\ call[t].id = id
      BY DEF Transitions
    <3>3. (pc[t] = "audit" /\ call[t].op = "transition") \/ reply[t] = 200
      BY <3>2 DEF Committed, HandlersOK, HandlerOK
    <3>4. call[t] \in Call
      BY <3>2 DEF TypeOK
    <3>5. call[t].expected \in Expectations \/ call[t].expected = 0
      BY <3>4 DEF Call
    <3>6. QED BY <3>2, <3>3, <3>5, ExpectationInt DEF WinnersBehind, WinnerBehind
  <2>4. items[id].revision \in Int
    BY <2>1 DEF Moves, HandlersOK, HandlerOK, OpsRecord
  <2>5. call[p].expected > 0 => call[p].expected = items[id].revision
    BY <2>1, <2>4 DEF Moves, UpdateConflict
  <2>6. \A t \in Transitions(id) :
          (call[p].expected > 0 \/ call[t].expected > 0) => call[p].expected # call[t].expected
    BY <2>2, <2>3, <2>4, <2>5
  <2>7. CASE q = p
    BY <1>1, <2>1, <2>2, <2>6, <2>7
  <2>8. CASE r = p
    BY <1>1, <2>1, <2>2, <2>6, <2>8
  <2>9. CASE q # p /\ r # p
    BY <1>1, <2>1, <2>9 DEF OneWinnerPerRevision
  <2>10. QED BY <2>7, <2>8, <2>9
<1>4. QED BY <1>2, <1>3

\* Of the transitions that name one revision of a record, one at most succeeds.
THEOREM OneWinner == Spec => []OneWinnerPerRevision
<1>1. Init => OneWinnerPerRevision
  BY DEF Init, OneWinnerPerRevision, Transitions, Committed
<1>2. Spec => [](TypeOK /\ HandlersOK /\ CopyIsPast /\ WinnersBehind /\ OneWinnerPerRevision)
  BY <1>1, InitType, InitCopy, NextType, NextCopy, NextWinner, PTL DEF Spec
<1>3. QED BY <1>2, PTL

-------------------------------------------------------------------------------
(* Counting the writes                                                         *)

LEMMA JoinsCounts ==
  ASSUME NEW S \in SUBSET Request, NEW T, NEW p, Joins(S, T, p)
  PROVE  /\ Cardinality(S) \in Nat
         /\ Cardinality(T) = Cardinality(S) + 1
<1>1. IsFiniteSet(S)
  BY OpsRequests, FS_Subset
<1>2. QED BY <1>1, FS_AddElement, FS_CardinalityType DEF Joins

FirstRevision(id) == IF Seed[id] = NoRecord THEN 1 ELSE Seed[id].revision

\* A record not stored has no accepted transition and no seed; a stored one has
\* gained a revision with every accepted transition.
Counted(id) ==
  /\ items[id] = NoRecord => Transitions(id) = {} /\ Seed[id] = NoRecord
  /\ items[id] # NoRecord => items[id].revision = Cardinality(Transitions(id)) + FirstRevision(id)

AllCounted == \A id \in RecordId : Counted(id)

LEMMA InitCounted == Init => AllCounted
<1> SUFFICES ASSUME Init, NEW id \in RecordId PROVE Counted(id)
  BY DEF AllCounted
<1>1. Transitions(id) = {}
  BY DEF Init, Transitions, Committed
<1>2. Seed[id] # NoRecord => Seed[id].revision \in Nat
  BY OpsSeed DEF OpsRecord
<1>3. QED BY <1>1, <1>2, FS_EmptySet DEF Init, Counted, FirstRevision

LEMMA NextCounted == TypeOK /\ HandlersOK /\ AllCounted /\ [Next]_vars => AllCounted'
<1> SUFFICES ASSUME TypeOK, HandlersOK, NEW id \in RecordId, Counted(id), [Next]_vars
             PROVE  Counted(id)'
  BY DEF AllCounted
<1>1. CASE items' = items /\ Transitions(id)' = Transitions(id)
  BY <1>1 DEF Counted, FirstRevision
<1>2. ASSUME NEW p \in Request, Creates(p), Transitions(id)' = Transitions(id) PROVE Counted(id)'
  <2>1. CASE call[p].id = id
    <3>1. /\ items[id] = NoRecord
          /\ items'[id] = [status |-> call[p].status, revision |-> 1]
      BY <1>2, <2>1 DEF Creates, TypeOK
    <3>2. Transitions(id)' = {} /\ Seed[id] = NoRecord
      BY <1>2, <3>1 DEF Counted
    <3>3. items'[id].revision = 1 /\ items'[id] # NoRecord
      <4>1. TypeOK'
        BY NextType
      <4>2. call[p].status \in StatusText
        BY DEF TypeOK, Call
      <4>3. items'[id] \in OpsRecord
        BY <3>1, <4>2 DEF OpsRecord
      <4>4. QED BY <3>1, <4>3, OpsSeed
    <3>4. QED BY <3>2, <3>3, FS_EmptySet DEF Counted, FirstRevision
  <2>2. CASE call[p].id # id
    BY <1>2, <2>2 DEF Creates, TypeOK, Counted, FirstRevision
  <2>3. QED BY <2>1, <2>2
<1>3. ASSUME NEW p \in Request, Moves(p), call[p].id = id,
             Joins(Transitions(id), Transitions(id)', p)
      PROVE  Counted(id)'
  <2>1. /\ items[id] \in OpsRecord
        /\ call[p].status \in OpsStatus
        /\ items'[id] = Updated(items[id], call[p].status)
    BY <1>3 DEF Moves, HandlersOK, HandlerOK, TypeOK
  <2>2. items'[id] \in OpsRecord /\ items'[id].revision = items[id].revision + 1
    BY <2>1, UpdatedRecord
  <2>3. items[id] # NoRecord /\ items'[id] # NoRecord
    BY <2>1, <2>2, OpsSeed
  <2>4. Transitions(id) \in SUBSET Request
    BY DEF Transitions
  <2>5. /\ Cardinality(Transitions(id)) \in Nat
        /\ Cardinality(Transitions(id)') = Cardinality(Transitions(id)) + 1
    BY <1>3, <2>4, JoinsCounts
  <2>6. FirstRevision(id) \in Nat
    BY OpsSeed DEF FirstRevision, OpsRecord
  <2>7. QED BY <2>2, <2>3, <2>5, <2>6 DEF Counted, FirstRevision
<1>4. ASSUME NEW p \in Request, Moves(p), call[p].id # id, Transitions(id)' = Transitions(id)
      PROVE  Counted(id)'
  BY <1>4 DEF Moves, TypeOK, Counted, FirstRevision
<1>5. QED BY <1>1, <1>2, <1>3, <1>4, AcceptedStep

\* The stored revision counts the accepted transitions: none is lost.
THEOREM RevisionCounts == Spec => []RevisionCountsWrites
<1>1. Spec => [](TypeOK /\ HandlersOK /\ AllCounted)
  BY InitType, InitCounted, NextType, NextCounted, PTL DEF Spec
<1>2. AllCounted => RevisionCountsWrites
  BY DEF AllCounted, Counted, RevisionCountsWrites, FirstRevision
<1>3. QED BY <1>1, <1>2, PTL

-------------------------------------------------------------------------------
(* Creators and the audit                                                      *)

LEMMA InitCreators == Init => OneCreator
<1> SUFFICES ASSUME Init, NEW id \in RecordId
             PROVE  Creations(id) = {} /\ ~(items[id] # NoRecord /\ Seed[id] = NoRecord)
  BY FS_EmptySet DEF OneCreator
<1>1. QED BY DEF Init, Creations, Committed

LEMMA NextCreators == TypeOK /\ HandlersOK /\ AllCounted /\ OneCreator /\ [Next]_vars => OneCreator'
<1> SUFFICES ASSUME TypeOK, HandlersOK, AllCounted, OneCreator, [Next]_vars, NEW id \in RecordId
             PROVE  Cardinality(Creations(id)') =
                      IF items'[id] # NoRecord /\ Seed[id] = NoRecord THEN 1 ELSE 0
  BY DEF OneCreator
<1>1. CASE Creations(id)' = Creations(id) /\ (items'[id] = NoRecord <=> items[id] = NoRecord)
  BY <1>1 DEF OneCreator
<1>2. ASSUME NEW p \in Request, Creates(p), call[p].id = id, Joins(Creations(id), Creations(id)', p)
      PROVE  /\ Cardinality(Creations(id)') = 1
             /\ items'[id] # NoRecord /\ Seed[id] = NoRecord
  <2>1. items[id] = NoRecord /\ items'[id] = [status |-> call[p].status, revision |-> 1]
    BY <1>2 DEF Creates, TypeOK
  <2>2. Seed[id] = NoRecord /\ Cardinality(Creations(id)) = 0
    BY <2>1 DEF AllCounted, Counted, OneCreator
  <2>3. Creations(id) \in SUBSET Request
    BY DEF Creations
  <2>4. Cardinality(Creations(id)') = 1
    BY <1>2, <2>2, <2>3, JoinsCounts
  <2>5. items'[id] \in OpsRecord
    BY <2>1 DEF TypeOK, Call, OpsRecord
  <2>6. QED BY <2>2, <2>4, <2>5, OpsSeed
<1>3. ASSUME NEW p \in Request, Moves(p), Creations(id)' = Creations(id)
      PROVE  items'[id] = NoRecord <=> items[id] = NoRecord
  <2>1. items[id] # NoRecord => items'[id] # NoRecord
    BY RevisionsGrow, OpsSeed
  <2>2. items[id] = NoRecord => items'[id] = NoRecord
    BY <1>3, OpsSeed DEF Moves, HandlersOK, HandlerOK, TypeOK
  <2>3. QED BY <2>1, <2>2
<1>4. ASSUME NEW p \in Request, Creates(p), call[p].id # id PROVE items'[id] = items[id]
  BY <1>4 DEF Creates, TypeOK
<1>5. QED BY <1>1, <1>2, <1>3, <1>4, AcceptedStep

\* A record is created once, and only if the seed does not hold it.
THEOREM CreatedOnce == Spec => []OneCreator
<1>1. Spec => [](TypeOK /\ HandlersOK /\ AllCounted /\ OneCreator)
  BY InitType, InitCounted, InitCreators, NextType, NextCounted, NextCreators, PTL DEF Spec
<1>2. QED BY <1>1, PTL

\* The requests whose event is about to be filed.
Pending(id) == {p \in Request : pc[p] = "audit" /\ call[p].id = id}

\* A write makes its request pending, and filing its event ends that.
LEMMA PendingStep ==
  ASSUME TypeOK, HandlersOK, [Next]_vars
  PROVE  /\ \A p \in Request : Creates(p) \/ Moves(p) =>
              /\ UNCHANGED audit
              /\ Joins(Pending(call[p].id), Pending(call[p].id)', p)
              /\ \A other \in RecordId \ {call[p].id} : Pending(other)' = Pending(other)
         /\ (\A p \in Request : ~Creates(p) /\ ~Moves(p)) =>
              \/ UNCHANGED audit /\ \A id \in RecordId : Pending(id)' = Pending(id)
              \/ \E p \in Request, id \in RecordId, event \in {"created", "status_changed"} :
                   /\ audit' = [audit EXCEPT ![id] = Append(@, event)]
                   /\ Joins(Pending(id)', Pending(id), p)
                   /\ \A other \in RecordId \ {id} : Pending(other)' = Pending(other)
<1>1. ASSUME NEW p \in Request, Creates(p) \/ Moves(p)
      PROVE  /\ UNCHANGED audit
             /\ Joins(Pending(call[p].id), Pending(call[p].id)', p)
             /\ \A other \in RecordId \ {call[p].id} : Pending(other)' = Pending(other)
  <2> DEFINE id == call[p].id
  <2>1. pc[p] \in {"put", "update"} /\ pc' = [pc EXCEPT ![p] = "audit"] /\ call' = call
    BY <1>1 DEF Creates, Moves
  <2>2. UNCHANGED audit
    <3>1. \A q \in Request : ~Audit(q)
      BY <2>1 DEF Audit, Answer, Goto, TypeOK
    <3>2. QED BY <3>1 DEF Next, Step, PostCreate, PostTransition, Put, Get, Move, Update, Cancel, Refuse, vars
  <2>3. p \notin Pending(id) /\ Pending(id)' = Pending(id) \cup {p}
    BY <2>1 DEF Pending, TypeOK
  <2>4. \A other \in RecordId \ {id} : Pending(other)' = Pending(other)
    BY <2>1 DEF Pending, TypeOK
  <2> HIDE DEF id
  <2>5. Joins(Pending(id), Pending(id)', p)
    BY <2>3 DEF Joins
  <2>6. call'[p].id = id
    BY <2>1 DEF id
  <2>7. QED BY <2>1, <2>2, <2>4, <2>5, <2>6 DEF id, Pending
<1>2. ASSUME \A p \in Request : ~Creates(p) /\ ~Moves(p)
      PROVE  \/ UNCHANGED audit /\ \A id \in RecordId : Pending(id)' = Pending(id)
             \/ \E p \in Request, id \in RecordId, event \in {"created", "status_changed"} :
                  /\ audit' = [audit EXCEPT ![id] = Append(@, event)]
                  /\ Joins(Pending(id)', Pending(id), p)
                  /\ \A other \in RecordId \ {id} : Pending(other)' = Pending(other)
  <2>1. CASE UNCHANGED vars
    BY <2>1 DEF vars, Pending
  <2>2. ASSUME NEW p \in Request, Audit(p)
        PROVE  \E id \in RecordId, event \in {"created", "status_changed"} :
                 /\ audit' = [audit EXCEPT ![id] = Append(@, event)]
                 /\ Joins(Pending(id)', Pending(id), p)
                 /\ \A other \in RecordId \ {id} : Pending(other)' = Pending(other)
    <3>1. PICK id \in RecordId, event \in {"created", "status_changed"} :
            id = call[p].id /\ event = EventType(call[p].op)
      BY <2>2 DEF Audit, HandlersOK, HandlerOK, EventType
    <3>2. /\ pc[p] = "audit" /\ pc' = [pc EXCEPT ![p] = "done"] /\ call' = call
          /\ audit' = [audit EXCEPT ![id] = Append(@, event)]
      BY <2>2, <3>1 DEF Audit, Answer, Goto
    <3>3. p \notin Pending(id)' /\ Pending(id) = Pending(id)' \cup {p}
      BY <3>1, <3>2 DEF Pending, TypeOK
    <3>4. \A other \in RecordId \ {id} : Pending(other)' = Pending(other)
      BY <3>1, <3>2 DEF Pending, TypeOK
    <3>5. QED BY <3>2, <3>3, <3>4 DEF Joins
  <2>3. ASSUME NEW p \in Request, PostCreate(p) \/ PostTransition(p) \/ Step(p) \/ Cancel(p), ~Audit(p)
        PROVE  UNCHANGED audit /\ \A id \in RecordId : Pending(id)' = Pending(id)
    <3>1. UNCHANGED audit /\ pc[p] \notin {"audit", "done"}
      BY <2>3 DEF Step, PostCreate, PostTransition, Put, Get, Move, Update, Cancel, Refuse
    <3>2. NothingAccepted(p)
      BY <1>2, <2>3, ActorCommits
    <3>3. pc'[p] # "audit"
      BY <3>1, <3>2 DEF NothingAccepted, Committed, HandlersOK, HandlerOK
    <3>4. \A q \in Request \ {p} : pc'[q] = pc[q] /\ call'[q] = call[q]
      BY <2>3, OthersKeep
    <3>5. QED BY <3>1, <3>3, <3>4 DEF Pending
  <2>4. QED BY <2>1, <2>2, <2>3 DEF Next
<1>3. QED BY <1>1, <1>2

\* A write is never a repetition: it changes the revision.
LEMMA RevisionChanges ==
  ASSUME TypeOK, HandlersOK, NEW p \in Request, Creates(p) \/ Moves(p)
  PROVE  items' # items
<1> DEFINE id == call[p].id
<1>1. CASE Creates(p)
  <2>1. id \in RecordId /\ items[id] = NoRecord
    BY <1>1 DEF Creates, HandlersOK, HandlerOK
  <2>2. items'[id] \in OpsRecord
    BY <1>1, <2>1 DEF Creates, TypeOK, Call, OpsRecord
  <2>3. QED BY <2>1, <2>2, OpsSeed
<1>2. CASE Moves(p)
  <2>1. id \in RecordId /\ items[id] \in OpsRecord /\ call[p].status \in OpsStatus
    BY <1>2 DEF Moves, HandlersOK, HandlerOK
  <2>2. items'[id] = Updated(items[id], call[p].status)
    BY <1>2, <2>1 DEF Moves, TypeOK
  <2>3. items'[id].revision = items[id].revision + 1 /\ items[id].revision \in Nat
    BY <2>1, <2>2, UpdatedRecord DEF OpsRecord
  <2>4. QED BY <2>3
<1>3. QED BY <1>1, <1>2

LEMMA InitTrails == Init => AuditTrailsWrites
<1> SUFFICES ASSUME Init, NEW id \in RecordId
             PROVE  Len(audit[id]) + Cardinality(Pending(id))
                      = Cardinality(Transitions(id)) + Cardinality(Creations(id))
  BY DEF AuditTrailsWrites, Pending
<1>1. audit[id] = <<>> /\ Pending(id) = {} /\ Transitions(id) = {} /\ Creations(id) = {}
  BY DEF Init, Pending, Transitions, Creations, Committed
<1>2. QED BY <1>1, FS_EmptySet

LEMMA NextTrails == TypeOK /\ HandlersOK /\ AuditTrailsWrites /\ [Next]_vars => AuditTrailsWrites'
<1> SUFFICES ASSUME TypeOK, HandlersOK, AuditTrailsWrites, [Next]_vars, NEW id \in RecordId
             PROVE  Len(audit'[id]) + Cardinality(Pending(id)')
                      = Cardinality(Transitions(id)') + Cardinality(Creations(id)')
  BY DEF AuditTrailsWrites, Pending
<1>1. /\ audit \in [RecordId -> Seq({"created", "status_changed"})]
      /\ Len(audit[id]) + Cardinality(Pending(id)) = Cardinality(Transitions(id)) + Cardinality(Creations(id))
  BY DEF TypeOK, AuditTrailsWrites, Pending
<1>2. /\ Transitions(id) \in SUBSET Request /\ Creations(id) \in SUBSET Request
      /\ Pending(id) \in SUBSET Request /\ Pending(id)' \in SUBSET Request
  BY DEF Transitions, Creations, Pending
<1>3. /\ Cardinality(Transitions(id)) \in Nat /\ Cardinality(Creations(id)) \in Nat
      /\ Cardinality(Pending(id)) \in Nat /\ Len(audit[id]) \in Nat
  BY <1>1, <1>2, OpsRequests, FS_Subset, FS_CardinalityType
<1>4. ASSUME NEW p \in Request, Creates(p) \/ Moves(p),
             \/ call[p].id # id /\ Transitions(id)' = Transitions(id) /\ Creations(id)' = Creations(id)
             \/ call[p].id = id /\ Creations(id)' = Creations(id)
                /\ Joins(Transitions(id), Transitions(id)', p)
             \/ call[p].id = id /\ Transitions(id)' = Transitions(id)
                /\ Joins(Creations(id), Creations(id)', p)
      PROVE  Len(audit'[id]) + Cardinality(Pending(id)')
               = Cardinality(Transitions(id)') + Cardinality(Creations(id)')
  <2>1. UNCHANGED audit
    BY <1>4, PendingStep
  <2>2. CASE call[p].id # id
    <3>1. Pending(id)' = Pending(id)
      BY <1>4, <2>2, PendingStep
    <3>2. QED BY <1>1, <1>4, <2>1, <2>2, <3>1
  <2>3. CASE call[p].id = id
    <3>1. call'[p].id = id
      BY <1>4, <2>3 DEF Creates, Moves
    <3>2. Joins(Pending(id), Pending(id)', p)
      BY <1>4, <2>3, <3>1, PendingStep DEF Pending
    <3>3. Cardinality(Pending(id)') = Cardinality(Pending(id)) + 1
      BY <1>2, <3>2, JoinsCounts
    <3>4. CASE Joins(Transitions(id), Transitions(id)', p) /\ Creations(id)' = Creations(id)
      BY <1>1, <1>2, <1>3, <2>1, <3>3, <3>4, JoinsCounts
    <3>5. CASE Joins(Creations(id), Creations(id)', p) /\ Transitions(id)' = Transitions(id)
      BY <1>1, <1>2, <1>3, <2>1, <3>3, <3>5, JoinsCounts
    <3>6. QED BY <1>4, <2>3, <3>4, <3>5
  <2>4. QED BY <2>2, <2>3
<1>5. CASE \A p \in Request : ~Creates(p) /\ ~Moves(p)
  <2>1. Transitions(id)' = Transitions(id) /\ Creations(id)' = Creations(id)
    BY <1>5, AcceptedStep
  <2>2. CASE UNCHANGED audit /\ Pending(id)' = Pending(id)
    BY <1>1, <2>1, <2>2
  <2>3. ASSUME NEW p \in Request, NEW n \in RecordId, NEW event \in {"created", "status_changed"},
               audit' = [audit EXCEPT ![n] = Append(@, event)],
               Joins(Pending(n)', Pending(n), p),
               \A other \in RecordId \ {n} : Pending(other)' = Pending(other)
        PROVE  Len(audit'[id]) + Cardinality(Pending(id)')
                 = Cardinality(Transitions(id)') + Cardinality(Creations(id)')
    <3>1. CASE n # id
      BY <1>1, <2>1, <2>3, <3>1
    <3>2. CASE n = id
      <4>1. Len(audit'[id]) = Len(audit[id]) + 1
        BY <1>1, <2>3, <3>2
      <4>2. Cardinality(Pending(id)) = Cardinality(Pending(id)') + 1 /\ Cardinality(Pending(id)') \in Nat
        BY <1>2, <2>3, <3>2, JoinsCounts
      <4>3. QED BY <1>1, <1>3, <2>1, <4>1, <4>2
    <3>3. QED BY <3>1, <3>2
  <2>4. QED BY <1>5, <2>2, <2>3, PendingStep
<1>6. QED
  <2>1. CASE \E p \in Request : Creates(p) \/ Moves(p)
    <3>1. items' # items
      <4>1. PICK p \in Request : Creates(p) \/ Moves(p)
        BY <2>1
      <4>2. QED BY <4>1, RevisionChanges
    <3>2. QED BY <1>4, <3>1, AcceptedStep
  <2>2. QED BY <1>5, <2>1

\* The audit trail of a record has one event for every write to it, whatever
\* interleaves, short only of the writes about to file theirs.
THEOREM TrailsComplete == Spec => []AuditTrailsWrites
<1>1. Spec => [](TypeOK /\ HandlersOK /\ AuditTrailsWrites)
  BY InitType, InitTrails, NextType, NextTrails, PTL DEF Spec
<1>2. QED BY <1>1, PTL

-------------------------------------------------------------------------------
(* Records with an unlisted status, and the transition table                   *)

\* A copy of an unlisted record is unlisted too, and the copy of a transition
\* that names a revision has that revision.
CopyOK(p) ==
  pc[p] \in {"move", "update"} =>
    /\ items[call[p].id].status = Unlisted => record[p].status = Unlisted
    /\ call[p].expected > 0 => record[p].revision = call[p].expected

CopiesOK == \A p \in Request : CopyOK(p)

LEMMA UnlistedRefused == \A target \in OpsStatus : ~CanMove(Unlisted, target)
BY DEF OpsStatus, Unlisted, CanMove, opsTransitionTable

\* No accepted transition finds the record unlisted.
LEMMA MovesListed ==
  ASSUME HandlersOK, CopiesOK, NEW p \in Request, Moves(p)
  PROVE  items[call[p].id].status # Unlisted
BY UnlistedRefused DEF Moves, HandlersOK, HandlerOK, CopiesOK, CopyOK

LEMMA UnlistedStep ==
  ASSUME TypeOK, HandlersOK, CopiesOK, [Next]_vars, NEW id \in RecordId,
         items[id] # NoRecord, items[id].status = Unlisted
  PROVE  items'[id] = items[id]
<1>1. CASE items' # items
  <2>1. PICK p \in Request : Creates(p) \/ Moves(p)
    BY <1>1, StoreStep
  <2>2. id # call[p].id
    BY <2>1, MovesListed DEF Creates
  <2>3. QED BY <2>1, <2>2 DEF Creates, Moves, TypeOK
<1>2. QED BY <1>1

\* A record that a step turns unlisted was not stored before.
LEMMA ListedStep ==
  ASSUME TypeOK, HandlersOK, [Next]_vars, NEW id \in RecordId,
         items[id] # NoRecord, items'[id].status = Unlisted
  PROVE  items'[id] = items[id]
<1>1. CASE items' # items
  <2>1. PICK p \in Request : Creates(p) \/ Moves(p)
    BY <1>1, StoreStep
  <2>2. CASE Creates(p)
    BY <2>2 DEF Creates, TypeOK
  <2>3. CASE Moves(p)
    <3>1. CASE id = call[p].id
      <4>1. items'[id] = Updated(items[id], call[p].status) /\ call[p].status \in OpsStatus
        BY <2>3, <3>1 DEF Moves, TypeOK, HandlersOK, HandlerOK
      <4>2. items'[id].status \in OpsStatus
        BY <4>1 DEF Updated
      <4>3. QED BY <4>2 DEF OpsStatus, Unlisted
    <3>2. CASE id # call[p].id
      BY <2>3, <3>2 DEF Moves, TypeOK
    <3>3. QED BY <3>1, <3>2
  <2>4. QED BY <2>1, <2>2, <2>3
<1>2. QED BY <1>1

LEMMA OthersCopyOK ==
  ASSUME TypeOK, HandlersOK, CopiesOK, [Next]_vars, NEW q \in Request,
         pc'[q] = pc[q], call'[q] = call[q], record'[q] = record[q]
  PROVE  CopyOK(q)'
<1>1. CASE pc[q] \in {"move", "update"}
  <2>1. call[q].id \in RecordId /\ items[call[q].id] # NoRecord
    BY <1>1, OpsSeed DEF HandlersOK, HandlerOK
  <2>2. items'[call[q].id].status = Unlisted => items'[call[q].id] = items[call[q].id]
    BY <2>1, ListedStep
  <2>3. QED BY <1>1, <2>2 DEF CopiesOK, CopyOK
<1>2. QED BY <1>1 DEF CopyOK

LEMMA ActorCopyOK ==
  ASSUME TypeOK, HandlersOK, CopiesOK, NEW p \in Request,
         PostCreate(p) \/ PostTransition(p) \/ Step(p) \/ Cancel(p)
  PROVE  CopyOK(p)'
<1>1. ASSUME pc'[p] \notin {"move", "update"} PROVE CopyOK(p)'
  BY <1>1 DEF CopyOK
<1>2. ASSUME NEW err, Refuse(p, err) PROVE CopyOK(p)'
  <2>1. pc' = [pc EXCEPT ![p] = "done"]
    BY <1>2 DEF Refuse, Answer, Goto
  <2>2. QED BY <1>1, <2>1 DEF TypeOK
<1>3. CASE PostCreate(p) \/ Audit(p)
  <2>1. \E label \in {"done", "put"} : pc' = [pc EXCEPT ![p] = label]
    BY <1>3 DEF PostCreate, Audit, Answer, Goto
  <2>2. QED BY <1>1, <2>1 DEF TypeOK
<1>4. CASE PostTransition(p)
  <2>1. \/ Refuse(p, "not_found") \/ Refuse(p, "invalid")
        \/ pc' = [pc EXCEPT ![p] = "get"]
    BY <1>4 DEF PostTransition, Goto
  <2>2. QED BY <1>1, <1>2, <2>1 DEF TypeOK
<1>5. CASE Put(p)
  <2>1. Refuse(p, "create") \/ pc' = [pc EXCEPT ![p] = "audit"]
    BY <1>5 DEF Put, Goto
  <2>2. QED BY <1>1, <1>2, <2>1 DEF TypeOK
<1>6. CASE Get(p)
  <2>1. CASE ~Refuse(p, GetError(p))
    <3>1. /\ GetError(p) = "ok"
          /\ record' = [record EXCEPT ![p] = items[call[p].id]]
          /\ UNCHANGED <<items, call>>
      BY <1>6, <2>1 DEF Get
    <3>2. record'[p] = items[call[p].id]
      BY <3>1 DEF TypeOK
    <3>3. call[p].expected > 0 => items[call[p].id].revision = call[p].expected
      BY <3>1 DEF GetError, UpdateConflict
    <3>4. QED BY <3>1, <3>2, <3>3 DEF CopyOK
  <2>2. QED BY <1>2, <2>1
<1>7. CASE Move(p)
  <2>1. CASE ~Refuse(p, "transition")
    BY <1>7, <2>1 DEF Move, CopiesOK, CopyOK
  <2>2. QED BY <1>2, <2>1
<1>8. CASE Update(p)
  <2>1. Refuse(p, UpdateError(p)) \/ pc' = [pc EXCEPT ![p] = "audit"]
    BY <1>8 DEF Update, Goto
  <2>2. QED BY <1>1, <1>2, <2>1 DEF TypeOK
<1>9. CASE Cancel(p)
  BY <1>9 DEF Cancel, CopiesOK, CopyOK
<1>10. QED BY <1>3, <1>4, <1>5, <1>6, <1>7, <1>8, <1>9 DEF Step

LEMMA NextCopiesOK == TypeOK /\ HandlersOK /\ CopiesOK /\ [Next]_vars => CopiesOK'
<1> SUFFICES ASSUME TypeOK, HandlersOK, CopiesOK, [Next]_vars, NEW q \in Request
             PROVE  CopyOK(q)'
  BY DEF CopiesOK
<1>1. CASE UNCHANGED vars
  BY <1>1, OthersCopyOK DEF vars
<1>2. CASE Next
  <2>1. PICK p \in Request : PostCreate(p) \/ PostTransition(p) \/ Step(p) \/ Cancel(p)
    BY <1>2 DEF Next
  <2>2. CASE p = q
    BY <2>1, <2>2, ActorCopyOK
  <2>3. CASE p # q
    BY <2>1, <2>3, OthersKeep, OthersCopyOK
  <2>4. QED BY <2>2, <2>3
<1>3. QED BY <1>1, <1>2

LEMMA InitCopiesOK == Init => CopiesOK
BY DEF Init, CopiesOK, CopyOK

\* No step ever changes a record whose status is outside the listed ones.
THEOREM UnlistedStuck == Spec => UnlistedIsStuck
<1>1. Spec => [](TypeOK /\ HandlersOK /\ CopiesOK)
  BY InitType, InitCopiesOK, NextType, NextCopiesOK, PTL DEF Spec
<1> DEFINE A == \A id \in RecordId :
                  items[id] # NoRecord /\ items[id].status = Unlisted => items'[id] = items[id]
<1>2. TypeOK /\ HandlersOK /\ CopiesOK /\ [Next]_vars => [A]_vars
  BY UnlistedStep
<1>3. QED BY <1>1, <1>2, PTL DEF Spec, UnlistedIsStuck

-------------------------------------------------------------------------------
(* When every transition names the revision it expects: the table is           *)
(* respected, and the interleaved handlers implement the atomic ones.  Without *)
(* the assumption both fail.                                                   *)

AllVersioned == \A expected \in Expectations : expected > 0

\* An accepted transition then writes over the very record it has read.
LEMMA MovesAllowed ==
  ASSUME AllVersioned, HandlersOK, CopyIsPast, CopiesOK, NEW p \in Request, Moves(p)
  PROVE  CanMove(items[call[p].id].status, call[p].status)
<1>1. /\ pc[p] = "update"
      /\ items[call[p].id].revision = call[p].expected
      /\ call[p].expected > 0
  BY DEF Moves, UpdateConflict, HandlersOK, HandlerOK, AllVersioned
<1>2. record[p].revision = call[p].expected
  BY <1>1 DEF CopiesOK, CopyOK
<1>3. record[p] = items[call[p].id]
  BY <1>1, <1>2 DEF CopyIsPast
<1>4. QED BY <1>1, <1>3 DEF HandlersOK, HandlerOK

LEMMA TableStep ==
  ASSUME AllVersioned, TypeOK, HandlersOK, CopyIsPast, CopiesOK, [Next]_vars,
         NEW id \in RecordId, items[id] # NoRecord
  PROVE  items'[id] # NoRecord /\ CanMove(items[id].status, items'[id].status)
<1>1. items'[id] # NoRecord
  BY RevisionsGrow, OpsSeed
<1>2. CASE items' = items
  BY <1>1, <1>2 DEF CanMove
<1>3. CASE items' # items
  <2>1. PICK p \in Request : Creates(p) \/ Moves(p)
    BY <1>3, StoreStep
  <2>2. CASE id # call[p].id
    BY <1>1, <2>1, <2>2 DEF Creates, Moves, TypeOK, CanMove
  <2>3. CASE id = call[p].id
    <3>1. Moves(p)
      BY <2>1, <2>3 DEF Creates
    <3>2. items'[id].status = call[p].status
      BY <2>3, <3>1 DEF Moves, TypeOK, Updated
    <3>3. QED BY <1>1, <2>3, <3>1, <3>2, MovesAllowed
  <2>4. QED BY <2>2, <2>3
<1>4. QED BY <1>2, <1>3

\* Every stored status change follows the transition table.
THEOREM TableFollowed == AllVersioned /\ Spec => TransitionsFollowTable
<1> SUFFICES ASSUME AllVersioned PROVE Spec => TransitionsFollowTable
  OBVIOUS
<1> DEFINE A == \A id \in RecordId :
                  items[id] # NoRecord =>
                    /\ items'[id] # NoRecord
                    /\ CanMove(items[id].status, items'[id].status)
<1>1. Spec => [](TypeOK /\ HandlersOK /\ CopyIsPast /\ WinnersBehind /\ CopiesOK)
  BY InitType, InitCopy, InitCopiesOK, NextType, NextCopy, NextCopiesOK, PTL DEF Spec
<1>2. TypeOK /\ HandlersOK /\ CopyIsPast /\ CopiesOK /\ [Next]_vars => [A]_vars
  BY TableStep
<1>3. QED BY <1>1, <1>2, PTL DEF Spec, TransitionsFollowTable

-------------------------------------------------------------------------------
(* Refinement                                                                  *)

\* The instance brings copies of the definitions of OpsModel.
LEMMA SameModel ==
  /\ Atomic!StatusText = StatusText
  /\ Atomic!OpsStatus = OpsStatus
  /\ \A from, to : Atomic!CanMove(from, to) <=> CanMove(from, to)
BY DEF Atomic!StatusText, StatusText, Atomic!OpsStatus, OpsStatus, Atomic!Unlisted, Unlisted,
       Atomic!CanMove, CanMove, Atomic!opsTransitionTable, opsTransitionTable

\* Each step decides the request that takes it, or leaves the abstract state.
LEMMA OutcomeStep ==
  ASSUME TypeOK, HandlersOK, NEW p \in Request,
         PostCreate(p) \/ PostTransition(p) \/ Step(p) \/ Cancel(p)
  PROVE  \A q \in Request \ {p} : outcome'[q] = outcome[q]
<1>1. \A q \in Request \ {p} : pc'[q] = pc[q] /\ reply'[q] = reply[q]
  BY OthersKeep
<1>2. QED BY <1>1 DEF outcome, Committed

LEMMA DecideAccepted ==
  ASSUME TypeOK, HandlersOK, NEW p \in Request,
         PostCreate(p) \/ PostTransition(p) \/ Step(p) \/ Cancel(p),
         Creates(p) \/ Moves(p)
  PROVE  Atomic!Decide(p, "accepted")
<1>1. outcome[p] = "pending"
  BY DEF Creates, Moves, outcome, Committed, HandlersOK, HandlerOK
<1>2. outcome'[p] = "accepted"
  <2>1. pc'[p] = "audit"
    BY DEF Creates, Moves, TypeOK
  <2>2. QED BY <2>1 DEF outcome, Committed
<1>3. outcome' = [outcome EXCEPT ![p] = "accepted"]
  BY <1>2, OutcomeStep DEF outcome
<1>4. QED BY <1>1, <1>3 DEF Atomic!Decide

LEMMA CreateImplements ==
  ASSUME TypeOK, HandlersOK, NEW p \in Request,
         PostCreate(p) \/ PostTransition(p) \/ Step(p) \/ Cancel(p), Creates(p)
  PROVE  Atomic!Create(p)
<1> DEFINE id == call[p].id
           st == call[p].status
<1>1. id \in RecordId
  BY DEF Creates, HandlersOK, HandlerOK
<1>2. st \in StatusText
  BY DEF TypeOK, Call
<1>3. items[id] = NoRecord /\ items' = [items EXCEPT ![id] = [status |-> st, revision |-> 1]]
  BY DEF Creates
<1>4. Atomic!Decide(p, "accepted")
  BY DecideAccepted
<1> HIDE DEF id, st
<1>5. QED BY <1>1, <1>2, <1>3, <1>4, SameModel DEF Atomic!Create

LEMMA MoveImplements ==
  ASSUME AllVersioned, TypeOK, HandlersOK, CopyIsPast, CopiesOK, NEW p \in Request,
         PostCreate(p) \/ PostTransition(p) \/ Step(p) \/ Cancel(p), Moves(p)
  PROVE  Atomic!Transition(p)
<1> DEFINE id == call[p].id
           to == call[p].status
<1>1. id \in RecordId /\ to \in OpsStatus /\ items[id] # NoRecord
  BY OpsSeed DEF Moves, HandlersOK, HandlerOK
<1>2. CanMove(items[id].status, to)
  BY MovesAllowed
<1>3. items' = [items EXCEPT ![id] = [status |-> to, revision |-> @.revision + 1]]
  BY DEF Moves, Updated
<1>4. Atomic!Decide(p, "accepted")
  BY DecideAccepted
<1> HIDE DEF id, to
<1>5. QED BY <1>1, <1>2, <1>3, <1>4, SameModel DEF Atomic!Transition

LEMMA OtherImplements ==
  ASSUME TypeOK, HandlersOK, NEW p \in Request,
         PostCreate(p) \/ PostTransition(p) \/ Step(p) \/ Cancel(p), NothingAccepted(p)
  PROVE  Atomic!Refuse(p) \/ UNCHANGED <<items, outcome>>
<1>1. items' = items /\ Committed(p)' = Committed(p)
  BY DEF NothingAccepted
<1>2. CASE outcome'[p] = outcome[p]
  <2>1. outcome' = outcome
    BY <1>2, OutcomeStep DEF outcome
  <2>2. QED BY <1>1, <2>1
<1>3. CASE outcome'[p] # outcome[p]
  <2>1. pc[p] # "done" /\ pc'[p] = "done" /\ ~Committed(p) /\ ~Committed(p)'
    <3>1. pc[p] = "done" => FALSE
      BY <1>1, <1>3 DEF outcome, Step, PostCreate, PostTransition, Put, Get, Move, Update, Audit, Cancel
    <3>2. QED BY <1>1, <1>3, <3>1 DEF outcome
  <2>2. outcome[p] = "pending" /\ outcome'[p] = "refused"
    BY <2>1 DEF outcome
  <2>3. outcome' = [outcome EXCEPT ![p] = "refused"]
    BY <2>2, OutcomeStep DEF outcome
  <2>4. QED BY <1>1, <2>2, <2>3 DEF Atomic!Refuse, Atomic!Decide
<1>4. QED BY <1>2, <1>3

LEMMA StepImplements ==
  ASSUME AllVersioned, TypeOK, HandlersOK, CopyIsPast, CopiesOK, [Next]_vars
  PROVE  [Atomic!Next]_<<items, outcome>>
<1>1. CASE UNCHANGED vars
  BY <1>1 DEF vars, outcome, Committed
<1>2. CASE Next
  <2>1. PICK p \in Request : PostCreate(p) \/ PostTransition(p) \/ Step(p) \/ Cancel(p)
    BY <1>2 DEF Next
  <2>2. Creates(p) \/ Moves(p) \/ NothingAccepted(p)
    BY <2>1, ActorCommits
  <2>3. \/ Atomic!Create(p) \/ Atomic!Transition(p) \/ Atomic!Refuse(p)
        \/ UNCHANGED <<items, outcome>>
    BY <2>1, <2>2, CreateImplements, MoveImplements, OtherImplements
  <2>4. QED BY <2>3 DEF Atomic!Next
<1>3. QED BY <1>1, <1>2

LEMMA InitImplements == Init => Atomic!Init
BY DEF Init, Atomic!Init, outcome, Committed

\* The handlers, interleaved at every lock, implement the atomic ones.
THEOREM HandlersImplementAtomic == AllVersioned /\ Spec => ImplementsAtomic
<1> SUFFICES ASSUME AllVersioned PROVE Spec => Atomic!Spec
  BY DEF ImplementsAtomic
<1>1. Spec => [](TypeOK /\ HandlersOK /\ CopyIsPast /\ WinnersBehind /\ CopiesOK)
  BY InitType, InitCopy, InitCopiesOK, NextType, NextCopy, NextCopiesOK, PTL DEF Spec
<1>2. TypeOK /\ HandlersOK /\ CopyIsPast /\ CopiesOK /\ [Next]_vars
        => [Atomic!Next]_Atomic!atomicVars
  BY StepImplements DEF Atomic!atomicVars
<1>3. QED BY <1>1, <1>2, InitImplements, PTL DEF Spec, Atomic!Spec
===============================================================================
