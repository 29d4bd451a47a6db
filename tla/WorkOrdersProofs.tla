---------------------------- MODULE WorkOrdersProofs ---------------------------
(* Proofs about WorkOrders, for every set of requests, seeds and bounds.       *)
EXTENDS WorkOrders, SequenceCounts

vars == <<storeVars, orderVars>>

\* What a handler knows at each point of its code: the call it serves, that the
\* finding it has stored is still what it was, and that the order it is about
\* to write or has written exists.
CallOK(c) ==
  /\ orderPc[c] \in {"finding", "recorded", "number", "order", "generated"} =>
       /\ orderCall[c].op = "record"
       /\ orderCall[c].finding \in FindingId /\ orderCall[c].item \in Finding
  /\ orderPc[c] \in {"recorded", "number", "order", "generated"} =>
       findings[orderCall[c].finding] = orderCall[c].item
  /\ orderPc[c] \in {"number", "order", "generated"} => Generates(orderCall[c].item)
  /\ orderPc[c] \in {"order", "generated"} => orderCall[c].order \in OrderId
  /\ orderPc[c] \in {"get", "update", "audit"} \/ orderReply[c] = 200 =>
       orderCall[c].op \in {"assign", "resolve"} /\ orderCall[c].order \in OrderId
  /\ orderPc[c] \in {"update", "audit"} \/ orderReply[c] = 200 => orders[orderCall[c].order] # NoOrder
  /\ orderReply[c] = 0 <=> orderPc[c] # "done"

CallsOK == \A c \in OrderClient : CallOK(c)

-------------------------------------------------------------------------------
(* What a step does                                                            *)

\* Only the handler of c moves.
Others(c) ==
  /\ orderPc' = [orderPc EXCEPT ![c] = orderPc'[c]]
  /\ orderCall' = [orderCall EXCEPT ![c] = orderCall'[c]]
  /\ orderReply' = [orderReply EXCEPT ![c] = orderReply'[c]]
  /\ \A d \in OrderClient \ {c} :
       orderPc'[d] = orderPc[d] /\ orderCall'[d] = orderCall[d] /\ orderReply'[d] = orderReply[d]

Call == [ op : {"none", "record", "assign", "resolve"}, finding : 0..MaxFindings,
          item : Finding \cup {NoFinding}, order : 0..MaxOrders ]

\* An error is answered.  Only a context that is done, or a number that is
\* taken, keeps a finding from its order.
Refused(c) ==
  /\ orderPc[c] \in {"new", "finding", "order", "get", "update"}
  /\ orderPc'[c] = "done" /\ orderCall'[c] = NoOrderCall
  /\ orderReply'[c] \in {400, 404, 409, 500}
  /\ orderPc[c] = "order" => orderReply'[c] = 500 \/ orders[orderCall[c].order] # NoOrder
  /\ UNCHANGED <<towerAudit, findings, orders, findingSequence, orderSequence>>

\* A finding has its number.
Takes(c) ==
  /\ orderPc[c] = "new" /\ orderPc'[c] = "finding"
  /\ findingSequence < MaxFindings /\ findingSequence' = findingSequence + 1
  /\ orderCall'[c].op = "record" /\ orderCall'[c].finding = findingSequence'
  /\ orderCall'[c].item \in Finding /\ orderCall'[c].order = 0
  /\ orderCall'[c] \in Call
  /\ orderReply'[c] = orderReply[c]
  /\ UNCHANGED <<towerAudit, findings, orders, orderSequence>>

Records(c) ==
  /\ orderPc[c] = "finding" /\ orderPc'[c] = "recorded"
  /\ findings[orderCall[c].finding] = NoFinding
  /\ findings' = [findings EXCEPT ![orderCall[c].finding] = orderCall[c].item]
  /\ orderCall'[c] = orderCall[c] /\ orderReply'[c] = orderReply[c]
  /\ UNCHANGED <<towerAudit, orders, findingSequence, orderSequence>>

\* An order has its number.
Numbers(c) ==
  /\ orderPc[c] = "number" /\ orderPc'[c] = "order"
  /\ orderSequence < MaxOrders /\ orderSequence' = orderSequence + 1
  /\ orderCall'[c] = [orderCall[c] EXCEPT !.order = orderSequence']
  /\ orderReply'[c] = orderReply[c]
  /\ UNCHANGED <<towerAudit, findings, orders, findingSequence>>

NewOrder(c) ==
  [ finding |-> orderCall[c].finding, tower |-> orderCall[c].item.tower,
    status |-> "open", resolvedAt |-> FALSE ]

Issues(c) ==
  /\ orderPc[c] = "order" /\ orderPc'[c] = "generated"
  /\ orders[orderCall[c].order] = NoOrder
  /\ orders' = [orders EXCEPT ![orderCall[c].order] = NewOrder(c)]
  /\ orderCall'[c] = orderCall[c] /\ orderReply'[c] = orderReply[c]
  /\ UNCHANGED <<towerAudit, findings, findingSequence, orderSequence>>

\* An assignment or a resolution arrives, or has read the status it requires.
Asks(c) ==
  /\ orderPc[c] = "new" /\ orderPc'[c] = "get"
  /\ orderCall'[c].op \in {"assign", "resolve"} /\ orderCall'[c].order \in OrderId
  /\ orderCall'[c].finding = 0 /\ orderCall'[c].item = NoFinding
  /\ orderCall'[c] \in Call
  /\ orderReply'[c] = orderReply[c]
  /\ UNCHANGED <<towerAudit, findings, orders, findingSequence, orderSequence>>

Reads(c) ==
  /\ orderPc[c] = "get" /\ orderPc'[c] = "update"
  /\ orders[orderCall[c].order] # NoOrder
  /\ orders[orderCall[c].order].status = RequiredOrder(orderCall[c].op)
  /\ orderCall'[c] = orderCall[c] /\ orderReply'[c] = orderReply[c]
  /\ UNCHANGED <<towerAudit, findings, orders, findingSequence, orderSequence>>

Writes(c) ==
  LET o == orderCall[c].order IN
  /\ orderPc[c] = "update" /\ orderPc'[c] = "audit"
  /\ orders[o] # NoOrder
  /\ orders' = [orders EXCEPT ![o] = WrittenOrder(@, TargetOrder(orderCall[c].op))]
  /\ orderCall'[c] = orderCall[c] /\ orderReply'[c] = orderReply[c]
  /\ UNCHANGED <<towerAudit, findings, findingSequence, orderSequence>>

\* An event is filed under a tower, and the handler goes on or answers.
Files(c, tower, event) ==
  /\ \/ /\ orderPc[c] = "recorded" /\ tower = orderCall[c].item.tower /\ event = "finding_recorded"
        /\ \/ /\ Generates(orderCall[c].item)
              /\ orderPc'[c] = "number" /\ orderReply'[c] = orderReply[c]
           \/ /\ ~Generates(orderCall[c].item)
              /\ orderPc'[c] = "done" /\ orderReply'[c] = 201
     \/ /\ orderPc[c] = "generated" /\ tower = orderCall[c].item.tower /\ event = "order_generated"
        /\ orderPc'[c] = "done" /\ orderReply'[c] = 201
     \/ /\ orderPc[c] = "audit" /\ tower = orders[orderCall[c].order].tower
        /\ event = OrderEventOf(orderCall[c].op)
        /\ orderPc'[c] = "done" /\ orderReply'[c] = 200
  /\ orderCall'[c] = orderCall[c]
  /\ AddEvent(tower, event)
  /\ UNCHANGED <<findings, orders, findingSequence, orderSequence>>

FilesOne(c) == \E tower \in Tower, event \in EventType : Files(c, tower, event)

Stands(c) ==
  /\ orderPc'[c] = orderPc[c] /\ orderCall'[c] = orderCall[c] /\ orderReply'[c] = orderReply[c]
  /\ UNCHANGED <<towerAudit, findings, orders, findingSequence, orderSequence>>

Effect(c) ==
  \/ Refused(c) \/ Takes(c) \/ Records(c) \/ Numbers(c) \/ Issues(c)
  \/ Asks(c) \/ Reads(c) \/ Writes(c) \/ FilesOne(c) \/ Stands(c)

LEMMA NotStored == NoFinding \notin Finding /\ NoOrder \notin WorkOrder
BY OrderSeeds

Errors == {"not_found", "conflict", "transition", "invalid", "internal"}

LEMMA KnownErrors ==
  ASSUME NEW c, NEW n
  PROVE  /\ AddFindingError(c, n) \in Errors \cup {"ok"}
         /\ AddFindingError(c, n) = "ok" => findings[n] = NoFinding
         /\ AddOrderError(c, n) \in {"internal", "conflict", "ok"}
         /\ AddOrderError(c, n) = "conflict" => orders[n] # NoOrder
         /\ AddOrderError(c, n) = "ok" => orders[n] = NoOrder
         /\ OrderError(c, n) \in Errors \cup {"ok"}
         /\ OrderError(c, n) = "ok" => orders[n] # NoOrder
BY DEF AddFindingError, AddOrderError, OrderError, Errors

LEMMA GetErrors ==
  ASSUME NEW c
  PROVE  /\ GetOrderError(c) \in Errors \cup {"ok"}
         /\ GetOrderError(c) = "ok" =>
              /\ orders[orderCall[c].order] # NoOrder
              /\ orders[orderCall[c].order].status = RequiredOrder(orderCall[c].op)
<1>1. /\ OrderError(c, orderCall[c].order) \in Errors \cup {"ok"}
      /\ OrderError(c, orderCall[c].order) = "ok" => orders[orderCall[c].order] # NoOrder
  BY KnownErrors
<1>2. QED BY <1>1 DEF GetOrderError, Errors

LEMMA RefuseEffect ==
  ASSUME OrderTypeOK, NEW c \in OrderClient, NEW err \in Errors \cup {"ok"}, OrderRefuse(c, err),
         orderPc[c] \in {"new", "finding", "order", "get", "update"},
         orderPc[c] = "order" => err = "internal" \/ orders[orderCall[c].order] # NoOrder
  PROVE  /\ Refused(c) /\ Others(c)
         /\ UNCHANGED <<inspections, inspectionSequence>> /\ cancelled' \subseteq cancelled
<1> DEFINE code == inspectionStatusForError[err]
<1>1. code \in {400, 404, 409, 500} /\ (err = "internal" => code = 500)
  BY DEF OrderRefuse, Errors, inspectionStatusForError
<1>2. /\ orderPc' = [orderPc EXCEPT ![c] = "done"]
      /\ orderReply' = [orderReply EXCEPT ![c] = code]
      /\ orderCall' = [orderCall EXCEPT ![c] = NoOrderCall]
      /\ cancelled' = cancelled \ {c}
      /\ UNCHANGED <<inspections, inspectionSequence, towerAudit,
                     findings, orders, findingSequence, orderSequence>>
  BY DEF OrderRefuse, OrderAnswer, OrderGoto
<1> HIDE DEF code
<1>3. QED BY <1>1, <1>2 DEF OrderTypeOK, Refused, Others

LEMMA MovesOn ==
  ASSUME OrderTypeOK, NEW c \in OrderClient, NEW label, orderPc' = [orderPc EXCEPT ![c] = label],
         \/ UNCHANGED orderReply
         \/ \E code : orderReply' = [orderReply EXCEPT ![c] = code],
         \/ UNCHANGED orderCall
         \/ \E new : orderCall' = [orderCall EXCEPT ![c] = new]
  PROVE  Others(c) /\ orderPc'[c] = label
BY DEF OrderTypeOK, Others

LEMMA PostFindingEffect ==
  ASSUME OrderTypeOK, NEW c \in OrderClient, PostFinding(c)
  PROVE  Others(c) /\ (Refused(c) \/ Takes(c))
<1>1. orderPc[c] = "new"
  BY DEF PostFinding
<1>2. CASE OrderRefuse(c, "invalid")
  BY <1>1, <1>2, RefuseEffect DEF Errors
<1>3. CASE ~OrderRefuse(c, "invalid")
  <2>1. PICK item \in Finding :
          /\ findingSequence < MaxFindings /\ findingSequence' = findingSequence + 1
          /\ orderCall' = [orderCall EXCEPT ![c] =
               [op |-> "record", finding |-> findingSequence', item |-> item, order |-> 0]]
          /\ orderPc' = [orderPc EXCEPT ![c] = "finding"]
          /\ UNCHANGED <<storeVars, findings, orders, orderSequence, orderReply>>
    BY <1>3 DEF PostFinding, OrderGoto
  <2>2. orderCall'[c] = [op |-> "record", finding |-> findingSequence', item |-> item, order |-> 0]
    BY <2>1 DEF OrderTypeOK
  <2>3. Others(c) /\ orderPc'[c] = "finding"
    BY <2>1, MovesOn
  <2>4. orderCall'[c] \in Call
    BY <2>1, <2>2, OrderSeeds DEF Call, OrderTypeOK
  <2>5. Takes(c)
    BY <1>1, <2>1, <2>2, <2>3, <2>4 DEF Takes, storeVars
  <2>6. QED BY <2>3, <2>5
<1>4. QED BY <1>2, <1>3

LEMMA AddFindingEffect ==
  ASSUME OrderTypeOK, NEW c \in OrderClient, AddFinding(c)
  PROVE  Others(c) /\ (Refused(c) \/ Records(c))
<1> DEFINE err == AddFindingError(c, orderCall[c].finding)
<1>1. orderPc[c] = "finding" /\ err \in Errors \cup {"ok"}
      /\ (err = "ok" => findings[orderCall[c].finding] = NoFinding)
  BY KnownErrors DEF AddFinding
<1>2. CASE OrderRefuse(c, err)
  <2> HIDE DEF err
  <2>1. QED BY <1>1, <1>2, RefuseEffect
<1>3. CASE ~OrderRefuse(c, err)
  <2>1. /\ err = "ok"
        /\ findings' = [findings EXCEPT ![orderCall[c].finding] = orderCall[c].item]
        /\ orderPc' = [orderPc EXCEPT ![c] = "recorded"]
        /\ UNCHANGED <<storeVars, orders, findingSequence, orderSequence, orderCall, orderReply>>
    BY <1>3 DEF AddFinding, OrderGoto
  <2>2. QED BY <1>1, <2>1, MovesOn DEF Records, storeVars
<1>4. QED BY <1>2, <1>3

LEMMA AddOrderEffect ==
  ASSUME OrderTypeOK, NEW c \in OrderClient, AddOrder(c)
  PROVE  Others(c) /\ (Refused(c) \/ Issues(c))
<1> DEFINE err == AddOrderError(c, orderCall[c].order)
<1>1. /\ orderPc[c] = "order" /\ err \in {"internal", "conflict", "ok"}
      /\ err = "ok" => orders[orderCall[c].order] = NoOrder
      /\ err = "conflict" => orders[orderCall[c].order] # NoOrder
  BY KnownErrors DEF AddOrder
<1>2. CASE OrderRefuse(c, err)
  <2>1. err # "ok"
    BY <1>2 DEF OrderRefuse
  <2> HIDE DEF err
  <2>2. QED BY <1>1, <1>2, <2>1, RefuseEffect DEF Errors
<1>3. CASE ~OrderRefuse(c, err)
  <2>1. /\ err = "ok"
        /\ orders' = [orders EXCEPT ![orderCall[c].order] = NewOrder(c)]
        /\ orderPc' = [orderPc EXCEPT ![c] = "generated"]
        /\ UNCHANGED <<storeVars, findings, findingSequence, orderSequence, orderCall, orderReply>>
    BY <1>3 DEF AddOrder, AddOrderRefused, OrderGoto, NewOrder
  <2>2. QED BY <1>1, <2>1, MovesOn DEF Issues, storeVars
<1>4. QED BY <1>2, <1>3

LEMMA NewOrderIDEffect ==
  ASSUME OrderTypeOK, NEW c \in OrderClient, NewOrderID(c)
  PROVE  Others(c) /\ Numbers(c)
<1>1. /\ orderPc[c] = "number" /\ orderPc' = [orderPc EXCEPT ![c] = "order"]
      /\ orderSequence < MaxOrders /\ orderSequence' = orderSequence + 1
      /\ orderCall' = [orderCall EXCEPT ![c] = [orderCall[c] EXCEPT !.order = orderSequence']]
      /\ UNCHANGED <<storeVars, findings, orders, findingSequence, orderReply>>
  BY DEF NewOrderID, OrderGoto
<1>2. orderCall'[c] = [orderCall[c] EXCEPT !.order = orderSequence']
  BY <1>1 DEF OrderTypeOK
<1>3. QED BY <1>1, <1>2, MovesOn DEF Numbers, storeVars

LEMMA PostOrderEffect ==
  ASSUME OrderTypeOK, NEW c \in OrderClient, PostOrder(c)
  PROVE  Others(c) /\ (Refused(c) \/ Asks(c))
<1>1. orderPc[c] = "new"
  BY DEF PostOrder
<1>2. CASE OrderRefuse(c, "invalid")
  BY <1>1, <1>2, RefuseEffect DEF Errors
<1>3. CASE ~OrderRefuse(c, "invalid")
  <2>1. PICK op \in {"assign", "resolve"}, o \in OrderId :
          /\ orderCall' = [orderCall EXCEPT ![c] =
               [op |-> op, finding |-> 0, item |-> NoFinding, order |-> o]]
          /\ orderPc' = [orderPc EXCEPT ![c] = "get"]
          /\ UNCHANGED <<storeVars, findings, orders, findingSequence, orderSequence, orderReply>>
    BY <1>3 DEF PostOrder, OrderGoto
  <2>2. orderCall'[c] = [op |-> op, finding |-> 0, item |-> NoFinding, order |-> o]
    BY <2>1 DEF OrderTypeOK
  <2>3. orderCall'[c] \in Call
    BY <2>2, OrderSeeds DEF Call, OrderId
  <2>4. Others(c) /\ orderPc'[c] = "get"
    BY <2>1, MovesOn
  <2>5. Asks(c)
    BY <1>1, <2>1, <2>2, <2>3, <2>4 DEF Asks, storeVars
  <2>6. QED BY <2>4, <2>5
<1>4. QED BY <1>2, <1>3

LEMMA GetOrderEffect ==
  ASSUME OrderTypeOK, NEW c \in OrderClient, GetOrder(c)
  PROVE  Others(c) /\ (Refused(c) \/ Reads(c))
<1>1. orderPc[c] = "get"
  BY DEF GetOrder
<1>2. CASE OrderRefuse(c, GetOrderError(c))
  BY <1>1, <1>2, GetErrors, RefuseEffect
<1>3. CASE ~OrderRefuse(c, GetOrderError(c))
  <2>1. /\ GetOrderError(c) = "ok"
        /\ orderPc' = [orderPc EXCEPT ![c] = "update"]
        /\ UNCHANGED <<storeVars, findings, orders, findingSequence, orderSequence, orderCall, orderReply>>
    BY <1>3 DEF GetOrder, OrderGoto
  <2>2. QED BY <1>1, <2>1, GetErrors, MovesOn DEF Reads, storeVars
<1>4. QED BY <1>2, <1>3

LEMMA UpdateOrderEffect ==
  ASSUME OrderTypeOK, NEW c \in OrderClient, UpdateOrder(c)
  PROVE  Others(c) /\ (Refused(c) \/ Writes(c))
<1> DEFINE err == OrderError(c, orderCall[c].order)
<1>1. /\ orderPc[c] = "update" /\ err \in Errors \cup {"ok"}
      /\ err = "ok" => orders[orderCall[c].order] # NoOrder
  BY KnownErrors DEF UpdateOrder
<1>2. CASE OrderRefuse(c, err)
  <2> HIDE DEF err
  <2>1. QED BY <1>1, <1>2, RefuseEffect
<1>3. CASE ~OrderRefuse(c, err)
  <2>1. /\ err = "ok"
        /\ orders' = [orders EXCEPT ![orderCall[c].order] = WrittenOrder(@, TargetOrder(orderCall[c].op))]
        /\ orderPc' = [orderPc EXCEPT ![c] = "audit"]
        /\ UNCHANGED <<storeVars, findings, findingSequence, orderSequence, orderCall, orderReply>>
    BY <1>3 DEF UpdateOrder, OrderGoto
  <2>2. QED BY <1>1, <2>1, MovesOn DEF Writes, storeVars
<1>4. QED BY <1>2, <1>3

LEMMA AuditsEffect ==
  ASSUME OrderTypeOK, CallsOK, NEW c \in OrderClient, AuditFinding(c) \/ AuditOrder(c) \/ AuditOrderMove(c)
  PROVE  Others(c) /\ FilesOne(c)
<1>1. CallOK(c)
  BY DEF CallsOK
<1>2. CASE AuditFinding(c)
  <2> DEFINE t == orderCall[c].item.tower
  <2>1. /\ orderPc[c] = "recorded" /\ AddEvent(t, "finding_recorded")
        /\ \/ /\ Generates(orderCall[c].item)
              /\ orderPc' = [orderPc EXCEPT ![c] = "number"] /\ UNCHANGED orderReply
           \/ /\ ~Generates(orderCall[c].item)
              /\ orderPc' = [orderPc EXCEPT ![c] = "done"]
              /\ orderReply' = [orderReply EXCEPT ![c] = 201]
        /\ UNCHANGED <<inspections, inspectionSequence, cancelled,
                       findings, orders, findingSequence, orderSequence, orderCall>>
    BY <1>2 DEF AuditFinding, OrderGoto, OrderAnswer
  <2>2. t \in Tower
    BY <1>1, <2>1 DEF CallOK, Finding
  <2>3. Others(c)
    <3>1. UNCHANGED orderReply \/ \E code : orderReply' = [orderReply EXCEPT ![c] = code]
      BY <2>1
    <3>2. \E label : orderPc' = [orderPc EXCEPT ![c] = label]
      BY <2>1
    <3>3. QED BY <2>1, <3>1, <3>2, MovesOn
  <2>4. Files(c, t, "finding_recorded")
    <3>1. /\ \/ /\ Generates(orderCall[c].item)
                /\ orderPc'[c] = "number" /\ orderReply'[c] = orderReply[c]
             \/ /\ ~Generates(orderCall[c].item)
                /\ orderPc'[c] = "done" /\ orderReply'[c] = 201
          /\ orderCall'[c] = orderCall[c]
      BY <2>1 DEF OrderTypeOK
    <3>2. QED BY <2>1, <3>1 DEF Files, AddEvent
  <2>5. QED BY <2>2, <2>3, <2>4 DEF FilesOne, EventType
<1>3. CASE AuditOrder(c)
  <2> DEFINE t == orderCall[c].item.tower
  <2>1. /\ orderPc[c] = "generated" /\ AddEvent(t, "order_generated")
        /\ orderPc' = [orderPc EXCEPT ![c] = "done"]
        /\ orderReply' = [orderReply EXCEPT ![c] = 201]
        /\ UNCHANGED <<inspections, inspectionSequence, cancelled,
                       findings, orders, findingSequence, orderSequence, orderCall>>
    BY <1>3 DEF AuditOrder, OrderGoto, OrderAnswer
  <2>2. t \in Tower
    BY <1>1, <2>1 DEF CallOK, Finding
  <2>3. Others(c)
    <3>1. \E code : orderReply' = [orderReply EXCEPT ![c] = code]
      BY <2>1
    <3>2. QED BY <2>1, <3>1, MovesOn
  <2>4. Files(c, t, "order_generated")
    <3>1. orderPc'[c] = "done" /\ orderReply'[c] = 201 /\ orderCall'[c] = orderCall[c]
      BY <2>1 DEF OrderTypeOK
    <3>2. QED BY <2>1, <3>1 DEF Files, AddEvent
  <2>5. QED BY <2>2, <2>3, <2>4 DEF FilesOne, EventType
<1>4. CASE AuditOrderMove(c)
  <2> DEFINE t == orders[orderCall[c].order].tower
             event == OrderEventOf(orderCall[c].op)
  <2>1. /\ orderPc[c] = "audit" /\ AddEvent(t, event)
        /\ orderPc' = [orderPc EXCEPT ![c] = "done"]
        /\ orderReply' = [orderReply EXCEPT ![c] = 200]
        /\ UNCHANGED <<inspections, inspectionSequence, cancelled,
                       findings, orders, findingSequence, orderSequence, orderCall>>
    BY <1>4 DEF AuditOrderMove, OrderGoto, OrderAnswer
  <2>2. t \in Tower /\ event \in EventType
    BY <1>1, <2>1 DEF CallOK, OrderTypeOK, WorkOrder, OrderEventOf, EventType
  <2>3. Others(c)
    <3>1. \E code : orderReply' = [orderReply EXCEPT ![c] = code]
      BY <2>1
    <3>2. QED BY <2>1, <3>1, MovesOn
  <2>4. Files(c, t, event)
    <3>1. orderPc'[c] = "done" /\ orderReply'[c] = 200 /\ orderCall'[c] = orderCall[c]
      BY <2>1 DEF OrderTypeOK
    <3>2. QED BY <2>1, <3>1 DEF Files, AddEvent
  <2>5. QED BY <2>2, <2>3, <2>4 DEF FilesOne
<1>5. QED BY <1>2, <1>3, <1>4

LEMMA StepEffect ==
  ASSUME OrderTypeOK, CallsOK, OrderNext
  PROVE  \E c \in OrderClient : Others(c) /\ Effect(c)
<1>1. PICK c \in OrderClient : PostFinding(c) \/ PostOrder(c) \/ OrderStep(c) \/ CancelOrder(c)
  BY DEF OrderNext
<1>2. CancelOrder(c) => Others(c) /\ Stands(c)
  BY DEF CancelOrder, orderVars, OrderTypeOK, Others, Stands
<1>3. Others(c) /\ Effect(c)
  BY <1>1, <1>2, PostFindingEffect, PostOrderEffect, AddFindingEffect, NewOrderIDEffect, AddOrderEffect,
     GetOrderEffect, UpdateOrderEffect, AuditsEffect
  DEF OrderStep, Effect
<1>4. QED BY <1>3

-------------------------------------------------------------------------------
(* Types                                                                       *)

\* A status is written into an order, the rest of it stays.
LEMMA WrittenOrderType ==
  ASSUME NEW order \in WorkOrder, NEW status \in WorkOrderStatus
  PROVE  /\ WrittenOrder(order, status) \in WorkOrder
         /\ WrittenOrder(order, status).finding = order.finding
         /\ WrittenOrder(order, status).tower = order.tower
         /\ WrittenOrder(order, status).status = status
         /\ WrittenOrder(order, status).resolvedAt <=> (status = "resolved") \/ order.resolvedAt
<1> DEFINE new == WrittenOrder(order, status)
<1>1. new \in WorkOrder
  BY DEF WrittenOrder, WorkOrder
<1>2. new.finding = order.finding /\ new.tower = order.tower /\ new.status = status
  BY DEF WrittenOrder, WorkOrder
<1>3. new.resolvedAt = ((status = "resolved") \/ order.resolvedAt)
  BY DEF WrittenOrder, WorkOrder
<1> HIDE DEF new
<1>4. QED BY <1>1, <1>2, <1>3 DEF new

LEMMA NewOrderType ==
  ASSUME OrderTypeOK, CallsOK, NEW c \in OrderClient, Issues(c)
  PROVE  /\ NewOrder(c) \in WorkOrder
         /\ NewOrder(c).finding = orderCall[c].finding
         /\ NewOrder(c).tower = orderCall[c].item.tower
         /\ NewOrder(c).status = "open" /\ ~NewOrder(c).resolvedAt
<1>1. orderCall[c].finding \in FindingId /\ orderCall[c].item.tower \in Tower
  BY DEF Issues, CallsOK, CallOK, Finding
<1>2. QED BY <1>1 DEF NewOrder, WorkOrder, WorkOrderStatus

LEMMA InitType == Init => StoreTypeOK /\ OrderTypeOK /\ CallsOK
<1>1. Init => StoreTypeOK
  BY StoreSeeds DEF Init, StoreInit, StoreTypeOK
<1>2. Init => OrderTypeOK
  BY OrderSeeds DEF Init, OrderInit, OrderInitFrom, OrderTypeOK, NoOrderCall
<1>3. Init => CallsOK
  BY DEF Init, OrderInit, OrderInitFrom, CallsOK, CallOK
<1>4. QED BY <1>1, <1>2, <1>3

\* Whatever a step does to findings and orders, it does to one that is not there
\* yet, or to an order's status.
LEMMA StoresStep ==
  ASSUME OrderTypeOK, CallsOK, NEW c \in OrderClient, Effect(c)
  PROVE  /\ findings' \in [FindingId -> Finding \cup {NoFinding}]
         /\ orders' \in [OrderId -> WorkOrder \cup {NoOrder}]
         /\ \A f \in FindingId : findings[f] # NoFinding => findings'[f] = findings[f]
         /\ \A o \in OrderId : orders[o] # NoOrder =>
              /\ orders'[o] # NoOrder
              /\ orders'[o].tower = orders[o].tower /\ orders'[o].finding = orders[o].finding
         /\ ~Records(c) => UNCHANGED findings
         /\ ~Issues(c) /\ ~Writes(c) => UNCHANGED orders
<1>1. ASSUME Records(c)
      PROVE  /\ findings' \in [FindingId -> Finding \cup {NoFinding}]
             /\ \A f \in FindingId : findings[f] # NoFinding => findings'[f] = findings[f]
  BY <1>1 DEF Records, OrderTypeOK, CallsOK, CallOK
<1>2. ~Records(c) => UNCHANGED findings
  BY DEF Effect, Refused, Takes, Numbers, Issues, Asks, Reads, Writes, FilesOne, Files, Stands
<1>3. ~Issues(c) /\ ~Writes(c) => UNCHANGED orders
  BY DEF Effect, Refused, Takes, Records, Numbers, Asks, Reads, FilesOne, Files, Stands
<1>4. ASSUME Issues(c)
      PROVE  /\ orders' \in [OrderId -> WorkOrder \cup {NoOrder}]
             /\ \A o \in OrderId : orders[o] # NoOrder => orders'[o] = orders[o]
  <2>1. /\ orderCall[c].order \in OrderId /\ orders[orderCall[c].order] = NoOrder
        /\ orders' = [orders EXCEPT ![orderCall[c].order] = NewOrder(c)]
    BY <1>4 DEF Issues, CallsOK, CallOK
  <2>2. QED BY <1>4, <2>1, NewOrderType DEF OrderTypeOK
<1>5. ASSUME Writes(c)
      PROVE  /\ orders' \in [OrderId -> WorkOrder \cup {NoOrder}]
             /\ \A o \in OrderId : orders[o] # NoOrder =>
                  /\ orders'[o] # NoOrder
                  /\ orders'[o].tower = orders[o].tower /\ orders'[o].finding = orders[o].finding
  <2>1. PICK n \in OrderId, status \in WorkOrderStatus :
          /\ n = orderCall[c].order /\ orders[n] # NoOrder
          /\ orders' = [orders EXCEPT ![n] = WrittenOrder(orders[n], status)]
    BY <1>5 DEF Writes, CallsOK, CallOK, TargetOrder, WorkOrderStatus
  <2>2. orders[n] \in WorkOrder
    BY <2>1 DEF OrderTypeOK
  <2> DEFINE new == WrittenOrder(orders[n], status)
  <2>3. new \in WorkOrder /\ new.tower = orders[n].tower /\ new.finding = orders[n].finding
    BY <2>2, WrittenOrderType
  <2>4. orders' = [orders EXCEPT ![n] = new]
    BY <2>1
  <2> HIDE DEF new
  <2>5. QED BY <2>3, <2>4, NotStored DEF OrderTypeOK
<1>6. QED BY <1>1, <1>2, <1>3, <1>4, <1>5 DEF OrderTypeOK

LEMMA NextOrderType ==
  ASSUME OrderTypeOK, CallsOK, NEW c \in OrderClient, Others(c), Effect(c)
  PROVE  OrderTypeOK'
<1>1. CallOK(c)
  BY DEF CallsOK
<1>2. orderPc'[c] \in {"new", "finding", "recorded", "number", "order", "generated", "get", "update",
                       "audit", "done"}
  BY DEF Effect, Refused, Takes, Records, Numbers, Issues, Asks, Reads, Writes, FilesOne, Files, Stands,
     OrderTypeOK
<1>3. orderReply'[c] \in {0, 200, 201, 400, 404, 409, 500}
  BY DEF Effect, Refused, Takes, Records, Numbers, Issues, Asks, Reads, Writes, FilesOne, Files, Stands,
     OrderTypeOK
<1>4. orderCall'[c] \in Call
  <2>1. orderCall[c] \in Call /\ NoOrderCall \in Call
    BY OrderSeeds DEF OrderTypeOK, Call, NoOrderCall
  <2>2. CASE Numbers(c)
    <3>1. orderSequence' \in 0..MaxOrders /\ orderCall'[c] = [orderCall[c] EXCEPT !.order = orderSequence']
      BY <2>2, OrderSeeds DEF Numbers, OrderTypeOK
    <3>2. QED BY <2>1, <3>1 DEF Call
  <2>3. QED
    BY <2>1, <2>2
    DEF Effect, Refused, Takes, Records, Issues, Asks, Reads, Writes, FilesOne, Files, Stands
<1>5. findingSequence' \in 0..MaxFindings /\ orderSequence' \in 0..MaxOrders
  BY OrderSeeds
  DEF Effect, Refused, Takes, Records, Numbers, Issues, Asks, Reads, Writes, FilesOne, Files, Stands,
      OrderTypeOK
<1>6. /\ orderPc' = [orderPc EXCEPT ![c] = orderPc'[c]]
      /\ orderCall' = [orderCall EXCEPT ![c] = orderCall'[c]]
      /\ orderReply' = [orderReply EXCEPT ![c] = orderReply'[c]]
  BY DEF Others
<1>7. /\ orderPc' \in [OrderClient ->
           {"new", "finding", "recorded", "number", "order", "generated", "get", "update", "audit", "done"}]
      /\ orderReply' \in [OrderClient -> {0, 200, 201, 400, 404, 409, 500}]
      /\ orderCall' \in [OrderClient -> Call]
  <2>1. orderCall \in [OrderClient -> Call]
    BY DEF OrderTypeOK, Call
  <2>2. QED BY <1>2, <1>3, <1>4, <1>6, <2>1 DEF OrderTypeOK
<1>8. QED BY <1>5, <1>7, StoresStep DEF OrderTypeOK, Call

\* The one that moves keeps to its code, and what the others know stays true.
LEMMA NextCalls ==
  ASSUME OrderTypeOK, CallsOK, NEW c \in OrderClient, Others(c), Effect(c)
  PROVE  CallsOK'
<1>1. ASSUME NEW d \in OrderClient, d # c PROVE CallOK(d)'
  <2>1. /\ orderPc'[d] = orderPc[d] /\ orderCall'[d] = orderCall[d] /\ orderReply'[d] = orderReply[d]
        /\ CallOK(d)
    BY <1>1 DEF Others, CallsOK
  <2>2. orderPc[d] \in {"recorded", "number", "order", "generated"} =>
          findings'[orderCall[d].finding] = orderCall[d].item
    BY <2>1, StoresStep, NotStored DEF CallOK
  <2>3. orderPc[d] \in {"update", "audit"} \/ orderReply[d] = 200 => orders'[orderCall[d].order] # NoOrder
    BY <2>1, StoresStep DEF CallOK
  <2>4. QED BY <2>1, <2>2, <2>3 DEF CallOK
<1>2. CallOK(c)'
  <2>1. CallOK(c)
    BY DEF CallsOK
  <2>2. CASE Refused(c)
    BY <2>1, <2>2 DEF Refused, CallOK
  <2>3. CASE Takes(c)
    BY <2>1, <2>3, OrderSeeds DEF Takes, CallOK, OrderTypeOK, FindingId
  <2>4. CASE Records(c)
    <3>1. findings'[orderCall[c].finding] = orderCall[c].item
      BY <2>1, <2>4 DEF Records, CallOK, OrderTypeOK
    <3>2. QED BY <2>1, <2>4, <3>1 DEF Records, CallOK
  <2>5. CASE Numbers(c)
    <3>1. /\ orderCall'[c].op = orderCall[c].op /\ orderCall'[c].finding = orderCall[c].finding
          /\ orderCall'[c].item = orderCall[c].item /\ orderCall'[c].order = orderSequence'
          /\ orderSequence' \in OrderId
      BY <2>5, OrderSeeds DEF Numbers, OrderTypeOK, OrderId
    <3>2. QED BY <2>1, <2>5, <3>1 DEF Numbers, CallOK
  <2>6. CASE Issues(c)
    BY <2>1, <2>6 DEF Issues, CallOK
  <2>7. CASE Asks(c)
    BY <2>1, <2>7 DEF Asks, CallOK
  <2>8. CASE Reads(c)
    BY <2>1, <2>8 DEF Reads, CallOK
  <2>9. CASE Writes(c)
    <3>1. orders'[orderCall[c].order] # NoOrder
      BY <2>1, <2>9, StoresStep DEF Writes, CallOK
    <3>2. QED BY <2>1, <2>9, <3>1 DEF Writes, CallOK
  <2>10. CASE FilesOne(c)
    BY <2>1, <2>10 DEF FilesOne, Files, CallOK
  <2>11. CASE Stands(c)
    BY <2>1, <2>11 DEF Stands, CallOK
  <2>12. QED BY <2>2, <2>3, <2>4, <2>5, <2>6, <2>7, <2>8, <2>9, <2>10, <2>11 DEF Effect
<1>3. QED BY <1>1, <1>2 DEF CallsOK

\* The store the inspections are in sees no more than events and contexts.
LEMMA NextStore == ASSUME StoreTypeOK, OrderTypeOK, CallsOK, OrderNext PROVE StoreTypeOK'
<1>1. UNCHANGED <<inspections, inspectionSequence>> /\ cancelled' \subseteq cancelled \cup OrderClient
  <2>1. ASSUME NEW c \in OrderClient, NEW err, OrderRefuse(c, err)
        PROVE  UNCHANGED <<inspections, inspectionSequence>> /\ cancelled' \subseteq cancelled
    BY <2>1 DEF OrderRefuse
  <2>2. PICK c \in OrderClient : PostFinding(c) \/ PostOrder(c) \/ OrderStep(c) \/ CancelOrder(c)
    BY DEF OrderNext
  <2>3. CASE \E err : OrderRefuse(c, err)
    BY <2>1, <2>3
  <2>4. CASE ~\E err : OrderRefuse(c, err)
    BY <2>2, <2>4 DEF PostFinding, PostOrder, OrderStep, CancelOrder, AddFinding, AuditFinding, NewOrderID,
       AddOrder, AddOrderRefused, AuditOrder, GetOrder, UpdateOrder, AuditOrderMove, storeVars
  <2>5. QED BY <2>3, <2>4
<1>2. towerAudit' \in [AuditKey -> Seq(EventType)]
  <2>1. PICK c \in OrderClient : Effect(c)
    BY StepEffect
  <2>2. CASE FilesOne(c)
    <3>1. PICK tower \in Tower, event \in EventType : Files(c, tower, event)
      BY <2>2 DEF FilesOne
    <3>2. AddEvent(tower, event)
      BY <3>1 DEF Files
    <3>3. Append(towerAudit[tower], event) \in Seq(EventType) /\ tower \in AuditKey
      BY AppendProperties DEF StoreTypeOK, AuditKey
    <3>4. QED BY <3>2, <3>3 DEF StoreTypeOK, AddEvent
  <2>3. CASE ~FilesOne(c)
    BY <2>1, <2>3 DEF Effect, Refused, Takes, Records, Numbers, Issues, Asks, Reads, Writes, Stands, StoreTypeOK
  <2>4. QED BY <2>2, <2>3
<1>3. QED BY <1>1, <1>2, OrderClients DEF StoreTypeOK

LEMMA NextType ==
  TypeOK /\ CallsOK /\ [OrderNext]_vars => TypeOK' /\ CallsOK'
<1> SUFFICES ASSUME TypeOK, CallsOK, [OrderNext]_vars PROVE TypeOK' /\ CallsOK'
  OBVIOUS
<1>1. CASE OrderNext
  BY <1>1, StepEffect, NextOrderType, NextCalls, NextStore DEF TypeOK
<1>2. CASE UNCHANGED vars
  BY <1>2 DEF vars, storeVars, orderVars, TypeOK, StoreTypeOK, OrderTypeOK, CallsOK, CallOK
<1>3. QED BY <1>1, <1>2

\* Every variable keeps its type.
THEOREM TypeCorrect == Spec => []TypeOK
<1>1. Init => TypeOK /\ CallsOK
  BY InitType DEF TypeOK
<1>2. QED BY <1>1, NextType, PTL DEF Spec, vars

-------------------------------------------------------------------------------
(* Numbers: who holds which, and what the stores hold under them               *)

\* A request that has a finding's number and has not yet stored the order.
UnderWay(c) == orderPc[c] \in {"finding", "recorded", "number", "order"}

\* What is stored has a number that was handed out.
NumbersOK ==
  /\ SeedFindingCounter <= findingSequence
  /\ \A f \in Recorded : f <= findingSequence
  /\ \A o \in Placed : o <= orderSequence

\* A number belongs to one request until it is in the store.
Holds(c) ==
  /\ UnderWay(c) =>
       /\ SeedFindingCounter < orderCall[c].finding /\ orderCall[c].finding <= findingSequence
       /\ \A o \in Placed : orders[o].finding # orderCall[c].finding
       /\ \A d \in OrderClient : UnderWay(d) /\ orderCall[d].finding = orderCall[c].finding => d = c
  /\ orderPc[c] = "finding" => orderCall[c].finding \notin Recorded
  /\ orderPc[c] = "order" =>
       /\ orderCall[c].order <= orderSequence /\ orderCall[c].order \notin Placed
       /\ \A d \in OrderClient : orderPc[d] = "order" /\ orderCall[d].order = orderCall[c].order => d = c

HoldsOK == \A c \in OrderClient : Holds(c)

\* Orders and findings fit together, one order to a finding.
MatchOK ==
  /\ \A o \in Placed :
       /\ orders[o].finding \in Recorded
       /\ findings[orders[o].finding] = [tower |-> orders[o].tower, severity |-> "high"]
  /\ \A o, p \in Placed : orders[o].finding = orders[p].finding => o = p

NumbersInv == NumbersOK /\ HoldsOK /\ MatchOK

LEMMA InitNumbers == Init => NumbersInv
<1> SUFFICES ASSUME Init PROVE NumbersInv
  OBVIOUS
<1>1. /\ findings = SeedFindings /\ findingSequence = SeedFindingCounter
      /\ Placed = {} /\ \A c \in OrderClient : orderPc[c] = "new"
  BY DEF Init, OrderInit, OrderInitFrom, Placed
<1>2. NumbersOK
  BY <1>1, OrderSeeds DEF NumbersOK, Recorded
<1>3. HoldsOK /\ MatchOK
  BY <1>1 DEF HoldsOK, Holds, UnderWay, MatchOK
<1>4. QED BY <1>2, <1>3 DEF NumbersInv

\* Both stores grow by what a handler adds and by nothing else.
LEMMA Grow ==
  ASSUME OrderTypeOK, CallsOK, NEW c \in OrderClient, Effect(c)
  PROVE  /\ Recorded' = IF Records(c) THEN Recorded \cup {orderCall[c].finding} ELSE Recorded
         /\ Placed' = IF Issues(c) THEN Placed \cup {orderCall[c].order} ELSE Placed
         /\ \A f \in Recorded : findings'[f] = findings[f]
         /\ \A o \in Placed : orders'[o].tower = orders[o].tower /\ orders'[o].finding = orders[o].finding
         /\ Recorded \subseteq FindingId /\ Placed \subseteq OrderId
<1>1. /\ \A f \in FindingId : findings[f] # NoFinding => findings'[f] = findings[f]
      /\ \A o \in OrderId : orders[o] # NoOrder =>
           /\ orders'[o] # NoOrder
           /\ orders'[o].tower = orders[o].tower /\ orders'[o].finding = orders[o].finding
      /\ ~Records(c) => UNCHANGED findings
      /\ ~Issues(c) /\ ~Writes(c) => UNCHANGED orders
  <2>1. ~Records(c) => UNCHANGED findings
    BY DEF Effect, Refused, Takes, Numbers, Issues, Asks, Reads, Writes, FilesOne, Files, Stands
  <2>2. ~Issues(c) /\ ~Writes(c) => UNCHANGED orders
    BY DEF Effect, Refused, Takes, Records, Numbers, Asks, Reads, FilesOne, Files, Stands
  <2>3. QED BY <2>1, <2>2, StoresStep
<1>2. Recorded' = IF Records(c) THEN Recorded \cup {orderCall[c].finding} ELSE Recorded
  <2>1. CASE Records(c)
    <3>1. /\ orderCall[c].finding \in FindingId /\ orderCall[c].item # NoFinding
          /\ findings' = [findings EXCEPT ![orderCall[c].finding] = orderCall[c].item]
      BY <2>1, NotStored DEF Records, CallsOK, CallOK
    <3>2. QED BY <2>1, <3>1 DEF Recorded, OrderTypeOK
  <2>2. CASE ~Records(c)
    BY <1>1, <2>2 DEF Recorded
  <2>3. QED BY <2>1, <2>2
<1>3. Placed' = IF Issues(c) THEN Placed \cup {orderCall[c].order} ELSE Placed
  <2>1. CASE Issues(c)
    <3>1. /\ orderCall[c].order \in OrderId /\ NewOrder(c) # NoOrder
          /\ orders' = [orders EXCEPT ![orderCall[c].order] = NewOrder(c)]
      BY <2>1, NotStored, NewOrderType DEF Issues, CallsOK, CallOK
    <3>2. QED BY <2>1, <3>1 DEF Placed, OrderTypeOK
  <2>2. CASE Writes(c)
    <3>1. PICK n \in OrderId : n = orderCall[c].order /\ orders[n] # NoOrder
            /\ \E v : orders' = [orders EXCEPT ![n] = v]
      BY <2>2 DEF Writes, CallsOK, CallOK
    <3>2. ~Issues(c)
      BY <2>2 DEF Issues, Writes
    <3>3. \A o \in OrderId : orders'[o] # NoOrder <=> orders[o] # NoOrder
      BY <1>1, <3>1 DEF OrderTypeOK
    <3>4. QED BY <3>2, <3>3 DEF Placed
  <2>3. CASE ~Issues(c) /\ ~Writes(c)
    BY <1>1, <2>3 DEF Placed
  <2>4. QED BY <2>1, <2>2, <2>3
<1>4. QED BY <1>1, <1>2, <1>3 DEF Recorded, Placed

LEMMA CountersStep ==
  ASSUME NEW c \in OrderClient, Effect(c)
  PROVE  /\ findingSequence' = IF Takes(c) THEN findingSequence + 1 ELSE findingSequence
         /\ orderSequence' = IF Numbers(c) THEN orderSequence + 1 ELSE orderSequence
<1>1. Takes(c) => ~Numbers(c)
  BY DEF Takes, Numbers
<1>2. CASE Takes(c)
  BY <1>1, <1>2 DEF Takes
<1>3. CASE Numbers(c)
  BY <1>1, <1>3 DEF Numbers
<1>4. CASE ~Takes(c) /\ ~Numbers(c)
  BY <1>4 DEF Effect, Refused, Records, Issues, Asks, Reads, Writes, FilesOne, Files, Stands
<1>5. QED BY <1>2, <1>3, <1>4

LEMMA NextNumbersOK ==
  ASSUME OrderTypeOK, CallsOK, NumbersInv, NEW c \in OrderClient, Effect(c)
  PROVE  NumbersOK'
<1>1. /\ findingSequence \in Nat /\ orderSequence \in Nat /\ SeedFindingCounter \in Nat
      /\ findingSequence' >= findingSequence /\ orderSequence' >= orderSequence
      /\ findingSequence' \in Nat /\ orderSequence' \in Nat
  BY CountersStep, OrderSeeds DEF OrderTypeOK
<1>2. \A f \in Recorded' : f <= findingSequence'
  <2>1. Records(c) => orderCall[c].finding <= findingSequence
    BY DEF Records, NumbersInv, HoldsOK, Holds, UnderWay
  <2>2. \A f \in Recorded' : f \in Nat /\ f <= findingSequence
    BY <2>1, Grow DEF NumbersInv, NumbersOK, FindingId, Records, CallsOK, CallOK
  <2>3. QED BY <1>1, <2>2
<1>3. \A o \in Placed' : o <= orderSequence'
  <2>1. Issues(c) => orderCall[c].order <= orderSequence
    BY DEF Issues, NumbersInv, HoldsOK, Holds
  <2>2. \A o \in Placed' : o \in Nat /\ o <= orderSequence
    BY <2>1, Grow DEF NumbersInv, NumbersOK, OrderId, Issues, CallsOK, CallOK
  <2>3. QED BY <1>1, <2>2
<1>4. SeedFindingCounter <= findingSequence'
  BY <1>1 DEF NumbersInv, NumbersOK
<1>5. QED BY <1>2, <1>3, <1>4 DEF NumbersOK

\* What the one that places an order places.
LEMMA IssuedOrder ==
  ASSUME OrderTypeOK, CallsOK, NEW c \in OrderClient, Issues(c)
  PROVE  /\ orders'[orderCall[c].order].finding = orderCall[c].finding
         /\ orders'[orderCall[c].order].tower = orderCall[c].item.tower
         /\ orders'[orderCall[c].order].status = "open"
         /\ ~orders'[orderCall[c].order].resolvedAt
         /\ orderCall[c].finding \in Recorded
         /\ findings[orderCall[c].finding] =
              [tower |-> orderCall[c].item.tower, severity |-> "high"]
         /\ orderCall[c].order \in OrderId \ Placed
<1>1. /\ orderCall[c].finding \in FindingId /\ orderCall[c].item \in Finding
      /\ findings[orderCall[c].finding] = orderCall[c].item
      /\ orderCall[c].item.severity = "high" /\ orderCall[c].order \in OrderId
  BY DEF Issues, CallsOK, CallOK, Generates
<1>2. orders'[orderCall[c].order] = NewOrder(c) /\ orders[orderCall[c].order] = NoOrder
  BY <1>1 DEF Issues, OrderTypeOK
<1>3. findings[orderCall[c].finding] = [tower |-> orderCall[c].item.tower, severity |-> "high"]
  BY <1>1 DEF Finding
<1>4. QED BY <1>1, <1>2, <1>3, NewOrderType, NotStored DEF Recorded, Placed

LEMMA NextMatchOK ==
  ASSUME OrderTypeOK, CallsOK, NumbersInv, NEW c \in OrderClient, Effect(c)
  PROVE  MatchOK'
<1>1. /\ \A o \in Placed :
           /\ orders[o].finding \in Recorded
           /\ findings[orders[o].finding] = [tower |-> orders[o].tower, severity |-> "high"]
      /\ \A o, p \in Placed : orders[o].finding = orders[p].finding => o = p
  BY DEF NumbersInv, MatchOK
<1>2. \A o \in Placed :
        /\ orders'[o].finding \in Recorded'
        /\ findings'[orders'[o].finding] = [tower |-> orders'[o].tower, severity |-> "high"]
  BY <1>1, Grow
<1>3. \A o, p \in Placed : orders'[o].finding = orders'[p].finding => o = p
  BY <1>1, Grow
<1>4. CASE ~Issues(c)
  <2>1. Placed' = Placed
    BY <1>4, Grow
  <2>2. QED BY <1>2, <1>3, <2>1 DEF MatchOK
<1>5. CASE Issues(c)
  <2> DEFINE n == orderCall[c].order
             f == orderCall[c].finding
  <2>1. Placed' = Placed \cup {n} /\ ~Records(c)
    BY <1>5, Grow DEF Issues, Records
  <2>2. /\ orders'[n].finding = f /\ f \in Recorded'
        /\ findings'[f] = [tower |-> orders'[n].tower, severity |-> "high"]
    BY <1>5, Grow, IssuedOrder
  <2>3. \A o \in Placed : orders'[o].finding # f
    BY <1>5, Grow DEF NumbersInv, HoldsOK, Holds, UnderWay, Issues
  <2> HIDE DEF n, f
  <2>4. QED BY <1>2, <1>3, <2>1, <2>2, <2>3 DEF MatchOK
<1>6. QED BY <1>4, <1>5

\* A number that one request holds is not disturbed by what another does.
LEMMA NextHoldsOK ==
  ASSUME OrderTypeOK, CallsOK, NumbersInv, NEW c \in OrderClient, Others(c), Effect(c)
  PROVE  HoldsOK'
<1>1. /\ findingSequence \in Nat /\ orderSequence \in Nat /\ SeedFindingCounter \in Nat
      /\ SeedFindingCounter <= findingSequence
      /\ findingSequence' \in Nat /\ orderSequence' \in Nat
      /\ findingSequence' >= findingSequence /\ orderSequence' >= orderSequence
  BY CountersStep, OrderSeeds DEF OrderTypeOK, NumbersInv, NumbersOK
<1>2. \A d \in OrderClient : Holds(d) /\ CallOK(d)
  BY DEF NumbersInv, HoldsOK, CallsOK
<1>3. \A d \in OrderClient :
        orderCall[d].finding \in Nat /\ orderCall[d].order \in Nat
  BY DEF OrderTypeOK
<1>4. \A d \in OrderClient \ {c} :
        /\ orderPc'[d] = orderPc[d] /\ orderCall'[d] = orderCall[d]
        /\ UnderWay(d)' <=> UnderWay(d)
  BY DEF Others, UnderWay
\* c keeps its numbers, or takes one that nobody has.
<1>5. UnderWay(c)' =>
        /\ orderCall'[c].finding \in Nat
        /\ SeedFindingCounter < orderCall'[c].finding /\ orderCall'[c].finding <= findingSequence'
        /\ \A o \in Placed' : orders'[o].finding # orderCall'[c].finding
        /\ \A d \in OrderClient \ {c} : UnderWay(d) => orderCall[d].finding # orderCall'[c].finding
  <2> SUFFICES ASSUME UnderWay(c)'
               PROVE  /\ orderCall'[c].finding \in Nat
                      /\ SeedFindingCounter < orderCall'[c].finding
                      /\ orderCall'[c].finding <= findingSequence'
                      /\ \A o \in Placed' : orders'[o].finding # orderCall'[c].finding
                      /\ \A d \in OrderClient \ {c} :
                           UnderWay(d) => orderCall[d].finding # orderCall'[c].finding
    OBVIOUS
  <2>1. CASE Takes(c)
    <3>1. /\ orderCall'[c].finding = findingSequence + 1 /\ findingSequence' = findingSequence + 1
          /\ Placed' = Placed
      BY <2>1, Grow DEF Takes, Issues
    <3>2. \A o \in Placed : orders'[o].finding \in Nat /\ orders'[o].finding <= findingSequence
      <4>1. \A o \in Placed : orders'[o].finding = orders[o].finding /\ orders[o].finding \in Recorded
        BY Grow DEF NumbersInv, MatchOK
      <4>2. \A f \in Recorded : f \in Nat /\ f <= findingSequence
        BY Grow DEF NumbersInv, NumbersOK, FindingId
      <4>3. QED BY <4>1, <4>2
    <3>3. \A d \in OrderClient \ {c} : UnderWay(d) => orderCall[d].finding <= findingSequence
      BY <1>2 DEF Holds
    <3>4. QED BY <1>1, <1>3, <3>1, <3>2, <3>3
  <2>2. CASE ~Takes(c)
    <3>1. UnderWay(c) /\ ~Issues(c) /\ orderCall'[c].finding = orderCall[c].finding
      <4>1. CASE Numbers(c)
        BY <4>1 DEF Numbers, UnderWay, Issues, OrderTypeOK
      <4>2. CASE ~Numbers(c)
        BY <2>2, <4>2
        DEF UnderWay, Effect, Refused, Records, Issues, Asks, Reads, Writes, FilesOne, Files, Stands
      <4>3. QED BY <4>1, <4>2
    <3>2. /\ orderCall[c].finding \in Nat
          /\ SeedFindingCounter < orderCall[c].finding /\ orderCall[c].finding <= findingSequence
          /\ \A o \in Placed : orders[o].finding # orderCall[c].finding
          /\ \A d \in OrderClient : UnderWay(d) /\ orderCall[d].finding = orderCall[c].finding => d = c
      BY <1>2, <1>3, <3>1 DEF Holds
    <3>3. \A o \in Placed' : orders'[o].finding # orderCall[c].finding
      BY <3>1, <3>2, Grow
    <3>4. QED BY <1>1, <3>1, <3>2, <3>3
  <2>3. QED BY <2>1, <2>2
<1>6. orderPc'[c] = "finding" => orderCall'[c].finding \notin Recorded'
  <2>1. CASE Takes(c)
    <3>1. orderCall'[c].finding = findingSequence + 1 /\ Recorded' = Recorded
      BY <2>1, Grow DEF Takes, Records
    <3>2. \A f \in Recorded : f \in Nat /\ f <= findingSequence
      BY Grow DEF NumbersInv, NumbersOK, FindingId
    <3>3. QED BY <1>1, <3>1, <3>2
  <2>2. CASE ~Takes(c)
    <3>1. orderPc'[c] = "finding" =>
            orderPc[c] = "finding" /\ ~Records(c) /\ orderCall'[c] = orderCall[c]
      BY <2>2
      DEF Effect, Refused, Records, Numbers, Issues, Asks, Reads, Writes, FilesOne, Files, Stands
    <3>2. QED BY <1>2, <3>1, Grow DEF Holds
  <2>3. QED BY <2>1, <2>2
<1>7. orderPc'[c] = "order" =>
        /\ orderCall'[c].order \in Nat
        /\ orderCall'[c].order <= orderSequence' /\ orderCall'[c].order \notin Placed'
        /\ \A d \in OrderClient \ {c} :
             orderPc[d] = "order" => orderCall[d].order # orderCall'[c].order
  <2>1. CASE Numbers(c)
    <3>1. /\ orderCall'[c].order = orderSequence + 1 /\ orderSequence' = orderSequence + 1
          /\ Placed' = Placed
      BY <2>1, Grow DEF Numbers, Issues, OrderTypeOK
    <3>2. \A o \in Placed : o \in Nat /\ o <= orderSequence
      BY Grow DEF NumbersInv, NumbersOK, OrderId
    <3>3. \A d \in OrderClient \ {c} : orderPc[d] = "order" => orderCall[d].order <= orderSequence
      BY <1>2 DEF Holds
    <3>4. QED BY <1>1, <1>3, <3>1, <3>2, <3>3
  <2>2. CASE ~Numbers(c)
    <3>1. orderPc'[c] = "order" =>
            orderPc[c] = "order" /\ ~Issues(c) /\ orderCall'[c] = orderCall[c]
      BY <2>2
      DEF Effect, Refused, Takes, Records, Issues, Asks, Reads, Writes, FilesOne, Files, Stands
    <3>2. orderPc[c] = "order" =>
            /\ orderCall[c].order <= orderSequence /\ orderCall[c].order \notin Placed
            /\ \A d \in OrderClient \ {c} :
                 orderPc[d] = "order" => orderCall[d].order # orderCall[c].order
      BY <1>2 DEF Holds
    <3>3. ~Issues(c) => Placed' = Placed
      BY Grow
    <3>4. QED BY <1>1, <1>3, <3>1, <3>2, <3>3
  <2>3. QED BY <2>1, <2>2
<1>8. Holds(c)'
  BY <1>4, <1>5, <1>6, <1>7 DEF Holds
\* The numbers of the others are not those c adds under.
<1>9. ASSUME NEW d \in OrderClient, d # c PROVE Holds(d)'
  <2>1. orderPc'[d] = orderPc[d] /\ orderCall'[d] = orderCall[d] /\ (UnderWay(d)' <=> UnderWay(d)) /\ Holds(d)
    BY <1>2, <1>4, <1>9
  <2>2. UnderWay(d) =>
          /\ SeedFindingCounter < orderCall[d].finding /\ orderCall[d].finding <= findingSequence'
          /\ \A o \in Placed' : orders'[o].finding # orderCall[d].finding
    <3> SUFFICES ASSUME UnderWay(d)
                 PROVE  /\ SeedFindingCounter < orderCall[d].finding
                        /\ orderCall[d].finding <= findingSequence'
                        /\ \A o \in Placed' : orders'[o].finding # orderCall[d].finding
      OBVIOUS
    <3>1. /\ SeedFindingCounter < orderCall[d].finding /\ orderCall[d].finding <= findingSequence
          /\ \A o \in Placed : orders[o].finding # orderCall[d].finding
      BY <2>1 DEF Holds
    <3>2. Issues(c) => orders'[orderCall[c].order].finding # orderCall[d].finding
      BY <1>2, <1>9, IssuedOrder DEF Holds, Issues, UnderWay
    <3>3. \A o \in Placed' : orders'[o].finding # orderCall[d].finding
      BY <3>1, <3>2, Grow
    <3>4. QED BY <1>1, <1>3, <3>1, <3>3
  <2>3. \A e \in OrderClient :
          UnderWay(e)' /\ orderCall'[e].finding = orderCall'[d].finding /\ UnderWay(d)' => e = d
    BY <1>4, <1>5, <1>9, <2>1 DEF Holds
  <2>4. orderPc[d] = "finding" => orderCall[d].finding \notin Recorded'
    <3>1. Records(c) /\ orderPc[d] = "finding" => orderCall[d].finding # orderCall[c].finding
      BY <1>2, <1>9 DEF Holds, Records, UnderWay
    <3>2. QED BY <2>1, <3>1, Grow DEF Holds
  <2>5. orderPc[d] = "order" =>
          orderCall[d].order <= orderSequence' /\ orderCall[d].order \notin Placed'
    <3>1. Issues(c) /\ orderPc[d] = "order" => orderCall[d].order # orderCall[c].order
      BY <1>2, <1>9 DEF Holds, Issues
    <3>2. orderPc[d] = "order" => orderCall[d].order <= orderSequence /\ orderCall[d].order \notin Placed
      BY <2>1 DEF Holds
    <3>3. QED BY <1>1, <1>3, <3>1, <3>2, Grow
  <2>6. \A e \in OrderClient :
          orderPc'[e] = "order" /\ orderCall'[e].order = orderCall'[d].order /\ orderPc'[d] = "order" => e = d
    BY <1>4, <1>7, <1>9, <2>1 DEF Holds
  <2>7. QED BY <2>1, <2>2, <2>3, <2>4, <2>5, <2>6 DEF Holds
<1>10. QED BY <1>8, <1>9 DEF HoldsOK

LEMMA NextNumbers ==
  TypeOK /\ CallsOK /\ NumbersInv /\ [OrderNext]_vars => NumbersInv'
<1> SUFFICES ASSUME TypeOK, CallsOK, NumbersInv, [OrderNext]_vars PROVE NumbersInv'
  OBVIOUS
<1>1. CASE OrderNext
  <2>1. PICK c \in OrderClient : Others(c) /\ Effect(c)
    BY <1>1, StepEffect DEF TypeOK
  <2>2. QED BY <2>1, NextNumbersOK, NextHoldsOK, NextMatchOK DEF TypeOK, NumbersInv
<1>2. CASE UNCHANGED vars
  BY <1>2
  DEF vars, storeVars, orderVars, NumbersInv, NumbersOK, HoldsOK, Holds, UnderWay, MatchOK, Recorded, Placed
<1>3. QED BY <1>1, <1>2

\* Both counters hand out numbers that are free when they reach the store, so
\* neither AddFinding nor AddOrder ever meets a number that is taken.
THEOREM NumbersAreFresh == Spec => []FreshNumbersNeverTaken
<1>1. Init => TypeOK /\ CallsOK /\ NumbersInv
  BY InitType, InitNumbers DEF TypeOK
<1>2. NumbersInv => FreshNumbersNeverTaken
  BY DEF NumbersInv, HoldsOK, Holds, FreshNumbersNeverTaken
<1>3. QED BY <1>1, <1>2, NextType, NextNumbers, PTL DEF Spec, vars

\* Every order is the one order of a stored high finding on its tower.
THEOREM OrdersHaveFindings == Spec => []OrdersMatchFindings
<1>1. Init => TypeOK /\ CallsOK /\ NumbersInv
  BY InitType, InitNumbers DEF TypeOK
<1>2. NumbersInv => OrdersMatchFindings
  <2> SUFFICES ASSUME MatchOK PROVE OrdersMatchFindings
    BY DEF NumbersInv
  <2>1. ASSUME NEW f \in FindingId PROVE Cardinality(OrderOf(f)) <= 1
    <3>1. CASE OrderOf(f) = {}
      BY <3>1, FS_EmptySet
    <3>2. CASE OrderOf(f) # {}
      <4>1. PICK o : OrderOf(f) = {o}
        BY <3>2 DEF OrderOf, MatchOK
      <4>2. QED BY <4>1, FS_Singleton
    <3>3. QED BY <3>1, <3>2
  <2>2. QED BY <2>1 DEF OrdersMatchFindings, MatchOK
<1>3. QED BY <1>1, <1>2, NextType, NextNumbers, PTL DEF Spec, vars

-------------------------------------------------------------------------------
(* Racing moves: an order's status against the moves that were accepted        *)

\* Nobody is about to resolve an open order, one that is not open has been
\* assigned, and one that reads "assigned" after a resolution assigned twice.
\* The second clause is what the third takes its first assignment from.
OrderRaces ==
  /\ \A c \in OrderClient :
       orderPc[c] = "update" /\ orderCall[c].op = "resolve" => orders[orderCall[c].order].status # "open"
  /\ \A o \in Placed :
       /\ orders[o].status # "open" => AcceptedMoves("assign", o) # {}
       /\ orders[o].status = "open" => ~orders[o].resolvedAt
  /\ ReassignedByTwo

LEMMA AcceptedFinite ==
  ASSUME NEW op, NEW o
  PROVE  IsFiniteSet(AcceptedMoves(op, o)) /\ Cardinality(AcceptedMoves(op, o)) \in Nat
<1>1. AcceptedMoves(op, o) \subseteq Context
  BY OrderClients DEF AcceptedMoves
<1>2. QED BY <1>1, StoreContexts, FS_Subset, FS_CardinalityType

LEMMA InitRaces == Init => OrderRaces
<1> SUFFICES ASSUME Init PROVE OrderRaces
  OBVIOUS
<1>1. Placed = {} /\ \A c \in OrderClient : orderPc[c] = "new"
  BY DEF Init, OrderInit, OrderInitFrom, Placed
<1>2. QED BY <1>1 DEF OrderRaces, ReassignedByTwo

\* A move that was accepted stays so, and a write is one that was not yet.
LEMMA AcceptedGrow ==
  ASSUME OrderTypeOK, CallsOK, NEW c \in OrderClient, Others(c), Effect(c), NEW op, NEW o
  PROVE  /\ AcceptedMoves(op, o) \subseteq AcceptedMoves(op, o)'
         /\ Writes(c) /\ orderCall[c].op = op /\ orderCall[c].order = o =>
              c \in AcceptedMoves(op, o)' \ AcceptedMoves(op, o)
<1>1. \A d \in OrderClient \ {c} :
        orderPc'[d] = orderPc[d] /\ orderCall'[d] = orderCall[d] /\ orderReply'[d] = orderReply[d]
  BY DEF Others
<1>2. orderPc[c] = "audit" \/ orderReply[c] = 200 =>
        (orderPc'[c] = "audit" \/ orderReply'[c] = 200) /\ orderCall'[c] = orderCall[c]
  <2>1. orderReply[c] = 200 => orderPc[c] = "done"
    BY DEF CallsOK, CallOK, OrderTypeOK
  <2>2. QED
    BY <2>1 DEF Effect, Refused, Takes, Records, Numbers, Issues, Asks, Reads, Writes, FilesOne, Files, Stands
<1>3. Writes(c) => /\ orderPc[c] = "update" /\ orderReply[c] # 200
                   /\ orderPc'[c] = "audit" /\ orderCall'[c] = orderCall[c]
  BY DEF Writes, CallsOK, CallOK
<1>4. QED BY <1>1, <1>2, <1>3 DEF AcceptedMoves

\* An order's status changes only by the write of one who serves it.
LEMMA StatusStep ==
  ASSUME OrderTypeOK, CallsOK, NEW c \in OrderClient, Effect(c), NEW o \in Placed
  PROVE  \/ orders'[o] = orders[o]
         \/ /\ Writes(c) /\ orderCall[c].order = o
            /\ orderCall[c].op \in {"assign", "resolve"}
            /\ orders'[o].status = TargetOrder(orderCall[c].op)
            /\ orders'[o].resolvedAt <=> (orderCall[c].op = "resolve") \/ orders[o].resolvedAt
<1>1. o \in OrderId /\ orders[o] \in WorkOrder
  BY DEF Placed, OrderTypeOK
<1>2. CASE Writes(c)
  <2>1. /\ orderCall[c].order \in OrderId /\ orderCall[c].op \in {"assign", "resolve"}
        /\ orders' = [orders EXCEPT ![orderCall[c].order] =
             WrittenOrder(@, TargetOrder(orderCall[c].op))]
    BY <1>2 DEF Writes, CallsOK, CallOK
  <2>2. CASE orderCall[c].order = o
    <3> DEFINE status == TargetOrder(orderCall[c].op)
    <3>1. status \in WorkOrderStatus /\ (status = "resolved" <=> orderCall[c].op = "resolve")
      BY <2>1 DEF TargetOrder, WorkOrderStatus
    <3>2. orders'[o] = WrittenOrder(orders[o], status)
      BY <1>1, <2>1, <2>2 DEF OrderTypeOK
    <3> HIDE DEF status
    <3>3. orders'[o].status = status /\ (orders'[o].resolvedAt <=> (status = "resolved") \/ orders[o].resolvedAt)
      BY <1>1, <3>1, <3>2, WrittenOrderType
    <3>4. QED BY <1>2, <2>1, <2>2, <3>1, <3>3 DEF status
  <2>3. CASE orderCall[c].order # o
    BY <1>1, <2>1, <2>3 DEF OrderTypeOK
  <2>4. QED BY <2>2, <2>3
<1>3. CASE Issues(c)
  <2>1. orderCall[c].order # o
    BY <1>3, IssuedOrder
  <2>2. \E new : orders' = [orders EXCEPT ![orderCall[c].order] = new]
    BY <1>3 DEF Issues
  <2>3. QED BY <1>1, <2>1, <2>2 DEF OrderTypeOK
<1>4. CASE ~Writes(c) /\ ~Issues(c)
  BY <1>4 DEF Effect, Refused, Takes, Records, Numbers, Asks, Reads, FilesOne, Files, Stands
<1>5. QED BY <1>2, <1>3, <1>4

LEMMA NextRaces ==
  ASSUME OrderTypeOK, CallsOK, OrderRaces, NEW c \in OrderClient, Others(c), Effect(c)
  PROVE  OrderRaces'
<1>1. ASSUME NEW d \in OrderClient, orderPc'[d] = "update", orderCall'[d].op = "resolve"
      PROVE  orders'[orderCall'[d].order].status # "open"
  <2>1. /\ orderCall'[d] = orderCall[d] /\ orders[orderCall[d].order].status # "open"
        /\ orderPc[d] \in {"get", "update"} /\ orders[orderCall[d].order] # NoOrder
    <3>1. CASE d = c
      <4>1. Reads(c) \/ (orderPc[c] = "update" /\ orderCall'[c] = orderCall[c])
        BY <1>1, <3>1
        DEF Effect, Refused, Takes, Records, Numbers, Issues, Asks, Writes, FilesOne, Files, Stands
      <4>2. Reads(c) => orderCall'[c] = orderCall[c] /\ orderPc[c] = "get" /\ orders[orderCall[c].order] # NoOrder
                        /\ orders[orderCall[c].order].status = RequiredOrder(orderCall[c].op)
        BY DEF Reads
      <4>3. QED BY <1>1, <3>1, <4>1, <4>2 DEF OrderRaces, CallsOK, CallOK, RequiredOrder
    <3>2. CASE d # c
      BY <1>1, <3>2 DEF Others, OrderRaces, CallsOK, CallOK
    <3>3. QED BY <3>1, <3>2
  <2>2. orderCall[d].order \in Placed
    BY <2>1 DEF Placed, CallsOK, CallOK
  <2>3. QED BY <2>1, <2>2, StatusStep DEF TargetOrder
<1>2. ASSUME NEW o \in Placed'
      PROVE  /\ orders'[o].status # "open" => AcceptedMoves("assign", o)' # {}
             /\ orders'[o].status = "open" => ~orders'[o].resolvedAt
             /\ orders'[o].status = "assigned" /\ orders'[o].resolvedAt =>
                  Cardinality(AcceptedMoves("assign", o)') >= 2
  <2>1. CASE o \notin Placed
    BY <2>1, <1>2, Grow, IssuedOrder
  <2>2. CASE o \in Placed
    <3>1. /\ orders[o].status # "open" => AcceptedMoves("assign", o) # {}
          /\ orders[o].status = "open" => ~orders[o].resolvedAt
          /\ orders[o].status = "assigned" /\ orders[o].resolvedAt =>
               Cardinality(AcceptedMoves("assign", o)) >= 2
      BY <2>2 DEF OrderRaces, ReassignedByTwo
    <3> DEFINE A == AcceptedMoves("assign", o)
               B == AcceptedMoves("assign", o)'
    <3>2. A \subseteq B /\ IsFiniteSet(A) /\ IsFiniteSet(B) /\ Cardinality(A) \in Nat /\ Cardinality(B) \in Nat
          /\ Cardinality(A) <= Cardinality(B)
      <4>1. A \subseteq B
        BY AcceptedGrow
      <4>2. IsFiniteSet(A) /\ Cardinality(A) \in Nat
        BY AcceptedFinite
      <4>3. B \subseteq Context
        BY OrderClients DEF AcceptedMoves
      <4>4. IsFiniteSet(B) /\ Cardinality(B) \in Nat
        BY <4>3, StoreContexts, FS_Subset, FS_CardinalityType
      <4> HIDE DEF A, B
      <4>5. QED BY <4>1, <4>2, <4>4, FS_Subset
    <3>3. CASE orders'[o] = orders[o]
      <4> HIDE DEF B
      <4>1. QED BY <3>1, <3>2, <3>3 DEF B
    <3>4. CASE /\ Writes(c) /\ orderCall[c].order = o /\ orderCall[c].op = "resolve"
               /\ orders'[o].status = "resolved"
      <4>1. orders[o].status # "open"
        BY <3>4 DEF OrderRaces, Writes
      <4>2. QED BY <3>1, <3>2, <3>4, <4>1
    <3>5. CASE /\ Writes(c) /\ orderCall[c].order = o /\ orderCall[c].op = "assign"
               /\ orders'[o].status = "assigned"
               /\ orders'[o].resolvedAt <=> orders[o].resolvedAt
      <4>1. c \in B \ A
        BY <3>5, AcceptedGrow
      <4>2. orders[o].resolvedAt => Cardinality(B) >= 2
        <5> SUFFICES ASSUME orders[o].resolvedAt PROVE Cardinality(B) >= 2
          OBVIOUS
        <5>1. A # {}
          BY <3>1
        <5> HIDE DEF A, B
        <5>2. Cardinality(A) # 0
          BY <3>2, <5>1, FS_EmptySet
        <5>3. A \cup {c} \subseteq B /\ Cardinality(A \cup {c}) = Cardinality(A) + 1
              /\ IsFiniteSet(A \cup {c})
          BY <3>2, <4>1, FS_AddElement
        <5>4. Cardinality(A \cup {c}) <= Cardinality(B)
          BY <3>2, <5>3, FS_Subset
        <5>5. QED BY <3>2, <5>2, <5>3, <5>4
      <4>3. QED BY <3>5, <4>1, <4>2
    <3>6. QED BY <2>2, <3>3, <3>4, <3>5, StatusStep DEF TargetOrder
  <2>3. QED BY <2>1, <2>2
<1>3. QED BY <1>1, <1>2 DEF OrderRaces, ReassignedByTwo

LEMMA NextOrderRaces ==
  TypeOK /\ CallsOK /\ OrderRaces /\ [OrderNext]_vars => OrderRaces'
<1> SUFFICES ASSUME TypeOK, CallsOK, OrderRaces, [OrderNext]_vars PROVE OrderRaces'
  OBVIOUS
<1>1. CASE OrderNext
  <2>1. PICK c \in OrderClient : Others(c) /\ Effect(c)
    BY <1>1, StepEffect DEF TypeOK
  <2>2. QED BY <2>1, NextRaces DEF TypeOK
<1>2. CASE UNCHANGED vars
  <2>1. /\ UNCHANGED <<orders, orderPc, orderCall, orderReply>>
        /\ Placed' = Placed /\ \A o : AcceptedMoves("assign", o)' = AcceptedMoves("assign", o)
    BY <1>2 DEF vars, orderVars, Placed, AcceptedMoves
  <2>2. QED BY <2>1 DEF OrderRaces, ReassignedByTwo
<1>3. QED BY <1>1, <1>2

\* An order that was resolved and reads "assigned" again was assigned twice:
\* the reads and the writes of two assignments raced.
THEOREM RacesReassign == Spec => []ReassignedByTwo
<1>1. Init => TypeOK /\ CallsOK /\ OrderRaces
  BY InitType, InitRaces DEF TypeOK
<1>2. OrderRaces => ReassignedByTwo
  BY DEF OrderRaces
<1>3. QED BY <1>1, <1>2, NextType, NextOrderRaces, PTL DEF Spec, vars

\* No step resolves an order that is open.
THEOREM AssignedFirst == Spec => NoSkippedAssignment
<1> DEFINE Kept == \A o \in OrderId :
                     orders[o] # NoOrder /\ orders[o].status = "open" =>
                       orders'[o].status \in {"open", "assigned"}
<1>1. Init => TypeOK /\ CallsOK /\ OrderRaces
  BY InitType, InitRaces DEF TypeOK
<1>2. TypeOK /\ CallsOK /\ OrderRaces /\ [OrderNext]_vars => [Kept]_orderVars
  <2> SUFFICES ASSUME TypeOK, CallsOK, OrderRaces, OrderNext,
                      NEW o \in OrderId, orders[o] # NoOrder, orders[o].status = "open"
               PROVE  orders'[o].status \in {"open", "assigned"}
    BY DEF vars, orderVars
  <2>1. PICK c \in OrderClient : Others(c) /\ Effect(c)
    BY StepEffect DEF TypeOK
  <2>2. o \in Placed
    BY DEF Placed
  <2>3. Writes(c) /\ orderCall[c].order = o => orderCall[c].op # "resolve"
    BY DEF Writes, OrderRaces
  <2>4. QED BY <2>1, <2>2, <2>3, StatusStep DEF TypeOK, TargetOrder
<1>3. QED BY <1>1, <1>2, NextType, NextOrderRaces, PTL DEF Spec, vars, NoSkippedAssignment

-------------------------------------------------------------------------------
(* Orphans: every high finding without an order has a request to answer for it *)

Unseeded == {f \in Orphans : SeedFindings[f] = NoFinding}

\* The requests that have stored a high finding and are on their way to its
\* order, and those answered 500.
Blamed ==
  {c \in OrderClient :
     \/ orderPc[c] \in {"recorded", "number", "order"} /\ Generates(orderCall[c].item)
     \/ orderReply[c] = 500}

OrphansHaveRequests == Cardinality(Unseeded) <= Cardinality(Blamed)

LEMMA OrphansFinite ==
  /\ IsFiniteSet(Unseeded) /\ Cardinality(Unseeded) \in Nat
  /\ IsFiniteSet(Blamed) /\ Cardinality(Blamed) \in Nat
<1>1. Unseeded \subseteq 1..MaxFindings /\ Blamed \subseteq Context
  BY OrderClients DEF Unseeded, Orphans, Recorded, FindingId, Blamed
<1>2. IsFiniteSet(1..MaxFindings)
  BY OrderSeeds, FS_Interval
<1>3. QED BY <1>1, <1>2, StoreContexts, FS_Subset, FS_CardinalityType

\* The same of the sets after a step: no assumption mentions the state.
LEMMA OrphansFiniteNext ==
  /\ IsFiniteSet(Unseeded') /\ Cardinality(Unseeded') \in Nat
  /\ IsFiniteSet(Blamed') /\ Cardinality(Blamed') \in Nat
<1>1. Unseeded' \subseteq 1..MaxFindings /\ Blamed' \subseteq Context
  BY OrderClients DEF Unseeded, Orphans, Recorded, FindingId, Blamed
<1>2. IsFiniteSet(1..MaxFindings)
  BY OrderSeeds, FS_Interval
<1>3. QED BY <1>1, <1>2, StoreContexts, FS_Subset, FS_CardinalityType

LEMMA InitOrphans == Init => OrphansHaveRequests
<1> SUFFICES ASSUME Init PROVE OrphansHaveRequests
  OBVIOUS
<1>1. Unseeded = {}
  BY DEF Init, OrderInit, OrderInitFrom, Unseeded, Orphans, Recorded
<1>2. Cardinality(Unseeded) = 0
  BY <1>1, FS_EmptySet
<1>3. QED BY <1>2, OrphansFinite DEF OrphansHaveRequests

\* Whose order a step places, and of which finding.
LEMMA OrderOfStep ==
  ASSUME OrderTypeOK, CallsOK, NEW c \in OrderClient, Effect(c), NEW f
  PROVE  OrderOf(f)' = IF Issues(c) /\ f = orderCall[c].finding
                         THEN OrderOf(f) \cup {orderCall[c].order} ELSE OrderOf(f)
<1>1. /\ Placed' = IF Issues(c) THEN Placed \cup {orderCall[c].order} ELSE Placed
      /\ \A o \in Placed : orders'[o].finding = orders[o].finding
  BY Grow
<1>2. Issues(c) => /\ orders'[orderCall[c].order].finding = orderCall[c].finding
                   /\ orderCall[c].order \notin Placed
  BY IssuedOrder
<1>3. QED BY <1>1, <1>2 DEF OrderOf

\* The one that stores a high finding answers for it.
LEMMA RecordsOrphans ==
  ASSUME OrderTypeOK, CallsOK, NumbersInv, OrphansHaveRequests,
         NEW c \in OrderClient, Others(c), Records(c)
  PROVE  OrphansHaveRequests'
<1> DEFINE f == orderCall[c].finding
           item == orderCall[c].item
<1>1. /\ f \in FindingId /\ item \in Finding /\ findings'[f] = item
      /\ Recorded' = Recorded \cup {f} /\ f \notin Recorded
      /\ \A g \in Recorded : findings'[g] = findings[g]
      /\ \A g : OrderOf(g)' = OrderOf(g)
      /\ OrderOf(f) = {} /\ SeedFindings[f] = NoFinding
  <2>1. Effect(c) /\ ~Issues(c) /\ CallOK(c) /\ Holds(c) /\ UnderWay(c)
    BY DEF Effect, Records, Issues, CallsOK, NumbersInv, HoldsOK, UnderWay
  <2>2. /\ f \in FindingId /\ item \in Finding /\ f \notin Recorded
        /\ SeedFindingCounter < f /\ \A o \in Placed : orders[o].finding # f
    BY <2>1 DEF Records, CallOK, Holds
  <2>3. SeedFindings[f] = NoFinding
    BY <2>2, OrderSeeds DEF FindingId
  <2>4. OrderOf(f) = {} /\ \A g : OrderOf(g)' = OrderOf(g)
    BY <2>1, <2>2, OrderOfStep DEF OrderOf
  <2>5. findings'[f] = item
    BY <2>2 DEF Records, OrderTypeOK
  <2>6. QED BY <2>1, <2>2, <2>3, <2>4, <2>5, Grow
<1>2. c \notin Blamed
  BY DEF Records, CallsOK, CallOK, Blamed
<1>3. \A d \in OrderClient \ {c} :
        orderPc'[d] = orderPc[d] /\ orderCall'[d] = orderCall[d] /\ orderReply'[d] = orderReply[d]
  BY DEF Others
<1>4. orderPc'[c] = "recorded" /\ orderCall'[c] = orderCall[c] /\ orderReply'[c] # 500
  BY DEF Records, CallsOK, CallOK
<1> HIDE DEF f
<1>5. CASE Generates(item)
  <2>1. Unseeded' = Unseeded \cup {f} /\ f \notin Unseeded
    BY <1>1, <1>5 DEF Unseeded, Orphans, Generates
  <2>2. Blamed' = Blamed \cup {c}
    BY <1>3, <1>4, <1>5 DEF Blamed
  <2>3. Cardinality(Unseeded') = Cardinality(Unseeded) + 1
    BY <2>1, OrphansFinite, FS_AddElement
  <2>4. Cardinality(Blamed') = Cardinality(Blamed) + 1
    BY <1>2, <2>2, OrphansFinite, FS_AddElement
  <2>5. QED BY <2>3, <2>4, OrphansFinite DEF OrphansHaveRequests
<1>6. CASE ~Generates(item)
  <2>1. Unseeded' = Unseeded
    BY <1>1, <1>6 DEF Unseeded, Orphans, Generates
  <2>2. Blamed' = Blamed
    BY <1>2, <1>3, <1>4, <1>6 DEF Blamed
  <2>3. QED BY <2>1, <2>2 DEF OrphansHaveRequests
<1>7. QED BY <1>5, <1>6

\* The one that places the order no longer has to.
LEMMA IssuesOrphans ==
  ASSUME OrderTypeOK, CallsOK, NumbersInv, OrphansHaveRequests,
         NEW c \in OrderClient, Others(c), Issues(c)
  PROVE  OrphansHaveRequests'
<1>0. PICK f \in FindingId : f = orderCall[c].finding
  BY DEF Issues, CallsOK, CallOK
<1>1. /\ f \in Recorded /\ findings[f].severity = "high" /\ SeedFindings[f] = NoFinding
      /\ OrderOf(f) = {} /\ OrderOf(f)' # {}
      /\ Recorded' = Recorded
      /\ \A g \in Recorded : findings'[g] = findings[g]
      /\ \A g : g # f => OrderOf(g)' = OrderOf(g)
  <2>1. Effect(c) /\ ~Records(c) /\ Holds(c) /\ UnderWay(c)
    BY DEF Effect, Records, Issues, NumbersInv, HoldsOK, UnderWay
  <2>2. SeedFindingCounter < f /\ \A o \in Placed : orders[o].finding # f
    BY <1>0, <2>1 DEF Holds
  <2>3. f \in Recorded /\ findings[f].severity = "high"
    <3>1. f \in Recorded /\ findings[f] = [tower |-> orderCall[c].item.tower, severity |-> "high"]
      BY <1>0, IssuedOrder
    <3>2. QED BY <3>1
  <2>4. SeedFindings[f] = NoFinding
    BY <2>2, OrderSeeds DEF FindingId
  <2>5. OrderOf(f) = {}
    BY <2>2 DEF OrderOf
  <2>6. OrderOf(f)' # {} /\ \A g : g # f => OrderOf(g)' = OrderOf(g)
    <3>1. \A g : OrderOf(g)' = IF g = f THEN OrderOf(g) \cup {orderCall[c].order} ELSE OrderOf(g)
      BY <1>0, <2>1, OrderOfStep
    <3>2. QED BY <3>1
  <2>7. QED BY <2>1, <2>2, <2>3, <2>4, <2>5, <2>6, Grow
<1>2. c \in Blamed
  BY DEF Issues, CallsOK, CallOK, Blamed
<1>3. \A d \in OrderClient \ {c} :
        orderPc'[d] = orderPc[d] /\ orderCall'[d] = orderCall[d] /\ orderReply'[d] = orderReply[d]
  BY DEF Others
<1>4. orderPc'[c] = "generated" /\ orderReply'[c] # 500
  BY DEF Issues, CallsOK, CallOK
<1>5. Unseeded' = Unseeded \ {f} /\ f \in Unseeded
  BY <1>1 DEF Unseeded, Orphans
<1>6. Blamed' = Blamed \ {c}
  BY <1>3, <1>4 DEF Blamed
<1>7. Cardinality(Unseeded') = Cardinality(Unseeded) - 1
  BY <1>5, OrphansFinite, FS_RemoveElement
<1>8. Cardinality(Blamed') = Cardinality(Blamed) - 1
  BY <1>2, <1>6, OrphansFinite, FS_RemoveElement
<1>9. QED BY <1>7, <1>8, OrphansFinite DEF OrphansHaveRequests

\* Nobody else makes an orphan, and one that answers for its finding goes on
\* to the order or fails with 500: a conflict would need a number that is taken.
LEMMA OtherOrphans ==
  ASSUME OrderTypeOK, CallsOK, NumbersInv, OrphansHaveRequests,
         NEW c \in OrderClient, Others(c), Effect(c), ~Records(c), ~Issues(c)
  PROVE  OrphansHaveRequests'
<1>1. Unseeded' = Unseeded
  <2>1. /\ Recorded' = Recorded
        /\ \A g \in Recorded : findings'[g] = findings[g]
        /\ \A g : OrderOf(g)' = OrderOf(g)
    BY Grow, OrderOfStep
  <2>2. QED BY <2>1 DEF Unseeded, Orphans
<1>2. Blamed \subseteq Blamed'
  <2>1. c \in Blamed => c \in Blamed'
    <3>1. CASE Refused(c)
      <4>1. orderPc[c] = "order" => orderReply'[c] = 500
        <5>1. orderPc[c] = "order" => orderCall[c].order \in OrderId /\ orderCall[c].order \notin Placed
          BY DEF NumbersInv, HoldsOK, Holds, CallsOK, CallOK
        <5>2. QED BY <3>1, <5>1 DEF Refused, Placed
      <4>2. c \in Blamed => orderPc[c] = "order"
        BY <3>1 DEF Refused, Blamed, CallsOK, CallOK
      <4>3. QED BY <4>1, <4>2 DEF Blamed
    <3>2. CASE Numbers(c)
      <4>1. orderCall'[c].item = orderCall[c].item
        BY <3>2 DEF Numbers, OrderTypeOK
      <4>2. QED BY <3>2, <4>1 DEF Numbers, Blamed
    <3>3. CASE FilesOne(c)
      BY <3>3 DEF FilesOne, Files, Blamed, CallsOK, CallOK
    <3>4. CASE ~Refused(c) /\ ~Numbers(c) /\ ~FilesOne(c)
      BY <3>4 DEF Effect, Takes, Asks, Reads, Writes, Stands, Blamed, CallsOK, CallOK
    <3>5. QED BY <3>1, <3>2, <3>3, <3>4
  <2>2. \A d \in OrderClient \ {c} : d \in Blamed => d \in Blamed'
    BY DEF Others, Blamed
  <2>3. QED BY <2>1, <2>2 DEF Blamed
<1>3. Cardinality(Blamed) <= Cardinality(Blamed')
  BY <1>2, OrphansFiniteNext, FS_Subset
<1>4. QED BY <1>1, <1>3, OrphansFinite, OrphansFiniteNext DEF OrphansHaveRequests

LEMMA NextOrphans ==
  TypeOK /\ CallsOK /\ NumbersInv /\ OrphansHaveRequests /\ [OrderNext]_vars => OrphansHaveRequests'
<1> SUFFICES ASSUME TypeOK, CallsOK, NumbersInv, OrphansHaveRequests, [OrderNext]_vars
             PROVE  OrphansHaveRequests'
  OBVIOUS
<1>1. CASE OrderNext
  <2>1. PICK c \in OrderClient : Others(c) /\ Effect(c)
    BY <1>1, StepEffect DEF TypeOK
  <2>2. QED BY <2>1, RecordsOrphans, IssuesOrphans, OtherOrphans DEF TypeOK
<1>2. CASE UNCHANGED vars
  <2>1. Unseeded' = Unseeded /\ Blamed' = Blamed
    BY <1>2 DEF vars, orderVars, Unseeded, Orphans, Recorded, OrderOf, Placed, Blamed
  <2>2. QED BY <2>1 DEF OrphansHaveRequests
<1>3. QED BY <1>1, <1>2

\* A high finding has its order, was there from the start, or is counted by a
\* request that is under way or was answered 500: never 201.
THEOREM OrphansFail == Spec => []OrphansAreFailures
<1>1. Init => TypeOK /\ CallsOK /\ NumbersInv /\ OrphansHaveRequests
  BY InitType, InitNumbers, InitOrphans DEF TypeOK
<1>2. OrphansHaveRequests => OrphansAreFailures
  <2> DEFINE All == {c \in OrderClient :
                       orderPc[c] \in {"recorded", "number", "order"} \/ orderReply[c] = 500}
  <2>1. Blamed \subseteq All /\ All \subseteq Context
    BY OrderClients DEF Blamed
  <2>2. IsFiniteSet(All) /\ Cardinality(All) \in Nat
    BY <2>1, StoreContexts, FS_Subset, FS_CardinalityType
  <2> HIDE DEF All
  <2>3. Cardinality(Blamed) <= Cardinality(All)
    BY <2>1, <2>2, FS_Subset
  <2>4. OrphansHaveRequests => Cardinality(Unseeded) <= Cardinality(All)
    BY <2>2, <2>3, OrphansFinite DEF OrphansHaveRequests
  <2>5. QED BY <2>4 DEF All, Unseeded, OrphansAreFailures
<1>3. QED BY <1>1, <1>2, NextType, NextNumbers, NextOrphans, PTL DEF Spec, vars

-------------------------------------------------------------------------------
(* Trails: the events under a tower against what happened to it                *)

About(label, t) ==
  {c \in OrderClient :
     orderPc[c] = label /\ orderCall[c].item # NoFinding /\ orderCall[c].item.tower = t}
Moves(op, t) ==
  {c \in OrderClient :
     orderReply[c] = 200 /\ orderCall[c].op = op /\ orders[orderCall[c].order].tower = t}
Found(t)   == {f \in Recorded : SeedFindings[f] = NoFinding /\ findings[f].tower = t}
Ordered(t) == {o \in Placed : orders[o].tower = t}

TrailOK(t) ==
  /\ Count(t, "finding_recorded") + Cardinality(About("recorded", t)) = Cardinality(Found(t))
  /\ Count(t, "order_generated") + Cardinality(About("generated", t)) = Cardinality(Ordered(t))
  /\ Count(t, "order_assigned") = Cardinality(Moves("assign", t))
  /\ Count(t, "order_resolved") = Cardinality(Moves("resolve", t))

TrailsOK == \A t \in Tower : TrailOK(t)

LEMMA TrailsAreTrails == AuditTrailsOrders <=> TrailsOK
BY DEF AuditTrailsOrders, TrailsOK, TrailOK, About, Moves, Found, Ordered

One(b) == IF b THEN 1 ELSE 0

\* Two sets that differ in one element at most.
LEMMA OneMoves ==
  ASSUME NEW S, NEW T, NEW x, IsFiniteSet(S), S \ {x} = T \ {x}
  PROVE  /\ Cardinality(S) \in Nat /\ Cardinality(T) \in Nat
         /\ Cardinality(T) + One(x \in S) = Cardinality(S) + One(x \in T)
<1>1. IsFiniteSet(T)
  <2>1. T \subseteq S \cup {x} /\ IsFiniteSet(S \cup {x})
    BY FS_AddElement
  <2>2. QED BY <2>1, FS_Subset
<1>2. /\ Cardinality(S \ {x}) = IF x \in S THEN Cardinality(S) - 1 ELSE Cardinality(S)
      /\ Cardinality(T \ {x}) = IF x \in T THEN Cardinality(T) - 1 ELSE Cardinality(T)
  BY <1>1, FS_RemoveElement
<1>3. Cardinality(S) \in Nat /\ Cardinality(T) \in Nat
  BY <1>1, FS_CardinalityType
<1>4. Cardinality(S \ {x}) = Cardinality(T \ {x})
  OBVIOUS
<1>5. QED BY <1>2, <1>3, <1>4 DEF One

LEMMA SetsFinite ==
  ASSUME NEW t, NEW l, NEW op
  PROVE  /\ IsFiniteSet(About(l, t)) /\ IsFiniteSet(Moves(op, t))
         /\ IsFiniteSet(Found(t)) /\ IsFiniteSet(Ordered(t))
<1>1. About(l, t) \subseteq Context /\ Moves(op, t) \subseteq Context
  BY OrderClients DEF About, Moves
<1>2. Found(t) \subseteq 1..MaxFindings /\ Ordered(t) \subseteq 1..MaxOrders
  BY DEF Found, Ordered, Recorded, Placed, FindingId, OrderId
<1>3. IsFiniteSet(1..MaxFindings) /\ IsFiniteSet(1..MaxOrders)
  BY OrderSeeds, FS_Interval
<1>4. QED BY <1>1, <1>2, <1>3, StoreContexts, FS_Subset

\* TowerAudit.Add adds one to the count of its key and event and to no other.
LEMMA AddEventCount ==
  ASSUME StoreTypeOK, NEW key \in AuditKey, NEW event \in EventType, AddEvent(key, event),
         NEW k \in AuditKey, NEW e
  PROVE  Count(k, e)' = IF k = key /\ e = event THEN Count(k, e) + 1 ELSE Count(k, e)
<1>1. towerAudit[key] \in Seq(EventType)
  BY DEF StoreTypeOK
<1>2. towerAudit'[k] = IF k = key THEN Append(towerAudit[k], event) ELSE towerAudit[k]
  BY DEF StoreTypeOK, AddEvent
<1>3. Count(k, e)' = Cardinality(Places(towerAudit'[k], e)) /\ Count(k, e) = Cardinality(Places(towerAudit[k], e))
  BY DEF Count, Places
<1>4. CASE k = key
  BY <1>1, <1>2, <1>3, <1>4, AppendCount
<1>5. CASE k # key
  BY <1>2, <1>3, <1>5
<1>6. QED BY <1>4, <1>5

LEMMA CountStep ==
  ASSUME StoreTypeOK, NEW c \in OrderClient, Effect(c), NEW t \in Tower, NEW e \in EventType
  PROVE  /\ Count(t, e) \in Nat
         /\ Count(t, e)' = Count(t, e) + One(Files(c, t, e))
<1>1. t \in AuditKey /\ towerAudit[t] \in Seq(EventType)
  BY DEF StoreTypeOK, AuditKey
<1>2. Count(t, e) \in Nat
  <2>1. Count(t, e) = Cardinality(Places(towerAudit[t], e))
    BY DEF Count, Places
  <2>2. QED BY <1>1, <2>1, PlacesFinite
<1>3. CASE FilesOne(c)
  <2>1. PICK key \in Tower, event \in EventType : Files(c, key, event)
    BY <1>3 DEF FilesOne
  <2>2. Files(c, t, e) <=> t = key /\ e = event
    BY <2>1 DEF Files
  <2>3. key \in AuditKey /\ AddEvent(key, event)
    BY <2>1 DEF Files, AuditKey
  <2>4. Count(t, e)' = IF t = key /\ e = event THEN Count(t, e) + 1 ELSE Count(t, e)
    BY <1>1, <2>3, AddEventCount
  <2>5. QED BY <1>2, <2>2, <2>4 DEF One
<1>4. CASE ~FilesOne(c)
  <2>1. UNCHANGED towerAudit
    BY <1>4 DEF Effect, Refused, Takes, Records, Numbers, Issues, Asks, Reads, Writes, Stands
  <2>2. ~Files(c, t, e)
    BY <1>4 DEF FilesOne
  <2>3. Count(t, e)' = Count(t, e)
    BY <2>1 DEF Count
  <2>4. QED BY <1>2, <2>2, <2>3 DEF One
<1>5. QED BY <1>3, <1>4

LEMMA InitTrails == Init => TrailsOK
<1> SUFFICES ASSUME Init, NEW t \in Tower PROVE TrailOK(t)
  BY DEF TrailsOK
<1>1. /\ \A l \in {"recorded", "generated"} : About(l, t) = {}
      /\ \A op : Moves(op, t) = {}
      /\ Found(t) = {} /\ Ordered(t) = {}
  BY DEF Init, OrderInit, OrderInitFrom, About, Moves, Found, Ordered, Recorded, Placed
<1>2. \A e : Count(t, e) = Cardinality({})
  <2>1. towerAudit[t] = <<>>
    BY DEF Init, StoreInit, AuditKey
  <2>2. \A e : {i \in DOMAIN towerAudit[t] : towerAudit[t][i] = e} = {}
    BY <2>1
  <2>3. QED BY <2>2 DEF Count
<1>3. Cardinality({}) = 0
  BY FS_EmptySet
<1>4. QED BY <1>1, <1>2, <1>3 DEF TrailOK

\* Only the handler that moves joins or leaves a set of handlers.
LEMMA HandlersStep ==
  ASSUME OrderTypeOK, CallsOK, NEW c \in OrderClient, Others(c), Effect(c), NEW t \in Tower,
         NEW l, NEW op
  PROVE  /\ About(l, t) \ {c} = About(l, t)' \ {c}
         /\ Moves(op, t) \ {c} = Moves(op, t)' \ {c}
<1>1. \A d \in OrderClient \ {c} :
        orderPc'[d] = orderPc[d] /\ orderCall'[d] = orderCall[d] /\ orderReply'[d] = orderReply[d]
  BY DEF Others
<1>2. About(l, t) \ {c} = About(l, t)' \ {c}
  BY <1>1 DEF About
<1>3. ASSUME NEW d \in OrderClient, orderReply[d] = 200
      PROVE  orders'[orderCall[d].order].tower = orders[orderCall[d].order].tower
  BY <1>3, StoresStep DEF CallsOK, CallOK
<1>4. Moves(op, t) \ {c} = Moves(op, t)' \ {c}
  BY <1>1, <1>3 DEF Moves
<1>5. QED BY <1>2, <1>4

\* A store grows by the one thing that is added to it.
LEMMA FoundStep ==
  ASSUME OrderTypeOK, CallsOK, NumbersInv, NEW c \in OrderClient, Effect(c), NEW t \in Tower
  PROVE  /\ Cardinality(Found(t)) \in Nat
         /\ Cardinality(Found(t)') = Cardinality(Found(t)) + One(Records(c) /\ orderCall[c].item.tower = t)
<1> DEFINE adds == Records(c) /\ orderCall[c].item.tower = t
<1>1. /\ Recorded' = IF Records(c) THEN Recorded \cup {orderCall[c].finding} ELSE Recorded
      /\ \A g \in Recorded : findings'[g] = findings[g]
  BY Grow
<1>2. ASSUME Records(c)
      PROVE  /\ orderCall[c].finding \notin Recorded
             /\ findings'[orderCall[c].finding] = orderCall[c].item
             /\ SeedFindings[orderCall[c].finding] = NoFinding
  <2>1. orderCall[c].finding \in FindingId /\ Holds(c) /\ UnderWay(c)
    BY <1>2 DEF Records, CallsOK, CallOK, NumbersInv, HoldsOK, UnderWay
  <2>2. findings'[orderCall[c].finding] = orderCall[c].item
    BY <1>2, <2>1 DEF Records, OrderTypeOK
  <2>3. QED BY <1>2, <2>1, <2>2, OrderSeeds DEF Holds, Records, FindingId
<1>3. Cardinality(Found(t)) \in Nat
  BY SetsFinite, FS_CardinalityType
<1>4. CASE adds
  <2>1. Found(t)' = Found(t) \cup {orderCall[c].finding} /\ orderCall[c].finding \notin Found(t)
    BY <1>1, <1>2, <1>4 DEF Found
  <2>2. Cardinality(Found(t)') = Cardinality(Found(t)) + 1
    BY <2>1, SetsFinite, FS_AddElement
  <2>3. QED BY <1>3, <1>4, <2>2 DEF One
<1>5. CASE ~adds
  <2>1. Found(t)' = Found(t)
    BY <1>1, <1>2, <1>5 DEF Found
  <2>2. QED BY <1>3, <1>5, <2>1 DEF One
<1>6. QED BY <1>4, <1>5

LEMMA OrderedStep ==
  ASSUME OrderTypeOK, CallsOK, NEW c \in OrderClient, Effect(c), NEW t \in Tower
  PROVE  /\ Cardinality(Ordered(t)) \in Nat
         /\ Cardinality(Ordered(t)') = Cardinality(Ordered(t)) + One(Issues(c) /\ orderCall[c].item.tower = t)
<1> DEFINE adds == Issues(c) /\ orderCall[c].item.tower = t
<1>1. /\ Placed' = IF Issues(c) THEN Placed \cup {orderCall[c].order} ELSE Placed
      /\ \A o \in Placed : orders'[o].tower = orders[o].tower
  BY Grow
<1>2. Issues(c) => /\ orderCall[c].order \notin Placed
                   /\ orders'[orderCall[c].order].tower = orderCall[c].item.tower
  BY IssuedOrder
<1>3. Cardinality(Ordered(t)) \in Nat
  BY SetsFinite, FS_CardinalityType
<1>4. CASE adds
  <2>1. Ordered(t)' = Ordered(t) \cup {orderCall[c].order} /\ orderCall[c].order \notin Ordered(t)
    BY <1>1, <1>2, <1>4 DEF Ordered
  <2>2. Cardinality(Ordered(t)') = Cardinality(Ordered(t)) + 1
    BY <2>1, SetsFinite, FS_AddElement
  <2>3. QED BY <1>3, <1>4, <2>2 DEF One
<1>5. CASE ~adds
  <2>1. Ordered(t)' = Ordered(t)
    BY <1>1, <1>2, <1>5 DEF Ordered
  <2>2. QED BY <1>3, <1>5, <2>1 DEF One
<1>6. QED BY <1>4, <1>5

\* Who joins and who leaves: what is added is about to be filed, what is filed
\* is no longer about to be.
LEMMA AboutStep ==
  ASSUME OrderTypeOK, CallsOK, NEW c \in OrderClient, Effect(c), NEW t \in Tower
  PROVE  /\ One(Files(c, t, "finding_recorded")) + One(c \in About("recorded", t)') =
              One(c \in About("recorded", t)) + One(Records(c) /\ orderCall[c].item.tower = t)
         /\ One(Files(c, t, "order_generated")) + One(c \in About("generated", t)') =
              One(c \in About("generated", t)) + One(Issues(c) /\ orderCall[c].item.tower = t)
<1>1. \A l \in {"recorded", "generated"} :
        /\ c \in About(l, t) <=> orderPc[c] = l /\ orderCall[c].item.tower = t
        /\ c \in About(l, t)' <=> orderPc'[c] = l /\ orderCall'[c].item # NoFinding /\ orderCall'[c].item.tower = t
  BY NotStored DEF About, CallsOK, CallOK
<1>2. CASE Records(c)
  <2>1. /\ ~Issues(c) /\ ~Files(c, t, "finding_recorded") /\ ~Files(c, t, "order_generated")
        /\ orderPc[c] = "finding" /\ orderPc'[c] = "recorded" /\ orderCall'[c] = orderCall[c]
        /\ orderCall[c].item # NoFinding
    BY <1>2, NotStored DEF Records, Issues, Files, CallsOK, CallOK
  <2>2. QED BY <1>1, <1>2, <2>1 DEF One
<1>3. CASE Issues(c)
  <2>1. /\ ~Records(c) /\ ~Files(c, t, "finding_recorded") /\ ~Files(c, t, "order_generated")
        /\ orderPc[c] = "order" /\ orderPc'[c] = "generated" /\ orderCall'[c] = orderCall[c]
        /\ orderCall[c].item # NoFinding
    BY <1>3, NotStored DEF Records, Issues, Files, CallsOK, CallOK
  <2>2. QED BY <1>1, <1>3, <2>1 DEF One
<1>4. CASE FilesOne(c)
  <2>1. PICK key \in Tower, event \in EventType : Files(c, key, event)
    BY <1>4 DEF FilesOne
  <2>2. ~Records(c) /\ ~Issues(c) /\ orderPc'[c] \notin {"recorded", "generated"}
    BY <2>1 DEF Files, Records, Issues
  <2>3. /\ Files(c, t, "finding_recorded") <=> orderPc[c] = "recorded" /\ orderCall[c].item.tower = t
        /\ Files(c, t, "order_generated") <=> orderPc[c] = "generated" /\ orderCall[c].item.tower = t
    <3>1. orderPc[c] = "audit" => event \notin {"finding_recorded", "order_generated"}
                                  /\ OrderEventOf(orderCall[c].op) \notin {"finding_recorded", "order_generated"}
      BY <2>1 DEF Files, OrderEventOf
    <3>2. /\ Files(c, t, "finding_recorded") <=> t = key /\ "finding_recorded" = event
          /\ Files(c, t, "order_generated") <=> t = key /\ "order_generated" = event
      BY <2>1 DEF Files
    <3>3. QED BY <2>1, <3>1, <3>2 DEF Files
  <2>4. QED BY <1>1, <2>2, <2>3 DEF One
<1>5. CASE ~Records(c) /\ ~Issues(c) /\ ~FilesOne(c)
  <2>1. ~Files(c, t, "finding_recorded") /\ ~Files(c, t, "order_generated")
    BY <1>5 DEF FilesOne, EventType
  <2>2. \/ orderPc'[c] = orderPc[c] /\ orderCall'[c] = orderCall[c]
        \/ orderPc[c] \notin {"recorded", "generated"} /\ orderPc'[c] \notin {"recorded", "generated"}
    BY <1>5 DEF Effect, Refused, Takes, Numbers, Asks, Reads, Writes, Stands
  <2>3. \A l \in {"recorded", "generated"} : c \in About(l, t) <=> c \in About(l, t)'
    BY <1>1, <2>2 DEF About
  <2>4. QED BY <1>5, <2>1, <2>3 DEF One
<1>6. QED BY <1>2, <1>3, <1>4, <1>5 DEF Effect

LEMMA MovesStep ==
  ASSUME OrderTypeOK, CallsOK, NEW c \in OrderClient, Effect(c), NEW t \in Tower
  PROVE  /\ One(Files(c, t, "order_assigned")) + One(c \in Moves("assign", t)) = One(c \in Moves("assign", t)')
         /\ One(Files(c, t, "order_resolved")) + One(c \in Moves("resolve", t)) = One(c \in Moves("resolve", t)')
<1>1. orderReply[c] = 200 => orderPc[c] = "done"
  BY DEF CallsOK, CallOK
<1>2. CASE orderPc[c] = "audit" /\ FilesOne(c)
  <2>1. /\ orderReply'[c] = 200 /\ orderCall'[c] = orderCall[c] /\ UNCHANGED orders
        /\ orderReply[c] # 200
        /\ orderCall[c].op \in {"assign", "resolve"}
    BY <1>1, <1>2 DEF FilesOne, Files, CallsOK, CallOK
  <2>2. PICK key \in Tower, event \in EventType :
          /\ Files(c, key, event) /\ key = orders[orderCall[c].order].tower
          /\ event = OrderEventOf(orderCall[c].op)
    BY <1>2 DEF FilesOne, Files
  <2>3. \A e : Files(c, t, e) <=> t = key /\ e = event
    BY <2>2 DEF Files
  <2>4. /\ Files(c, t, "order_assigned") <=> t = key /\ orderCall[c].op = "assign"
        /\ Files(c, t, "order_resolved") <=> t = key /\ orderCall[c].op = "resolve"
    BY <2>1, <2>2, <2>3 DEF OrderEventOf
  <2>5. \A op : /\ c \notin Moves(op, t)
                /\ c \in Moves(op, t)' <=> orderCall[c].op = op /\ key = t
    BY <2>1, <2>2 DEF Moves
  <2>6. QED BY <2>4, <2>5 DEF One
<1>3. CASE ~(orderPc[c] = "audit" /\ FilesOne(c))
  <2>1. ~Files(c, t, "order_assigned") /\ ~Files(c, t, "order_resolved")
    BY <1>3 DEF FilesOne, Files, EventType
  <2>2. \/ orderReply[c] # 200 /\ orderReply'[c] # 200
        \/ orderReply'[c] = orderReply[c] /\ orderCall'[c] = orderCall[c] /\ UNCHANGED orders
    BY <1>1, <1>3
    DEF Effect, Refused, Takes, Records, Numbers, Issues, Asks, Reads, Writes, FilesOne, Files, Stands
  <2>3. \A op : c \in Moves(op, t) <=> c \in Moves(op, t)'
    BY <2>2 DEF Moves
  <2>4. QED BY <2>1, <2>3 DEF One
<1>4. QED BY <1>2, <1>3

LEMMA NextTrail ==
  ASSUME StoreTypeOK, OrderTypeOK, CallsOK, NumbersInv, NEW c \in OrderClient, Others(c), Effect(c),
         NEW t \in Tower, TrailOK(t)
  PROVE  TrailOK(t)'
<1>1. \A b : One(b) \in {0, 1}
  BY DEF One
<1>2. /\ Cardinality(About("recorded", t)) \in Nat /\ Cardinality(About("recorded", t)') \in Nat
      /\ Cardinality(About("recorded", t)') + One(c \in About("recorded", t)) =
           Cardinality(About("recorded", t)) + One(c \in About("recorded", t)')
  BY SetsFinite, HandlersStep, OneMoves
<1>3. /\ Cardinality(About("generated", t)) \in Nat /\ Cardinality(About("generated", t)') \in Nat
      /\ Cardinality(About("generated", t)') + One(c \in About("generated", t)) =
           Cardinality(About("generated", t)) + One(c \in About("generated", t)')
  BY SetsFinite, HandlersStep, OneMoves
<1>4. ASSUME NEW op
      PROVE  /\ Cardinality(Moves(op, t)) \in Nat /\ Cardinality(Moves(op, t)') \in Nat
             /\ Cardinality(Moves(op, t)') + One(c \in Moves(op, t)) =
                  Cardinality(Moves(op, t)) + One(c \in Moves(op, t)')
  BY SetsFinite, HandlersStep, OneMoves
<1>5. \A e \in EventType : Count(t, e) \in Nat /\ Count(t, e)' = Count(t, e) + One(Files(c, t, e))
  BY CountStep
<1>6. {"finding_recorded", "order_generated", "order_assigned", "order_resolved"} \subseteq EventType
  BY DEF EventType
<1>7. Count(t, "finding_recorded")' + Cardinality(About("recorded", t)') = Cardinality(Found(t)')
  BY <1>1, <1>2, <1>5, <1>6, FoundStep, AboutStep DEF TrailOK
<1>8. Count(t, "order_generated")' + Cardinality(About("generated", t)') = Cardinality(Ordered(t)')
  BY <1>1, <1>3, <1>5, <1>6, OrderedStep, AboutStep DEF TrailOK
<1>9. Count(t, "order_assigned")' = Cardinality(Moves("assign", t)')
  BY <1>1, <1>4, <1>5, <1>6, MovesStep DEF TrailOK
<1>10. Count(t, "order_resolved")' = Cardinality(Moves("resolve", t)')
  BY <1>1, <1>4, <1>5, <1>6, MovesStep DEF TrailOK
<1>11. QED BY <1>7, <1>8, <1>9, <1>10 DEF TrailOK

LEMMA NextTrails ==
  TypeOK /\ CallsOK /\ NumbersInv /\ TrailsOK /\ [OrderNext]_vars => TrailsOK'
<1> SUFFICES ASSUME TypeOK, CallsOK, NumbersInv, TrailsOK, [OrderNext]_vars PROVE TrailsOK'
  OBVIOUS
<1>1. CASE OrderNext
  <2>1. PICK c \in OrderClient : Others(c) /\ Effect(c)
    BY <1>1, StepEffect DEF TypeOK
  <2>2. QED BY <2>1, NextTrail DEF TypeOK, TrailsOK
<1>2. CASE UNCHANGED vars
  <2> SUFFICES ASSUME NEW t \in Tower PROVE TrailOK(t)'
    BY DEF TrailsOK
  <2>1. /\ \A e : Count(t, e)' = Count(t, e)
        /\ \A l : About(l, t)' = About(l, t)
        /\ \A op : Moves(op, t)' = Moves(op, t)
        /\ Found(t)' = Found(t) /\ Ordered(t)' = Ordered(t)
    BY <1>2 DEF vars, storeVars, orderVars, Count, About, Moves, Found, Ordered, Recorded, Placed
  <2>2. QED BY <2>1 DEF TrailsOK, TrailOK
<1>3. QED BY <1>1, <1>2

\* A tower's trail holds one event for each finding, order and accepted move,
\* short only of those whose handler is about to file it.
THEOREM TrailsComplete == Spec => []AuditTrailsOrders
<1>1. Init => TypeOK /\ CallsOK /\ NumbersInv /\ TrailsOK
  BY InitType, InitNumbers, InitTrails DEF TypeOK
<1>2. TrailsOK => AuditTrailsOrders
  BY TrailsAreTrails
<1>3. QED BY <1>1, <1>2, NextType, NextNumbers, NextTrails, PTL DEF Spec, vars
===============================================================================
