------------------------------- MODULE WorkOrders ------------------------------
(* Findings and work orders: InspectionService.RecordFinding, AssignOrder and  *)
(* ResolveOrder behind towerHandlers, over the findings and orders of          *)
(* InspectionStore.  RecordFinding stores a finding and then, if it is a high  *)
(* one, an order, in two critical sections; AssignOrder and ResolveOrder read  *)
(* the order's status in one critical section and write it in another.         *)
EXTENDS InspectionStore

CONSTANTS
  OrderClient,         \* the requests a behaviour may contain
  MaxFindings,         \* bound on the numbers newFindingID hands out
  MaxOrders,           \* bound on the numbers newOrderID hands out
  SeedFindings,        \* the findings newRootHandler adds, by number
  SeedFindingCounter,  \* the number seedCounters starts newFindingID from
  NoFinding, NoOrder   \* the values of numbers the store does not hold

FindingId == 1..MaxFindings
OrderId   == 1..MaxOrders

\* RecordFinding asks whether a severity is "high", never which other it is.
Severity == {"high", "other"}
WorkOrderStatus == {"open", "assigned", "resolved"}

\* The assignee is left out: AssignOrder sets it on its copy, and the store
\* never sees it.
Finding   == [tower : Tower, severity : Severity]
WorkOrder == [finding : FindingId, tower : Tower, status : WorkOrderStatus, resolvedAt : BOOLEAN]

ASSUME OrderClients == OrderClient \subseteq Context

ASSUME OrderSeeds ==
  /\ MaxFindings \in Nat /\ MaxOrders \in Nat
  /\ SeedFindingCounter \in 0..MaxFindings
  /\ NoFinding \notin Finding /\ NoOrder \notin WorkOrder
  /\ SeedFindings \in [FindingId -> Finding \cup {NoFinding}]
  /\ \A f \in FindingId : SeedFindings[f] # NoFinding => f <= SeedFindingCounter

VARIABLES
  findings, orders,                \* InspectionStore.findings and .orders
  findingSequence, orderSequence,  \* the two counters
  orderPc,                         \* where each request's goroutine stands
  orderCall,                       \* its operation, finding and order
  orderReply                       \* the HTTP status sent, 0 before

orderVars ==
  <<findings, orders, findingSequence, orderSequence, orderPc, orderCall, orderReply>>

NoOrderCall == [op |-> "none", finding |-> 0, item |-> NoFinding, order |-> 0]

OrderTypeOK ==
  /\ findings \in [FindingId -> Finding \cup {NoFinding}]
  /\ orders \in [OrderId -> WorkOrder \cup {NoOrder}]
  /\ findingSequence \in 0..MaxFindings
  /\ orderSequence \in 0..MaxOrders
  /\ orderPc \in [OrderClient ->
       {"new", "finding", "recorded", "number", "order", "generated", "get", "update", "audit", "done"}]
  /\ orderCall \in [OrderClient ->
       [ op : {"none", "record", "assign", "resolve"}, finding : 0..MaxFindings,
         item : Finding \cup {NoFinding}, order : 0..MaxOrders ]]
  /\ orderReply \in [OrderClient -> {0, 200, 201, 400, 404, 409, 500}]

OrderInitFrom(counter) ==
  /\ findings = SeedFindings
  /\ orders = [o \in OrderId |-> NoOrder]
  /\ findingSequence = counter
  /\ orderSequence = 0
  /\ orderPc = [c \in OrderClient |-> "new"]
  /\ orderCall = [c \in OrderClient |-> NoOrderCall]
  /\ orderReply = [c \in OrderClient |-> 0]

\* Mutant: newRootHandler forgets seedCounters.
OrderInitUnseeded == OrderInitFrom(0)

OrderInit == OrderInitFrom(SeedFindingCounter)

OrderGoto(c, label) == orderPc' = [orderPc EXCEPT ![c] = label]

OrderAnswer(c, code) ==
  OrderGoto(c, "done") /\ orderReply' = [orderReply EXCEPT ![c] = code]

OrderRefuse(c, err) ==
  /\ err # "ok"
  /\ OrderAnswer(c, inspectionStatusForError[err])
  /\ orderCall' = [orderCall EXCEPT ![c] = NoOrderCall]
  /\ cancelled' = cancelled \ {c}
  /\ UNCHANGED <<inspections, inspectionSequence, towerAudit,
                 findings, orders, findingSequence, orderSequence>>

-------------------------------------------------------------------------------
(* POST /api/findings                                                          *)

\* RecordFinding up to the number it takes.  It does not look the tower up.
PostFinding(c) ==
  \E complete \in BOOLEAN, item \in Finding :
    /\ orderPc[c] = "new"
    /\ \/ ~complete /\ OrderRefuse(c, "invalid")
       \/ /\ complete
          /\ findingSequence < MaxFindings
          /\ findingSequence' = findingSequence + 1
          /\ orderCall' = [orderCall EXCEPT ![c] =
               [op |-> "record", finding |-> findingSequence', item |-> item, order |-> 0]]
          /\ OrderGoto(c, "finding")
          /\ UNCHANGED <<storeVars, findings, orders, orderSequence, orderReply>>

AddFindingError(c, f) ==
  IF c \in cancelled THEN "internal" ELSE IF findings[f] # NoFinding THEN "conflict" ELSE "ok"

AddFinding(c) ==
  LET f == orderCall[c].finding IN
  /\ orderPc[c] = "finding"
  /\ \/ OrderRefuse(c, AddFindingError(c, f))
     \/ /\ AddFindingError(c, f) = "ok"
        /\ findings' = [findings EXCEPT ![f] = orderCall[c].item]
        /\ OrderGoto(c, "recorded")
        /\ UNCHANGED <<storeVars, orders, findingSequence, orderSequence, orderCall, orderReply>>

\* Mutant: every finding generates an order.
GeneratesAlways(item) == item \in Finding

Generates(item) == item.severity = "high"

AuditFinding(c) ==
  /\ orderPc[c] = "recorded"
  /\ AddEvent(orderCall[c].item.tower, "finding_recorded")
  /\ IF Generates(orderCall[c].item)
       THEN OrderGoto(c, "number") /\ UNCHANGED orderReply
       ELSE OrderAnswer(c, 201)
  /\ UNCHANGED <<inspections, inspectionSequence, cancelled,
                 findings, orders, findingSequence, orderSequence, orderCall>>

\* newOrderID: one atomic increment.
NewOrderID(c) ==
  /\ orderPc[c] = "number"
  /\ orderSequence < MaxOrders
  /\ orderSequence' = orderSequence + 1
  /\ orderCall' = [orderCall EXCEPT ![c].order = orderSequence']
  /\ OrderGoto(c, "order")
  /\ UNCHANGED <<storeVars, findings, orders, findingSequence, orderReply>>

AddOrderError(c, o) ==
  IF c \in cancelled THEN "internal" ELSE IF orders[o] # NoOrder THEN "conflict" ELSE "ok"

\* Mutant: the error of AddOrder is ignored, the client hears 201.
AddOrderRefusedSilently(c) ==
  /\ AddOrderError(c, orderCall[c].order) # "ok"
  /\ OrderAnswer(c, 201)
  /\ UNCHANGED <<storeVars, findings, orders, findingSequence, orderSequence, orderCall>>

\* If the order is not stored the request fails, and the finding stays.
AddOrderRefused(c) == OrderRefuse(c, AddOrderError(c, orderCall[c].order))

AddOrder(c) ==
  LET o == orderCall[c].order IN
  /\ orderPc[c] = "order"
  /\ \/ AddOrderRefused(c)
     \/ /\ AddOrderError(c, o) = "ok"
        /\ orders' = [orders EXCEPT ![o] =
             [ finding |-> orderCall[c].finding, tower |-> orderCall[c].item.tower,
               status |-> "open", resolvedAt |-> FALSE ]]
        /\ OrderGoto(c, "generated")
        /\ UNCHANGED <<storeVars, findings, findingSequence, orderSequence, orderCall, orderReply>>

AuditOrder(c) ==
  /\ orderPc[c] = "generated"
  /\ AddEvent(orderCall[c].item.tower, "order_generated")
  /\ OrderAnswer(c, 201)
  /\ UNCHANGED <<inspections, inspectionSequence, cancelled,
                 findings, orders, findingSequence, orderSequence, orderCall>>

-------------------------------------------------------------------------------
(* POST /api/workorders/{id}/assign and /resolve                               *)

RequiredOrder(op) == IF op = "assign" THEN "open" ELSE "assigned"
TargetOrder(op)   == IF op = "assign" THEN "assigned" ELSE "resolved"

\* Only an assignment has a body to decode.
PostOrder(c) ==
  \E op \in {"assign", "resolve"}, o \in OrderId, decoded \in BOOLEAN :
    /\ orderPc[c] = "new"
    /\ \/ op = "assign" /\ ~decoded /\ OrderRefuse(c, "invalid")
       \/ /\ decoded
          /\ orderCall' = [orderCall EXCEPT ![c] =
               [op |-> op, finding |-> 0, item |-> NoFinding, order |-> o]]
          /\ OrderGoto(c, "get")
          /\ UNCHANGED <<storeVars, findings, orders, findingSequence, orderSequence, orderReply>>

\* The errors of GetOrder and UpdateOrderStatus.
OrderError(c, o) ==
  IF c \in cancelled THEN "internal" ELSE IF orders[o] = NoOrder THEN "not_found" ELSE "ok"

\* Mutant: the order is read but its status is not looked at.
GetOrderErrorUnchecked(c) == OrderError(c, orderCall[c].order)

GetOrderError(c) ==
  LET o == orderCall[c].order IN
  IF OrderError(c, o) # "ok" THEN OrderError(c, o)
  ELSE IF orders[o].status # RequiredOrder(orderCall[c].op) THEN "transition"
  ELSE "ok"

GetOrder(c) ==
  /\ orderPc[c] = "get"
  /\ \/ OrderRefuse(c, GetOrderError(c))
     \/ /\ GetOrderError(c) = "ok"
        /\ OrderGoto(c, "update")
        /\ UNCHANGED <<storeVars, findings, orders, findingSequence, orderSequence, orderCall, orderReply>>

\* Mutant: the status is misspelt.
WrittenOrderMisspelt(order, status) ==
  [order EXCEPT !.status = IF status = "resolved" THEN "closed" ELSE status]

\* UpdateOrderStatus writes blindly, as UpdateInspectionStatus does.
WrittenOrder(order, status) ==
  [order EXCEPT !.status = status, !.resolvedAt = (status = "resolved") \/ @]

UpdateOrder(c) ==
  LET o == orderCall[c].order IN
  /\ orderPc[c] = "update"
  /\ \/ OrderRefuse(c, OrderError(c, o))
     \/ /\ OrderError(c, o) = "ok"
        /\ orders' = [orders EXCEPT ![o] = WrittenOrder(@, TargetOrder(orderCall[c].op))]
        /\ OrderGoto(c, "audit")
        /\ UNCHANGED <<storeVars, findings, findingSequence, orderSequence, orderCall, orderReply>>

OrderEventOf(op) == IF op = "assign" THEN "order_assigned" ELSE "order_resolved"

AuditOrderMove(c) ==
  /\ orderPc[c] = "audit"
  /\ AddEvent(orders[orderCall[c].order].tower, OrderEventOf(orderCall[c].op))
  /\ OrderAnswer(c, 200)
  /\ UNCHANGED <<inspections, inspectionSequence, cancelled,
                 findings, orders, findingSequence, orderSequence, orderCall>>

\* The environment: the client's connection goes away.
CancelOrder(c) ==
  /\ orderPc[c] \notin {"new", "generated", "audit", "done"}
  /\ c \notin cancelled
  /\ cancelled' = cancelled \cup {c}
  /\ UNCHANGED <<inspections, inspectionSequence, towerAudit, orderVars>>

OrderStep(c) ==
  \/ AddFinding(c) \/ AuditFinding(c) \/ NewOrderID(c) \/ AddOrder(c) \/ AuditOrder(c)
  \/ GetOrder(c) \/ UpdateOrder(c) \/ AuditOrderMove(c)

OrderNext == \E c \in OrderClient : PostFinding(c) \/ PostOrder(c) \/ OrderStep(c) \/ CancelOrder(c)

Init == StoreInit /\ OrderInit
Spec == Init /\ [][OrderNext]_<<storeVars, orderVars>>

-------------------------------------------------------------------------------
(* Properties                                                                  *)

TypeOK == StoreTypeOK /\ OrderTypeOK

Recorded == {f \in FindingId : findings[f] # NoFinding}
Placed   == {o \in OrderId : orders[o] # NoOrder}

OrderOf(f) == {o \in Placed : orders[o].finding = f}

\* Every order is the order of a stored high finding on the same tower, and a
\* finding has one order at most: the order is stored second, under a number of
\* its own, and still never without its finding.
OrdersMatchFindings ==
  /\ \A o \in Placed :
       LET f == orders[o].finding IN
       /\ f \in Recorded
       /\ findings[f] = [tower |-> orders[o].tower, severity |-> "high"]
  /\ \A f \in FindingId : Cardinality(OrderOf(f)) <= 1

\* Both counters hand out numbers that are free when they reach the store.
FreshNumbersNeverTaken ==
  \A c \in OrderClient :
    /\ orderPc[c] = "finding" => orderCall[c].finding \notin Recorded
    /\ orderPc[c] = "order"   => orderCall[c].order \notin Placed

Orphans == {f \in Recorded : findings[f].severity = "high" /\ OrderOf(f) = {}}

\* A high finding without an order is a seeded one, one whose request is still
\* under way, or one whose client was answered 500: never one answered 201.
OrphansAreFailures ==
  Cardinality({f \in Orphans : SeedFindings[f] = NoFinding}) <=
    Cardinality({c \in OrderClient :
      orderPc[c] \in {"recorded", "number", "order"} \/ orderReply[c] = 500})

\* Although both operations read and write in two critical sections, no open
\* order is ever resolved without having been assigned.
NoSkippedAssignment ==
  [][\A o \in OrderId :
       orders[o] # NoOrder /\ orders[o].status = "open" =>
         orders'[o].status \in {"open", "assigned"}]_orderVars

AcceptedMoves(op, o) ==
  {c \in OrderClient : /\ orderPc[c] = "audit" \/ orderReply[c] = 200
                       /\ orderCall[c].op = op
                       /\ orderCall[c].order = o}

\* An order that was resolved and reads "assigned" again has been assigned
\* twice: only two racing assignments reopen one.
ReassignedByTwo ==
  \A o \in Placed :
    orders[o].status = "assigned" /\ orders[o].resolvedAt =>
      Cardinality(AcceptedMoves("assign", o)) >= 2

\* A tower's trail holds one event for each of its findings, orders and accepted
\* moves, short only of those whose request is about to file it.
AuditTrailsOrders ==
  \A t \in Tower :
    LET about(label) == {c \in OrderClient : orderPc[c] = label /\ orderCall[c].item # NoFinding
                                               /\ orderCall[c].item.tower = t}
        moves(op) == {c \in OrderClient : /\ orderReply[c] = 200 /\ orderCall[c].op = op
                                          /\ orders[orderCall[c].order].tower = t}
    IN
    /\ Count(t, "finding_recorded") + Cardinality(about("recorded")) =
         Cardinality({f \in Recorded : SeedFindings[f] = NoFinding /\ findings[f].tower = t})
    /\ Count(t, "order_generated") + Cardinality(about("generated")) =
         Cardinality({o \in Placed : orders[o].tower = t})
    /\ Count(t, "order_assigned") = Cardinality(moves("assign"))
    /\ Count(t, "order_resolved") = Cardinality(moves("resolve"))

\* "A high finding generates a work order": one that is stored, and whose
\* request has been answered, has its order.
HighFindingsHaveOrders ==
  (\A c \in OrderClient : orderPc[c] \in {"new", "done"}) =>
    \A f \in Orphans : SeedFindings[f] # NoFinding
===============================================================================
