--------------------------- MODULE TowerServerProofs --------------------------
(* Proofs about TowerServer, for every set of requests, subscribers, towers    *)
(* and seeds, every capacity of a channel and every number of signals.  What   *)
(* the inspection requests do is proved in InspectionServiceProofs; here they  *)
(* are composed with the notifier, the status service and the runtime.         *)
EXTENDS TowerServer, SequenceCounts

S == INSTANCE InspectionServiceProofs

\* What is known of a subscriber: that it answers before it unregisters and is
\* closed only then, that its channel holds what was published since it came, as
\* far as it fits, and that it answered with the first of that.
FeedOK(s) ==
  LET published == feed[feedKey[s]]
      missed    == Len(published) - since[s] IN
  /\ feedPc[s] = "new" => buffer[s] = <<>>
  /\ feedPc[s] # "new" => feedKey[s] \in AuditKey /\ since[s] \in 0..Len(published)
  /\ (feedReply[s] = 0) = (feedPc[s] \in {"new", "select"})
  /\ (s \in closed) = (feedPc[s] = "done")
  /\ feedPc[s] = "select" =>
       /\ Len(buffer[s]) = IF missed < SubscriberCapacity THEN missed ELSE SubscriberCapacity
       /\ \A i \in 1..Len(buffer[s]) : buffer[s][i] = published[since[s] + i]
  /\ feedReply[s] = 200 => since[s] < Len(published) /\ feedEvent[s] = published[since[s] + 1]

FeedsOK ==
  /\ feed \in [AuditKey -> Seq(EventType)]
  /\ since \in [Subscriber -> Nat]
  /\ \A id \in InspectionId : feed[id] = <<>>
  /\ \A s \in Subscriber : FeedOK(s)

StatusesOK ==
  /\ statusCall \in [StatusClient -> [id : Tower \cup {UnknownTower},
                                      status : Base!TowerStatusValue \cup {BadTowerStatus}]]
  /\ \A c \in StatusClient :
       /\ statusPc[c] = "update" => statusCall[c].status \in Base!TowerStatusValue
       /\ (statusReply[c] = 0) = (statusPc[c] # "done")

\* Somebody has asked a process to stop that is stopping, and only a server shut
\* down stops listening without an error.
RuntimeOK ==
  /\ signals > 0 \/ mainPc \in {"shutdown", "ok"} => raised > 0
  /\ errCh = "closed" => mainPc \notin {"start", "select"}

\* The events of a tower are those of the answered requests about it.
Answered(tower) == {c \in Client : reply[c] = 200 /\ inspections[call[c].id].tower = tower}

PublishedOnce == \A tower \in Tower : Len(feed[tower]) = Cardinality(Answered(tower))

\* A process that has ended without an error was serving nobody.
IdleAtExit == mainPc = "ok" => Idle

-------------------------------------------------------------------------------
(* The service of the server is the one those proofs are about                 *)

LEMMA SameSets ==
  /\ \A X : S!IsFiniteSet(X) = IsFiniteSet(X)
  /\ \A X : S!Cardinality(X) = Cardinality(X)
  /\ \A X : Service!Cardinality(X) = Cardinality(X)
  /\ \A X : Notifier!Cardinality(X) = Cardinality(X)
<1>1. \A X : S!IsFiniteSet(X) = IsFiniteSet(X)
  BY DEF S!IsFiniteSet, IsFiniteSet
<1>2. \A X : S!Cardinality(X) = Cardinality(X)
  BY DEF S!Cardinality, Cardinality
<1>3. \A X : Service!Cardinality(X) = Cardinality(X)
  BY DEF Service!Cardinality, Cardinality
<1>4. \A X : Notifier!Cardinality(X) = Cardinality(X)
  BY DEF Notifier!Cardinality, Cardinality
<1>5. QED BY <1>1, <1>2, <1>3, <1>4

\* What those proofs assume of the store's parameters holds here.
LEMMA SameSeeds == S!StoreSeeds /\ S!StoreSeedCounter /\ S!StoreTowers /\ S!StoreContexts
<1>1. S!StoreSeeds /\ S!StoreSeedCounter
  BY StoreSeeds, StoreSeedCounter
  DEF S!StoreSeeds, S!StoreSeedCounter, S!InspectionId, InspectionId,
      S!TowerInspection, TowerInspection, S!InspectionStatus, InspectionStatus
<1>2. S!StoreTowers /\ S!StoreContexts
  BY StoreTowers, StoreContexts, SameSets DEF S!StoreTowers, S!StoreContexts, S!InspectionId, InspectionId
<1>3. QED BY <1>1, <1>2

LEMMA SameParameters == S!ServiceParameters
BY ServerParameters DEF S!ServiceParameters

LEMMA SameStore ==
  /\ S!InspectionId = InspectionId /\ Notifier!InspectionId = InspectionId
  /\ S!AuditKey = AuditKey /\ Notifier!AuditKey = AuditKey
  /\ S!EventType = EventType /\ Notifier!EventType = EventType
  /\ S!TowerInspection = TowerInspection
  /\ S!StoreTypeOK <=> StoreTypeOK
  /\ S!StoreInit <=> StoreInit
  /\ \A id : S!Stored(id) <=> Stored(id)
BY DEF S!InspectionId, InspectionId, S!TowerInspection, TowerInspection, S!InspectionStatus, InspectionStatus,
  S!StoreTypeOK, StoreTypeOK, S!AuditKey, AuditKey, S!EventType, EventType, S!StoreInit, StoreInit,
  S!Stored, Stored, Notifier!InspectionId, Notifier!AuditKey, Notifier!EventType

LEMMA SameService ==
  /\ S!ServiceTypeOK <=> Service!ServiceTypeOK
  /\ S!ServiceInit <=> Service!ServiceInit
  /\ S!AuditTrailsRequests <=> Service!AuditTrailsRequests
<1>1. /\ S!ServiceTypeOK <=> Service!ServiceTypeOK
      /\ S!ServiceInit <=> Service!ServiceInit
  BY DEF S!ServiceTypeOK, Service!ServiceTypeOK, S!ServiceInit, Service!ServiceInit,
    S!NoCall, Service!NoCall, S!TowerInspection, Service!TowerInspection, S!InspectionStatus, Service!InspectionStatus
<1>2. \A id, e : S!Count(id, e) = Service!Count(id, e)
  BY SameSets DEF S!Count, Service!Count
<1>3. \A op, id : S!AcceptedOf(op, id) = Service!AcceptedOf(op, id)
  BY DEF S!AcceptedOf, Service!AcceptedOf, S!Accepted, Service!Accepted
<1>4. \A op : S!EventOf(op) = Service!EventOf(op)
  BY DEF S!EventOf, Service!EventOf
<1>5. S!AuditTrailsRequests <=> Service!AuditTrailsRequests
  BY <1>2, <1>3, <1>4, SameSets DEF S!AuditTrailsRequests, Service!AuditTrailsRequests,
    S!InspectionId, Service!InspectionId
<1>6. QED BY <1>1, <1>5

\* A step of an inspection request, with or without its notifications, is a step
\* of the service.
LEMMA SameSteps ==
  ASSUME NEW c \in Client
  PROVE  /\ Service!PostSchedule(c) => S!PostSchedule(c)
         /\ Service!PostMove(c) => S!PostMove(c)
         /\ Service!Work(c) => S!Work(c)
         /\ Service!Publish(c) => S!Publish(c)
         /\ Service!CancelClient(c) => S!CancelClient(c)
<1>1. \A id : S!FindError(c, id) = Service!FindError(c, id) /\ S!AddError(c, id) = Service!AddError(c, id)
  BY DEF S!FindError, Service!FindError, S!AddError, Service!AddError, S!Stored, Service!Stored
<1>2. S!ReadError(c) = Service!ReadError(c)
  BY <1>1 DEF S!ReadError, Service!ReadError, S!Required, Service!Required
<1>3. \A err : Service!Refuse(c, err) => S!Refuse(c, err)
  BY DEF S!Refuse, Service!Refuse, S!Answer, Service!Answer, S!Goto, Service!Goto, S!NoCall, Service!NoCall,
    S!inspectionStatusForError, Service!inspectionStatusForError
<1>4. Service!PostSchedule(c) => S!PostSchedule(c)
  BY <1>3 DEF S!PostSchedule, Service!PostSchedule, S!InspectionId, Service!InspectionId,
    S!NextDueDateRefused, Service!NextDueDateRefused, S!NewInspectionID, Service!NewInspectionID, S!Goto, Service!Goto
<1>5. Service!PostMove(c) => S!PostMove(c)
  BY DEF S!PostMove, Service!PostMove, S!InspectionId, Service!InspectionId, S!Goto, Service!Goto,
    S!storeVars, Service!storeVars
<1>6. Service!Add(c) => S!Add(c)
  BY <1>1, <1>3 DEF S!Add, Service!Add, S!AddInspection, Service!AddInspection, S!Goto, Service!Goto
<1>7. Service!Get(c) => S!Get(c)
  BY <1>2, <1>3 DEF S!Get, Service!Get, S!Goto, Service!Goto, S!storeVars, Service!storeVars
<1>8. Service!Update(c) => S!Update(c)
  BY <1>1, <1>3 DEF S!Update, Service!Update, S!UpdateInspectionStatus, Service!UpdateInspectionStatus,
    S!Written, Service!Written, S!Target, Service!Target, S!Goto, Service!Goto
<1>9. Service!Audit(c) => S!Audit(c)
  BY DEF S!Audit, Service!Audit, S!AddEvent, Service!AddEvent, S!EventOf, Service!EventOf,
    S!Answer, Service!Answer, S!Goto, Service!Goto
<1>10. Service!Publish(c) => S!Publish(c)
  BY DEF S!Publish, Service!Publish, S!Answer, Service!Answer, S!Goto, Service!Goto, S!storeVars, Service!storeVars
<1>11. Service!CancelClient(c) => S!CancelClient(c)
  BY DEF S!CancelClient, Service!CancelClient, S!serviceVars, Service!serviceVars
<1>12. QED
  BY <1>4, <1>5, <1>6, <1>7, <1>8, <1>9, <1>10, <1>11 DEF S!Work, Service!Work

\* The server's service takes a step of the service, or none.
LEMMA ServiceOrNot == ASSUME Next PROVE S!ServiceNext \/ UNCHANGED serviceVars
<1>1. CASE Arrive
  BY <1>1, SameSteps DEF Arrive, S!ServiceNext
<1>2. CASE Disconnect
  BY <1>2, SameSteps DEF Disconnect, S!ServiceNext
<1>3. CASE Run
  BY <1>3 DEF Run
<1>4. CASE \E c \in Client : Serve(c)
  BY <1>4, SameSteps DEF Serve, S!ServiceNext, S!ServiceStep
<1>5. CASE \E s \in Subscriber : Feed(s)
  BY <1>5 DEF Feed
<1>6. CASE \E c \in StatusClient : ServeStatus(c)
  BY <1>6 DEF ServeStatus
<1>7. QED BY <1>1, <1>2, <1>3, <1>4, <1>5, <1>6 DEF Next

ServiceOK == S!StoreTypeOK /\ S!ServiceTypeOK /\ S!HandlersOK /\ S!ReadStarted

LEMMA ServiceInitOK == ASSUME Init PROVE ServiceOK /\ S!AuditTrailsRequests
BY SameSeeds, SameStore, SameService, S!InitType, S!InitStarted, S!InitTrails DEF Init, ServiceOK

LEMMA ServiceNextOK ==
  ASSUME ServiceOK, Next \/ UNCHANGED vars
  PROVE  /\ ServiceOK'
         /\ S!AuditTrailsRequests => S!AuditTrailsRequests'
<1>1. CASE S!ServiceNext
  BY <1>1, SameSeeds, SameParameters, S!NextType, S!StatusStep, S!NextTrails DEF ServiceOK
<1>2. CASE UNCHANGED serviceVars
  <2>1. UNCHANGED <<inspections, inspectionSequence, towerAudit, cancelled, pc, call, reply>>
    BY <1>2 DEF serviceVars, storeVars
  <2>2. S!StoreTypeOK' /\ S!ReadStarted'
    BY <2>1 DEF ServiceOK, S!StoreTypeOK, S!ReadStarted
  <2>3. S!ServiceTypeOK' /\ S!HandlersOK'
    BY <2>1, SameSeeds, S!OthersType DEF ServiceOK, S!serviceVars, S!Stored
  <2>4. S!AuditTrailsRequests => S!AuditTrailsRequests'
    BY <2>1, SameSeeds, S!OthersTrails DEF ServiceOK, S!serviceVars
  <2>5. QED BY <2>2, <2>3, <2>4 DEF ServiceOK
<1>3. QED BY <1>1, <1>2, ServiceOrNot DEF vars

\* Complete reads and writes in two critical sections, and beside everything
\* else the server does no scheduled inspection skips being in progress.
THEOREM StartFirst == Spec => NoSkippedStart
<1> DEFINE A == \A id \in Service!InspectionId :
                  Service!Stored(id) /\ inspections[id].status = "scheduled" =>
                    inspections'[id].status \in {"scheduled", "in_progress"}
<1>1. Init => ServiceOK
  BY ServiceInitOK
<1>2. ServiceOK /\ [Next]_vars => ServiceOK' /\ [A]_Service!storeVars
  <2> SUFFICES ASSUME ServiceOK, [Next]_vars PROVE ServiceOK' /\ [A]_Service!storeVars
    OBVIOUS
  <2>1. ServiceOK'
    BY ServiceNextOK
  <2>2. CASE S!ServiceNext
    <3>1. \A id \in S!InspectionId : S!Stored(id) =>
            (inspections[id].status = "scheduled" => inspections'[id].status \in {"scheduled", "in_progress"})
      BY <2>2, SameSeeds, SameParameters, S!StatusStep DEF ServiceOK
    <3>2. A
      BY <3>1 DEF S!InspectionId, Service!InspectionId, S!Stored, Service!Stored
    <3>3. QED BY <2>1, <3>2
  <2>3. CASE UNCHANGED serviceVars
    <3>1. UNCHANGED Service!storeVars
      BY <2>3 DEF serviceVars, storeVars, Service!storeVars
    <3>2. QED BY <2>1, <3>1
  <2>4. QED BY <2>2, <2>3, ServiceOrNot DEF vars
<1>3. QED BY <1>1, <1>2, PTL DEF Spec, NoSkippedStart, Service!NoSkippedStart

-------------------------------------------------------------------------------
(* The subscribers                                                             *)

NotifierOK == Notifier!NotifierTypeOK /\ FeedsOK

\* How often a subscriber's channel is registered under a key.
Registered(s, key) == Cardinality(Places(subscribers[key], s))

Waiting(s) == feedPc[s] \in {"select", "unsubscribe"}

RegisteredOK ==
  \A s \in Subscriber, key \in AuditKey :
    Registered(s, key) = IF Waiting(s) /\ feedKey[s] = key THEN 1 ELSE 0

LEMMA NotifierType ==
  /\ Notifier!NotifierTypeOK <=>
       /\ subscribers \in [AuditKey -> Seq(Subscriber)]
       /\ buffer \in [Subscriber -> Seq(EventType)]
       /\ \A s \in Subscriber : Len(buffer[s]) <= SubscriberCapacity
       /\ closed \subseteq Subscriber
       /\ feedPc \in [Subscriber -> {"new", "select", "unsubscribe", "done"}]
       /\ feedKey \in [Subscriber -> AuditKey \cup {0}]
       /\ feedEvent \in [Subscriber -> EventType \cup {"none"}]
       /\ feedReply \in [Subscriber -> {0, 200, 504}]
BY SameStore DEF Notifier!NotifierTypeOK

LEMMA RegisteredIs ==
  ASSUME RegisteredOK, FeedsOK
  PROVE  SubscribersAreWaiting
<1> SUFFICES ASSUME NEW s \in Subscriber
             PROVE  /\ Waiting(s) => s \notin closed
                    /\ \A key \in AuditKey :
                         Notifier!Cardinality({i \in DOMAIN subscribers[key] : subscribers[key][i] = s}) =
                           IF Waiting(s) /\ feedKey[s] = key THEN 1 ELSE 0
  BY SameStore DEF SubscribersAreWaiting, Notifier!SubscribersAreWaiting, Waiting
<1>1. Waiting(s) => s \notin closed
  BY DEF FeedsOK, FeedOK, Waiting
<1>2. \A key \in AuditKey :
        Notifier!Cardinality({i \in DOMAIN subscribers[key] : subscribers[key][i] = s}) = Registered(s, key)
  BY SameSets DEF Registered, Places
<1>3. QED BY <1>1, <1>2 DEF RegisteredOK

\* A channel that stands in a list once is taken out where it stands.
LEMMA RemoveFirstIs ==
  ASSUME NEW T, NEW s \in Seq(T), NEW e, Cardinality(Places(s, e)) = 1
  PROVE  \E k \in 1..Len(s) : s[k] = e /\ Notifier!RemoveFirst(s, e) = Without(s, k)
<1>1. PICK k : Places(s, e) = {k}
  BY PlacesFinite, FS_Singleton
<1>2. k \in 1..Len(s) /\ Len(s) \in Nat /\ {i \in 1..Len(s) : s[i] = e} = {k}
  BY <1>1, LenProperties DEF Places
<1>3. Notifier!Min({k}) = k
  BY <1>2 DEF Notifier!Min
<1>4. Notifier!SelectInSeq(s, LAMBDA v : v = e) = k
  BY <1>2, <1>3 DEF Notifier!SelectInSeq
<1>5. Notifier!RemoveFirst(s, e) = Without(s, k)
  BY <1>2, <1>4 DEF Notifier!RemoveFirst, Notifier!RemoveAt, Without
<1>6. QED BY <1>2, <1>5

LEMMA NotifierInitOK ==
  ASSUME Notifier!NotifierInit
  PROVE  NotifierOK /\ RegisteredOK
<1>1. /\ subscribers = [key \in AuditKey |-> <<>>]
      /\ buffer = [s \in Subscriber |-> <<>>]
      /\ closed = {}
      /\ feedPc = [s \in Subscriber |-> "new"]
      /\ feedKey = [s \in Subscriber |-> 0]
      /\ feedEvent = [s \in Subscriber |-> "none"]
      /\ feedReply = [s \in Subscriber |-> 0]
      /\ feed = [key \in AuditKey |-> <<>>]
      /\ since = [s \in Subscriber |-> 0]
  BY SameStore DEF Notifier!NotifierInit
<1>2. Notifier!NotifierTypeOK
  BY <1>1, NotifierType, ServerParameters, EmptySeq
<1>3. FeedsOK
  BY <1>1, EmptySeq DEF FeedsOK, FeedOK, AuditKey
<1>4. RegisteredOK
  <2> SUFFICES ASSUME NEW s \in Subscriber, NEW key \in AuditKey PROVE Registered(s, key) = 0
    BY <1>1 DEF RegisteredOK, Waiting
  <2>1. Places(subscribers[key], s) = {}
    BY <1>1 DEF Places
  <2>2. QED BY <2>1, FS_EmptySet DEF Registered
<1>5. QED BY <1>2, <1>3, <1>4 DEF NotifierOK

LEMMA SubscribeOK ==
  ASSUME NotifierOK, RegisteredOK, NEW s \in Subscriber, Notifier!Subscribe(s)
  PROVE  NotifierOK' /\ RegisteredOK'
<1>1. PICK key \in AuditKey :
        /\ feedPc[s] = "new"
        /\ subscribers' = [subscribers EXCEPT ![key] = Append(subscribers[key], s)]
        /\ feedKey' = [feedKey EXCEPT ![s] = key]
        /\ since' = [since EXCEPT ![s] = Len(feed[key])]
        /\ feedPc' = [feedPc EXCEPT ![s] = "select"]
        /\ UNCHANGED <<buffer, closed, feedEvent, feedReply, feed>>
  BY SameStore DEF Notifier!Subscribe, Notifier!FeedGoto
<1>2. Notifier!NotifierTypeOK'
  BY <1>1, SameStore DEF NotifierOK, Notifier!NotifierTypeOK
<1>3. FeedsOK'
  <2>1. feed[key] \in Seq(EventType) /\ Len(feed[key]) \in Nat
    BY LenProperties DEF NotifierOK, FeedsOK
  <2>2. feedReply[s] = 0 /\ s \notin closed /\ buffer[s] = <<>>
    BY <1>1, NotifierType DEF NotifierOK, FeedsOK, FeedOK
  <2>3. FeedOK(s)'
    <3>1. /\ feedPc'[s] = "select" /\ feedKey'[s] = key /\ since'[s] = Len(feed[key])
          /\ feedReply'[s] = 0 /\ closed' = closed /\ buffer'[s] = <<>> /\ feed' = feed
      BY <1>1, <2>2, NotifierType DEF NotifierOK, FeedsOK
    <3>2. QED BY <2>1, <2>2, <3>1, ServerParameters DEF FeedOK
  <2>4. \A d \in Subscriber \ {s} : FeedOK(d)'
    BY <1>1, NotifierType DEF NotifierOK, FeedsOK, FeedOK
  <2>5. QED BY <1>1, <2>3, <2>4 DEF NotifierOK, FeedsOK
<1>4. RegisteredOK'
  <2> SUFFICES ASSUME NEW d \in Subscriber, NEW k \in AuditKey
               PROVE  Registered(d, k)' = IF Waiting(d)' /\ feedKey'[d] = k THEN 1 ELSE 0
    BY DEF RegisteredOK
  <2>1. Registered(d, k) = IF Waiting(d) /\ feedKey[d] = k THEN 1 ELSE 0
    BY DEF RegisteredOK
  <2>2. Registered(d, k)' = IF d = s /\ k = key THEN Registered(d, k) + 1 ELSE Registered(d, k)
    BY <1>1, AppendCount, NotifierType DEF NotifierOK, Registered
  <2>3. QED BY <1>1, <2>1, <2>2, NotifierType DEF NotifierOK, Waiting
<1>5. QED BY <1>2, <1>3, <1>4 DEF NotifierOK

\* Whoever goes on to unregister does it with its channel still registered.
LEMMA RegisteredKept ==
  ASSUME NotifierOK, RegisteredOK, NEW s \in Subscriber, feedPc[s] = "select",
         feedPc' = [feedPc EXCEPT ![s] = "unsubscribe"], UNCHANGED <<subscribers, feedKey>>
  PROVE  RegisteredOK'
BY NotifierType DEF NotifierOK, RegisteredOK, Registered, Waiting

LEMMA ReceiveOK ==
  ASSUME NotifierOK, RegisteredOK, NEW s \in Subscriber, Notifier!Receive(s)
  PROVE  NotifierOK' /\ RegisteredOK'
<1>1. /\ feedPc[s] = "select" /\ buffer[s] # <<>>
      /\ buffer' = [buffer EXCEPT ![s] = Tail(buffer[s])]
      /\ feedEvent' = [feedEvent EXCEPT ![s] = Head(buffer[s])]
      /\ feedReply' = [feedReply EXCEPT ![s] = 200]
      /\ feedPc' = [feedPc EXCEPT ![s] = "unsubscribe"]
      /\ UNCHANGED <<subscribers, closed, feedKey, feed, since>>
  BY DEF Notifier!Receive, Notifier!FeedGoto
<1>2. buffer[s] \in Seq(EventType) /\ Len(buffer[s]) \in Nat
  BY NotifierType, LenProperties DEF NotifierOK
<1>3. /\ Head(buffer[s]) = buffer[s][1] /\ Head(buffer[s]) \in EventType
      /\ Tail(buffer[s]) \in Seq(EventType) /\ Len(Tail(buffer[s])) = Len(buffer[s]) - 1
      /\ Len(buffer[s]) >= 1
  BY <1>1, <1>2, HeadTailProperties, EmptySeq
<1>4. Notifier!NotifierTypeOK'
  BY <1>1, <1>2, <1>3, SameStore, ServerParameters DEF NotifierOK, Notifier!NotifierTypeOK
<1>5. FeedsOK'
  <2>1. /\ feedKey[s] \in AuditKey /\ since[s] \in 0..Len(feed[feedKey[s]])
        /\ Len(buffer[s]) <= Len(feed[feedKey[s]]) - since[s]
        /\ buffer[s][1] = feed[feedKey[s]][since[s] + 1]
        /\ s \notin closed
    <3>1. /\ feedKey[s] \in AuditKey /\ since[s] \in 0..Len(feed[feedKey[s]])
          /\ Len(buffer[s]) = IF Len(feed[feedKey[s]]) - since[s] < SubscriberCapacity
                              THEN Len(feed[feedKey[s]]) - since[s] ELSE SubscriberCapacity
          /\ \A i \in 1..Len(buffer[s]) : buffer[s][i] = feed[feedKey[s]][since[s] + i]
          /\ s \notin closed
      BY <1>1 DEF NotifierOK, FeedsOK, FeedOK
    <3>2. Len(feed[feedKey[s]]) \in Nat
      BY <3>1, LenProperties DEF NotifierOK, FeedsOK
    <3>3. QED BY <1>2, <1>3, <3>1, <3>2, ServerParameters
  <2>2. Len(feed[feedKey[s]]) \in Nat
    BY <2>1, LenProperties DEF NotifierOK, FeedsOK
  <2>3. FeedOK(s)'
    <3>1. /\ feedPc'[s] = "unsubscribe" /\ feedReply'[s] = 200 /\ feedEvent'[s] = buffer[s][1]
          /\ feedKey' = feedKey /\ feed' = feed /\ since' = since /\ closed' = closed
      BY <1>1, <1>3, NotifierType DEF NotifierOK
    <3>2. QED BY <1>2, <1>3, <2>1, <2>2, <3>1 DEF FeedOK
  <2>4. \A d \in Subscriber \ {s} : FeedOK(d)'
    BY <1>1, NotifierType DEF NotifierOK, FeedsOK, FeedOK
  <2>5. QED BY <1>1, <2>3, <2>4 DEF NotifierOK, FeedsOK
<1>6. QED BY <1>1, <1>4, <1>5, RegisteredKept DEF NotifierOK

LEMMA LeaveOK ==
  ASSUME NotifierOK, RegisteredOK, NEW s \in Subscriber, Notifier!Leave(s)
  PROVE  NotifierOK' /\ RegisteredOK'
<1>1. /\ feedPc[s] = "select"
      /\ feedReply' = [feedReply EXCEPT ![s] = 504]
      /\ feedPc' = [feedPc EXCEPT ![s] = "unsubscribe"]
      /\ UNCHANGED <<subscribers, buffer, closed, feedKey, feedEvent, feed, since>>
  BY DEF Notifier!Leave, Notifier!FeedGoto
<1>2. Notifier!NotifierTypeOK'
  BY <1>1, SameStore DEF NotifierOK, Notifier!NotifierTypeOK
<1>3. FeedsOK'
  BY <1>1, NotifierType DEF NotifierOK, FeedsOK, FeedOK
<1>4. QED BY <1>1, <1>2, <1>3, RegisteredKept DEF NotifierOK

LEMMA UnsubscribeOK ==
  ASSUME NotifierOK, RegisteredOK, NEW s \in Subscriber, Notifier!Unsubscribe(s)
  PROVE  NotifierOK' /\ RegisteredOK'
<1> DEFINE key == feedKey[s]
           list == subscribers[key]
<1>1. /\ feedPc[s] = "unsubscribe"
      /\ subscribers' = [subscribers EXCEPT ![key] = Notifier!RemoveFirst(list, s)]
      /\ closed' = closed \cup {s}
      /\ buffer' = [buffer EXCEPT ![s] = <<>>]
      /\ feedPc' = [feedPc EXCEPT ![s] = "done"]
      /\ UNCHANGED <<feedKey, feedEvent, feedReply, feed, since>>
  BY DEF Notifier!Unsubscribe, Notifier!FeedGoto
<1>2. key \in AuditKey /\ list \in Seq(Subscriber)
  BY <1>1, NotifierType DEF NotifierOK, FeedsOK, FeedOK
<1>3. Cardinality(Places(list, s)) = 1
  BY <1>1, <1>2 DEF RegisteredOK, Registered, Waiting
<1>4. PICK k \in 1..Len(list) : list[k] = s /\ Notifier!RemoveFirst(list, s) = Without(list, k)
  BY <1>2, <1>3, RemoveFirstIs
<1>5. Without(list, k) \in Seq(Subscriber)
  BY <1>2, WithoutProperties
<1>6. Notifier!NotifierTypeOK'
  BY <1>1, <1>2, <1>4, <1>5, SameStore, EmptySeq, ServerParameters DEF NotifierOK, Notifier!NotifierTypeOK
<1>7. FeedsOK'
  <2>1. feedReply[s] # 0
    BY <1>1 DEF NotifierOK, FeedsOK, FeedOK
  <2>2. FeedOK(s)'
    <3>1. /\ feedPc'[s] = "done" /\ s \in closed'
          /\ feedKey' = feedKey /\ feedEvent' = feedEvent /\ feedReply' = feedReply
          /\ feed' = feed /\ since' = since
      BY <1>1, NotifierType DEF NotifierOK
    <3>2. QED BY <1>1, <2>1, <3>1 DEF NotifierOK, FeedsOK, FeedOK
  <2>3. \A d \in Subscriber \ {s} : FeedOK(d)'
    BY <1>1, NotifierType DEF NotifierOK, FeedsOK, FeedOK
  <2>4. QED BY <1>1, <2>2, <2>3 DEF NotifierOK, FeedsOK
<1>8. RegisteredOK'
  <2> SUFFICES ASSUME NEW d \in Subscriber, NEW other \in AuditKey
               PROVE  Registered(d, other)' = IF Waiting(d)' /\ feedKey'[d] = other THEN 1 ELSE 0
    BY DEF RegisteredOK
  <2>1. Registered(d, other) = IF Waiting(d) /\ feedKey[d] = other THEN 1 ELSE 0
    BY DEF RegisteredOK
  <2>2. Cardinality(Places(Without(list, k), d)) =
          IF list[k] = d THEN Cardinality(Places(list, d)) - 1 ELSE Cardinality(Places(list, d))
    BY <1>2, WithoutCount
  <2>3. Registered(d, other)' = IF d = s /\ other = key THEN Registered(d, other) - 1 ELSE Registered(d, other)
    BY <1>1, <1>4, <2>2, NotifierType DEF NotifierOK, Registered
  <2>4. QED BY <1>1, <2>1, <2>3, NotifierType DEF NotifierOK, Waiting
<1>9. QED BY <1>6, <1>7, <1>8 DEF NotifierOK

\* A publication reaches the waiting subscribers of its tower that have room, and
\* what the others miss comes after what they hold.
LEMMA DeliverOK ==
  ASSUME NotifierOK, RegisteredOK, NEW tower \in Tower, NEW event \in EventType,
         Notifier!Deliver(tower, event)
  PROVE  NotifierOK' /\ RegisteredOK'
<1>1. /\ buffer' = [s \in Subscriber |->
           IF Notifier!Contains(subscribers[tower], s) /\ Len(buffer[s]) < SubscriberCapacity
             THEN Append(buffer[s], event) ELSE buffer[s]]
      /\ feed' = [feed EXCEPT ![tower] = Append(feed[tower], event)]
      /\ UNCHANGED <<subscribers, closed, feedPc, feedKey, feedEvent, feedReply, since>>
  BY DEF Notifier!Deliver
<1>2. tower \in AuditKey /\ tower \notin InspectionId
  BY StoreTowers DEF AuditKey
<1>3. \A s \in Subscriber : buffer[s] \in Seq(EventType) /\ Len(buffer[s]) \in Nat
  BY NotifierType, LenProperties DEF NotifierOK
<1>4. \A s \in Subscriber :
        /\ Append(buffer[s], event) \in Seq(EventType)
        /\ Len(Append(buffer[s], event)) = Len(buffer[s]) + 1
        /\ \A i \in 1..Len(buffer[s]) : Append(buffer[s], event)[i] = buffer[s][i]
        /\ Append(buffer[s], event)[Len(buffer[s]) + 1] = event
  BY <1>3, AppendProperties
<1>5. /\ feed[tower] \in Seq(EventType) /\ Len(feed[tower]) \in Nat
      /\ Append(feed[tower], event) \in Seq(EventType)
      /\ Len(Append(feed[tower], event)) = Len(feed[tower]) + 1
      /\ \A i \in 1..Len(feed[tower]) : Append(feed[tower], event)[i] = feed[tower][i]
      /\ Append(feed[tower], event)[Len(feed[tower]) + 1] = event
  BY <1>2, AppendProperties, LenProperties DEF NotifierOK, FeedsOK
<1>6. Notifier!NotifierTypeOK'
  <2>1. buffer' \in [Subscriber -> Seq(EventType)] /\ \A s \in Subscriber : Len(buffer'[s]) <= SubscriberCapacity
    BY <1>1, <1>3, <1>4, NotifierType, ServerParameters DEF NotifierOK
  <2>2. QED BY <1>1, <2>1, SameStore DEF NotifierOK, Notifier!NotifierTypeOK
<1>7. ASSUME NEW s \in Subscriber, feedPc[s] = "select"
      PROVE  Notifier!Contains(subscribers[tower], s) <=> feedKey[s] = tower
  <2>1. subscribers[tower] \in Seq(Subscriber)
    BY <1>2, NotifierType DEF NotifierOK
  <2>2. Cardinality(Places(subscribers[tower], s)) = IF feedKey[s] = tower THEN 1 ELSE 0
    BY <1>2, <1>7 DEF RegisteredOK, Registered, Waiting
  <2>3. Places(subscribers[tower], s) = {} <=> feedKey[s] # tower
    BY <2>1, <2>2, PlacesFinite, FS_EmptySet
  <2>4. Notifier!Contains(subscribers[tower], s) <=> Places(subscribers[tower], s) # {}
    BY <2>1, LenProperties DEF Notifier!Contains, Places
  <2>5. QED BY <2>3, <2>4
<1>8. FeedsOK'
  <2>1. /\ feed' \in [AuditKey -> Seq(EventType)]
        /\ since' \in [Subscriber -> Nat]
        /\ \A id \in InspectionId : feed'[id] = <<>>
    BY <1>1, <1>2, <1>5 DEF NotifierOK, FeedsOK, AuditKey
  <2>2. ASSUME NEW s \in Subscriber PROVE FeedOK(s)'
    <3>1. FeedOK(s)
      BY DEF NotifierOK, FeedsOK
    <3>2. CASE feedPc[s] = "new"
      <4>1. Places(subscribers[tower], s) = {}
        <5>1. subscribers[tower] \in Seq(Subscriber)
          BY <1>2, NotifierType DEF NotifierOK
        <5>2. Cardinality(Places(subscribers[tower], s)) = 0
          BY <1>2, <3>2 DEF RegisteredOK, Registered, Waiting
        <5>3. QED BY <5>1, <5>2, PlacesFinite, FS_EmptySet
      <4>2. ~Notifier!Contains(subscribers[tower], s)
        BY <1>2, <4>1, LenProperties, NotifierType DEF NotifierOK, Notifier!Contains, Places
      <4>3. feedReply[s] = 0 /\ s \notin closed /\ buffer'[s] = <<>>
        BY <1>1, <3>1, <3>2, <4>2 DEF FeedOK
      <4>4. QED BY <1>1, <3>2, <4>3 DEF FeedOK
    <3>3. CASE feedPc[s] # "new"
      <4>1. /\ feedKey[s] \in AuditKey /\ since[s] \in 0..Len(feed[feedKey[s]])
            /\ Len(feed[feedKey[s]]) \in Nat
        BY <3>1, <3>3, LenProperties DEF FeedOK, NotifierOK, FeedsOK
      <4>2. /\ Len(feed'[feedKey[s]]) = IF feedKey[s] = tower THEN Len(feed[feedKey[s]]) + 1
                                                               ELSE Len(feed[feedKey[s]])
            /\ \A i \in 1..Len(feed[feedKey[s]]) : feed'[feedKey[s]][i] = feed[feedKey[s]][i]
            /\ feedKey[s] = tower => feed'[feedKey[s]][Len(feed[feedKey[s]]) + 1] = event
        BY <1>1, <1>2, <1>5, <4>1 DEF NotifierOK, FeedsOK
      <4>3. ASSUME feedPc[s] = "select"
            PROVE  LET missed == Len(feed'[feedKey[s]]) - since[s] IN
                   /\ Len(buffer'[s]) = IF missed < SubscriberCapacity THEN missed ELSE SubscriberCapacity
                   /\ \A i \in 1..Len(buffer'[s]) : buffer'[s][i] = feed'[feedKey[s]][since[s] + i]
        <5> DEFINE n == Len(feed[feedKey[s]]) - since[s]
        <5>1. /\ Len(buffer[s]) = IF n < SubscriberCapacity THEN n ELSE SubscriberCapacity
              /\ \A i \in 1..Len(buffer[s]) : buffer[s][i] = feed[feedKey[s]][since[s] + i]
              /\ since[s] \in Nat /\ n \in Nat /\ SubscriberCapacity \in Nat
          BY <3>1, <4>1, <4>3, ServerParameters DEF FeedOK
        <5>2. CASE feedKey[s] = tower /\ n < SubscriberCapacity
          <6>1. buffer'[s] = Append(buffer[s], event) /\ Len(buffer[s]) = n
            BY <1>1, <1>7, <4>3, <5>1, <5>2
          <6>2. Len(buffer'[s]) = n + 1 /\ Len(feed'[feedKey[s]]) - since[s] = n + 1
            BY <1>4, <4>1, <4>2, <5>1, <5>2, <6>1
          <6>3. ASSUME NEW i \in 1..n + 1
                PROVE  buffer'[s][i] = feed'[feedKey[s]][since[s] + i]
            <7>1. CASE i \in 1..n
              <8>1. since[s] + i \in 1..Len(feed[feedKey[s]])
                BY <4>1, <5>1, <7>1
              <8>2. buffer'[s][i] = buffer[s][i] /\ buffer[s][i] = feed[feedKey[s]][since[s] + i]
                BY <1>4, <5>1, <6>1, <7>1
              <8>3. QED BY <4>2, <8>1, <8>2
            <7>2. CASE i = n + 1
              <8>1. since[s] + i = Len(feed[feedKey[s]]) + 1
                BY <4>1, <5>1, <7>2
              <8>2. QED BY <1>4, <4>2, <5>2, <6>1, <7>2, <8>1
            <7>3. QED BY <5>1, <7>1, <7>2
          <6> HIDE DEF n
          <6>4. QED BY <5>1, <5>2, <6>2, <6>3
        <5>3. CASE ~(feedKey[s] = tower /\ n < SubscriberCapacity)
          <6>1. buffer'[s] = buffer[s] /\ Len(buffer[s]) \in Nat
            BY <1>1, <1>3, <1>7, <4>3, <5>1, <5>3
          <6>2. ASSUME NEW i \in 1..Len(buffer[s])
                PROVE  buffer[s][i] = feed'[feedKey[s]][since[s] + i]
            <7>1. since[s] + i \in 1..Len(feed[feedKey[s]])
              BY <4>1, <5>1, <6>1
            <7>2. QED BY <4>2, <5>1, <7>1
          <6>3. Len(buffer[s]) = IF Len(feed'[feedKey[s]]) - since[s] < SubscriberCapacity
                                 THEN Len(feed'[feedKey[s]]) - since[s] ELSE SubscriberCapacity
            BY <4>1, <4>2, <5>1, <5>3
          <6>4. QED BY <6>1, <6>2, <6>3
        <5>4. QED BY <5>2, <5>3
      <4>4. feedReply[s] = 200 => /\ since[s] < Len(feed'[feedKey[s]])
                                  /\ feedEvent[s] = feed'[feedKey[s]][since[s] + 1]
        BY <3>1, <4>1, <4>2 DEF FeedOK
      <4>5. since[s] \in 0..Len(feed'[feedKey[s]])
        BY <4>1, <4>2
      <4>6. /\ (feedReply[s] = 0) = (feedPc[s] \in {"new", "select"})
            /\ (s \in closed) = (feedPc[s] = "done")
        BY <3>1 DEF FeedOK
      <4>7. QED BY <1>1, <3>3, <4>1, <4>3, <4>4, <4>5, <4>6 DEF FeedOK
    <3>4. QED BY <3>2, <3>3
  <2>3. QED BY <2>1, <2>2 DEF FeedsOK
<1>9. RegisteredOK'
  BY <1>1 DEF RegisteredOK, Registered, Waiting
<1>10. QED BY <1>6, <1>8, <1>9 DEF NotifierOK

\* Publish runs in a handler whose inspection is stored: it is under a tower.
LEMMA PublishUnderTower ==
  ASSUME ServiceOK, NEW c \in Client, pc[c] = "publish"
  PROVE  /\ call[c].id \in InspectionId /\ Stored(call[c].id)
         /\ inspections[call[c].id] \in TowerInspection
         /\ inspections[call[c].id].tower \in Tower
         /\ Service!EventOf(call[c].op) \in EventType
<1>1. /\ S!Stored(call[c].id) /\ call[c].id \in S!InspectionId
      /\ call[c].op \in {"start", "complete"}
  BY DEF ServiceOK, S!HandlersOK, S!HandlerOK, S!Accepted
<1>2. inspections \in [InspectionId -> TowerInspection \cup {NoInspection}]
  BY SameStore DEF ServiceOK, StoreTypeOK
<1>3. call[c].id \in InspectionId /\ Stored(call[c].id)
  BY <1>1, SameStore
<1>4. inspections[call[c].id] \in TowerInspection
  BY <1>2, <1>3 DEF Stored
<1>5. inspections[call[c].id].tower \in Tower
  BY <1>4 DEF TowerInspection
<1>6. Service!EventOf(call[c].op) \in EventType
  BY <1>1 DEF Service!EventOf, EventType
<1>7. QED BY <1>3, <1>4, <1>5, <1>6

LEMMA NotifierMoves ==
  ASSUME ServiceOK, Next
  PROVE  \/ UNCHANGED notifierVars
         \/ \E s \in Subscriber : Notifier!Subscribe(s) \/ Notifier!SubscriberStep(s) \/ Notifier!Leave(s)
         \/ \E tower \in Tower, event \in EventType : Notifier!Deliver(tower, event)
<1>1. CASE Arrive
  BY <1>1 DEF Arrive
<1>2. CASE Disconnect
  BY <1>2 DEF Disconnect
<1>3. CASE Run
  BY <1>3 DEF Run
<1>4. ASSUME NEW c \in Client, Serve(c)
      PROVE  \/ UNCHANGED notifierVars
             \/ \E tower \in Tower, event \in EventType : Notifier!Deliver(tower, event)
  <2>1. CASE Service!Work(c) /\ UNCHANGED notifierVars
    BY <2>1
  <2>2. CASE /\ Service!Publish(c)
             /\ Notifier!Deliver(inspections[call[c].id].tower, Service!EventOf(call[c].op))
    <3>1. pc[c] = "publish"
      BY <2>2 DEF Service!Publish
    <3>2. QED BY <2>2, <3>1, PublishUnderTower
  <2>3. QED BY <1>4, <2>1, <2>2 DEF Serve
<1>5. CASE \E s \in Subscriber : Feed(s)
  BY <1>5 DEF Feed
<1>6. CASE \E c \in StatusClient : ServeStatus(c)
  BY <1>6 DEF ServeStatus
<1>7. QED BY <1>1, <1>2, <1>3, <1>4, <1>5, <1>6 DEF Next

LEMMA NotifierNextOK ==
  ASSUME ServiceOK, NotifierOK, RegisteredOK, Next \/ UNCHANGED vars
  PROVE  NotifierOK' /\ RegisteredOK'
<1>1. CASE UNCHANGED notifierVars
  BY <1>1 DEF notifierVars, NotifierOK, Notifier!NotifierTypeOK, FeedsOK, FeedOK, RegisteredOK, Registered, Waiting
<1>2. CASE \E s \in Subscriber : Notifier!Subscribe(s) \/ Notifier!SubscriberStep(s) \/ Notifier!Leave(s)
  BY <1>2, SubscribeOK, ReceiveOK, UnsubscribeOK, LeaveOK DEF Notifier!SubscriberStep
<1>3. CASE \E tower \in Tower, event \in EventType : Notifier!Deliver(tower, event)
  BY <1>3, DeliverOK
<1>4. QED BY <1>1, <1>2, <1>3, NotifierMoves DEF vars

-------------------------------------------------------------------------------
(* The status service and the runtime                                          *)

LEMMA StatusMoves ==
  ASSUME Next
  PROVE  UNCHANGED statusVars \/ \E c \in StatusClient : Base!PostStatus(c) \/ Base!UpdateStatus(c)
BY DEF Next, Arrive, Disconnect, Run, Serve, Feed, ServeStatus

StatusOK == Base!StatusTypeOK /\ StatusesOK

LEMMA StatusInitOK == ASSUME Base!StatusInit PROVE StatusOK
BY ServerParameters DEF Base!StatusInit, Base!NoStatusCall, StatusOK, Base!StatusTypeOK, StatusesOK

LEMMA PostStatusOK ==
  ASSUME StatusOK, NEW c \in StatusClient, Base!PostStatus(c)
  PROVE  StatusOK'
<1>1. PICK id \in Tower \cup {UnknownTower}, status \in {"restricted", BadTowerStatus} :
        /\ statusPc[c] = "new"
        /\ \/ /\ \E code \in {400, 405} : statusReply' = [statusReply EXCEPT ![c] = code]
              /\ statusPc' = [statusPc EXCEPT ![c] = "done"]
              /\ UNCHANGED statusCall
           \/ /\ status \in Base!TowerStatusValue
              /\ statusCall' = [statusCall EXCEPT ![c] = [id |-> id, status |-> status]]
              /\ statusPc' = [statusPc EXCEPT ![c] = "update"]
              /\ UNCHANGED statusReply
        /\ UNCHANGED towerStatus
  BY DEF Base!PostStatus, Base!StatusAnswer
<1>2. CASE /\ \E code \in {400, 405} : statusReply' = [statusReply EXCEPT ![c] = code]
           /\ statusPc' = [statusPc EXCEPT ![c] = "done"]
           /\ UNCHANGED statusCall
  BY <1>1, <1>2 DEF StatusOK, Base!StatusTypeOK, StatusesOK
<1>3. CASE /\ status \in Base!TowerStatusValue
           /\ statusCall' = [statusCall EXCEPT ![c] = [id |-> id, status |-> status]]
           /\ statusPc' = [statusPc EXCEPT ![c] = "update"]
           /\ UNCHANGED statusReply
  BY <1>1, <1>3 DEF StatusOK, Base!StatusTypeOK, StatusesOK
<1>4. QED BY <1>1, <1>2, <1>3

LEMMA UpdateStatusOK ==
  ASSUME StatusOK, NEW c \in StatusClient, Base!UpdateStatus(c)
  PROVE  StatusOK'
BY DEF Base!UpdateStatus, Base!StatusAnswer, StatusOK, Base!StatusTypeOK, StatusesOK

LEMMA StatusNextOK ==
  ASSUME StatusOK, Next \/ UNCHANGED vars
  PROVE  StatusOK'
<1>1. CASE UNCHANGED statusVars
  BY <1>1 DEF statusVars, StatusOK, Base!StatusTypeOK, StatusesOK
<1>2. QED BY <1>1, StatusMoves, PostStatusOK, UpdateStatusOK DEF vars

RuntimeInvOK == Runtime!RuntimeTypeOK /\ RuntimeOK

LEMMA RuntimeInitOK == ASSUME Runtime!RuntimeInit PROVE RuntimeInvOK
BY ServerParameters DEF Runtime!RuntimeInit, RuntimeInvOK, Runtime!RuntimeTypeOK, RuntimeOK

LEMMA RuntimeNextOK ==
  ASSUME RuntimeInvOK, Next \/ UNCHANGED vars
  PROVE  RuntimeInvOK'
<1>1. CASE UNCHANGED runtimeVars
  BY <1>1 DEF runtimeVars, RuntimeInvOK, Runtime!RuntimeTypeOK, RuntimeOK
<1>2. CASE Runtime!RuntimeNext(Idle)
  BY <1>2, ServerParameters
  DEF RuntimeInvOK, Runtime!RuntimeTypeOK, RuntimeOK, Runtime!RuntimeNext, Runtime!MainStep, Runtime!Listen,
    Runtime!AcceptFails, Runtime!Signal, Runtime!Notify, Runtime!SelectError, Runtime!SelectSignal,
    Runtime!Drained, Runtime!Expire, Runtime!Accepting, Runtime!Exited
<1>3. QED
  BY <1>1, <1>2 DEF vars, Next, Arrive, Disconnect, Run, Serve, Feed, ServeStatus

-------------------------------------------------------------------------------
(* What has been published when the process ends                               *)

LEMMA AnsweredFinite ==
  ASSUME NEW tower
  PROVE  IsFiniteSet(Answered(tower)) /\ Cardinality(Answered(tower)) \in Nat
<1>1. Answered(tower) \in SUBSET Context
  BY ServerParameters DEF Answered
<1>2. IsFiniteSet(Answered(tower))
  BY <1>1, StoreContexts, FS_Subset
<1>3. QED BY <1>2, FS_CardinalityType

\* Only Publish takes a handler past the publication.
LEMMA QuietStep ==
  ASSUME ServiceOK, NEW c \in Client,
         Service!PostSchedule(c) \/ Service!PostMove(c) \/ Service!Work(c) \/ Service!CancelClient(c)
  PROVE  S!ServiceNext /\ \A d \in Client : pc[d] = "publish" => pc'[d] = "publish"
<1>1. S!ServiceNext
  BY SameSteps DEF S!ServiceNext, S!ServiceStep
<1>2. pc[c] # "publish" /\ (pc' = pc \/ \E label : pc' = [pc EXCEPT ![c] = label])
  BY DEF Service!PostSchedule, Service!PostMove, Service!Work, Service!CancelClient, Service!Add, Service!Get,
    Service!Update, Service!Audit, Service!Refuse, Service!Answer, Service!Goto, Service!serviceVars
<1>3. \A d \in Client : pc[d] = "publish" => pc'[d] = "publish"
  BY <1>2 DEF ServiceOK, S!ServiceTypeOK
<1>4. QED BY <1>1, <1>3

LEMMA AnsweredKept ==
  ASSUME ServiceOK, S!ServiceNext, \A d \in Client : pc[d] = "publish" => pc'[d] = "publish",
         NEW tower \in Tower
  PROVE  Answered(tower)' = Answered(tower)
<1>1. PICK c \in Client : S!Only(c) /\ S!ServiceEffect(c)
  BY SameSeeds, SameParameters, S!StepEffect DEF ServiceOK
<1>2. ASSUME NEW d \in Client, reply[d] = 200 \/ reply'[d] = 200
      PROVE  reply[d] = 200 /\ reply'[d] = 200 /\ call'[d] = call[d]
  <2>1. CASE d # c
    BY <1>1, <1>2, <2>1 DEF S!Only
  <2>2. CASE d = c
    <3>1. reply[c] # 200 \/ pc[c] = "done"
      BY DEF ServiceOK, S!HandlersOK, S!HandlerOK
    <3>2. QED
      BY <1>1, <1>2, <2>2, <3>1 DEF S!ServiceEffect, S!Adds, S!Updates, S!Files, S!Passes, S!Accepted
  <2>3. QED BY <2>1, <2>2
<1>3. ASSUME NEW d \in Client, reply[d] = 200
      PROVE  inspections'[call[d].id].tower = inspections[call[d].id].tower
  <2>1. call[d].id \in S!InspectionId /\ S!Stored(call[d].id)
    BY <1>3 DEF ServiceOK, S!HandlersOK, S!HandlerOK, S!Accepted
  <2>2. QED BY <1>1, <2>1, SameSeeds, S!TowerKept DEF ServiceOK
<1>4. QED BY <1>2, <1>3 DEF Answered

LEMMA PublishedInit == ASSUME Init PROVE PublishedOnce
<1> SUFFICES ASSUME NEW tower \in Tower PROVE Len(feed[tower]) = Cardinality(Answered(tower))
  BY DEF PublishedOnce
<1>1. Answered(tower) = {}
  BY DEF Init, Service!ServiceInit, Answered
<1>2. feed[tower] = <<>>
  BY SameStore DEF Init, Notifier!NotifierInit, AuditKey
<1>3. QED BY <1>1, <1>2, FS_EmptySet, EmptySeq

LEMMA PublishedNext ==
  ASSUME ServiceOK, NotifierOK, PublishedOnce, Next \/ UNCHANGED vars
  PROVE  PublishedOnce'
<1>1. CASE UNCHANGED <<feed, serviceVars>>
  BY <1>1 DEF serviceVars, storeVars, PublishedOnce, Answered
<1>2. ASSUME UNCHANGED feed, NEW c \in Client,
             Service!PostSchedule(c) \/ Service!PostMove(c) \/ Service!Work(c) \/ Service!CancelClient(c)
      PROVE  PublishedOnce'
  BY <1>2, QuietStep, AnsweredKept DEF PublishedOnce
<1>3. ASSUME NEW c \in Client, Service!Publish(c),
             Notifier!Deliver(inspections[call[c].id].tower, Service!EventOf(call[c].op))
      PROVE  PublishedOnce'
  <2> DEFINE under == inspections[call[c].id].tower
             event == Service!EventOf(call[c].op)
  <2>1. /\ pc[c] = "publish" /\ reply' = [reply EXCEPT ![c] = 200]
        /\ UNCHANGED <<inspections, call>>
    BY <1>3 DEF Service!Publish, Service!Answer, Service!storeVars
  <2>2. under \in Tower /\ under \in AuditKey /\ event \in EventType
    BY <2>1, PublishUnderTower DEF AuditKey
  <2>3. feed' = [feed EXCEPT ![under] = Append(feed[under], event)]
    BY <1>3 DEF Notifier!Deliver
  <2>4. reply[c] # 200 /\ reply \in [Client -> {0, 200, 201, 400, 404, 409, 500}]
    BY <2>1 DEF ServiceOK, S!HandlersOK, S!HandlerOK, S!ServiceTypeOK
  <2>5. ASSUME NEW tower \in Tower
        PROVE  Len(feed'[tower]) = Cardinality(Answered(tower)')
    <3>1. feed[tower] \in Seq(EventType) /\ Len(feed[tower]) = Cardinality(Answered(tower))
      BY DEF PublishedOnce, NotifierOK, FeedsOK, AuditKey
    <3>2. CASE tower = under
      <4>1. Answered(tower)' = Answered(tower) \cup {c} /\ c \notin Answered(tower)
        BY <2>1, <2>4, <3>2 DEF Answered
      <4>2. feed'[tower] = Append(feed[tower], event)
        BY <2>2, <2>3, <3>2 DEF NotifierOK, FeedsOK
      <4>3. Len(feed'[tower]) = Len(feed[tower]) + 1
        BY <2>2, <3>1, <4>2, AppendProperties
      <4>4. QED BY <3>1, <4>1, <4>3, AnsweredFinite, FS_AddElement
    <3>3. CASE tower # under
      <4>1. Answered(tower)' = Answered(tower)
        BY <2>1, <2>4, <3>3 DEF Answered
      <4>2. feed'[tower] = feed[tower]
        BY <2>3, <3>3 DEF NotifierOK, FeedsOK, AuditKey
      <4>3. QED BY <3>1, <4>1, <4>2
    <3>4. QED BY <3>2, <3>3
  <2>6. QED BY <2>5 DEF PublishedOnce
<1>4. ASSUME NEW s \in Subscriber,
             Notifier!Subscribe(s) \/ Notifier!SubscriberStep(s) \/ Notifier!Leave(s)
      PROVE  UNCHANGED feed
  BY <1>4 DEF Notifier!Subscribe, Notifier!SubscriberStep, Notifier!Receive, Notifier!Unsubscribe, Notifier!Leave
<1>5. CASE Arrive
  BY <1>1, <1>2, <1>4, <1>5 DEF Arrive, notifierVars
<1>6. CASE Disconnect
  BY <1>1, <1>2, <1>4, <1>6 DEF Disconnect, notifierVars
<1>7. CASE Run
  BY <1>1, <1>7 DEF Run, notifierVars
<1>8. CASE \E c \in Client : Serve(c)
  BY <1>2, <1>3, <1>8 DEF Serve, notifierVars
<1>9. CASE \E s \in Subscriber : Feed(s)
  BY <1>1, <1>4, <1>9 DEF Feed
<1>10. CASE \E c \in StatusClient : ServeStatus(c)
  BY <1>1, <1>10 DEF ServeStatus, notifierVars
<1>11. CASE UNCHANGED vars
  BY <1>1, <1>11 DEF vars, notifierVars
<1>12. QED BY <1>5, <1>6, <1>7, <1>8, <1>9, <1>10, <1>11 DEF Next

LEMMA IdleNext ==
  ASSUME RuntimeInvOK, IdleAtExit, Next \/ UNCHANGED vars
  PROVE  IdleAtExit'
<1>1. CASE UNCHANGED <<pc, feedPc, statusPc, mainPc>>
  BY <1>1 DEF IdleAtExit, Idle
<1>2. CASE Run
  <2>1. UNCHANGED <<pc, feedPc, statusPc>>
    BY <1>2 DEF Run, serviceVars, notifierVars, statusVars
  <2>2. mainPc' = "ok" => mainPc = "ok" \/ Idle
    BY <1>2 DEF Run, RuntimeInvOK, RuntimeOK, Runtime!RuntimeTypeOK, Runtime!RuntimeNext, Runtime!MainStep, Runtime!Listen,
      Runtime!AcceptFails, Runtime!Signal, Runtime!Notify, Runtime!SelectError, Runtime!SelectSignal,
      Runtime!Drained, Runtime!Expire
  <2>3. Idle' = Idle
    BY <2>1 DEF Idle
  <2>4. QED BY <2>2, <2>3 DEF IdleAtExit
<1>3. CASE Arrive \/ Disconnect \/ (\E c \in Client : Serve(c)) \/ (\E s \in Subscriber : Feed(s))
           \/ (\E c \in StatusClient : ServeStatus(c))
  BY <1>3 DEF Arrive, Disconnect, Serve, Feed, ServeStatus, runtimeVars, Runtime!Exited, Runtime!Accepting, IdleAtExit
<1>4. QED BY <1>1, <1>2, <1>3 DEF Next, vars, serviceVars, notifierVars, statusVars, runtimeVars

-------------------------------------------------------------------------------
(* Theorems                                                                    *)

\* The inductive invariant: every part of the server is where its own handlers
\* leave it, channels are registered for exactly the subscribers that wait, the
\* events published are those of the requests answered, and a process that ended
\* well had nobody to serve.
IInv ==
  /\ ServiceOK /\ S!AuditTrailsRequests
  /\ NotifierOK /\ RegisteredOK /\ PublishedOnce
  /\ StatusOK
  /\ RuntimeInvOK /\ IdleAtExit

LEMMA Invariance == Spec => []IInv
<1>1. Init => IInv
  <2> SUFFICES ASSUME Init PROVE IInv
    OBVIOUS
  <2>1. IdleAtExit
    BY DEF Init, Runtime!RuntimeInit, IdleAtExit
  <2>2. QED
    BY <2>1, ServiceInitOK, NotifierInitOK, PublishedInit, StatusInitOK, RuntimeInitOK DEF Init, IInv
<1>2. IInv /\ [Next]_vars => IInv'
  BY ServiceNextOK, NotifierNextOK, PublishedNext, StatusNextOK, RuntimeNextOK, IdleNext DEF IInv
<1>3. QED BY <1>1, <1>2, PTL DEF Spec

\* Types, for every part of the server.
THEOREM TypeCorrect == Spec => []TypeOK
<1>1. IInv => TypeOK
  BY SameStore, SameService DEF IInv, ServiceOK, NotifierOK, StatusOK, RuntimeInvOK, TypeOK
<1>2. QED BY <1>1, Invariance, PTL

\* Publish never sends on a closed channel and nobody waits unregistered: a
\* channel is registered once, under the key of its subscriber, from Subscribe to
\* Unsubscribe, and closed only then.
THEOREM RegisteredWhileWaiting == Spec => []SubscribersAreWaiting
<1>1. IInv => SubscribersAreWaiting
  BY RegisteredIs DEF IInv, NotifierOK
<1>2. QED BY <1>1, Invariance, PTL

LEMMA FirstEvent ==
  ASSUME NotifierOK
  PROVE  FirstEventArrives
<1> SUFFICES ASSUME NEW s \in Subscriber, feedPc[s] # "new"
             PROVE
    LET published == SubSeq(feed[feedKey[s]], since[s] + 1, Len(feed[feedKey[s]]))
        fits      == IF Len(published) < SubscriberCapacity THEN Len(published) ELSE SubscriberCapacity
    IN  /\ feedPc[s] = "select" => buffer[s] = SubSeq(published, 1, fits)
        /\ feedReply[s] = 200 => feedEvent[s] = Head(published)
        /\ feedKey[s] \in InspectionId => published = <<>> /\ feedReply[s] # 200
  BY SameStore DEF FirstEventArrives, Notifier!FirstEventArrives
<1> DEFINE all == feed[feedKey[s]]
           published == SubSeq(all, since[s] + 1, Len(all))
           n == Len(all) - since[s]
           fits == IF n < SubscriberCapacity THEN n ELSE SubscriberCapacity
<1>1. /\ all \in Seq(EventType) /\ Len(all) \in Nat /\ since[s] \in 0..Len(all)
      /\ \A i \in 1..Len(all) : all[i] \in EventType
  BY LenProperties, ElementOfSeq DEF NotifierOK, FeedsOK, FeedOK
<1>2. /\ published \in Seq(EventType) /\ Len(published) = n
      /\ \A i \in 1..n : published[i] = all[since[s] + i]
  <2>1. since[s] + 1 \in Int /\ Len(all) \in Int /\ \A i \in since[s] + 1..Len(all) : all[i] \in EventType
    BY <1>1
  <2> HIDE DEF all
  <2>2. /\ published \in Seq(EventType)
        /\ Len(published) = IF since[s] + 1 <= Len(all) THEN Len(all) - (since[s] + 1) + 1 ELSE 0
        /\ \A i \in 1..Len(all) - (since[s] + 1) + 1 : published[i] = all[since[s] + 1 + i - 1]
    BY <2>1, SubSeqProperties
  <2> HIDE DEF published
  <2>3. QED BY <1>1, <2>2
<1> HIDE DEF published
<1>3. n \in Nat /\ fits \in 0..n /\ SubscriberCapacity \in Nat
  BY <1>1, ServerParameters
<1>4. feedPc[s] = "select" => buffer[s] = SubSeq(published, 1, fits)
  <2> SUFFICES ASSUME feedPc[s] = "select" PROVE buffer[s] = SubSeq(published, 1, fits)
    OBVIOUS
  <2>1. /\ buffer[s] \in Seq(EventType) /\ Len(buffer[s]) = fits
        /\ \A i \in 1..fits : buffer[s][i] = all[since[s] + i]
    BY NotifierType DEF NotifierOK, FeedsOK, FeedOK
  <2> HIDE DEF all, n, fits
  <2>2. \A i \in 1..fits : published[i] \in EventType
    <3>1. \A i \in 1..fits : i \in 1..Len(published)
      BY <1>2, <1>3
    <3>2. QED BY <1>2, <3>1, ElementOfSeq
  <2>3. /\ SubSeq(published, 1, fits) \in Seq(EventType)
        /\ Len(SubSeq(published, 1, fits)) = IF 1 <= fits THEN fits - 1 + 1 ELSE 0
        /\ \A i \in 1..fits - 1 + 1 : SubSeq(published, 1, fits)[i] = published[1 + i - 1]
    BY <1>3, <2>2, SubSeqProperties
  <2>4. /\ Len(SubSeq(published, 1, fits)) = fits
        /\ \A i \in 1..fits : SubSeq(published, 1, fits)[i] = buffer[s][i]
    BY <1>2, <1>3, <2>1, <2>3
  <2>5. QED BY <2>1, <2>3, <2>4, SeqEqual
<1>5. feedReply[s] = 200 => feedEvent[s] = Head(published)
  <2> SUFFICES ASSUME feedReply[s] = 200 PROVE feedEvent[s] = Head(published)
    OBVIOUS
  <2>1. since[s] < Len(all) /\ feedEvent[s] = all[since[s] + 1]
    BY DEF NotifierOK, FeedsOK, FeedOK
  <2>2. published[1] = all[since[s] + 1] /\ published # <<>>
    BY <1>1, <1>2, <2>1, EmptySeq
  <2>3. QED BY <1>2, <2>1, <2>2, HeadTailProperties
<1>6. feedKey[s] \in InspectionId => published = <<>> /\ feedReply[s] # 200
  <2> SUFFICES ASSUME feedKey[s] \in InspectionId PROVE published = <<>> /\ feedReply[s] # 200
    OBVIOUS
  <2>1. all = <<>>
    BY DEF NotifierOK, FeedsOK
  <2>2. n = 0
    BY <1>1, <2>1, EmptySeq
  <2>3. published = <<>>
    BY <1>2, <2>2, EmptySeq
  <2>4. feedReply[s] # 200
    BY <2>2, <1>1 DEF NotifierOK, FeedsOK, FeedOK
  <2>5. QED BY <2>3, <2>4
<1>7. QED BY <1>2, <1>4, <1>5, <1>6 DEF published

\* Although a full channel drops events, what a subscriber answers is the first
\* event published under its key since it came, and nobody is answered an event
\* for the number of an inspection.
THEOREM FirstEventAnswered == Spec => []FirstEventArrives
<1>1. IInv => FirstEventArrives
  BY FirstEvent DEF IInv
<1>2. QED BY <1>1, Invariance, PTL

\* A process that ends without an error was told to, and every request that came
\* in is answered, filed and published by then.
THEOREM CleanExit == Spec => []CleanExitLosesNothing
<1>1. IInv => CleanExitLosesNothing
  <2> SUFFICES ASSUME IInv, mainPc = "ok"
               PROVE  /\ raised > 0
                      /\ \A c \in Client : pc[c] # "new" => reply[c] # 0
                      /\ \A s \in Subscriber : feedPc[s] # "new" => feedReply[s] # 0 /\ s \in closed
                      /\ \A c \in StatusClient : statusPc[c] # "new" => statusReply[c] # 0
                      /\ Service!AuditTrailsRequests
                      /\ PublishedOnce
    BY DEF CleanExitLosesNothing, PublishedOnce, Answered
  <2>1. Idle
    BY DEF IInv, IdleAtExit
  <2>2. raised > 0
    BY DEF IInv, RuntimeInvOK, RuntimeOK
  <2>3. \A c \in Client : pc[c] # "new" => reply[c] # 0
    BY <2>1 DEF IInv, ServiceOK, S!HandlersOK, S!HandlerOK, Idle
  <2>4. \A s \in Subscriber : feedPc[s] # "new" => feedReply[s] # 0 /\ s \in closed
    BY <2>1 DEF IInv, NotifierOK, FeedsOK, FeedOK, Idle
  <2>5. \A c \in StatusClient : statusPc[c] # "new" => statusReply[c] # 0
    BY <2>1 DEF IInv, StatusOK, StatusesOK, Idle
  <2>6. QED BY <2>2, <2>3, <2>4, <2>5, SameService DEF IInv
<1>2. QED BY <1>1, Invariance, PTL
===============================================================================
