------------------------------ MODULE TowerServer ------------------------------
(* The process: inspection requests, subscribers and tower status requests     *)
(* served by one server, which a signal or a listener's failure ends.  A       *)
(* request arrives while the server accepts; nothing moves once the process    *)
(* has exited.                                                                 *)
EXTENDS InspectionStore

CONSTANTS Client, DueInDays, Subscriber, SubscriberCapacity,
          StatusClient, SeedStatus, UnknownTower, BadTowerStatus, MaxSignals

VARIABLES pc, call, reply,
          subscribers, buffer, closed, feedPc, feedKey, feedEvent, feedReply, feed, since,
          towerStatus, statusPc, statusCall, statusReply,
          mainPc, listener, errCh, signals, raised

Service  == INSTANCE InspectionService
Notifier == INSTANCE TowerNotifier
Base     == INSTANCE TowerStatus
Runtime  == INSTANCE ServerRuntime

ASSUME ServerParameters ==
  /\ Client \subseteq Context
  /\ DueInDays \subseteq Int
  /\ SubscriberCapacity \in Nat \ {0}
  /\ MaxSignals \in Nat
  /\ UnknownTower \notin Tower
  /\ BadTowerStatus \notin Base!TowerStatusValue
  /\ SeedStatus \in [Tower -> Base!TowerStatusValue]

serviceVars  == <<storeVars, pc, call, reply>>
notifierVars == <<subscribers, buffer, closed, feedPc, feedKey, feedEvent, feedReply, feed, since>>
statusVars   == <<towerStatus, statusPc, statusCall, statusReply>>
runtimeVars  == <<mainPc, listener, errCh, signals, raised>>
vars == <<serviceVars, notifierVars, statusVars, runtimeVars>>

Init ==
  /\ StoreInit
  /\ Service!ServiceInit
  /\ Notifier!NotifierInit
  /\ Base!StatusInit
  /\ Runtime!RuntimeInit

\* No request is being served.
Idle ==
  /\ \A c \in Client : pc[c] \in {"new", "done"}
  /\ \A s \in Subscriber : feedPc[s] \in {"new", "done"}
  /\ \A c \in StatusClient : statusPc[c] \in {"new", "done"}

\* A request comes in.
Arrive ==
  /\ Runtime!Accepting
  /\ \/ /\ \E c \in Client : Service!PostSchedule(c) \/ Service!PostMove(c)
        /\ UNCHANGED <<notifierVars, statusVars>>
     \/ /\ \E s \in Subscriber : Notifier!Subscribe(s)
        /\ UNCHANGED <<serviceVars, statusVars>>
     \/ /\ \E c \in StatusClient : Base!PostStatus(c)
        /\ UNCHANGED <<serviceVars, notifierVars>>
  /\ UNCHANGED runtimeVars

\* A request goroutine takes a step.  Start and Complete publish under the tower
\* of the inspection they moved.
Serve(c) ==
  /\ ~Runtime!Exited
  /\ \/ Service!Work(c) /\ UNCHANGED notifierVars
     \/ /\ Service!Publish(c)
        /\ Notifier!Deliver(inspections[call[c].id].tower, Service!EventOf(call[c].op))
  /\ UNCHANGED <<statusVars, runtimeVars>>

Feed(s) ==
  /\ ~Runtime!Exited
  /\ Notifier!SubscriberStep(s)
  /\ UNCHANGED <<serviceVars, statusVars, runtimeVars>>

ServeStatus(c) ==
  /\ ~Runtime!Exited
  /\ Base!UpdateStatus(c)
  /\ UNCHANGED <<serviceVars, notifierVars, runtimeVars>>

\* The environment: a client goes away.
Disconnect ==
  /\ ~Runtime!Exited
  /\ \/ /\ \E c \in Client : Service!CancelClient(c)
        /\ UNCHANGED notifierVars
     \/ /\ \E s \in Subscriber : Notifier!Leave(s)
        /\ UNCHANGED serviceVars
  /\ UNCHANGED <<statusVars, runtimeVars>>

Run ==
  /\ Runtime!RuntimeNext(Idle)
  /\ UNCHANGED <<serviceVars, notifierVars, statusVars>>

RunMain ==
  /\ Runtime!MainStep(Idle)
  /\ UNCHANGED <<serviceVars, notifierVars, statusVars>>

Next ==
  \/ Arrive \/ Disconnect \/ Run
  \/ \E c \in Client : Serve(c)
  \/ \E s \in Subscriber : Feed(s)
  \/ \E c \in StatusClient : ServeStatus(c)

Spec == Init /\ [][Next]_vars

\* Goroutines that can run do, and ten seconds pass.  Requests, signals, failures
\* of the listener and clients that leave are not forced.
FairSpec ==
  /\ Spec
  /\ \A c \in Client : WF_vars(Serve(c))
  /\ \A s \in Subscriber : WF_vars(Feed(s))
  /\ \A c \in StatusClient : WF_vars(ServeStatus(c))
  /\ WF_vars(RunMain)

-------------------------------------------------------------------------------
(* Properties                                                                  *)

TypeOK ==
  /\ StoreTypeOK
  /\ Service!ServiceTypeOK
  /\ Notifier!NotifierTypeOK
  /\ Base!StatusTypeOK
  /\ Runtime!RuntimeTypeOK

SubscribersAreWaiting == Notifier!SubscribersAreWaiting
FirstEventArrives == Notifier!FirstEventArrives
NoSkippedStart == Service!NoSkippedStart

\* A process that ends without an error was told to, and has lost nothing: every
\* request that came in is answered, every accepted change is in the audit trail
\* and has been published, and no subscription is left open.
CleanExitLosesNothing ==
  mainPc = "ok" =>
    /\ raised > 0
    /\ \A c \in Client : pc[c] # "new" => reply[c] # 0
    /\ \A s \in Subscriber : feedPc[s] # "new" => feedReply[s] # 0 /\ s \in closed
    /\ \A c \in StatusClient : statusPc[c] # "new" => statusReply[c] # 0
    /\ Service!AuditTrailsRequests
    /\ \A tower \in Tower : Len(feed[tower]) =
         Cardinality({c \in Client : reply[c] = 200 /\ inspections[call[c].id].tower = tower})

\* Whatever the subscribers are waiting for, a signal that is received and a
\* listener that fails end the process; until it ends, every request is answered,
\* subscribers as soon as there is an event for them.
EveryoneLeaves ==
  /\ signals > 0 \/ (errCh = "failed" /\ mainPc \in {"start", "select"}) ~> Runtime!Exited
  /\ \A c \in Client : pc[c] # "new" ~> reply[c] # 0 \/ Runtime!Exited
  /\ \A s \in Subscriber : buffer[s] # <<>> ~> feedPc[s] = "done" \/ Runtime!Exited
===============================================================================
