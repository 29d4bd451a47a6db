------------------------------ MODULE TowerStatus ------------------------------
(* POST /api/towers/status over the store package: a table of towers of its    *)
(* own beside InspectionStore's.  A request is checked, then the status is     *)
(* written in one critical section; its context is never looked at.            *)
EXTENDS Integers, FiniteSets

CONSTANTS
  StatusClient,  \* the requests a behaviour may contain
  Tower,         \* the towers store.New holds
  SeedStatus,    \* and the status of each
  UnknownTower,  \* an id it does not hold
  BadTowerStatus \* a status validation.Status refuses

TowerStatusValue == {"clear", "review", "repair_required", "restricted"}

VARIABLES
  towerStatus,  \* Store.items, each by its status
  statusPc,     \* where each request's goroutine stands
  statusCall,   \* the tower and the status asked for
  statusReply   \* the HTTP status sent, 0 before

statusVars == <<towerStatus, statusPc, statusCall, statusReply>>

StatusTypeOK ==
  /\ towerStatus \in [Tower -> TowerStatusValue]
  /\ statusPc \in [StatusClient -> {"new", "update", "done"}]
  /\ statusReply \in [StatusClient -> {0, 200, 400, 404, 405}]

NoStatusCall == [id |-> UnknownTower, status |-> BadTowerStatus]

StatusInit ==
  /\ towerStatus = SeedStatus
  /\ statusPc = [c \in StatusClient |-> "new"]
  /\ statusCall = [c \in StatusClient |-> NoStatusCall]
  /\ statusReply = [c \in StatusClient |-> 0]

StatusAnswer(c, code) ==
  /\ statusPc' = [statusPc EXCEPT ![c] = "done"]
  /\ statusReply' = [statusReply EXCEPT ![c] = code]

\* The checks of server.status, in their order.  "readable" is whether the body
\* decodes within 1024 bytes and its id is not blank.
PostStatus(c) ==
  \E post, readable \in BOOLEAN, id \in Tower \cup {UnknownTower},
     status \in {"restricted", BadTowerStatus} :
    /\ statusPc[c] = "new"
    /\ \/ /\ ~post
          /\ StatusAnswer(c, 405)
          /\ UNCHANGED statusCall
       \/ /\ post /\ (~readable \/ status \notin TowerStatusValue)
          /\ StatusAnswer(c, 400)
          /\ UNCHANGED statusCall
       \/ /\ post /\ readable /\ status \in TowerStatusValue
          /\ statusCall' = [statusCall EXCEPT ![c] = [id |-> id, status |-> status]]
          /\ statusPc' = [statusPc EXCEPT ![c] = "update"]
          /\ UNCHANGED statusReply
    /\ UNCHANGED towerStatus

\* Store.UpdateStatus and the answer.
UpdateStatus(c) ==
  /\ statusPc[c] = "update"
  /\ \/ /\ statusCall[c].id \in Tower
        /\ towerStatus' = [towerStatus EXCEPT ![statusCall[c].id] = statusCall[c].status]
        /\ StatusAnswer(c, 200)
     \/ /\ statusCall[c].id \notin Tower
        /\ StatusAnswer(c, 404)
        /\ UNCHANGED towerStatus
  /\ UNCHANGED statusCall

StatusNext == \E c \in StatusClient : PostStatus(c) \/ UpdateStatus(c)
===============================================================================
