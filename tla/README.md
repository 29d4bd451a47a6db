# Telecom tower inspection service: TLA+ specifications

These modules specify and check the service in `src/backend`: an HTTP server in
Go that keeps everything in memory. Every request is a goroutine; the only
synchronisation is one mutex per store, audit or cache, a few atomic counters,
and buffered channels used as token pools. Nothing is persisted and nothing is
sent to another process, so the hard behaviours are interleavings of handlers
between critical sections, values that are stale when they are used, pools and
channels at their limit, requests cancelled half way, one step of several
failing, and a shutdown that waits for whoever is still being served.

## Inventory

| Component | State | Operations | Module |
|---|---|---|---|
| Operations records `ops_api.go`, `ops_service.go`, `ops_store.go`, `ops_state.go`, `ops_audit.go` | `OpsStore.items` (record, revision), `OpsStateMachine.history`, `OpsAudit.events`, the sequence of generated names | create, transition; get, list, audit, snapshot only read | `OpsRecords` |
| Inspection store, audit, identifiers `tower_store.go`, `tower_audit.go`, `tower_model.go` | inspections, findings, orders, towers, events, three counters | add, get, list, blind status update, add event | `InspectionStore` (inspections, events), `WorkOrders` (findings, orders) |
| Inspection service `tower_service.go`, `tower_api.go` | none of its own | Schedule, Start, Complete | `InspectionService` |
| Export `tower_export.go`, `tower_handlers.go` | the token channel, capacity 4 | Export, with one worker per match | `InspectionExport` |
| Batch `tower_batch.go` | the lease, a channel of capacity 1 | Run | `InspectionBatch` |
| Findings and work orders `tower_service.go`, `tower_store.go` | findings, orders, their two counters | RecordFinding, AssignOrder, ResolveOrder | `WorkOrders` |
| Notifier `tower_notify.go`, `tower_api.go` | subscriber channels of capacity 8, by key | Subscribe, Unsubscribe, Publish, the subscribe request | `TowerNotifier` |
| Statistics `tower_stats.go`, `tower_ticker.go` | the cached summary, the ticker's channels | Refresh, the ticker goroutine | `TowerReads` |
| Queries, risk, report `ops_query.go`, `tower_query.go`, `tower_risk.go`, `tower_report.go` | none | page bounds, filters, scores, summaries, top findings | `Paging`, `TowerRisk`, evaluated by `TowerReads` |
| Base tower status `store/`, `httpapi/`, `validation/` | towers with a status, apart from the inspections' | update status; the collection only reads | `TowerStatus` |
| Server runtime `runtime.go`, `main.go` | listener, error channel, signal channel | serve, shut down, exit | `ServerRuntime` |
| Static rules `ops_rules_*.go`; health, config, web | none | constants and plain output | not modelled |

How they interact: `newRootHandler` (`main.go`) builds one `InspectionStore` and
one `InspectionService`; the service owns the one `TowerAudit`; `inspectionAPI`
serves the inspections and owns the notifier; `towerHandlers` serves findings,
orders, risk, summary, export and report, and owns the exporter, which writes
to the same store and the same audit. `TowerBatchProcessor` would do the same,
but nothing calls its constructor yet. The operations records share nothing
with the inspections but the middlewares.

What makes each part correct:

- operations records: one record per name, optimistic locking that no
  interleaving defeats, status changes along `opsTransitionTable`, an audit
  trail with one event per write, an answer to every request;
- inspections: unique numbers, the lifecycle scheduled, in progress, completed,
  a completion time with every completion, an audit trail that accounts for
  every accepted request;
- findings and orders: an order for every high finding, none without its
  finding, the lifecycle open, assigned, resolved;
- export: no token leaked or given back twice, nothing running after the
  answer, an answer that reports what was done, termination;
- batch: one run at a time, the lease back on every return, nothing overdue
  left behind;
- notifier: a subscriber is registered exactly as long as it waits, nothing is
  sent on a closed channel, and what a subscriber answers is the first event
  there was for it, however many are dropped;
- reads: a summary or a report may mix two states of the store but reports
  nothing beyond what was there between its request and its answer; pages tile
  a listing; the cache is not left behind the store; the ticker stops;
- server: a clean exit has lost no answer, no audit event and no publication,
  and a signal ends the process although somebody may wait for ever;
- together: all of it while the others interfere.

`PROJECT.json` lists the hazards behind these, each at its line, with the
properties that cover it.

## The modules

`OpsModel` holds the data of the operations records (statuses, transition
table, names, error codes, assumptions on the constants). `OpsRecords` is the
state machine of handlers. `OpsAtomic` is the abstract specification: each
request is decided once, in one step. `InspectionStore` holds the shared store
and audit as operators, one per method; `InspectionService`,
`WorkOrders`, `InspectionExport` and `InspectionBatch` extend it, each a
specification of its own; `InspectionSystem` instantiates service, export and
batch over one set of store variables. `WorkOrders` is not in that composition:
it shares only the audit trail with them, under keys (towers) the batch alone
also uses, and no step of either reads what the other writes.

`TowerRisk` and `Paging` are operators only: what is computed from a listing,
and where its pages are cut, with the offset in a machine integer of `IntBits`
bits. `TowerReads` evaluates them: its readers are the handlers of summary,
report and risk and the statistics' ticker, its writers the critical sections
in which the other modules' handlers change the store, in any order.
`TowerServer` composes `InspectionService`, `TowerNotifier` (whose `Deliver` is
conjoined to `Publish`), `TowerStatus` and `ServerRuntime`: requests arrive only
while the server accepts, nothing moves once the process has exited, and the
shutdown sees whether anybody is still being served.
`MC*` modules give the constants small values, the `.cfg` files are the runs.
Theorems and proofs are in a `...Proofs` module beside each component:
`OpsRecordsProofs`, `InspectionServiceProofs`, `InspectionJobsProofs` (export
and batch), `WorkOrdersProofs`, `TowerReadsProofs`, and for the compositions
`InspectionSystemProofs` and `TowerServerProofs`, which instantiate the proofs
of what they compose. `SequenceCounts` has the lemmas about sequences and
counting that several of them cite.

### Steps and critical sections

A step is a region that runs under one mutex, one atomic operation or one
channel operation, together with the straight-line code around it that touches
only the goroutine's own variables. `pc`, `exportPc`, `worker` and `batchPc`
say where a goroutine stands; `call`, `record`, `move`, `overdue` are its local
variables. Decoding, encoding, wording, time stamps and owners are left out:
they decide nothing. A handler that only reads shared state and answers has no
action in the modules that write; `TowerReads` is about those whose answers are
computed from more than one reading.

| Step of `OpsRecords` | Code |
|---|---|
| `PostCreate` | `create` up to the policy check; takes a generated name if none is given, even when the policy then refuses |
| `Put` | `OpsStore.Put`: insert if absent; every error becomes a 500 by `wrapOps` |
| `PostTransition` | `transition` up to `OpsService.Transition`: empty name, invalid target |
| `Get` | `OpsStore.Get` and the first revision check |
| `Move` | `OpsStateMachine.Move` on the local copy; appends to the shared history |
| `Update` | `OpsStore.Update`: second revision check and write, under one lock |
| `Audit` | `OpsAudit.Add` and the answer |
| `Cancel` | the request's context ends: the client leaves, or the 3 s of `opsContext` and `opsTransitionContext` pass |

`InspectionService` follows the same pattern: `PostSchedule` (validation and
the atomic number), `Add`, `PostMove`, `Get`, `Update`, `Audit`, `Publish`.
`WorkOrders` splits RecordFinding at its critical sections (`PostFinding` with
the number, `AddFinding`, `AuditFinding`, `NewOrderID`, `AddOrder`,
`AuditOrder`) and AssignOrder and ResolveOrder at theirs (`PostOrder`,
`GetOrder`, `UpdateOrder`, `AuditOrderMove`).
`InspectionExport` has the handler's `PostExport`, `List` (with the start signal
that lets the workers go), `Wait`, `Finalize`, and the workers' `Acquire`,
`Write`, `Send`, `Release`. `InspectionBatch` has `Run`, `Parse`, `BatchList`,
`Complete`, `BatchAudit`, `Finish`, and the lease goes back with every return.

| Step of `TowerReads` | Code |
|---|---|
| `Get`, `GetRisk` | a request for a summary, a report or a risk profile; an unknown tower is refused |
| `ReadInspections`, `ReadFindings` | the two listings, each a critical section of its own; what is computed from them touches only locals |
| `Store` | the end of `Refresh`, under the mutex of the cache |
| `WriteInspection`, `WriteStatus`, `WriteFinding` | `AddInspection`, `UpdateInspectionStatus`, `AddFinding` by whoever calls them |
| `Tick`, `TakeTick`, `CloseStop`, `TakeStop` | the ticker's channel of one tick, the goroutine's `select`, its stop channel |

| Step of the server | Code |
|---|---|
| `Subscribe`, `Receive`, `Leave`, `Unsubscribe` | the subscribe handler: its channel, its `select`, its deferred `Unsubscribe` |
| `Deliver` | `Publish`: an append to each channel with room, under the mutex |
| `PostStatus`, `UpdateStatus` | `server.status`: the checks in their order; `Store.UpdateStatus` |
| `Listen`, `AcceptFails` | the goroutine of `ListenAndServe` |
| `Notify`, `Signal` | `signal.Notify`; a signal before it kills the process, one after it takes the channel's only slot or is dropped |
| `SelectError`, `SelectSignal` | the `select` of `serveHTTP` |
| `Drained`, `Expire` | `Shutdown` returns because nobody is served, or because ten seconds are over and `main` exits |

### Abstractions worth knowing

- A record's name is kept in two forms, as spelled and as `normalizeOpsRecord`
  makes it (`Normal`). Creation normalises, the path of a transition does not.
- A status outside the four listed ones is one value, `Unlisted`; creation
  accepts it, transition does not.
- The policy check is a free Boolean `complies`.
- A context is looked at only where the code looks: on entry to a store method,
  before its lock. The model evaluates it in the step that takes the lock; a
  context that ends in between is one that ends right after the step.
- An inspection's completion time is the Boolean `stamped`; its due date is a
  day, today being 0. Its place in the slice is left out: listings are sets,
  and whoever walks one meets its inspections in any order. The code's order is
  one of those.
- A finding is its tower and whether it is high; it need not name a tower the
  store knows, since RecordFinding never looks. A work order keeps no assignee:
  AssignOrder sets it on the copy it answers and the store never gets it.
- `TowerAudit` is kept per key, in the order of its events.
- A refused request forgets its local variables, as its goroutine does.
- `OpsStore.Update` cannot report "not found" after `Get` has found the record,
  because `OpsStore.Delete` has no caller; the model keeps the check.
- The lease and the token channels are counters: their elements are all equal.
- A channel of a subscriber is named by the subscriber; a key is a tower or the
  number of an inspection, because the path of the request is used as it is.
- A finding's id is its number. Ids are padded to four digits and sorted as text,
  which is the order of the numbers up to `fnd-9999`; beyond it read a number of
  the model as the rank of the id.
- `TowerReads` remembers every state the store has been in (`past`) and where a
  request began, to say what an answer may contain. Today is day 0.
- A summary and a report count high-risk towers by different criteria (corrosion
  or three findings against the level of the score), and only the summary
  counts findings on towers the store does not know. Both are modelled as they
  are; no property equates them.
- Listings are cut into pages at every reachable store state, for every filter,
  page and size of the instance. An offset that wraps gives the tower listings
  the items of another page, and makes a slice of the operations listing panic,
  which `recoveryMiddleware` turns into a 500 (`Sliceable`).
- What `net/http` and `os/signal` do is modelled from how `serveHTTP` uses them.
  The ten seconds of the shutdown and the timeouts of a connection are not
  measured: `Expire` may happen at any time in a shutdown, `Leave` at any time.

## The runs

All runs use `CHECK_DEADLOCK FALSE`: a behaviour ends when every request has
been answered, and requests run once.

| Run | Instance | What it shows |
|---|---|---|
| `ops_requests` | 3 requests, 4 spellings of 3 names, expectations {0, 1}, any cancellations | the safety properties of the store for versioned and unversioned transitions mixed |
| `ops_versioned` | 2 requests, expectations {1, 2}, fairness | transitions follow the table, and the handlers implement `OpsAtomic`, when all transitions are versioned; every request is answered |
| `ops_unversioned` | 2 requests, expectation 0 | counterexample: a closed record is reopened |
| `service_stale_start` | 3 requests | counterexample: a stale Start reopens a completed inspection |
| `order_requests` | 4 requests, 1 seeded finding, 2 free finding numbers, 2 towers, any cancellations | orders and findings match, orphans are failures, audit trail, and what two racing assignments can and cannot do |
| `order_missing` | the same | counterexample: a high finding stays without its order |
| `export_pool` | 2 exports, 3 inspections, 2 tokens | token accounting, the report, the audit, and that workers fail for want of a token only under contention |
| `export_exhausted` | 1 export, 5 inspections, the code's 4 tokens | counterexample: success is reported with an inspection left behind |
| `batch_lease` | 3 runs, 4 inspections on 2 towers, 3 cutoffs and an invalid one, any cancellations | mutual exclusion, the lease back on all four returns, completeness |
| `system_interference` | 1 client, 1 export, 1 batch, 1 token, fairness | audit trails, completion times and their authors under interference, what reopens an inspection; client, export and batch are all answered |
| `tower_reads` | 1 request, the ticker, 2 writes, 2 towers, up to 2 inspections and 4 findings, 16-bit pages, fairness | answers lie between what was there before and after, the heaviest findings come first, pages tile a listing, the cache catches up, the ticker stops |
| `server_requests` | 2 clients, 1 subscriber with a channel of 1, 1 status request, 2 signals, fairness | registration and delivery, a clean exit loses nothing, everybody is answered or the process ends, no start is skipped |

Why the bounds are enough to be interesting: a lost update, a double creation
and a double start take two actors, and so does every behaviour in which two
versioned transitions meet; three let a third act between the two
(reopen after close, complete between two starts, a name chosen by a client
between two generated ones). Reopening a resolved order takes a
finding, two assignments and a resolution: four requests. Names: one seeded, one that a client
may choose in two spellings and that is also the first generated one, one
empty. The sequence of names is bounded by `Generated`, inspection numbers by
`MaxInspections`, those of findings and orders by `MaxFindings` and
`MaxOrders`; a request that would pass the bound does not arrive. The pool
is smaller than the code's 4 in `export_pool` so that it overflows with three
workers; `export_exhausted` uses the code's own limit. In `tower_reads` two writes
fall before, between and after the two listings, and one refresh of the ticker
meets one of a request; the seeded towers have a corrosion out of range and a
score one finding below "high"; the integer has 16 bits so that pages 165 and
8193 of 200 wrap to a negative offset and back to the first item, as pages near
2^63/200 do with 64. In `server_requests` a channel of one slot meets two events,
so that one is dropped; every numbered inspection is stored from the start, so a
Schedule can only be refused there (it succeeds in `system_interference`). Cutoffs fall on a due
day, one day after one, and after all of them. Symmetry is used for request
identities, and never in a run with a liveness property.

### Properties that hold under a condition

`TransitionsFollowTable` and `ImplementsAtomic` need every transition to name
its revision, `ops_unversioned` shows why. `NoSkippedStart` is about clients: an
export moves inspections between any two statuses on purpose, which is why
`ReopenedByRace` makes an exception for it.
`CacheCatchesUp` is about a store that is no longer written to: while it is, a
refresh that listed earlier may store its summary later.
`FirstEventArrives` is about towers: a client that subscribes to the number of an
inspection, as the path suggests, never gets an event, and the property says so.
`NoneLeftOverdue` is about batches alone: a client may start an overdue
inspection right after a run has listed.

### Where the code departs from its documentation

Four runs end in a counterexample to a sentence of the repository; the
findings in `PROJECT.json` quote them.

1. `ops_unversioned`: `README.md:60` promises version checks and state machine
   transitions for operations records. Without `expected` in the request there
   is no version check, and the move was judged on a copy.
2. `service_stale_start`: the same sentence promises them for inspections, which
   have no version; Start and Complete check one state and overwrite another.
   `ReopenedByRace` and `NoSkippedStart` delimit the damage: reopening takes two
   accepted Starts or an export, and no start is ever skipped.
3. `order_missing`: `README.md:34` promises an order for every high finding. The
   finding is stored first; when the client leaves before the order is stored,
   it is answered 500 and the finding keeps no order. `OrphansAreFailures`
   delimits the damage: no request answered 201 leaves one.
4. `export_exhausted`: the comment of `Export` says every match is moved. A
   worker without a token gives up and its error is never read.

## Fairness

Weak fairness is assumed for the steps of a goroutine that is already running:
mutexes are held for straight-line code only, no step but `Wait` and a
subscriber's `Receive` waits for another goroutine, and the Go scheduler runs
every runnable goroutine. Each export worker is a goroutine with fairness of its
own. Nothing is assumed of the environment: no request has to arrive, no context
and no listener has to end, no signal has to come. The liveness of handlers does
not rest on the timeouts; that of the shutdown rests on its own (`Expire` is part
of the main goroutine's fair steps), because a waiting subscriber may otherwise
hold it up for ever, as the mutant of `EveryoneLeaves` shows.

`TowerReads` assumes fairness of the ticker only: the timer ticks again and again
(`Tick`), and both cases of its `select` are strongly fair. Ticks may keep arriving
while the ticker refreshes, so that both cases are ready again and again; Go's
`select` chooses among ready cases at random, which makes choosing one of them
for ever a behaviour of probability zero.

## What is proved

Each theorem is of the component's own `Spec` (or `OrderSpec`, and so on) and
holds for every value of the constants that satisfies the named assumptions.

| Assumption | What it says, and why the code satisfies it |
|---|---|
| `OpsNames`, `OpsSeed`, `OpsExpectations`, `OpsRequests` | names normalise to names and generated names are not empty; the seed holds records; revisions are integers; a behaviour has finitely many requests (needed for counting) |
| `StoreSeeds`, `StoreSeedCounter` | the seed holds inspections, none of a number the counter has not handed out |
| `StoreTowers`, `StoreContexts` | an audit key is a tower or an inspection number, never both; finitely many requests |
| `BatchCalls`, `ExportRequests`, `OrderClients`, `SystemContexts` | every request has a context, no two of them the same; cutoffs are days; the pool has a token |
| `OrderSeeds`, `ServerParameters`, `SystemParameters` | seeds and bounds are of their types, a feed's channel has room for one event |
| `ReadsProcesses`, `ReadsSeeds` | the ticker is no client; there is a tower; a seeded finding is stored under its number; filters, seeds and bounds are of their types |
| `PagingConstants`, `ReadsFit` | the default page size (25) is at most the largest (200), that one an `int`; pages and sizes asked for are `int`s, as `strconv.Atoi` leaves them; a listing and one more page can be counted in an `int`, a listing being in memory |

### Operations records

- `TypeCorrect`: `TypeOK`. It is inductive only with `HandlersOK`: what a
  handler's position says about its call (a handler at "put" has a normalised
  name, one past "get" has a listed target, its record is stored, and so on).
- `CopyCorrect`: `CopyIsPast`, the invariant optimistic locking rests on.
  Inductive with `WinnersBehind`: an accepted versioned transition's expected
  revision is behind the stored one.
- `OneWinner`: `OneWinnerPerRevision`. A second transition that expects the
  same revision would have to find it stored, and `WinnersBehind` says it no
  longer is.
- `RevisionCounts`: `RevisionCountsWrites`, by counting: the set of accepted
  transitions gains exactly the one request whose write raises the revision.
- `CreatedOnce`: `OneCreator`, and `TrailsComplete`: `AuditTrailsWrites`, by the
  same counting of the creations that found the name free, and of the writes
  whose event is yet to be filed.
- `ReplyStale`: `ReplyIsStale`. `UnlistedStuck`: `UnlistedIsStuck`, from
  `CopiesOK`, which says a copy of an unlisted record cannot pass `Move`.
- `TableFollowed` and `HandlersImplementAtomic`: with `AllVersioned` (every
  expectation is positive) `Update` only succeeds when the handler's copy is
  the stored record, so the move `Move` judged is the move that is made; `Put`
  and `Update` map to `Create` and `Transition` of `OpsAtomic`, a refusal to
  `Refuse`, every other step to a stutter.

### Inspections: service, export, batch, and the three together

- Service. `StartFirst`: `NoSkippedStart`. A Complete writes what it judged some
  steps earlier; the invariant needed is that its inspection has left
  "scheduled" since, and no step puts one back. `InspectionServiceProofs` also
  holds `AuditTrailsRequests`, which the composition uses.
- Export (`InspectionJobsProofs`). `TokensBalance`: `TokensAreHeld`; the set of holders changes by the one
  worker that takes or returns a token, a step that does neither keeps it.
  `ReportIsTrue`: `ReportMatchesWorkers`, from what a handler's position says of
  its workers (`ExportsOK`: the handler waits for exactly those it has started),
  from `AllSentOK` (what has been sent is what the ended workers sent, each id
  once) and from `AllAuditedOK` (an id sent has been filed).
  `DropsNeedContention`: `LostOnlyInContention`; a worker that finds no token
  finds at least `inspectionExportLeaseLimit` others that hold one.
- Batch (the same module). `OneRunAtATime`: `LeaseIsExclusive`, inductive with `RunsOK`: a run past
  the lease is the one that holds it. `RunCompletesOverdue`: `NoneLeftOverdue`;
  what is overdue and in progress is in the run's list or already completed,
  because the lease keeps other runs away and in the batch's own specification
  nobody else writes. With exports and Starts beside it an inspection may come
  to be in progress behind the run, so it is not claimed of `InspectionSystem`.
- Together. `SystemInv` is the store's type and the inductive invariants of the
  three components. Each is preserved by its own steps (cited from the
  component's module, instantiated) and by the steps of the other two, which
  change the store in ways it allows: they rewrite an inspection that is
  stored, add one at a fresh number, and file events of other kinds. This gives
  `TypeCorrect` and `TrailsComplete` (`TrailsAreComplete`).
- `StampsHaveAuthors`: `EveryStampHasAnAuthor`; authors are never forgotten.
- `RacesReopen`: `ReopenedByRace`, from `Races`: unless an export has written the
  inspection, a scheduled one was never started and carries no completion time,
  who is about to complete it has seen it leave "scheduled", who is about to
  start it too late was overtaken by another Start, and what a batch lists is
  not scheduled.

### Findings and work orders

- `TypeCorrect`, from `CallsOK` (positions against calls).
- `NumbersAreFresh`: `FreshNumbersNeverTaken`, and `OrdersHaveFindings`:
  `OrdersMatchFindings`. Their invariant `NumbersInv` says which numbers are
  handed out (`NumbersOK`), who holds which until it is stored (`HoldsOK`), and
  that an order names a stored high finding on its tower, no two the same
  (`MatchOK`). Without `HoldsOK` two requests could hold one number.
- `AssignedFirst`: `NoSkippedAssignment`, and `RacesReassign`: `ReassignedByTwo`,
  from `OrderRaces`: nobody about to resolve an order finds it open, an order
  that is not open was assigned once, an open one was never resolved.
- `OrphansFail`: `OrphansAreFailures`; the findings without an order are counted
  against the requests that are still under way or were answered 500.
- `TrailsComplete`: `AuditTrailsOrders`, by counting as above, tower by tower.

### The server

- `TypeCorrect`; `StartFirst`, the service's theorem with arrivals, cancelled
  requests and shutdowns in between.
- `RegisteredWhileWaiting`: `SubscribersAreWaiting`; `RemoveFirst` removes the one
  registration there is.
- `FirstEventAnswered`: `FirstEventArrives`, from `FeedsOK`: a waiting subscriber's
  channel holds the first events published since it registered, as many as fit.
- `CleanExit`: `CleanExitLosesNothing`, from `PublishedOnce` (a tower's events are
  the answered requests about it), `IdleAtExit` (a process that ended without
  an error was serving nobody), the service's trails and `RuntimeOK`.

### Reads

- `AnswersTrue`: `AnswersBracketed`, from `ReadsInv`. Its part `ReaderOK` says that a
  reader past the first listing holds the inspections of one moment since its
  request came, and one about to store a summary has computed it from these and
  from findings listed no earlier; `Longer` says that writers only ever add to
  the history, so nothing a reader holds becomes wrong. Without the history
  (`past`) the invariant could not be stated.
- `TypeCorrect`: `TypeOK`, whose part about scores is `ScoreRange`: clamped survey
  values, weights times cardinalities, cut at 100.
- `TopFirst`: `TopAreHeaviest`. `ListingsAreListings`: a listing holds findings in
  strictly increasing order of their numbers, because the store keeps a finding
  under its number (`NumberedOK`). `InsertOK`: one pass of the sort keeps the
  order and adds one finding; what a finding must stay behind is the front of
  the sorted sequence, because that is ordered. `PassesOK` and `SortOK` put the
  passes together, `TopFindingsOK` cuts the result.
- `PagesFollow`: `PagesTile`. `TowerPage` and `OpsPage` say what a page is where its
  offset fits and what may happen where it wraps; the last page is found by
  division (`LastPage`). `OffsetOK`: a page less one is an `int`, so only its product
  with the size can wrap.

The sort's passes and the places of a listing are proved by induction over
natural numbers. The library's induction theorems take an operator, which the
installed provers cannot instantiate; `Counting` says the same of a set that
holds 0 and the successor of each of its numbers, and follows from the
pigeonhole principle for finite sets. For it `sortFindingsBySeverity` is a
recursive function, as the outer loop of the code is, and the i-th finding of a
listing is the one up to whose number there are i.

### Model-checked only

- Liveness (`EveryRequestAnswered`, `EveryoneAnswered`, `EveryoneLeaves`,
  `CacheCatchesUp`, `TickerStops`): fairness and `ENABLED` are outside the prover.
- The runs that expect a violation: a counterexample is TLC's to show.

Each passing property is also checked to be sensitive to the code: `PROJECT.json`
names for each a mutant of a modelled definition (the operators marked "Mutant"
in the modules) under which the property's run finds a violation.

## Not modelled

- The static rules (`ops_rules_*.go`) are constant tables behind one read; health,
  configuration, web assets and response headers are plain output.
- `OpsStateMachine.history` records a move before the store has accepted it and
  keeps it when the store refuses. The model keeps the variable and the order
  of the steps; no property is about it, because nothing reads it.
- Regions, subjects, owners, inspectors and time stamps decide nothing but text
  filters and orders of listings; the substring search of `opsMatch`, the sort of
  `sortOpsRecords` and the regions of a report are left out with them.
- Work orders and the statistics are not part of `TowerServer`, exports and
  batches neither: what they share with it is covered in `InspectionSystem`,
  and a server with all of them is beyond TLC.
- Connection timeouts (`ReadTimeout`, `WriteTimeout`, `IdleTimeout`): a subscriber
  whose answer comes after the write timeout is one that has left.

## Plan

Done, in this order: operations records with their abstract specification and
proofs; the inspection store with service, export and batch; their composition;
findings and work orders; reads, statistics, risk and pages; the notifier, the
base service and the runtime, composed with the service into the server; the
proofs: every invariant and every step property that a passing run checks is a
theorem.

Next:

1. Refinement beyond the operations records: an abstract specification of an
   inspection's life (scheduled, in progress, completed, reopened by an export)
   that `InspectionService` implements, so that `NoSkippedStart` and `ReopenedByRace`
   become consequences of one statement.
2. The safety half of the liveness properties: that no reachable state of an
   export, a subscriber or a shutdown is one in which nobody can move, stated as
   an invariant and proved, which leaves only fairness to TLC.
3. `PagesTile` for the operations records' own listing, after the filter of
   `opsMatch` and the sort of `sortOpsRecords`.
