------------------------------- MODULE TowerReads ------------------------------
(* What the handlers that only read tell their clients while others write:     *)
(* GET /api/summary (TowerStats.Refresh), GET /api/report                      *)
(* (TowerReporter.Generate), GET /api/risk (InspectionService.Risk) and the    *)
(* ticker that refreshes the statistics.  A summary and a report list the      *)
(* inspections in one critical section and the findings in another; Refresh    *)
(* stores its summary in a third.                                              *)
(*                                                                             *)
(* The writers are the critical sections in which other requests change the    *)
(* store, whole handlers being in InspectionService, WorkOrders,               *)
(* InspectionExport and InspectionBatch: here any of them may fall between any *)
(* two steps of a reader.  Today is day 0 throughout.                          *)
EXTENDS InspectionStore, TowerRisk, Paging

CONSTANTS
  Reader,        \* the requests a behaviour may contain
  Ticker,        \* the goroutine of startTowerStatsTicker
  TowerInfo,     \* corrosion and wind load of each tower, as seeded
  OtherTower,    \* a tower id the store does not know
  MaxFindings,   \* bound on the numbers newFindingID hands out
  SeedFindings,  \* the findings newRootHandler adds, by number
  NoFinding,     \* the value of a number the store does not hold
  MaxWrites,     \* bound on the writes of a behaviour
  TopLimit,      \* 5 in the code
  NewStatuses,   \* the statuses inspections are yet to be given
  NewFindings,   \* the towers and severities of findings yet to come
  Filters,       \* what clients filter by, "" for a filter left out
  Pages, Sizes   \* the page numbers and sizes they ask for

FindingId == 1..MaxFindings
Finding == [id : FindingId, tower : Tower \cup {OtherTower}, severity : FindingSeverity]

ASSUME ReadsProcesses == Reader \subseteq Context /\ Ticker \notin Reader

ASSUME ReadsSeeds ==
  /\ Tower # {} /\ OtherTower \notin Tower /\ NoFinding \notin Finding
  /\ TowerInfo \in [Tower -> [corrosion : Int, wind : Int]]
  /\ SeedFindings \in [FindingId -> Finding \cup {NoFinding}]
  /\ \A n \in FindingId : SeedFindings[n] # NoFinding => SeedFindings[n].id = n
  /\ NewStatuses \subseteq InspectionStatus
  /\ NewFindings \subseteq [tower : Tower \cup {OtherTower}, severity : FindingSeverity]
  /\ Filters \subseteq [ tower    : Tower \cup {""},
                   severity : FindingSeverity \cup {""},
                   status   : InspectionStatus \cup {""} ]
  /\ MaxFindings \in Nat /\ MaxWrites \in Nat /\ TopLimit \in Nat

\* A listing is in memory: an int counts it and a page more.  Page and size are ints.
ASSUME ReadsFit ==
  /\ MaxFindings + MaxPageSize <= MaxInt /\ MaxInspections + MaxPageSize <= MaxInt
  /\ Pages \cup Sizes \subseteq -MaxInt - 1..MaxInt

VARIABLES
  findings,    \* InspectionStore.findings
  readPc,      \* where each refresher's goroutine stands
  seen,        \* the listing and the summary it holds
  answer,      \* what a reader was sent: code and body
  cached,      \* TowerStats.cached
  tickDue,     \* the ticker's channel, which holds one tick
  stopClosed,  \* whether stop is closed
  past,        \* history: the states the store has been in
  began        \* history: how many of them when a request came, that moment's included

readVars == <<findings, readPc, seen, answer, cached, tickDue, stopClosed, past, began>>
vars == <<storeVars, readVars>>

Process == Reader \cup {Ticker}

-------------------------------------------------------------------------------
(* The store's listings and what is computed from them                         *)

\* ListFindings sorts a map's values by their ids, which is by number up to
\* fnd-9999: the i-th is the one up to whose number there are i.
NumbersOf(stored) == {n \in FindingId : stored[n] # NoFinding}
Nth(numbers, i) == CHOOSE n \in numbers : Cardinality({m \in numbers : m <= n}) = i
Listing(stored) ==
  LET numbers == NumbersOf(stored)
  IN  [i \in 1..Cardinality(numbers) |-> stored[Nth(numbers, i)]]

ListFindings == Listing(findings)

StoredIn(snapshot) == {id \in InspectionId : snapshot[id] # NoInspection}

\* computeTowerSummary.
Summary(snapshot, listing) ==
  LET Counted(status) == Cardinality({id \in StoredIn(snapshot) : snapshot[id].status = status})
  IN  [ total         |-> Cardinality(StoredIn(snapshot)),
        scheduled     |-> Counted("scheduled"),
        in_progress   |-> Counted("in_progress"),
        completed     |-> Counted("completed"),
        cancelled     |-> Counted("cancelled"),
        open_findings |-> Len(listing),
        high_risk     |-> Cardinality(HighRiskTowers(TowerInfo, listing)) ]

\* TowerPlanner.Overdue at the time the report is generated.
Overdue(item) == item.status \notin {"completed", "cancelled"} /\ item.due < 0

\* TowerReporter.Generate.
Report(snapshot, listing) ==
  [ total_towers      |-> Cardinality(Tower),
    total_inspections |-> Cardinality(StoredIn(snapshot)),
    overdue           |-> Cardinality({id \in StoredIn(snapshot) : Overdue(snapshot[id])}),
    high_risk         |-> Cardinality({t \in Tower :
                            riskLevelFor(Score(t, TowerInfo[t], listing)) \in {"high", "critical"}}),
    top_findings      |-> topFindings(listing, TopLimit) ]

\* InspectionService.Risk.
RiskProfile(tower, listing) ==
  LET score == Score(tower, TowerInfo[tower], listing)
  IN  [ score         |-> score,
        level         |-> riskLevelFor(score),
        open_findings |-> Cardinality(FindingsOn(tower, listing)) ]

\* findingMatches: an empty filter lets everything through.
findingMatches(finding, q) ==
  /\ q.tower = "" \/ finding.tower = q.tower
  /\ q.severity = "" \/ finding.severity = q.severity

\* What is left of a listing, by place.
filterFindings(listing, q) == {i \in DOMAIN listing : findingMatches(listing[i], q)}

\* inspectionMatches; regions are left out of the model.
inspectionMatches(item, q) ==
  /\ q.tower = "" \/ item.tower = q.tower
  /\ q.status = "" \/ item.status = q.status

filterInspections(snapshot, q) == {id \in StoredIn(snapshot) : inspectionMatches(snapshot[id], q)}

\* How long the listings are that GET /api/findings and GET /api/inspections cut
\* into pages for a client with filter q.
PagedTotals(q) ==
  {Cardinality(filterFindings(ListFindings, q)), Cardinality(filterInspections(inspections, q))}

-------------------------------------------------------------------------------
\* Cached answers the zero summary while there is none.
NoSummary == [ total |-> 0, scheduled |-> 0, in_progress |-> 0, completed |-> 0,
               cancelled |-> 0, open_findings |-> 0, high_risk |-> 0 ]

NothingSeen == [kind |-> "none", tower |-> OtherTower, inspections |-> <<>>, out |-> NoSummary]
NoAnswer == [code |-> 0, kind |-> "none", tower |-> OtherTower, body |-> <<>>]

Init ==
  /\ StoreInit
  /\ findings = SeedFindings
  /\ readPc = [p \in Process |-> IF p = Ticker THEN "select" ELSE "new"]
  /\ seen = [p \in Process |-> NothingSeen]
  /\ answer = [r \in Reader |-> NoAnswer]
  /\ cached = NoSummary
  /\ tickDue = FALSE
  /\ stopClosed = FALSE
  /\ past = << [inspections |-> SeedInspections, findings |-> SeedFindings] >>
  /\ began = [r \in Reader |-> 1]

Goto(p, label) == readPc' = [readPc EXCEPT ![p] = label]

StoreUntouched == UNCHANGED <<storeVars, findings, past>>

\* The handler answers and its locals go; a ticker has nobody to answer.
Answer(p, code, kind, body) ==
  /\ Goto(p, IF p = Ticker THEN "select" ELSE "done")
  /\ seen' = [seen EXCEPT ![p] = NothingSeen]
  /\ answer' = IF p = Ticker THEN answer
               ELSE [answer EXCEPT ![p] =
                      [code |-> code, kind |-> kind, tower |-> seen[p].tower, body |-> body]]

-------------------------------------------------------------------------------
(* The writers                                                                 *)

Remember(newInspections, newFindings) ==
  past' = Append(past, [inspections |-> newInspections, findings |-> newFindings])

\* AddInspection with the next number; no reader looks at its tower.
WriteInspection ==
  \E id \in InspectionId :
    /\ Len(past) <= MaxWrites
    /\ NewInspectionID(id)
    /\ ~Stored(id)
    /\ AddInspection(id, [tower |-> CHOOSE t \in Tower : TRUE, due |-> 1,
                          status |-> "scheduled", stamped |-> FALSE])
    /\ Remember(inspections', findings)
    /\ UNCHANGED <<towerAudit, cancelled, findings, readPc, seen, answer, cached,
                   tickDue, stopClosed, began>>

\* UpdateInspectionStatus.  Writing the status there is would change nothing a
\* reader sees.
WriteStatus ==
  \E id \in InspectionId, status \in NewStatuses :
    /\ Len(past) <= MaxWrites
    /\ Stored(id) /\ inspections[id].status # status
    /\ UpdateInspectionStatus(id, status)
    /\ Remember(inspections', findings)
    /\ UNCHANGED <<inspectionSequence, towerAudit, cancelled, findings, readPc, seen,
                   answer, cached, tickDue, stopClosed, began>>

\* AddFinding: numbers are taken in order, findings added in any order.
WriteFinding ==
  \E n \in FindingId, new \in NewFindings :
    /\ Len(past) <= MaxWrites
    /\ findings[n] = NoFinding
    /\ findings' = [findings EXCEPT ![n] = [id |-> n, tower |-> new.tower, severity |-> new.severity]]
    /\ Remember(inspections, findings')
    /\ UNCHANGED <<storeVars, readPc, seen, answer, cached, tickDue, stopClosed, began>>

-------------------------------------------------------------------------------
(* The readers                                                                 *)

\* A request arrives, for a summary or for a report.
Get(r) ==
  \E kind \in {"summary", "report"} :
    /\ readPc[r] = "new"
    /\ Goto(r, "inspections")
    /\ seen' = [seen EXCEPT ![r].kind = kind]
    /\ began' = [began EXCEPT ![r] = Len(past)]
    /\ StoreUntouched
    /\ UNCHANGED <<answer, cached, tickDue, stopClosed>>

\* A request for the risk of a tower: an unknown one is refused at once.
GetRisk(r) ==
  \E tower \in Tower \cup {OtherTower} :
    /\ readPc[r] = "new"
    /\ \/ /\ tower \notin Tower
          /\ Answer(r, inspectionStatusForError["not_found"], "risk", <<>>)
       \/ /\ tower \in Tower
          /\ seen' = [seen EXCEPT ![r].kind = "risk", ![r].tower = tower]
          /\ Goto(r, "findings")
          /\ UNCHANGED answer
    /\ began' = [began EXCEPT ![r] = Len(past)]
    /\ StoreUntouched
    /\ UNCHANGED <<cached, tickDue, stopClosed>>

\* Both listings look at the context first; the ticker's is never done.
ListError(p) == IF p \in cancelled THEN "internal" ELSE "ok"

RefuseRead(p) ==
  /\ ListError(p) # "ok"
  /\ Answer(p, inspectionStatusForError[ListError(p)], seen[p].kind, <<>>)
  /\ cancelled' = cancelled \ {p}
  /\ UNCHANGED <<inspections, inspectionSequence, towerAudit, findings, past,
                 cached, tickDue, stopClosed, began>>

\* ListInspections.
ReadInspections(p) ==
  /\ readPc[p] = "inspections"
  /\ \/ RefuseRead(p)
     \/ /\ ListError(p) = "ok"
        /\ seen' = [seen EXCEPT ![p].inspections = inspections]
        /\ Goto(p, "findings")
        /\ StoreUntouched
        /\ UNCHANGED <<answer, cached, tickDue, stopClosed, began>>

\* ListFindings.  The towers never change, so what follows is the process's own:
\* a report or a risk profile is answered, a summary computed.
ReadFindings(p) ==
  /\ readPc[p] = "findings"
  /\ \/ RefuseRead(p)
     \/ /\ ListError(p) = "ok"
        /\ \/ /\ seen[p].kind = "report"
              /\ Answer(p, 200, "report", Report(seen[p].inspections, ListFindings))
           \/ /\ seen[p].kind = "risk"
              /\ Answer(p, 200, "risk", RiskProfile(seen[p].tower, ListFindings))
        /\ StoreUntouched
        /\ UNCHANGED <<cached, tickDue, stopClosed, began>>
     \/ /\ ListError(p) = "ok"
        /\ seen[p].kind = "summary"
        /\ seen' = [seen EXCEPT ![p].inspections = <<>>,
                               ![p].out = Summary(seen[p].inspections, ListFindings)]
        /\ Goto(p, "store")
        /\ StoreUntouched
        /\ UNCHANGED <<answer, cached, tickDue, stopClosed, began>>

\* The end of Refresh, under the mutex of the statistics.
StoreSummary(p, kept, told) ==
  /\ readPc[p] = "store"
  /\ cached' = kept
  /\ Answer(p, 200, "summary", told)
  /\ StoreUntouched
  /\ UNCHANGED <<tickDue, stopClosed, began>>

\* Mutants: the cache is filled once, and the client is told what it holds or not.
CachedOnce(p) == IF cached = NoSummary THEN seen[p].out ELSE cached
StoreAnsweringCache(p) == StoreSummary(p, CachedOnce(p), CachedOnce(p))
StoreOnce(p) == StoreSummary(p, CachedOnce(p), seen[p].out)

\* Whichever refresh comes last leaves its summary, and each answers its own.
Store(p) == StoreSummary(p, seen[p].out, seen[p].out)

\* The environment: the client's connection goes away.
CancelRead(r) ==
  /\ readPc[r] \in {"inspections", "findings"}
  /\ r \notin cancelled
  /\ cancelled' = cancelled \cup {r}
  /\ UNCHANGED <<inspections, inspectionSequence, towerAudit, readVars>>

-------------------------------------------------------------------------------
(* The ticker                                                                  *)

\* The interval passes; a tick nobody took is not doubled.
Tick ==
  /\ readPc[Ticker] # "done"
  /\ ~tickDue
  /\ tickDue' = TRUE
  /\ StoreUntouched
  /\ UNCHANGED <<readPc, seen, answer, cached, stopClosed, began>>

\* Whoever started the ticker closes stop.
CloseStop ==
  /\ ~stopClosed
  /\ stopClosed' = TRUE
  /\ StoreUntouched
  /\ UNCHANGED <<readPc, seen, answer, cached, tickDue, began>>

TakeTick ==
  /\ readPc[Ticker] = "select"
  /\ tickDue
  /\ tickDue' = FALSE
  /\ Goto(Ticker, "inspections")
  /\ seen' = [seen EXCEPT ![Ticker].kind = "summary"]
  /\ StoreUntouched
  /\ UNCHANGED <<answer, cached, stopClosed, began>>

\* Mutant: stop is looked at only when no tick is waiting.
TakeStopWhenIdle ==
  /\ readPc[Ticker] = "select"
  /\ stopClosed /\ ~tickDue
  /\ Goto(Ticker, "done")
  /\ StoreUntouched
  /\ UNCHANGED <<seen, answer, cached, tickDue, stopClosed, began>>

\* The other case of the select: the goroutine returns and closes done.
TakeStop ==
  /\ readPc[Ticker] = "select"
  /\ stopClosed
  /\ Goto(Ticker, "done")
  /\ StoreUntouched
  /\ UNCHANGED <<seen, answer, cached, tickDue, stopClosed, began>>

-------------------------------------------------------------------------------
RefreshStep(p) == ReadInspections(p) \/ ReadFindings(p) \/ Store(p)

Next ==
  \/ WriteInspection \/ WriteStatus \/ WriteFinding
  \/ \E r \in Reader : Get(r) \/ GetRisk(r) \/ CancelRead(r)
  \/ \E p \in Process : RefreshStep(p)
  \/ Tick \/ CloseStop \/ TakeTick \/ TakeStop

Spec == Init /\ [][Next]_vars

\* The ticker's goroutine runs when it can.  A select with both cases ready
\* takes either at random, so a case that is ready again and again is taken in
\* the end: strong fairness of each.  Nothing forces requests, writes or the
\* stop, and no property here needs a reader to go on.
FairSpec ==
  /\ Spec
  /\ WF_vars(RefreshStep(Ticker)) /\ WF_vars(Tick)
  /\ SF_vars(TakeTick) /\ SF_vars(TakeStop)

-------------------------------------------------------------------------------
(* Properties                                                                  *)

TypeOK ==
  /\ StoreTypeOK
  /\ findings \in [FindingId -> Finding \cup {NoFinding}]
  /\ readPc \in [Process -> {"new", "select", "inspections", "findings", "store", "done"}]
  /\ \A r \in Reader : answer[r].code \in {0, 200, 404, 500}
  /\ \A t \in Tower : Score(t, TowerInfo[t], ListFindings) \in 0..100
  /\ tickDue \in BOOLEAN /\ stopClosed \in BOOLEAN
  /\ began \in [Reader -> 1..Len(past)]

ListingOf(state) == Listing(state.findings)

\* A body counts inspections as they were at one moment and findings as they
\* were at the same or a later one, both since the request came.
Bracketed(r, Compute(_, _)) ==
  \E i \in began[r]..Len(past) : \E j \in i..Len(past) :
    answer[r].body = Compute(past[i].inspections, ListingOf(past[j]))

\* A summary or a report may describe a state that never was, but only one whose
\* two halves were both true while the request was being served: never one read
\* before the request came, from another's cache.  A risk profile was true.
AnswersBracketed ==
  \A r \in Reader : answer[r].code = 200 =>
    \/ answer[r].kind = "summary" /\ Bracketed(r, Summary)
    \/ answer[r].kind = "report"  /\ Bracketed(r, Report)
    \/ answer[r].kind = "risk"    /\ \E j \in began[r]..Len(past) :
         answer[r].body = RiskProfile(answer[r].tower, ListingOf(past[j]))

\* A refresh that listed early may store last and put an older summary in the
\* cache, but a running ticker repairs it: once the writes are over, the cache
\* comes to hold the present summary for good.
CacheCatchesUp ==
  []~stopClosed => <>[](cached = Summary(inspections, ListFindings))

\* The findings a report puts first are the heaviest there were: none left out
\* outweighs one of them, and equals stand in the order of their numbers.
TopAreHeaviest ==
  \A r \in Reader : answer[r].kind = "report" /\ answer[r].code = 200 =>
    LET top == answer[r].body.top_findings
        Before(f, g) == \/ SortWeight(f) > SortWeight(g)
                        \/ SortWeight(f) = SortWeight(g) /\ f.id < g.id
    IN  /\ \A i, j \in DOMAIN top : i < j => Before(top[i], top[j])
        /\ \E k \in began[r]..Len(past) :
             LET all == ToSet(ListingOf(past[k])) IN
             /\ ToSet(top) \subseteq all
             /\ Len(top) = IF Cardinality(all) < TopLimit THEN Cardinality(all) ELSE TopLimit
             /\ \A f \in all \ ToSet(top), g \in ToSet(top) : Before(g, f)

\* Whatever the filter and the size, the pages follow each other without gap or
\* overlap, only the last says that nothing follows, and no page fails.  The
\* pages of the operations records are the same wherever the offset of a page
\* fits an int, and fail nowhere else.
PagesTile ==
  \A total \in UNION {PagedTotals(q) : q \in Filters}, size \in Sizes :
    \E last \in 1..total + 1 :
      /\ towerBounds(total, 1, size).start = 0
      /\ \A n \in 1..last - 1 :
           LET page == towerBounds(total, n, size) IN
           page.end < total /\ page.end = towerBounds(total, n + 1, size).start
      /\ towerBounds(total, last, size).end = total
      /\ \A n \in Pages :
           LET page == towerBounds(total, n, size)
               ops  == opsBounds(total, n, size)
           IN  /\ Sliceable(page)
               /\ IF (DefaultedPage(n) - 1) * DefaultedSize(size) <= MaxInt
                    THEN ops = page /\ (n > last => page.start = page.end)
                    ELSE Sliceable(ops) => ops = page

\* Once stop is closed, the ticker ends, even if ticks keep coming while it
\* refreshes.
TickerStops == stopClosed ~> readPc[Ticker] = "done"
===============================================================================
