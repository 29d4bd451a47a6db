---------------------------- MODULE TowerReadsProofs ---------------------------
(* Proofs about TowerReads, for every set of readers, seeds, towers and        *)
(* findings, and for every width of int and size of pages.                     *)
EXTENDS TowerReads, SequenceCounts

-------------------------------------------------------------------------------
(* What a reader holds: an answer counts what was true since the request came  *)

InspectionMap == [InspectionId -> TowerInspection \cup {NoInspection}]
FindingMap == [FindingId -> Finding \cup {NoFinding}]

\* The last state of the history is the store as it is.
PastOK ==
  /\ StoreTypeOK
  /\ findings \in FindingMap
  /\ past \in Seq([inspections : InspectionMap, findings : FindingMap]) /\ past # <<>>
  /\ past[Len(past)] = [inspections |-> inspections, findings |-> findings]

\* What a summary may be computed from, by a reader or the ticker.
Summaries ==
  {NoSummary} \cup
  {Summary(snapshot, listing) : snapshot \in InspectionMap \cup {<<>>},
                                listing \in {Listing(f) : f \in FindingMap}}

Holding == [ kind : {"none", "summary", "report", "risk"}, tower : Tower \cup {OtherTower},
             inspections : InspectionMap \cup {<<>>}, out : Summaries ]

ShapesOK ==
  /\ readPc \in [Process -> {"new", "select", "inspections", "findings", "store", "done"}]
  /\ seen \in [Process -> Holding]
  /\ answer = [r \in Reader |-> answer[r]]
  /\ began \in [Reader -> 1..Len(past)]

\* The states of the history since a request came.
Since(r) == began[r]..Len(past)

\* A reader past the first listing holds the inspections of one moment since its
\* request came, one about to store a summary of these and of findings listed
\* no earlier.  Nobody has an answer before asking.
ReaderOK(r) ==
  /\ readPc[r] = "new" => answer[r].code # 200
  /\ readPc[r] = "inspections" => seen[r].kind \in {"summary", "report"}
  /\ readPc[r] = "findings" =>
       \/ seen[r].kind = "risk"
       \/ /\ seen[r].kind \in {"summary", "report"}
          /\ \E i \in Since(r) : seen[r].inspections = past[i].inspections
  /\ readPc[r] = "store" =>
       \E i \in Since(r) : \E j \in i..Len(past) :
         seen[r].out = Summary(past[i].inspections, ListingOf(past[j]))
  /\ answer[r].code \in {0, 200, 404, 500}
  /\ answer[r].code = 200 =>
       \/ answer[r].kind = "summary" /\ Bracketed(r, Summary)
       \/ answer[r].kind = "report"  /\ Bracketed(r, Report)
       \/ answer[r].kind = "risk"    /\ \E j \in Since(r) :
            answer[r].body = RiskProfile(answer[r].tower, ListingOf(past[j]))

ReadersOK == \A r \in Reader : ReaderOK(r)

ReadsInv == PastOK /\ ShapesOK /\ ReadersOK

LEMMA NothingHeld == NothingSeen \in Holding
BY DEF NothingSeen, Holding, Summaries

LEMMA InitReads == Init => ReadsInv
<1> SUFFICES ASSUME Init PROVE ReadsInv
  OBVIOUS
<1>1. StoreTypeOK
  BY StoreSeeds, EmptySeq DEF Init, StoreInit, StoreTypeOK
<1>2. /\ past = << [inspections |-> SeedInspections, findings |-> SeedFindings] >>
      /\ Len(past) = 1
  BY DEF Init
<1>3. PastOK
  <2>1. inspections \in InspectionMap /\ findings \in FindingMap
    BY StoreSeeds, ReadsSeeds DEF Init, StoreInit, InspectionMap, FindingMap
  <2>2. past = << [inspections |-> inspections, findings |-> findings] >>
    BY <1>2 DEF Init, StoreInit
  <2> DEFINE state == [inspections |-> inspections, findings |-> findings]
             S == [inspections : InspectionMap, findings : FindingMap]
  <2>3. state \in S
    BY <2>1
  <2> HIDE DEF state, S
  <2>4. <<state>> \in Seq(S) /\ <<state>> # <<>> /\ Len(<<state>>) = 1 /\ <<state>>[1] = state
    BY <2>3
  <2> USE DEF state, S
  <2>5. QED BY <1>1, <2>1, <2>2, <2>4 DEF PastOK
<1>4. ShapesOK
  BY <1>2, NothingHeld DEF Init, ShapesOK
<1>5. ReadersOK
  BY ReadsProcesses DEF Init, ReadersOK, ReaderOK, NoAnswer, Process
<1>6. QED BY <1>3, <1>4, <1>5 DEF ReadsInv

\* Nothing a reader holds becomes wrong when the store is written.
Longer ==
  /\ Len(past) \in Nat /\ Len(past') \in Nat
  /\ Len(past) <= Len(past')
  /\ \A i \in 1..Len(past) : past'[i] = past[i]

LEMMA ReaderKept ==
  ASSUME ShapesOK, Longer, NEW r \in Reader, ReaderOK(r),
         readPc'[r] = readPc[r], seen'[r] = seen[r], answer'[r] = answer[r], began'[r] = began[r]
  PROVE  ReaderOK(r)'
<1>1. /\ began[r] \in 1..Len(past)
      /\ \A i \in Since(r) : i \in Since(r)' /\ past'[i] = past[i]
      /\ \A i \in Since(r) : \A j \in i..Len(past) : j \in i..Len(past)' /\ past'[j] = past[j]
  BY DEF ShapesOK, Longer, Since
<1>4. ASSUME readPc'[r] = "findings"
      PROVE  \/ seen'[r].kind = "risk"
             \/ /\ seen'[r].kind \in {"summary", "report"}
                /\ \E i \in Since(r)' : seen'[r].inspections = past'[i].inspections
  BY <1>1, <1>4 DEF ReaderOK
<1>5. ASSUME readPc'[r] = "store"
      PROVE  \E i \in Since(r)' : \E j \in i..Len(past)' :
               seen'[r].out = Summary(past'[i].inspections, ListingOf(past'[j]))
  <2>1. PICK i \in Since(r) :
          \E j \in i..Len(past) : seen[r].out = Summary(past[i].inspections, ListingOf(past[j]))
    BY <1>5 DEF ReaderOK
  <2>2. PICK j \in i..Len(past) : seen[r].out = Summary(past[i].inspections, ListingOf(past[j]))
    BY <2>1
  <2>3. QED BY <1>1, <2>2
<1>6. ASSUME answer'[r].code = 200
      PROVE  \/ answer'[r].kind = "summary" /\ Bracketed(r, Summary)'
             \/ answer'[r].kind = "report"  /\ Bracketed(r, Report)'
             \/ answer'[r].kind = "risk"    /\ \E j \in Since(r)' :
                  answer'[r].body = RiskProfile(answer'[r].tower, ListingOf(past'[j]))
  <2>1. CASE answer[r].kind = "summary" /\ Bracketed(r, Summary)
    <3>1. PICK i \in Since(r) :
            \E j \in i..Len(past) : answer[r].body = Summary(past[i].inspections, ListingOf(past[j]))
      BY <2>1 DEF Bracketed, Since
    <3>2. PICK j \in i..Len(past) : answer[r].body = Summary(past[i].inspections, ListingOf(past[j]))
      BY <3>1
    <3>3. QED BY <1>1, <2>1, <3>2 DEF Bracketed, Since
  <2>2. CASE answer[r].kind = "report" /\ Bracketed(r, Report)
    <3>1. PICK i \in Since(r) :
            \E j \in i..Len(past) : answer[r].body = Report(past[i].inspections, ListingOf(past[j]))
      BY <2>2 DEF Bracketed, Since
    <3>2. PICK j \in i..Len(past) : answer[r].body = Report(past[i].inspections, ListingOf(past[j]))
      BY <3>1
    <3>3. QED BY <1>1, <2>2, <3>2 DEF Bracketed, Since
  <2>3. CASE /\ answer[r].kind = "risk"
             /\ \E j \in Since(r) : answer[r].body = RiskProfile(answer[r].tower, ListingOf(past[j]))
    BY <1>1, <2>3
  <2>4. QED BY <1>6, <2>1, <2>2, <2>3 DEF ReaderOK
<1>7. /\ readPc'[r] = "new" => answer'[r].code # 200
      /\ readPc'[r] = "inspections" => seen'[r].kind \in {"summary", "report"}
      /\ answer'[r].code \in {0, 200, 404, 500}
  BY DEF ReaderOK
<1>8. QED BY ONLY <1>4, <1>5, <1>6, <1>7 DEF ReaderOK
\* A write adds its state to the history.
LEMMA Writes ==
  ASSUME PastOK, StoreTypeOK', findings' \in FindingMap, Remember(inspections', findings')
  PROVE  PastOK' /\ Longer
<1> DEFINE state == [inspections |-> inspections', findings |-> findings']
           S == [inspections : InspectionMap, findings : FindingMap]
<1>1. state \in S
  BY DEF StoreTypeOK, InspectionMap
<1>2. past \in Seq(S) /\ past' = Append(past, state)
  BY DEF PastOK, Remember
<1> HIDE DEF state, S
<1>3. /\ past' \in Seq(S) /\ past' # <<>> /\ past'[Len(past')] = state
      /\ Len(past) \in Nat /\ Len(past') = Len(past) + 1
      /\ \A i \in 1..Len(past) : past'[i] = past[i]
  BY <1>1, <1>2
<1> USE DEF state, S
<1>4. QED BY <1>3 DEF PastOK, Longer

LEMMA WriterSteps ==
  ASSUME PastOK, WriteInspection \/ WriteStatus \/ WriteFinding
  PROVE  PastOK' /\ Longer /\ UNCHANGED <<readPc, seen, answer, cached, tickDue, stopClosed, began>>
<1>1. CASE WriteInspection
  <2>1. PICK id \in InspectionId :
          /\ NewInspectionID(id)
          /\ AddInspection(id, [tower |-> CHOOSE t \in Tower : TRUE, due |-> 1,
                                status |-> "scheduled", stamped |-> FALSE])
          /\ Remember(inspections', findings)
          /\ UNCHANGED <<towerAudit, cancelled, findings, readPc, seen, answer, cached,
                         tickDue, stopClosed, began>>
    BY <1>1 DEF WriteInspection
  <2>2. (CHOOSE t \in Tower : TRUE) \in Tower
    BY ReadsSeeds
  <2> DEFINE item == [tower |-> CHOOSE t \in Tower : TRUE, due |-> 1,
                      status |-> "scheduled", stamped |-> FALSE]
  <2>3. item \in TowerInspection
    BY <2>2 DEF TowerInspection, InspectionStatus
  <2> HIDE DEF item
  <2>4. inspections' = [inspections EXCEPT ![id] = item]
    BY <2>1 DEF AddInspection, item
  <2>5. StoreTypeOK'
    BY <2>1, <2>3, <2>4, StoreSeeds DEF PastOK, StoreTypeOK, NewInspectionID
  <2>6. QED BY <2>1, <2>5, Writes DEF PastOK
<1>2. CASE WriteStatus
  <2>1. PICK id \in InspectionId, status \in NewStatuses :
          /\ Stored(id)
          /\ UpdateInspectionStatus(id, status)
          /\ Remember(inspections', findings)
          /\ UNCHANGED <<inspectionSequence, towerAudit, cancelled, findings, readPc, seen,
                         answer, cached, tickDue, stopClosed, began>>
    BY <1>2 DEF WriteStatus
  <2>2. Written(inspections[id], status) \in TowerInspection
    BY <2>1, ReadsSeeds DEF PastOK, StoreTypeOK, Stored, Written, TowerInspection
  <2>3. StoreTypeOK'
    BY <2>1, <2>2 DEF PastOK, StoreTypeOK, UpdateInspectionStatus
  <2>4. QED BY <2>1, <2>3, Writes DEF PastOK
<1>3. CASE WriteFinding
  <2>1. PICK n \in FindingId, new \in NewFindings :
          /\ findings' = [findings EXCEPT ![n] = [id |-> n, tower |-> new.tower, severity |-> new.severity]]
          /\ Remember(inspections, findings')
          /\ UNCHANGED <<storeVars, readPc, seen, answer, cached, tickDue, stopClosed, began>>
    BY <1>3 DEF WriteFinding
  <2>2. [id |-> n, tower |-> new.tower, severity |-> new.severity] \in Finding
    BY ReadsSeeds DEF Finding
  <2>3. findings' \in FindingMap
    BY <2>1, <2>2 DEF PastOK, FindingMap
  <2>4. StoreTypeOK'
    BY <2>1 DEF PastOK, StoreTypeOK, storeVars
  <2>5. QED BY <2>1, <2>3, <2>4, Writes DEF storeVars
<1>4. QED BY <1>1, <1>2, <1>3

-------------------------------------------------------------------------------

LEMMA ListingNow == ASSUME PastOK PROVE ListFindings = ListingOf(past[Len(past)])
BY DEF PastOK, ListFindings, ListingOf

\* Every other process's step leaves a reader alone.
OthersAlone(p) ==
  \A r \in Reader \ {p} :
    readPc'[r] = readPc[r] /\ seen'[r] = seen[r] /\ answer'[r] = answer[r] /\ began'[r] = began[r]

\* At most its own request begins in a process's step.
BeganKept(p) ==
  began' \in [Reader -> 1..Len(past)] /\ \A r \in Reader \ {p} : began'[r] = began[r]

\* What an answer leaves behind.
LEMMA AnswerShapes ==
  ASSUME ShapesOK, NEW p \in Process, NEW code, NEW kind, NEW body, Answer(p, code, kind, body),
         past' = past, BeganKept(p)
  PROVE  ShapesOK' /\ OthersAlone(p)
<1>1. seen' = [seen EXCEPT ![p] = NothingSeen]
  BY DEF Answer
<1>2. readPc' = [readPc EXCEPT ![p] = IF p = Ticker THEN "select" ELSE "done"]
  BY DEF Answer, Goto
<1>3. seen' \in [Process -> Holding]
  BY <1>1, NothingHeld DEF ShapesOK
<1>4. answer' = [r \in Reader |-> answer'[r]]
  BY DEF Answer, ShapesOK
<1>5. ShapesOK'
  BY <1>2, <1>3, <1>4 DEF ShapesOK, BeganKept
<1>6. \A r \in Reader : r \in Process /\ r # Ticker
  BY ReadsProcesses DEF Process
<1>7. OthersAlone(p)
  BY <1>1, <1>2, <1>6 DEF Answer, OthersAlone, ShapesOK, BeganKept
<1>8. QED BY <1>5, <1>7

LEMMA AnswerGiven ==
  ASSUME ShapesOK, NEW p \in Reader, NEW code, NEW kind, NEW body, Answer(p, code, kind, body)
  PROVE  /\ readPc'[p] = "done"
         /\ answer'[p] = [code |-> code, kind |-> kind, tower |-> seen[p].tower, body |-> body]
<1>1. p \in Process /\ p # Ticker
  BY ReadsProcesses DEF Process
<1>2. readPc' = [readPc EXCEPT ![p] = "done"]
  BY <1>1 DEF Answer, Goto
<1>3. answer' = [answer EXCEPT ![p] =
                   [code |-> code, kind |-> kind, tower |-> seen[p].tower, body |-> body]]
  BY <1>1 DEF Answer
<1>4. DOMAIN answer = Reader
  BY DEF ShapesOK
<1>5. QED BY <1>1, <1>2, <1>3, <1>4 DEF ShapesOK

\* An answer other than 200 tells a reader nothing.
LEMMA Refused ==
  ASSUME ShapesOK, NEW p \in Process, NEW code \in {404, 500}, NEW kind, Answer(p, code, kind, <<>>),
         past' = past, BeganKept(p)
  PROVE  ShapesOK' /\ OthersAlone(p) /\ (p \in Reader => ReaderOK(p)')
<1>1. ShapesOK' /\ OthersAlone(p)
  BY AnswerShapes
<1>2. ASSUME p \in Reader PROVE ReaderOK(p)'
  <2>1. readPc'[p] = "done" /\ answer'[p] = [code |-> code, kind |-> kind, tower |-> seen[p].tower, body |-> <<>>]
    BY <1>2, AnswerGiven
  <2>2. answer'[p].code = code /\ code # 200 /\ code \in {0, 200, 404, 500}
    BY <2>1
  <2>3. QED BY ONLY <2>1, <2>2 DEF ReaderOK
<1>3. QED BY <1>1, <1>2

-------------------------------------------------------------------------------
(* The readers' steps                                                          *)

\* What a step of process p must leave behind.
StepOK(p) == PastOK' /\ ShapesOK' /\ OthersAlone(p) /\ past' = past /\ (p \in Reader => ReaderOK(p)')

LEMMA StoreKept ==
  ASSUME PastOK, past' = past, UNCHANGED <<inspections, inspectionSequence, towerAudit, findings>>,
         cancelled' \subseteq Context
  PROVE  PastOK'
BY DEF PastOK, StoreTypeOK

LEMMA UntouchedKept ==
  ASSUME PastOK, StoreUntouched
  PROVE  PastOK' /\ past' = past
BY StoreKept DEF StoreUntouched, storeVars, PastOK, StoreTypeOK

LEMMA BeganStays ==
  ASSUME ShapesOK, past' = past, UNCHANGED began, NEW p
  PROVE  BeganKept(p)
BY DEF ShapesOK, BeganKept

LEMMA BeginsNow ==
  ASSUME ReadsInv, NEW r \in Reader, began' = [began EXCEPT ![r] = Len(past)], past' = past
  PROVE  BeganKept(r) /\ began'[r] = Len(past) /\ Len(past) \in Nat \ {0}
<1>1. Len(past) \in Nat \ {0}
  BY DEF ReadsInv, PastOK
<1>2. QED BY <1>1 DEF ReadsInv, ShapesOK, BeganKept

LEMMA GetOK ==
  ASSUME ReadsInv, NEW r \in Reader, Get(r)
  PROVE  StepOK(r)
<1>1. PICK kind \in {"summary", "report"} :
        /\ readPc[r] = "new"
        /\ readPc' = [readPc EXCEPT ![r] = "inspections"]
        /\ seen' = [seen EXCEPT ![r].kind = kind]
        /\ began' = [began EXCEPT ![r] = Len(past)]
        /\ StoreUntouched
        /\ UNCHANGED answer
  BY DEF Get, Goto
<1>2. PastOK' /\ past' = past
  BY <1>1, UntouchedKept DEF ReadsInv
<1>3. BeganKept(r)
  BY <1>1, <1>2, BeginsNow
<1>4. \A q \in Reader : q \in Process
  BY DEF Process
<1>5. seen' \in [Process -> Holding]
  BY <1>1, <1>4 DEF ReadsInv, ShapesOK, Holding
<1>6. ShapesOK' /\ OthersAlone(r)
  BY <1>1, <1>2, <1>3, <1>4, <1>5 DEF ReadsInv, ShapesOK, BeganKept, OthersAlone
<1>7. ReaderOK(r)'
  <2>1. readPc'[r] = "inspections" /\ seen'[r].kind = kind /\ answer'[r] = answer[r]
    BY <1>1, <1>4 DEF ReadsInv, ShapesOK
  <2>2. answer[r].code # 200 /\ answer[r].code \in {0, 200, 404, 500}
    BY <1>1 DEF ReadsInv, ReadersOK, ReaderOK
  <2>3. QED BY ONLY <2>1, <2>2 DEF ReaderOK
<1>8. QED BY <1>2, <1>6, <1>7 DEF StepOK

LEMMA GetRiskOK ==
  ASSUME ReadsInv, NEW r \in Reader, GetRisk(r)
  PROVE  StepOK(r)
<1>1. PICK tower \in Tower \cup {OtherTower} :
        /\ readPc[r] = "new"
        /\ \/ Answer(r, inspectionStatusForError["not_found"], "risk", <<>>)
           \/ /\ seen' = [seen EXCEPT ![r].kind = "risk", ![r].tower = tower]
              /\ Goto(r, "findings")
              /\ UNCHANGED answer
        /\ began' = [began EXCEPT ![r] = Len(past)]
        /\ StoreUntouched
  BY DEF GetRisk
<1>2. PastOK' /\ past' = past
  BY <1>1, UntouchedKept DEF ReadsInv
<1>3. BeganKept(r)
  BY <1>1, <1>2, BeginsNow
<1>4. \A q \in Reader : q \in Process
  BY DEF Process
<1>5. CASE Answer(r, inspectionStatusForError["not_found"], "risk", <<>>)
  <2>1. Answer(r, 404, "risk", <<>>)
    BY <1>5 DEF inspectionStatusForError
  <2>2. ShapesOK' /\ OthersAlone(r) /\ ReaderOK(r)'
    BY <1>2, <1>3, <1>4, <2>1, Refused DEF ReadsInv
  <2>3. QED BY <1>2, <2>2 DEF StepOK
<1>6. CASE /\ seen' = [seen EXCEPT ![r].kind = "risk", ![r].tower = tower]
           /\ Goto(r, "findings")
           /\ UNCHANGED answer
  <2>1. seen' \in [Process -> Holding]
    BY <1>4, <1>6 DEF ReadsInv, ShapesOK, Holding
  <2>2. ShapesOK' /\ OthersAlone(r)
    BY <1>1, <1>2, <1>3, <1>4, <1>6, <2>1 DEF ReadsInv, ShapesOK, BeganKept, OthersAlone, Goto
  <2>3. readPc'[r] = "findings" /\ seen'[r].kind = "risk" /\ answer'[r] = answer[r]
    BY <1>4, <1>6 DEF ReadsInv, ShapesOK, Goto
  <2>4. answer[r].code # 200 /\ answer[r].code \in {0, 200, 404, 500}
    BY <1>1 DEF ReadsInv, ReadersOK, ReaderOK
  <2>5. ReaderOK(r)'
    BY ONLY <2>3, <2>4 DEF ReaderOK
  <2>6. QED BY <1>2, <2>2, <2>5 DEF StepOK
<1>7. QED BY <1>1, <1>5, <1>6

LEMMA RefuseReadOK ==
  ASSUME ReadsInv, NEW p \in Process, RefuseRead(p)
  PROVE  StepOK(p)
<1>1. /\ Answer(p, 500, seen[p].kind, <<>>)
      /\ cancelled' \subseteq Context
      /\ UNCHANGED <<inspections, inspectionSequence, towerAudit, findings, past, began>>
  BY DEF RefuseRead, ListError, inspectionStatusForError, ReadsInv, PastOK, StoreTypeOK
<1>2. PastOK' /\ past' = past
  BY <1>1, StoreKept DEF ReadsInv
<1>3. ShapesOK' /\ OthersAlone(p) /\ (p \in Reader => ReaderOK(p)')
  BY <1>1, <1>2, BeganStays, Refused DEF ReadsInv
<1>4. QED BY <1>2, <1>3 DEF StepOK

LEMMA ReadInspectionsOK ==
  ASSUME ReadsInv, NEW p \in Process, ReadInspections(p)
  PROVE  StepOK(p)
<1>1. CASE RefuseRead(p)
  BY <1>1, RefuseReadOK
<1>2. CASE /\ readPc[p] = "inspections"
           /\ seen' = [seen EXCEPT ![p].inspections = inspections]
           /\ Goto(p, "findings")
           /\ StoreUntouched
           /\ UNCHANGED <<answer, cached, tickDue, stopClosed, began>>
  <2>1. PastOK' /\ past' = past
    BY <1>2, UntouchedKept DEF ReadsInv
  <2>2. BeganKept(p)
    BY <1>2, <2>1, BeganStays DEF ReadsInv
  <2>3. inspections \in InspectionMap
    BY DEF ReadsInv, PastOK, StoreTypeOK, InspectionMap
  <2>4. seen' \in [Process -> Holding]
    BY <1>2, <2>3 DEF ReadsInv, ShapesOK, Holding
  <2>5. ShapesOK' /\ OthersAlone(p)
    BY <1>2, <2>1, <2>2, <2>4 DEF ReadsInv, ShapesOK, BeganKept, OthersAlone, Goto, Process
  <2>6. ASSUME p \in Reader PROVE ReaderOK(p)'
    <3>1. /\ readPc'[p] = "findings" /\ seen'[p].inspections = inspections
          /\ seen'[p].kind = seen[p].kind /\ answer'[p] = answer[p] /\ began'[p] = began[p]
      BY <1>2 DEF ReadsInv, ShapesOK, Holding, Goto
    <3>2. seen[p].kind \in {"summary", "report"}
      BY <1>2, <2>6 DEF ReadsInv, ReadersOK, ReaderOK
    <3>3. began[p] \in 1..Len(past) /\ Len(past) \in Nat
      BY <2>6 DEF ReadsInv, ShapesOK, PastOK
    <3>4. Len(past) \in Since(p) /\ past[Len(past)].inspections = inspections
      BY <3>3 DEF Since, ReadsInv, PastOK
    <3>5. \E i \in Since(p)' : seen'[p].inspections = past'[i].inspections
      BY <2>1, <3>1, <3>4 DEF Since
    <3>6. /\ answer[p].code \in {0, 200, 404, 500}
          /\ answer[p].code = 200 =>
               \/ answer[p].kind = "summary" /\ Bracketed(p, Summary)
               \/ answer[p].kind = "report"  /\ Bracketed(p, Report)
               \/ answer[p].kind = "risk"    /\ \E j \in Since(p) :
                    answer[p].body = RiskProfile(answer[p].tower, ListingOf(past[j]))
      BY <2>6 DEF ReadsInv, ReadersOK, ReaderOK
    <3>7. QED BY <2>1, <3>1, <3>2, <3>5, <3>6 DEF ReaderOK, Bracketed, Since
  <2>7. QED BY <2>1, <2>5, <2>6 DEF StepOK
<1>3. QED BY <1>1, <1>2 DEF ReadInspections

\* What a reader reads last is true now.
LEMMA ReadNow ==
  ASSUME ReadsInv, NEW p \in Reader, readPc[p] = "findings", seen[p].kind \in {"summary", "report"}
  PROVE  \E i \in Since(p) : \E j \in i..Len(past) :
           seen[p].inspections = past[i].inspections /\ ListFindings = ListingOf(past[j])
<1>1. PICK i \in Since(p) : seen[p].inspections = past[i].inspections
  BY DEF ReadsInv, ReadersOK, ReaderOK
<1>2. began[p] \in 1..Len(past) /\ Len(past) \in Nat
  BY DEF ReadsInv, ShapesOK, PastOK
<1>3. Len(past) \in i..Len(past)
  BY <1>1, <1>2 DEF Since
<1>4. ListFindings = ListingOf(past[Len(past)])
  BY ListingNow DEF ReadsInv
<1>5. QED BY <1>1, <1>3, <1>4

LEMMA ReadFindingsOK ==
  ASSUME ReadsInv, NEW p \in Process, ReadFindings(p)
  PROVE  StepOK(p)
<1>1. CASE RefuseRead(p)
  BY <1>1, RefuseReadOK
<1>2. ASSUME readPc[p] = "findings", StoreUntouched, UNCHANGED began
      PROVE  PastOK' /\ past' = past /\ BeganKept(p)
  BY <1>2, UntouchedKept, BeganStays DEF ReadsInv
<1>3. CASE /\ readPc[p] = "findings" /\ seen[p].kind = "report"
           /\ Answer(p, 200, "report", Report(seen[p].inspections, ListFindings))
           /\ StoreUntouched /\ UNCHANGED began
  <2>1. ShapesOK' /\ OthersAlone(p)
    BY <1>2, <1>3, AnswerShapes DEF ReadsInv
  <2>2. ASSUME p \in Reader PROVE ReaderOK(p)'
    <3>1. /\ readPc'[p] = "done"
          /\ answer'[p] = [code |-> 200, kind |-> "report", tower |-> seen[p].tower,
                           body |-> Report(seen[p].inspections, ListFindings)]
      BY <1>3, <2>2, AnswerGiven DEF ReadsInv
    <3>2. PICK i \in Since(p) : \E j \in i..Len(past) :
            seen[p].inspections = past[i].inspections /\ ListFindings = ListingOf(past[j])
      BY <1>3, <2>2, ReadNow
    <3>3. PICK j \in i..Len(past) :
            seen[p].inspections = past[i].inspections /\ ListFindings = ListingOf(past[j])
      BY <3>2
    <3>4. answer'[p].body = Report(past'[i].inspections, ListingOf(past'[j]))
      BY <1>2, <1>3, <3>1, <3>3
    <3>5. Bracketed(p, Report)'
      BY <1>2, <1>3, <3>2, <3>3, <3>4 DEF Bracketed, Since
    <3>6. answer'[p].code = 200 /\ answer'[p].kind = "report"
      BY <3>1
    <3>7. QED BY ONLY <3>1, <3>5, <3>6 DEF ReaderOK
  <2>3. QED BY <1>2, <1>3, <2>1, <2>2 DEF StepOK
<1>4. CASE /\ readPc[p] = "findings" /\ seen[p].kind = "risk"
           /\ Answer(p, 200, "risk", RiskProfile(seen[p].tower, ListFindings))
           /\ StoreUntouched /\ UNCHANGED began
  <2>1. ShapesOK' /\ OthersAlone(p)
    BY <1>2, <1>4, AnswerShapes DEF ReadsInv
  <2>2. ASSUME p \in Reader PROVE ReaderOK(p)'
    <3>1. /\ readPc'[p] = "done"
          /\ answer'[p] = [code |-> 200, kind |-> "risk", tower |-> seen[p].tower,
                           body |-> RiskProfile(seen[p].tower, ListFindings)]
      BY <1>4, <2>2, AnswerGiven DEF ReadsInv
    <3>2. ListFindings = ListingOf(past[Len(past)])
      BY ListingNow DEF ReadsInv
    <3>3. Len(past) \in Since(p)
      BY <2>2 DEF ReadsInv, ShapesOK, PastOK, Since
    <3>4. \E j \in Since(p)' : answer'[p].body = RiskProfile(answer'[p].tower, ListingOf(past'[j]))
      BY <1>2, <1>4, <3>1, <3>2, <3>3 DEF Since
    <3>5. answer'[p].code = 200 /\ answer'[p].kind = "risk"
      BY <3>1
    <3>6. QED BY ONLY <3>1, <3>4, <3>5 DEF ReaderOK
  <2>3. QED BY <1>2, <1>4, <2>1, <2>2 DEF StepOK
<1>5. CASE /\ readPc[p] = "findings" /\ seen[p].kind = "summary"
           /\ seen' = [seen EXCEPT ![p].inspections = <<>>,
                                   ![p].out = Summary(seen[p].inspections, ListFindings)]
           /\ Goto(p, "store")
           /\ StoreUntouched /\ UNCHANGED <<answer, began>>
  <2>1. Summary(seen[p].inspections, ListFindings) \in Summaries
    <3>1. seen[p].inspections \in InspectionMap \cup {<<>>}
      BY DEF ReadsInv, ShapesOK, Holding
    <3>2. ListFindings \in {Listing(f) : f \in FindingMap}
      BY DEF ListFindings, ReadsInv, PastOK
    <3>3. QED BY <3>1, <3>2 DEF Summaries
  <2>2. seen' \in [Process -> Holding]
    BY <1>5, <2>1 DEF ReadsInv, ShapesOK, Holding
  <2>3. ShapesOK' /\ OthersAlone(p)
    BY <1>2, <1>5, <2>2 DEF ReadsInv, ShapesOK, BeganKept, OthersAlone, Goto, Process
  <2>4. ASSUME p \in Reader PROVE ReaderOK(p)'
    <3>1. /\ readPc'[p] = "store" /\ seen'[p].out = Summary(seen[p].inspections, ListFindings)
          /\ answer'[p] = answer[p] /\ began'[p] = began[p]
      BY <1>5 DEF ReadsInv, ShapesOK, Holding, Goto
    <3>2. PICK i \in Since(p) : \E j \in i..Len(past) :
            seen[p].inspections = past[i].inspections /\ ListFindings = ListingOf(past[j])
      BY <1>5, <2>4, ReadNow
    <3>3. PICK j \in i..Len(past) :
            seen[p].inspections = past[i].inspections /\ ListFindings = ListingOf(past[j])
      BY <3>2
    <3>4. \E k \in Since(p)' : \E l \in k..Len(past)' :
            seen'[p].out = Summary(past'[k].inspections, ListingOf(past'[l]))
      BY <1>2, <1>5, <3>1, <3>2, <3>3 DEF Since
    <3>5. /\ answer[p].code \in {0, 200, 404, 500}
          /\ answer[p].code = 200 =>
               \/ answer[p].kind = "summary" /\ Bracketed(p, Summary)
               \/ answer[p].kind = "report"  /\ Bracketed(p, Report)
               \/ answer[p].kind = "risk"    /\ \E k \in Since(p) :
                    answer[p].body = RiskProfile(answer[p].tower, ListingOf(past[k]))
      BY <2>4 DEF ReadsInv, ReadersOK, ReaderOK
    <3>6. QED BY <1>2, <1>5, <3>1, <3>4, <3>5 DEF ReaderOK, Bracketed, Since
  <2>5. QED BY <1>2, <1>5, <2>3, <2>4 DEF StepOK
<1>6. QED BY <1>1, <1>3, <1>4, <1>5 DEF ReadFindings

LEMMA StoreOK ==
  ASSUME ReadsInv, NEW p \in Process, Store(p)
  PROVE  StepOK(p)
<1>1. /\ readPc[p] = "store"
      /\ Answer(p, 200, "summary", seen[p].out)
      /\ StoreUntouched /\ UNCHANGED began
  BY DEF Store, StoreSummary
<1>2. PastOK' /\ past' = past /\ BeganKept(p)
  BY <1>1, UntouchedKept, BeganStays DEF ReadsInv
<1>3. ShapesOK' /\ OthersAlone(p)
  BY <1>1, <1>2, AnswerShapes DEF ReadsInv
<1>4. ASSUME p \in Reader PROVE ReaderOK(p)'
  <2>1. /\ readPc'[p] = "done"
        /\ answer'[p] = [code |-> 200, kind |-> "summary", tower |-> seen[p].tower, body |-> seen[p].out]
    BY <1>1, <1>4, AnswerGiven DEF ReadsInv
  <2>2. PICK i \in Since(p) : \E j \in i..Len(past) :
          seen[p].out = Summary(past[i].inspections, ListingOf(past[j]))
    BY <1>1, <1>4 DEF ReadsInv, ReadersOK, ReaderOK
  <2>3. Bracketed(p, Summary)'
    BY <1>1, <1>2, <2>1, <2>2 DEF Bracketed, Since
  <2>4. answer'[p].code = 200 /\ answer'[p].kind = "summary"
    BY <2>1
  <2>5. QED BY ONLY <2>1, <2>3, <2>4 DEF ReaderOK
<1>5. QED BY <1>2, <1>3, <1>4 DEF StepOK

\* The other steps change nothing a reader holds.
LEMMA AloneOK ==
  ASSUME ReadsInv, PastOK', Longer, UNCHANGED <<seen, answer, began>>,
         readPc' \in [Process -> {"new", "select", "inspections", "findings", "store", "done"}],
         \A r \in Reader : readPc'[r] = readPc[r]
  PROVE  ReadsInv'
<1>1. ShapesOK'
  BY DEF ReadsInv, ShapesOK, Longer
<1>2. ReadersOK'
  BY ReaderKept DEF ReadsInv, ReadersOK
<1>3. QED BY <1>1, <1>2 DEF ReadsInv

LEMMA SameLonger ==
  ASSUME ReadsInv, past' = past
  PROVE  Longer
BY DEF ReadsInv, PastOK, Longer

LEMMA CancelOK ==
  ASSUME ReadsInv, NEW r \in Reader, CancelRead(r)
  PROVE  ReadsInv'
<1>1. cancelled' \subseteq Context
  BY ReadsProcesses DEF CancelRead, ReadsInv, PastOK, StoreTypeOK
<1>2. past' = past /\ PastOK'
  BY <1>1, StoreKept DEF CancelRead, readVars, ReadsInv
<1>3. QED BY <1>2, SameLonger, AloneOK DEF CancelRead, readVars, ReadsInv, ShapesOK

LEMMA TickerOK ==
  ASSUME ReadsInv, Tick \/ CloseStop \/ TakeTick \/ TakeStop
  PROVE  ReadsInv'
<1>1. PastOK' /\ past' = past
  BY UntouchedKept DEF Tick, CloseStop, TakeTick, TakeStop, ReadsInv
<1>2. Longer
  BY <1>1, SameLonger
<1>3. \A r \in Reader : r # Ticker
  BY ReadsProcesses
<1>4. CASE Tick \/ CloseStop
  BY <1>1, <1>2, <1>4, AloneOK DEF Tick, CloseStop, ReadsInv, ShapesOK
<1>5. CASE TakeStop
  <2>1. /\ readPc' \in [Process -> {"new", "select", "inspections", "findings", "store", "done"}]
        /\ \A r \in Reader : readPc'[r] = readPc[r]
        /\ UNCHANGED <<seen, answer, began>>
    BY <1>3, <1>5 DEF TakeStop, Goto, ReadsInv, ShapesOK, Process
  <2>2. QED BY <1>1, <1>2, <2>1, AloneOK
<1>6. CASE TakeTick
  <2>1. seen' \in [Process -> Holding]
    BY <1>6 DEF TakeTick, ReadsInv, ShapesOK, Holding
  <2>2. ShapesOK'
    BY <1>1, <1>6, <2>1 DEF TakeTick, Goto, ReadsInv, ShapesOK
  <2>3. \A r \in Reader : readPc'[r] = readPc[r] /\ seen'[r] = seen[r] /\ answer'[r] = answer[r] /\ began'[r] = began[r]
    BY <1>3, <1>6 DEF TakeTick, Goto, ReadsInv, ShapesOK, Process
  <2>4. ReadersOK'
    BY <1>2, <2>3, ReaderKept DEF ReadsInv, ReadersOK
  <2>5. QED BY <1>1, <2>2, <2>4 DEF ReadsInv
<1>7. QED BY <1>4, <1>5, <1>6

LEMMA ProcessOK ==
  ASSUME ReadsInv, NEW p \in Process, StepOK(p)
  PROVE  ReadsInv'
<1>1. Longer
  BY SameLonger DEF StepOK
<1>2. \A r \in Reader \ {p} : ReaderOK(r)'
  BY <1>1, ReaderKept DEF ReadsInv, ReadersOK, StepOK, OthersAlone
<1>3. QED BY <1>2 DEF ReadsInv, ReadersOK, StepOK

LEMMA NextReads == ReadsInv /\ [Next]_vars => ReadsInv'
<1> SUFFICES ASSUME ReadsInv, [Next]_vars PROVE ReadsInv'
  OBVIOUS
<1>1. CASE WriteInspection \/ WriteStatus \/ WriteFinding
  <2>1. PastOK' /\ Longer /\ UNCHANGED <<readPc, seen, answer, began>>
    BY <1>1, WriterSteps DEF ReadsInv
  <2>2. QED BY <2>1, AloneOK DEF ReadsInv, ShapesOK
<1>2. ASSUME NEW r \in Reader, Get(r) \/ GetRisk(r) PROVE ReadsInv'
  <2>1. r \in Process
    BY DEF Process
  <2>2. QED BY <1>2, <2>1, GetOK, GetRiskOK, ProcessOK
<1>3. ASSUME NEW r \in Reader, CancelRead(r) PROVE ReadsInv'
  BY <1>3, CancelOK
<1>4. ASSUME NEW p \in Process, RefreshStep(p) PROVE ReadsInv'
  BY <1>4, ReadInspectionsOK, ReadFindingsOK, StoreOK, ProcessOK DEF RefreshStep
<1>5. CASE Tick \/ CloseStop \/ TakeTick \/ TakeStop
  BY <1>5, TickerOK
<1>6. CASE UNCHANGED vars
  <2>1. past' = past /\ PastOK'
    BY <1>6 DEF vars, readVars, storeVars, ReadsInv, PastOK, StoreTypeOK
  <2>2. QED BY <1>6, <2>1, SameLonger, AloneOK DEF vars, readVars, ReadsInv, ShapesOK
<1>7. QED BY <1>1, <1>2, <1>3, <1>4, <1>5, <1>6 DEF Next

LEMMA Reads == Spec => []ReadsInv
BY InitReads, NextReads, PTL DEF Spec

\* A summary or a report counts inspections as they were at one moment and
\* findings as they were at the same or a later one, both since the request came
\* (TowerStats.Refresh, TowerReporter.Generate); a risk profile was true at one.
THEOREM AnswersTrue == Spec => []AnswersBracketed
<1>1. ReadsInv => AnswersBracketed
  BY DEF ReadsInv, ReadersOK, ReaderOK, AnswersBracketed, Since
<1>2. QED BY <1>1, Reads, PTL

-------------------------------------------------------------------------------
(* Types; the risk score of a tower stays in its range whatever is listed      *)

LEMMA NumbersFinite ==
  ASSUME NEW stored
  PROVE  IsFiniteSet(NumbersOf(stored)) /\ Cardinality(NumbersOf(stored)) \in Nat
<1>1. NumbersOf(stored) \subseteq 1..MaxFindings
  BY DEF NumbersOf, FindingId
<1>2. MaxFindings \in Nat
  BY ReadsSeeds
<1>3. IsFiniteSet(1..MaxFindings)
  BY <1>2, FS_Interval
<1>4. QED BY <1>1, <1>3, FS_Subset, FS_CardinalityType

LEMMA ScoreRange ==
  ASSUME NEW tower, NEW info \in [corrosion : Int, wind : Int], NEW listing, IsFiniteSet(DOMAIN listing)
  PROVE  Score(tower, info, listing) \in 0..100
<1> DEFINE Found(severity) == {i \in FindingsOn(tower, listing) : listing[i].severity = severity}
           Weigh(severity) == ScoreWeight[severity] * Cardinality(Found(severity))
<1>1. \A severity : Cardinality(Found(severity)) \in Nat
  <2> TAKE severity
  <2>1. Found(severity) \subseteq DOMAIN listing
    BY DEF FindingsOn
  <2> HIDE DEF Found
  <2>2. QED BY <2>1, FS_Subset, FS_CardinalityType
<1> HIDE DEF Found
<1>2. Weigh("low") \in Nat /\ Weigh("medium") \in Nat /\ Weigh("high") \in Nat
  BY <1>1 DEF ScoreWeight
<1>3. Clamp(info.corrosion, 0, 10) \in 0..10 /\ Clamp(info.wind, 0, 100) \in 0..100
  BY DEF Clamp
<1>4. Clamp(info.corrosion, 0, 10) * 6 + Clamp(info.wind, 0, 100) \div 10 \in Nat
  BY <1>3
<1> DEFINE raw == Clamp(info.corrosion, 0, 10) * 6 + Clamp(info.wind, 0, 100) \div 10
                    + Weigh("low") + Weigh("medium") + Weigh("high")
<1>5. raw \in Nat
  <2> HIDE DEF Weigh
  <2>1. QED BY <1>2, <1>4
<1>6. Score(tower, info, listing) = IF raw > 100 THEN 100 ELSE raw
  BY DEF Score, Found
<1> HIDE DEF raw
<1>7. QED BY <1>5, <1>6

FlagsOK == tickDue \in BOOLEAN /\ stopClosed \in BOOLEAN

LEMMA NextFlags == FlagsOK /\ [Next]_vars => FlagsOK'
<1> SUFFICES ASSUME FlagsOK, [Next]_vars PROVE FlagsOK'
  OBVIOUS
<1>1. \/ UNCHANGED <<tickDue, stopClosed>>
      \/ tickDue' \in BOOLEAN /\ stopClosed' = stopClosed
      \/ tickDue' = tickDue /\ stopClosed' \in BOOLEAN
  BY DEF Next, WriteInspection, WriteStatus, WriteFinding, Get, GetRisk, CancelRead, RefreshStep,
    ReadInspections, ReadFindings, RefuseRead, Store, StoreSummary, Tick, CloseStop, TakeTick, TakeStop,
    vars, readVars
<1>2. QED BY <1>1 DEF FlagsOK

\* Every variable keeps its type, and the score of every tower stays within 100
\* whatever its survey says and however many findings there are.
THEOREM TypeCorrect == Spec => []TypeOK
<1>1. ReadsInv /\ FlagsOK => TypeOK
  <2> SUFFICES ASSUME ReadsInv, FlagsOK PROVE TypeOK
    OBVIOUS
  <2>1. \A t \in Tower : Score(t, TowerInfo[t], ListFindings) \in 0..100
    <3>1. IsFiniteSet(DOMAIN ListFindings)
      <4>1. DOMAIN ListFindings = 1..Cardinality(NumbersOf(findings))
        BY DEF ListFindings, Listing
      <4>2. QED BY <4>1, NumbersFinite, FS_Interval
    <3>2. QED BY <3>1, ReadsSeeds, ScoreRange
  <2>2. QED BY <2>1 DEF TypeOK, ReadsInv, PastOK, ShapesOK, ReadersOK, ReaderOK, FindingMap, FlagsOK
<1>2. Init => FlagsOK
  BY DEF Init, FlagsOK
<1>3. QED BY <1>1, <1>2, Reads, NextFlags, PTL DEF Spec

-------------------------------------------------------------------------------
(* Listings                                                                    *)

\* What holds of 0, and of n + 1 whenever it holds of n, holds of every number:
\* up to a number it did not hold of, adding 1 would map its numbers one to one
\* into those but 0.
LEMMA Counting ==
  ASSUME NEW S, 0 \in S, \A n \in Nat : n \in S => n + 1 \in S
  PROVE  \A n \in Nat : n \in S
<1> SUFFICES ASSUME NEW m \in Nat, m \notin S PROVE FALSE
  OBVIOUS
<1> DEFINE T == {n \in 0..m : n \in S}
           U == T \ {0}
           f == [n \in T |-> n + 1]
<1>1. IsFiniteSet(T)
  <2>1. IsFiniteSet(0..m)
    BY FS_Interval
  <2>2. QED BY <2>1, FS_Subset
<1>2. 0 \in T /\ Cardinality(T) \in Nat
  BY <1>1, FS_CardinalityType
<1>3. IsFiniteSet(U) /\ Cardinality(U) = Cardinality(T) - 1
  BY <1>1, <1>2, FS_RemoveElement
<1>4. f \in [T -> U]
  <2>1. \A n \in T : n + 1 \in U
    <3> TAKE n \in T
    <3>1. n # m /\ n \in 0..m /\ n + 1 \in S
      OBVIOUS
    <3>2. QED BY <3>1
  <2> HIDE DEF U
  <2>2. QED BY <2>1
<1>5. \E x, y \in T : x # y /\ f[x] = f[y]
  <2> HIDE DEF T, U, f
  <2>1. Cardinality(U) < Cardinality(T)
    BY <1>2, <1>3
  <2>2. QED BY <1>1, <1>3, <1>4, <2>1, FS_PigeonHole
<1>6. QED BY <1>5

\* How many numbers of a set there are up to one.
UpTo(numbers, k) == numbers \cap 0..k

LEMMA UpToFinite ==
  ASSUME NEW numbers, NEW k \in Nat
  PROVE  IsFiniteSet(UpTo(numbers, k)) /\ Cardinality(UpTo(numbers, k)) \in Nat
<1>1. UpTo(numbers, k) \subseteq 0..k
  BY DEF UpTo
<1>2. IsFiniteSet(0..k)
  BY FS_Interval
<1>3. QED BY <1>1, <1>2, FS_Subset, FS_CardinalityType

\* Every place of a set of numbers is somebody's.
LEMMA EveryPlace ==
  ASSUME NEW numbers \in SUBSET (Nat \ {0}), NEW k \in Nat, NEW i \in 1..Cardinality(UpTo(numbers, k))
  PROVE  \E n \in UpTo(numbers, k) : Cardinality(UpTo(numbers, n)) = i
<1> DEFINE Placed(j) == \A p \in 1..Cardinality(UpTo(numbers, j)) :
                          \E n \in UpTo(numbers, j) : Cardinality(UpTo(numbers, n)) = p
           S == {j \in Nat : Placed(j)}
<1>0. /\ \A m \in numbers : m \in Nat /\ m # 0
      /\ numbers \in SUBSET Nat
  OBVIOUS
<1>1. 0 \in S
  <2>1. UpTo(numbers, 0) = {}
    <3>1. \A m \in UpTo(numbers, 0) : FALSE
      BY <1>0 DEF UpTo
    <3>2. QED BY <3>1
  <2>2. QED BY <2>1, FS_EmptySet
<1>2. \A j \in Nat : j \in S => j + 1 \in S
  <2> SUFFICES ASSUME NEW j \in Nat, Placed(j),
                      NEW p \in 1..Cardinality(UpTo(numbers, j + 1))
               PROVE  \E n \in UpTo(numbers, j + 1) : Cardinality(UpTo(numbers, n)) = p
    OBVIOUS
  <2>1. CASE j + 1 \in numbers
    <3>1. /\ UpTo(numbers, j + 1) = UpTo(numbers, j) \cup {j + 1}
          /\ j + 1 \notin UpTo(numbers, j)
      <4>1. 0..(j + 1) = 0..j \cup {j + 1} /\ j + 1 \notin 0..j
        OBVIOUS
      <4>2. QED BY <2>1, <4>1 DEF UpTo
    <3>2. Cardinality(UpTo(numbers, j + 1)) = Cardinality(UpTo(numbers, j)) + 1
      BY <1>0, <3>1, UpToFinite, FS_AddElement
    <3>3. CASE p = Cardinality(UpTo(numbers, j + 1))
      BY <3>1, <3>3
    <3>4. CASE p # Cardinality(UpTo(numbers, j + 1))
      <4>1. p \in 1..Cardinality(UpTo(numbers, j))
        BY <1>0, <3>2, <3>4, UpToFinite
      <4>2. QED BY <3>1, <4>1
    <3>5. QED BY <3>3, <3>4
  <2>2. CASE j + 1 \notin numbers
    <3>1. UpTo(numbers, j + 1) = UpTo(numbers, j)
      <4>1. 0..(j + 1) = 0..j \cup {j + 1}
        OBVIOUS
      <4>2. QED BY <2>2, <4>1 DEF UpTo
    <3>2. QED BY <3>1
  <2>3. QED BY <2>1, <2>2
<1> HIDE DEF S
<1>3. k \in S
  BY <1>1, <1>2, Counting
<1>4. QED BY <1>3 DEF S

\* The i-th of a finite set of numbers, and they come in their order.
LEMMA NthOK ==
  ASSUME NEW numbers \in SUBSET (Nat \ {0}), NEW k \in Nat, UpTo(numbers, k) = numbers
  PROVE  /\ \A i \in 1..Cardinality(numbers) :
              Nth(numbers, i) \in numbers /\ Cardinality(UpTo(numbers, Nth(numbers, i))) = i
         /\ \A i, j \in 1..Cardinality(numbers) : i < j => Nth(numbers, i) < Nth(numbers, j)
<1>0. /\ \A m \in numbers : m \in Nat /\ m # 0
      /\ numbers \in SUBSET Nat
  OBVIOUS
<1>1. ASSUME NEW i \in 1..Cardinality(numbers)
      PROVE  Nth(numbers, i) \in numbers /\ Cardinality(UpTo(numbers, Nth(numbers, i))) = i
  <2>1. \E n \in numbers : Cardinality(UpTo(numbers, n)) = i
    BY EveryPlace
  <2>2. \A n \in numbers : UpTo(numbers, n) = {m \in numbers : m <= n}
    <3>1. \A n, m \in Nat : m \in 0..n <=> m <= n
      OBVIOUS
    <3>2. QED BY <1>0, <3>1, Zenon DEF UpTo
  <2>3. QED BY <2>1, <2>2 DEF Nth
<1>2. ASSUME NEW i \in 1..Cardinality(numbers), NEW j \in 1..Cardinality(numbers), i < j
      PROVE  Nth(numbers, i) < Nth(numbers, j)
  <2> DEFINE a == Nth(numbers, i)
             b == Nth(numbers, j)
  <2>1. /\ a \in Nat /\ b \in Nat
        /\ Cardinality(UpTo(numbers, a)) = i /\ Cardinality(UpTo(numbers, b)) = j
    BY <1>0, <1>1
  <2> HIDE DEF a, b
  <2>2. SUFFICES ASSUME b <= a PROVE FALSE
    BY <2>1 DEF a, b
  <2>3. UpTo(numbers, b) \subseteq UpTo(numbers, a)
    <3>1. 0..b \subseteq 0..a
      BY <2>1, <2>2
    <3>2. QED BY <3>1 DEF UpTo
  <2>4. Cardinality(UpTo(numbers, b)) <= Cardinality(UpTo(numbers, a))
    BY <1>0, <2>1, <2>3, UpToFinite, FS_Subset
  <2>5. j <= i
    BY <2>1, <2>4
  <2>6. QED BY <1>2, <2>5
<1>3. QED BY <1>1, <1>2

-------------------------------------------------------------------------------
(* The sort of a report                                                        *)

\* What the sort makes of two findings.
Before(f, g) ==
  \/ SortWeight(f) > SortWeight(g)
  \/ SortWeight(f) = SortWeight(g) /\ f.id < g.id

Ordered(s) == \A i, j \in 1..Len(s) : i < j => Before(s[i], s[j])

LEMMA Weights ==
  ASSUME NEW f
  PROVE  SortWeight(f) \in 1..3
BY DEF SortWeight

LEMMA InsertAtOK ==
  ASSUME NEW S, NEW s \in Seq(S), NEW e \in S, NEW p \in 1..Len(s) + 1
  PROVE  /\ InsertAt(s, p, e) \in Seq(S)
         /\ Len(InsertAt(s, p, e)) = Len(s) + 1
         /\ \A i \in 1..Len(s) + 1 :
              InsertAt(s, p, e)[i] = IF i < p THEN s[i] ELSE IF i = p THEN e ELSE s[i - 1]
<1> DEFINE a == SubSeq(s, 1, p - 1)
           c == SubSeq(s, p, Len(s))
<1>1. /\ a \in Seq(S) /\ Len(a) = p - 1
      /\ \A i \in 1..p - 1 : a[i] = s[i]
  OBVIOUS
<1>2. /\ c \in Seq(S) /\ Len(c) = Len(s) - p + 1
      /\ \A i \in 1..Len(s) - p + 1 : c[i] = s[p + i - 1]
  OBVIOUS
<1> HIDE DEF a, c
<1> DEFINE ae == a \o <<e>>
<1>3. /\ ae \in Seq(S) /\ Len(ae) = p
      /\ \A i \in 1..p : ae[i] = IF i < p THEN s[i] ELSE e
  BY <1>1
<1> HIDE DEF ae
<1>4. /\ ae \o c \in Seq(S) /\ Len(ae \o c) = Len(s) + 1
      /\ \A i \in 1..Len(s) + 1 : (ae \o c)[i] = IF i <= p THEN ae[i] ELSE c[i - p]
  <2>1. ae \o c \in Seq(S) /\ Len(ae \o c) = Len(s) + 1
    BY <1>2, <1>3
  <2>2. \A i \in 1..Len(s) + 1 : i \in 1..Len(ae) + Len(c)
    BY <1>2, <1>3
  <2>3. \A i \in 1..Len(ae) + Len(c) : (ae \o c)[i] = IF i <= Len(ae) THEN ae[i] ELSE c[i - Len(ae)]
    BY <1>2, <1>3, ConcatProperties
  <2>4. QED BY <1>3, <2>1, <2>2, <2>3
<1>5. InsertAt(s, p, e) = ae \o c
  BY DEF InsertAt, a, ae, c
<1>6. ASSUME NEW i \in 1..Len(s) + 1
      PROVE  (ae \o c)[i] = IF i < p THEN s[i] ELSE IF i = p THEN e ELSE s[i - 1]
  BY <1>2, <1>3, <1>4
<1>7. QED BY <1>4, <1>5, <1>6

\* A set of numbers from 1 that holds those before each of its own.
LEMMA Initial ==
  ASSUME NEW n \in Nat, NEW A \in SUBSET (1..n), \A i \in A : 1..i \subseteq A
  PROVE  Cardinality(A) \in 0..n /\ A = 1..Cardinality(A)
<1>1. IsFiniteSet(1..n) /\ Cardinality(1..n) = n
  BY FS_Interval
<1>2. IsFiniteSet(A) /\ Cardinality(A) \in Nat /\ Cardinality(A) <= n
  BY <1>1, FS_Subset, FS_CardinalityType
<1>3. \A i \in A : i <= Cardinality(A)
  <2> TAKE i \in A
  <2>1. i \in Nat /\ 1..i \subseteq A
    OBVIOUS
  <2>2. Cardinality(1..i) = i
    BY <2>1, FS_Interval
  <2>3. QED BY <1>2, <2>1, <2>2, FS_Subset
<1> DEFINE k == Cardinality(A)
<1>4. k \in Nat /\ A \subseteq 1..k
  BY <1>2, <1>3
<1>5. IsFiniteSet(1..k) /\ Cardinality(1..k) = k
  BY <1>4, FS_Interval
<1>6. A = 1..k
  <2> HIDE DEF k
  <2>1. Cardinality(A) = Cardinality(1..k)
    BY <1>5 DEF k
  <2>2. QED BY <1>4, <1>5, <2>1, FS_Subset
<1>7. QED BY <1>2, <1>6

\* One pass of the sort: the findings so far and one with a greater number.
LEMMA InsertOK ==
  ASSUME NEW s \in Seq(Finding), Ordered(s), NEW f \in Finding, \A i \in 1..Len(s) : s[i].id < f.id
  PROVE  /\ Insert(s, f) \in Seq(Finding)
         /\ Len(Insert(s, f)) = Len(s) + 1
         /\ Ordered(Insert(s, f))
         /\ ToSet(Insert(s, f)) = ToSet(s) \cup {f}
<1> DEFINE ahead == {i \in DOMAIN s : SortWeight(s[i]) >= SortWeight(f)}
           k == Cardinality(ahead)
           t == Insert(s, f)
<1>1. /\ Len(s) \in Nat /\ DOMAIN s = 1..Len(s)
      /\ \A i \in 1..Len(s) : SortWeight(s[i]) \in 1..3
      /\ SortWeight(f) \in 1..3
  BY Weights
<1>2. k \in 0..Len(s) /\ ahead = 1..k
  <2>1. ahead \in SUBSET (1..Len(s))
    BY <1>1
  <2>2. ASSUME NEW i \in ahead, NEW j \in 1..i
        PROVE  j \in ahead
    <3>1. i \in 1..Len(s) /\ j \in 1..Len(s) /\ SortWeight(s[i]) >= SortWeight(f)
      BY <1>1
    <3>2. j = i \/ Before(s[j], s[i])
      BY <3>1 DEF Ordered
    <3>3. SortWeight(s[j]) >= SortWeight(f)
      BY <1>1, <3>1, <3>2 DEF Before
    <3>4. QED BY <1>1, <3>1, <3>3
  <2> HIDE DEF ahead
  <2>3. \A i \in ahead : 1..i \subseteq ahead
    BY <2>2
  <2>4. QED BY <1>1, <2>1, <2>3, Initial
<1>3. /\ \A i \in 1..k : i \in 1..Len(s) /\ SortWeight(s[i]) >= SortWeight(f)
      /\ \A i \in 1..Len(s) : i > k => SortWeight(f) > SortWeight(s[i])
  <2>1. \A i \in 1..Len(s) : i \in ahead <=> SortWeight(s[i]) >= SortWeight(f)
    BY <1>1
  <2> HIDE DEF ahead, k
  <2>2. QED BY <1>1, <1>2, <2>1
<1> HIDE DEF ahead
<1>4. t = InsertAt(s, k + 1, f)
  BY DEF Insert, ahead
<1> HIDE DEF k, t
<1>5. /\ t \in Seq(Finding) /\ Len(t) = Len(s) + 1
      /\ \A i \in 1..Len(s) + 1 : t[i] = IF i < k + 1 THEN s[i] ELSE IF i = k + 1 THEN f ELSE s[i - 1]
  <2> DEFINE p == k + 1
  <2>1. p \in 1..Len(s) + 1
    BY <1>1, <1>2
  <2> HIDE DEF p
  <2>2. /\ InsertAt(s, p, f) \in Seq(Finding)
        /\ Len(InsertAt(s, p, f)) = Len(s) + 1
        /\ \A i \in 1..Len(s) + 1 :
             InsertAt(s, p, f)[i] = IF i < p THEN s[i] ELSE IF i = p THEN f ELSE s[i - 1]
    BY <2>1, InsertAtOK
  <2>3. QED BY <1>4, <2>2, Zenon DEF p
<1>6. Ordered(t)
  <2> SUFFICES ASSUME NEW i \in 1..Len(s) + 1, NEW j \in 1..Len(s) + 1, i < j
               PROVE  Before(t[i], t[j])
    BY <1>5 DEF Ordered
  <2>1. CASE j <= k
    BY <1>1, <1>2, <1>5, <2>1 DEF Ordered
  <2>2. CASE j = k + 1
    <3>1. t[i] = s[i] /\ t[j] = f /\ i \in 1..k
      BY <1>1, <1>2, <1>5, <2>2
    <3>2. QED BY <1>1, <1>3, <3>1 DEF Before
  <2>3. CASE j > k + 1 /\ i = k + 1
    <3>1. t[i] = f /\ t[j] = s[j - 1] /\ j - 1 \in 1..Len(s) /\ j - 1 > k
      BY <1>1, <1>2, <1>5, <2>3
    <3>2. QED BY <1>1, <1>3, <3>1 DEF Before
  <2>4. CASE j > k + 1 /\ i < k + 1
    BY <1>1, <1>2, <1>5, <2>4 DEF Ordered
  <2>5. CASE j > k + 1 /\ i > k + 1
    BY <1>1, <1>2, <1>5, <2>5 DEF Ordered
  <2>6. QED BY <1>2, <2>1, <2>2, <2>3, <2>4, <2>5
<1>7. ToSet(t) = ToSet(s) \cup {f}
  <2>1. /\ \A x : x \in ToSet(t) <=> \E i \in 1..Len(s) + 1 : x = t[i]
        /\ \A x : x \in ToSet(s) <=> \E i \in 1..Len(s) : x = s[i]
    <3>1. DOMAIN t = 1..Len(s) + 1 /\ DOMAIN s = 1..Len(s)
      BY <1>1, <1>5
    <3>2. QED BY <3>1, Zenon DEF ToSet
  <2>2. \A i \in 1..Len(s) + 1 : t[i] \in ToSet(s) \cup {f}
    BY <1>1, <1>2, <1>5, <2>1
  <2>3. \A i \in 1..Len(s) : s[i] \in ToSet(t)
    <3> TAKE i \in 1..Len(s)
    <3>1. CASE i <= k
      BY <1>1, <1>2, <1>5, <2>1, <3>1
    <3>2. CASE i > k
      <4>1. i + 1 \in 1..Len(s) + 1 /\ t[i + 1] = s[i]
        BY <1>1, <1>2, <1>5, <3>2
      <4>2. QED BY <2>1, <4>1
    <3>3. QED BY <1>2, <3>1, <3>2
  <2>4. f \in ToSet(t)
    <3>1. k + 1 \in 1..Len(s) + 1 /\ t[k + 1] = f
      BY <1>1, <1>2, <1>5
    <3>2. QED BY <2>1, <3>1
  <2>5. QED BY <2>1, <2>2, <2>3, <2>4
<1>8. QED BY <1>5, <1>6, <1>7 DEF t

\* What the sort has made of the first n findings, for every n up to m.
Passes(g, m, listing) ==
  g = [n \in 0..m |-> IF n = 0 THEN <<>> ELSE Insert(g[n - 1], listing[n])]

LEMMA PassesExist ==
  ASSUME NEW listing, NEW m \in Nat
  PROVE  \E g : Passes(g, m, listing)
<1> DEFINE S == {j \in Nat : \E g : Passes(g, j, listing)}
<1>1. 0 \in S
  <2> DEFINE g == [n \in 0..0 |-> <<>>]
  <2>1. g = [n \in 0..0 |-> IF n = 0 THEN <<>> ELSE Insert(g[n - 1], listing[n])]
    <3>1. \A n \in 0..0 : n = 0
      OBVIOUS
    <3>2. QED BY <3>1, Zenon
  <2>2. QED BY <2>1 DEF Passes
<1>2. \A j \in Nat : j \in S => j + 1 \in S
  <2> SUFFICES ASSUME NEW j \in Nat, NEW g, Passes(g, j, listing)
               PROVE  \E h : Passes(h, j + 1, listing)
    OBVIOUS
  <2> DEFINE h == [n \in 0..j + 1 |-> IF n = j + 1 THEN Insert(g[j], listing[n]) ELSE g[n]]
             Pass(n) == IF n = 0 THEN <<>> ELSE Insert(h[n - 1], listing[n])
  <2>1. \A n \in 0..j : g[n] = IF n = 0 THEN <<>> ELSE Insert(g[n - 1], listing[n])
    BY Zenon DEF Passes
  <2>2. /\ \A n \in 0..j : h[n] = g[n]
        /\ h[j + 1] = Insert(g[j], listing[j + 1])
    OBVIOUS
  <2>3. h = [n \in 0..j + 1 |-> h[n]]
    OBVIOUS
  <2> HIDE DEF h
  <2>4. ASSUME NEW n \in 0..j + 1
        PROVE  h[n] = Pass(n)
    <3>1. CASE n = j + 1
      <4>1. n # 0 /\ n - 1 = j /\ j \in 0..j
        BY <3>1
      <4>2. QED BY <2>2, <3>1, <4>1
    <3>2. CASE n \in 0..j /\ n # 0
      <4>1. n - 1 \in 0..j
        BY <3>2
      <4>2. QED BY <2>1, <2>2, <3>2, <4>1
    <3>3. CASE n = 0
      <4>1. n \in 0..j
        BY <3>3
      <4>2. QED BY <2>1, <2>2, <3>3, <4>1
    <3>4. QED BY <3>1, <3>2, <3>3
  <2>5. h = [n \in 0..j + 1 |-> Pass(n)]
    <3> HIDE DEF Pass
    <3>1. QED BY <2>3, <2>4, Zenon
  <2>6. QED BY <2>5 DEF Passes
<1> HIDE DEF S
<1>3. m \in S
  BY <1>1, <1>2, Counting
<1>4. QED BY <1>3 DEF S

\* A listing: findings in the order of their numbers.
IsListing(listing) ==
  /\ listing \in Seq(Finding)
  /\ \A i, j \in 1..Len(listing) : i < j => listing[i].id < listing[j].id

\* The findings at the first n places of a listing.
FirstOf(listing, n) == {listing[i] : i \in 1..n}

PassOK(s, listing, n) ==
  /\ s \in Seq(Finding) /\ Len(s) = n /\ Ordered(s)
  /\ ToSet(s) = FirstOf(listing, n)
  /\ IsFiniteSet(FirstOf(listing, n)) /\ Cardinality(FirstOf(listing, n)) = n

LEMMA PassesOK ==
  ASSUME NEW listing, IsListing(listing), NEW g, Passes(g, Len(listing), listing),
         NEW n \in 0..Len(listing)
  PROVE  PassOK(g[n], listing, n)
<1> DEFINE L == Len(listing)
           S == {j \in Nat : j <= L => PassOK(g[j], listing, j)}
<1>1. /\ L \in Nat
      /\ \A i \in 1..L : listing[i] \in Finding
      /\ \A f \in Finding : f.id \in Nat
      /\ listing \in Seq(Finding)
  <2>1. L \in Nat /\ (\A i \in 1..L : listing[i] \in Finding) /\ listing \in Seq(Finding)
    BY DEF IsListing
  <2>2. \A f \in Finding : f.id \in Nat
    <3>1. MaxFindings \in Nat
      BY ReadsSeeds
    <3>2. QED BY <3>1 DEF Finding, FindingId
  <2>3. QED BY <2>1, <2>2
<1>2. \A j \in 0..L : g[j] = IF j = 0 THEN <<>> ELSE Insert(g[j - 1], listing[j])
  BY Zenon DEF Passes
<1>3. 0 \in S
  <2>1. g[0] = <<>>
    BY <1>1, <1>2
  <2>2. FirstOf(listing, 0) = {}
    BY DEF FirstOf
  <2>3. ToSet(<<>>) = {}
    BY DEF ToSet
  <2>4. PassOK(<<>>, listing, 0)
    <3>1. <<>> \in Seq(Finding) /\ Len(<<>>) = 0 /\ Ordered(<<>>)
      BY DEF Ordered
    <3>2. IsFiniteSet({}) /\ Cardinality({}) = 0
      BY FS_EmptySet
    <3>3. QED BY <2>2, <2>3, <3>1, <3>2 DEF PassOK
  <2>5. QED BY <2>1, <2>4
<1>4. \A j \in Nat : j \in S => j + 1 \in S
  <2> SUFFICES ASSUME NEW j \in Nat, PassOK(g[j], listing, j), j + 1 <= L
               PROVE  PassOK(g[j + 1], listing, j + 1)
    BY <1>1
  <2> DEFINE s == g[j]
             f == listing[j + 1]
  <2>1. g[j + 1] = Insert(s, f)
    <3>1. j + 1 \in 0..L /\ j + 1 # 0 /\ (j + 1) - 1 = j
      BY <1>1
    <3>2. QED BY <1>2, <3>1
  <2>2. /\ f \in Finding /\ j + 1 \in 1..L
        /\ \A e \in FirstOf(listing, j) : e.id < f.id
    <3>1. \A i \in 1..j : listing[i].id < f.id
      BY <1>1 DEF IsListing
    <3>2. QED BY <1>1, <3>1 DEF FirstOf
  <2>3. FirstOf(listing, j + 1) = FirstOf(listing, j) \cup {f}
    <3>1. 1..(j + 1) = 1..j \cup {j + 1}
      OBVIOUS
    <3>2. QED BY <3>1 DEF FirstOf
  <2> HIDE DEF s, f
  <2>4. /\ s \in Seq(Finding) /\ Len(s) = j /\ Ordered(s)
        /\ ToSet(s) = FirstOf(listing, j)
        /\ IsFiniteSet(FirstOf(listing, j)) /\ Cardinality(FirstOf(listing, j)) = j
    BY DEF PassOK, s
  <2>5. \A i \in 1..Len(s) : s[i].id < f.id
    <3>1. \A i \in 1..Len(s) : s[i] \in ToSet(s)
      BY <2>4 DEF ToSet
    <3>2. QED BY <2>2, <2>4, <3>1
  <2>6. /\ Insert(s, f) \in Seq(Finding)
        /\ Len(Insert(s, f)) = Len(s) + 1
        /\ Ordered(Insert(s, f))
        /\ ToSet(Insert(s, f)) = ToSet(s) \cup {f}
    BY <2>2, <2>4, <2>5, InsertOK
  <2>7. f \notin FirstOf(listing, j)
    <3>1. f.id \in Nat
      BY <1>1, <2>2
    <3>2. QED BY <2>2, <3>1
  <2>8. /\ IsFiniteSet(FirstOf(listing, j + 1))
        /\ Cardinality(FirstOf(listing, j + 1)) = j + 1
    BY <2>3, <2>4, <2>7, FS_AddElement
  <2>9. QED BY <2>1, <2>3, <2>4, <2>6, <2>8 DEF PassOK
<1> HIDE DEF S
<1>5. n \in S
  BY <1>1, <1>3, <1>4, Counting
<1>6. QED BY <1>1, <1>5 DEF S

\* The sort keeps all findings and puts them in its order.
LEMMA SortOK ==
  ASSUME NEW listing, IsListing(listing)
  PROVE  PassOK(sortFindingsBySeverity(listing), listing, Len(listing))
<1> DEFINE sorted == CHOOSE g : Passes(g, Len(listing), listing)
<1>1. Len(listing) \in Nat
  BY DEF IsListing
<1>2. Passes(sorted, Len(listing), listing)
  BY <1>1, PassesExist, Zenon
<1>3. sortFindingsBySeverity(listing) = sorted[Len(listing)]
  BY Zenon DEF sortFindingsBySeverity, Passes
<1> HIDE DEF sorted
<1>4. Len(listing) \in 0..Len(listing)
  BY <1>1
<1>5. PassOK(sorted[Len(listing)], listing, Len(listing))
  BY <1>2, <1>4, PassesOK
<1>6. QED BY <1>3, <1>5

\* What holds of the findings a report puts first.
TopOK(top, all) ==
  /\ \A i, j \in DOMAIN top : i < j => Before(top[i], top[j])
  /\ ToSet(top) \subseteq all
  /\ Len(top) = IF Cardinality(all) < TopLimit THEN Cardinality(all) ELSE TopLimit
  /\ \A f \in all \ ToSet(top), g \in ToSet(top) : Before(g, f)

LEMMA TopFindingsOK ==
  ASSUME NEW listing, IsListing(listing)
  PROVE  TopOK(topFindings(listing, TopLimit), ToSet(listing))
<1> DEFINE s == sortFindingsBySeverity(listing)
           top == topFindings(listing, TopLimit)
           n == Len(listing)
<1>1. n \in Nat /\ TopLimit \in Nat
  <2>1. TopLimit \in Nat
    BY ReadsSeeds
  <2>2. QED BY <2>1 DEF IsListing
<1>2. FirstOf(listing, n) = ToSet(listing)
  <2>1. DOMAIN listing = 1..n
    BY DEF IsListing
  <2>2. QED BY <2>1 DEF FirstOf, ToSet
<1>3. /\ s \in Seq(Finding) /\ Len(s) = n /\ Ordered(s)
      /\ ToSet(s) = ToSet(listing) /\ Cardinality(ToSet(listing)) = n
  BY <1>2, SortOK DEF PassOK
<1>4. top = IF n > TopLimit THEN SubSeq(s, 1, TopLimit) ELSE s
  BY <1>3 DEF topFindings
<1> DEFINE k == IF n > TopLimit THEN TopLimit ELSE n
<1>5. /\ k \in 0..n /\ Len(top) = k /\ DOMAIN top = 1..k
      /\ \A i \in 1..k : top[i] = s[i]
  BY <1>1, <1>3, <1>4
<1> HIDE DEF s, top
<1>6. /\ \A x : x \in ToSet(top) <=> \E i \in 1..k : x = s[i]
      /\ \A x : x \in ToSet(listing) <=> \E i \in 1..n : x = s[i]
  <2>1. DOMAIN s = 1..n
    BY <1>3
  <2>2. \A x : x \in ToSet(top) <=> \E i \in 1..k : x = s[i]
    BY <1>5 DEF ToSet
  <2>3. \A x : x \in ToSet(s) <=> \E i \in 1..n : x = s[i]
    BY <2>1 DEF ToSet
  <2>4. QED BY <1>3, <2>2, <2>3
<1>7. /\ k = IF n < TopLimit THEN n ELSE TopLimit
      /\ \A i \in 1..k : i \in 1..n
  BY <1>1
<1> HIDE DEF k
<1>8. \A i, j \in DOMAIN top : i < j => Before(top[i], top[j])
  BY <1>3, <1>5, <1>7 DEF Ordered
<1>9. ToSet(top) \subseteq ToSet(listing)
  BY <1>6, <1>7
<1>10. ASSUME NEW f \in ToSet(listing) \ ToSet(top), NEW g \in ToSet(top)
       PROVE  Before(g, f)
  <2>1. PICK i \in 1..k : g = s[i]
    BY <1>6
  <2>2. PICK j \in 1..n : f = s[j]
    BY <1>6
  <2>3. j \notin 1..k
    BY <1>6, <2>2
  <2>4. i < j /\ i \in 1..Len(s) /\ j \in 1..Len(s)
    BY <1>1, <1>3, <1>5, <1>7, <2>3
  <2>5. QED BY <1>3, <2>1, <2>2, <2>4 DEF Ordered
<1>11. QED BY <1>3, <1>5, <1>7, <1>8, <1>9, <1>10 DEF TopOK, top

\* The store keeps a finding under its number.
Numbered(stored) == \A n \in FindingId : stored[n] # NoFinding => stored[n].id = n

LEMMA ListingsAreListings ==
  ASSUME NEW stored \in FindingMap, Numbered(stored)
  PROVE  IsListing(Listing(stored))
<1> DEFINE numbers == NumbersOf(stored)
           listing == Listing(stored)
           n == Cardinality(numbers)
<1>1. MaxFindings \in Nat
  BY ReadsSeeds
<1>2. /\ numbers \in SUBSET (Nat \ {0}) /\ UpTo(numbers, MaxFindings) = numbers
      /\ numbers \subseteq FindingId
  BY <1>1 DEF NumbersOf, FindingId, UpTo
<1>3. n \in Nat
  BY NumbersFinite
<1>4. \A m \in numbers : stored[m] \in Finding /\ stored[m].id = m /\ m \in Nat
  BY <1>2 DEF NumbersOf, FindingMap, Numbered
<1>5. listing = [i \in 1..n |-> stored[Nth(numbers, i)]]
  BY DEF Listing
<1> HIDE DEF numbers, listing, n
<1>6. /\ \A i \in 1..n : Nth(numbers, i) \in numbers
      /\ \A i, j \in 1..n : i < j => Nth(numbers, i) < Nth(numbers, j)
  BY <1>1, <1>2, NthOK DEF n
<1>7. /\ \A i \in 1..n : stored[Nth(numbers, i)] \in Finding
      /\ \A i \in 1..n : listing[i] = stored[Nth(numbers, i)] /\ listing[i].id = Nth(numbers, i)
  BY <1>4, <1>5, <1>6
<1>8. listing \in Seq(Finding) /\ Len(listing) = n
  BY <1>3, <1>5, <1>7
<1>9. \A i, j \in 1..n : i < j => listing[i].id < listing[j].id
  BY <1>6, <1>7
<1>10. QED BY <1>8, <1>9 DEF IsListing, listing

NumberedOK == Numbered(findings) /\ \A i \in 1..Len(past) : Numbered(past[i].findings)

LEMMA InitNumbered == Init => NumberedOK
<1> SUFFICES ASSUME Init PROVE NumberedOK
  OBVIOUS
<1>1. Numbered(SeedFindings)
  BY ReadsSeeds DEF Numbered
<1>2. Len(past) = 1 /\ past[1].findings = SeedFindings
  BY DEF Init
<1>3. QED BY <1>1, <1>2 DEF Init, NumberedOK

LEMMA NextNumbered == ReadsInv /\ NumberedOK /\ [Next]_vars => NumberedOK'
<1> SUFFICES ASSUME ReadsInv, NumberedOK, [Next]_vars PROVE NumberedOK'
  OBVIOUS
<1>1. \/ UNCHANGED <<findings, past>>
      \/ Numbered(findings') /\ \E snapshot : Remember(snapshot, findings')
  <2>1. CASE WriteInspection \/ WriteStatus
    BY <2>1 DEF WriteInspection, WriteStatus, NumberedOK
  <2>2. CASE WriteFinding
    <3>1. PICK n \in FindingId, new \in NewFindings :
            /\ findings' = [findings EXCEPT ![n] = [id |-> n, tower |-> new.tower, severity |-> new.severity]]
            /\ Remember(inspections, findings')
      BY <2>2 DEF WriteFinding
    <3>2. Numbered(findings')
      BY <3>1 DEF ReadsInv, PastOK, FindingMap, NumberedOK, Numbered
    <3>3. QED BY <3>1, <3>2
  <2>3. CASE UNCHANGED vars
    BY <2>3 DEF vars, readVars
  <2>4. CASE StoreUntouched
    BY <2>4 DEF StoreUntouched
  <2>5. ASSUME NEW r \in Reader, CancelRead(r)
        PROVE  UNCHANGED <<findings, past>>
    BY <2>5 DEF CancelRead, readVars
  <2>6. ASSUME NEW p, RefuseRead(p)
        PROVE  UNCHANGED <<findings, past>>
    BY <2>6 DEF RefuseRead
  <2>7. QED
    BY <2>1, <2>2, <2>3, <2>4, <2>5, <2>6 DEF Next, Get, GetRisk, RefreshStep, ReadInspections,
      ReadFindings, Store, StoreSummary, Tick, CloseStop, TakeTick, TakeStop
<1>2. CASE UNCHANGED <<findings, past>>
  BY <1>2 DEF NumberedOK
<1>3. ASSUME NEW snapshot, Numbered(findings'), Remember(snapshot, findings')
      PROVE  NumberedOK'
  <2> DEFINE state == [inspections |-> snapshot, findings |-> findings']
  <2>1. past' = Append(past, state) /\ state.findings = findings'
    BY <1>3 DEF Remember
  <2> HIDE DEF state
  <2>2. /\ Len(past) \in Nat /\ Len(past') = Len(past) + 1
        /\ past'[Len(past) + 1] = state
        /\ \A i \in 1..Len(past) : past'[i] = past[i]
    BY <2>1 DEF ReadsInv, PastOK
  <2>3. ASSUME NEW i \in 1..Len(past')
        PROVE  Numbered(past'[i].findings)
    <3>1. CASE i = Len(past) + 1
      BY <1>3, <2>1, <2>2, <3>1
    <3>2. CASE i # Len(past) + 1
      <4>1. i \in 1..Len(past)
        BY <2>2, <3>2
      <4>2. QED BY <2>2, <4>1 DEF NumberedOK
    <3>3. QED BY <3>1, <3>2
  <2>4. QED BY <1>3, <2>3 DEF NumberedOK
<1>4. QED BY <1>1, <1>2, <1>3

\* The findings a report puts first are the heaviest of a moment since its request
\* came, equals in the order of their numbers, as many as the limit lets through.
THEOREM TopFirst == Spec => []TopAreHeaviest
<1>1. ReadsInv /\ NumberedOK => TopAreHeaviest
  <2> SUFFICES ASSUME ReadsInv, NumberedOK,
                      NEW r \in Reader, answer[r].kind = "report", answer[r].code = 200
               PROVE  \E k \in began[r]..Len(past) :
                        TopOK(answer[r].body.top_findings, ToSet(ListingOf(past[k])))
    BY DEF TopAreHeaviest, TopOK, Before
  <2>1. Bracketed(r, Report)
    BY DEF ReadsInv, ReadersOK, ReaderOK
  <2>2. PICK i \in began[r]..Len(past) :
          \E j \in i..Len(past) : answer[r].body = Report(past[i].inspections, ListingOf(past[j]))
    BY <2>1 DEF Bracketed
  <2>3. PICK j \in i..Len(past) : answer[r].body = Report(past[i].inspections, ListingOf(past[j]))
    BY <2>2
  <2>4. j \in began[r]..Len(past) /\ j \in 1..Len(past)
    BY DEF ReadsInv, ShapesOK
  <2> DEFINE stored == past[j].findings
  <2>5. stored \in FindingMap /\ Numbered(stored)
    <3>1. past[j] \in [inspections : InspectionMap, findings : FindingMap]
      <4> DEFINE States == [inspections : InspectionMap, findings : FindingMap]
      <4>1. past \in Seq(States)
        BY DEF ReadsInv, PastOK
      <4> HIDE DEF States
      <4>2. past[j] \in States
        BY <2>4, <4>1
      <4>3. QED BY <4>2 DEF States
    <3>2. stored \in FindingMap
      BY <3>1
    <3>3. Numbered(stored)
      BY <2>4 DEF NumberedOK
    <3>4. QED BY <3>2, <3>3
  <2>6. answer[r].body.top_findings = topFindings(Listing(stored), TopLimit)
    BY <2>3 DEF Report, ListingOf
  <2> HIDE DEF stored
  <2>7. TopOK(topFindings(Listing(stored), TopLimit), ToSet(Listing(stored)))
    BY <2>5, ListingsAreListings, TopFindingsOK
  <2>8. QED BY <2>4, <2>6, <2>7 DEF stored, ListingOf
<1>2. QED BY <1>1, InitReads, InitNumbered, NextReads, NextNumbered, PTL DEF Spec

-------------------------------------------------------------------------------
(* Pages                                                                       *)

\* Products of a page and a size.
LEMMA Products ==
  ASSUME NEW a \in Nat, NEW b \in Nat, NEW s \in Nat \ {0}
  PROVE  /\ a * s \in Nat /\ a <= a * s
         /\ (a + 1) * s = a * s + s
         /\ a <= b => a * s <= b * s
<1>1. a * s \in Nat /\ (a + 1) * s = a * s + s
  OBVIOUS
<1>2. a <= a * s
  OBVIOUS
<1>3. a <= b => a * s <= b * s
  OBVIOUS
<1>4. QED BY <1>1, <1>2, <1>3

LEMMA Quotient ==
  ASSUME NEW a \in Nat, NEW s \in Nat \ {0}
  PROVE  \E q \in Nat : q * s <= a /\ a < q * s + s
<1>1. a \div s \in Nat /\ (a \div s) * s <= a /\ a < (a \div s) * s + s
  OBVIOUS
<1>2. QED BY <1>1

LEMMA Remainder ==
  ASSUME NEW a \in Int, NEW k \in Nat \ {0}
  PROVE  a % k \in 0..k - 1 /\ (a \in 0..k - 1 => a % k = a)
<1>1. a % k \in 0..k - 1
  OBVIOUS
<1>2. a \in 0..k - 1 => a % k = a
  OBVIOUS
<1>3. QED BY <1>1, <1>2

LEMMA MaxIntOK == MaxInt \in Nat /\ MaxPageSize \in 1..MaxInt /\ DefaultPageSize \in 1..MaxPageSize
<1> DEFINE bits == 1..(IntBits - 1)
<1>1. IntBits - 1 \in Nat
  BY PagingConstants
<1>2. IsFiniteSet(bits) /\ Cardinality(bits) = IntBits - 1
  BY <1>1, FS_Interval
<1>3. IsFiniteSet(SUBSET bits) /\ Cardinality(SUBSET bits) = 2^(IntBits - 1)
  BY <1>2, FS_SUBSET
<1>4. 2^(IntBits - 1) \in Nat
  BY <1>3, FS_CardinalityType
<1> DEFINE m == 2^(IntBits - 1)
<1>5. MaxPageSize \in 1..(m - 1) /\ DefaultPageSize \in 1..MaxPageSize
  BY PagingConstants
<1>6. m \in Nat
  BY <1>4
<1>7. MaxInt = m - 1
  BY DEF MaxInt
<1> HIDE DEF m
<1>8. QED BY <1>5, <1>6, <1>7

Machine == -MaxInt - 1..MaxInt

LEMMA WrapOK ==
  ASSUME NEW a \in Int
  PROVE  Wrap(a) \in Machine /\ (a \in Machine => Wrap(a) = a)
<1> DEFINE k == 2 * MaxInt + 2
           b == a + MaxInt + 1
<1>1. MaxInt \in Nat /\ k \in Nat \ {0} /\ b \in Int
  BY MaxIntOK
<1>2. Wrap(a) = (b % k) - MaxInt - 1
  BY DEF Wrap
<1>3. b % k \in 0..k - 1 /\ (b \in 0..k - 1 => b % k = b)
  <2> HIDE DEF b, k
  <2>1. QED BY <1>1, Remainder
<1>4. a \in Machine => b \in 0..k - 1
  BY <1>1 DEF Machine
<1> DEFINE w == b % k
<1>5. w \in 0..k - 1 /\ (b \in 0..k - 1 => w = b) /\ Wrap(a) = w - MaxInt - 1
  BY <1>2, <1>3
<1> HIDE DEF w
<1>6. QED BY <1>1, <1>4, <1>5 DEF Machine

LEMMA DefaultsOK ==
  /\ \A n \in Machine : DefaultedPage(n) \in 1..MaxInt /\ (n >= 1 => DefaultedPage(n) = n)
  /\ \A size \in Machine : DefaultedSize(size) \in 1..MaxPageSize
BY MaxIntOK DEF DefaultedPage, DefaultedSize, Machine

\* Where the page before page n ends if no listing is long enough to stop it.
Reach(n, size) == (DefaultedPage(n) - 1) * DefaultedSize(size)

LEMMA OffsetOK ==
  ASSUME NEW n \in Machine, NEW size \in Machine
  PROVE  /\ Reach(n, size) \in Nat
         /\ Offset(n, size) \in Machine
         /\ Reach(n, size) <= MaxInt => Offset(n, size) = Reach(n, size)
<1> DEFINE p == DefaultedPage(n)
           s == DefaultedSize(size)
           x == (p - 1) * s
<1>1. MaxInt \in Nat /\ p \in 1..MaxInt /\ s \in 1..MaxPageSize /\ MaxPageSize \in 1..MaxInt
  BY MaxIntOK, DefaultsOK
<1>2. p - 1 \in Nat /\ s \in Nat \ {0} /\ p - 1 \in Machine /\ p - 1 \in Int
  BY <1>1 DEF Machine
<1> HIDE DEF p, s
<1>3. x \in Nat
  BY <1>2, Products
<1>4. Wrap(p - 1) = p - 1
  BY <1>2, WrapOK
<1>5. Offset(n, size) = Wrap(x) /\ Reach(n, size) = x
  BY <1>4 DEF Offset, Reach, p, s
<1> HIDE DEF x
<1>6. x <= MaxInt => x \in Machine
  BY <1>1, <1>3 DEF Machine
<1>7. QED BY <1>3, <1>5, <1>6, WrapOK

\* A total that leaves room for a page, as ReadsFit says of every listing.
Fits(total) == total \in Nat /\ total + MaxPageSize <= MaxInt

Clipped(total, start) == IF start < 0 THEN 0 ELSE IF start > total THEN total ELSE start

LEMMA BoundsOK ==
  ASSUME NEW total, Fits(total), NEW size \in Machine, NEW start \in 0..total
  PROVE  Bounds(start, total, size) =
           [start |-> start,
            end   |-> IF start + DefaultedSize(size) > total THEN total ELSE start + DefaultedSize(size)]
<1> DEFINE s == DefaultedSize(size)
<1>1. MaxInt \in Nat /\ s \in 1..MaxPageSize /\ MaxPageSize \in 1..MaxInt
  BY MaxIntOK, DefaultsOK
<1> HIDE DEF s
<1>2. start + s \in Machine /\ start + s \in Int
  BY <1>1 DEF Fits, Machine
<1>3. Wrap(start + s) = start + s
  BY <1>2, WrapOK
<1>4. Bounds(start, total, size) =
        [start |-> start, end |-> IF Wrap(start + s) > total THEN total ELSE Wrap(start + s)]
  BY DEF Bounds, s
<1>5. QED BY <1>3, <1>4 DEF s

\* What GET /api/inspections and GET /api/findings cut out for a page.
LEMMA TowerPage ==
  ASSUME NEW total, Fits(total), NEW n \in Machine, NEW size \in Machine
  PROVE  LET page == towerBounds(total, n, size) IN
         /\ Sliceable(page) /\ page.end <= total
         /\ Reach(n, size) <= MaxInt =>
              /\ page.start = IF Reach(n, size) > total THEN total ELSE Reach(n, size)
              /\ page.end = IF page.start + DefaultedSize(size) > total THEN total
                            ELSE page.start + DefaultedSize(size)
<1> DEFINE start == Clipped(total, Offset(n, size))
           s == DefaultedSize(size)
           page == towerBounds(total, n, size)
<1>1. MaxInt \in Nat /\ s \in 1..MaxPageSize /\ MaxPageSize \in 1..MaxInt /\ total \in Nat
  BY MaxIntOK, DefaultsOK DEF Fits
<1>2. Reach(n, size) \in Nat /\ Offset(n, size) \in Int
  <2>1. Offset(n, size) \in Machine /\ Reach(n, size) \in Nat
    BY OffsetOK
  <2>2. QED BY <1>1, <2>1 DEF Machine
<1>3. start \in 0..total
  BY <1>1, <1>2 DEF Clipped
<1>4. page = Bounds(start, total, size)
  BY DEF towerBounds, Clipped
<1>5. Reach(n, size) <= MaxInt => start = IF Reach(n, size) > total THEN total ELSE Reach(n, size)
  BY <1>1, <1>2, OffsetOK DEF Clipped
<1> HIDE DEF start, page
<1>6. /\ page.start = start
      /\ page.end = IF start + s > total THEN total ELSE start + s
  BY <1>3, <1>4, BoundsOK
<1> HIDE DEF s
<1>7. Sliceable(page) /\ page.end <= total
  BY <1>1, <1>3, <1>6 DEF Sliceable
<1>8. QED BY <1>5, <1>6, <1>7 DEF page, s

\* What GET /ops/records cuts out: the same, or nothing it could slice.
LEMMA OpsPage ==
  ASSUME NEW total, Fits(total), NEW n \in Machine, NEW size \in Machine
  PROVE  /\ Reach(n, size) <= MaxInt => opsBounds(total, n, size) = towerBounds(total, n, size)
         /\ Sliceable(opsBounds(total, n, size)) => opsBounds(total, n, size) = towerBounds(total, n, size)
<1> DEFINE offset == Offset(n, size)
           start == IF offset > total THEN total ELSE offset
<1>1. MaxInt \in Nat /\ total \in Nat /\ offset \in Int
  BY MaxIntOK, OffsetOK DEF Machine, Fits
<1>2. /\ opsBounds(total, n, size) = Bounds(start, total, size)
      /\ towerBounds(total, n, size) = Bounds(Clipped(total, offset), total, size)
  BY DEF opsBounds, towerBounds, Clipped
<1>3. Reach(n, size) <= MaxInt => offset >= 0
  BY <1>1, OffsetOK
<1>4. Bounds(start, total, size).start = start
  BY DEF Bounds
<1>5. start >= 0 => start = Clipped(total, offset)
  BY <1>1 DEF Clipped
<1>6. offset >= 0 => start >= 0
  BY <1>1
<1> HIDE DEF start, offset
<1>7. QED BY <1>2, <1>3, <1>4, <1>5, <1>6 DEF Sliceable

\* The page a listing ends with.
LEMMA LastPage ==
  ASSUME NEW total \in Nat, NEW s \in Nat \ {0}
  PROVE  \E last \in 1..total + 1 :
           /\ total <= last * s
           /\ last = 1 \/ (last - 1) * s < total
<1>1. CASE total = 0
  <2>1. total <= 1 * s /\ 1 \in 1..total + 1
    BY <1>1
  <2>2. QED BY <2>1
<1>2. CASE total # 0
  <2> DEFINE a == total - 1
  <2>1. a \in Nat
    BY <1>2
  <2>2. PICK q \in Nat : q * s <= a /\ a < q * s + s
    BY <2>1, Quotient
  <2>3. q <= q * s /\ q * s \in Nat /\ (q + 1) * s = q * s + s
    BY <2>2, Products
  <2> DEFINE last == q + 1
             x == q * s
             y == last * s
  <2>4. x \in Nat /\ y = x + s /\ x <= a /\ a < x + s /\ q <= x
    BY <2>2, <2>3
  <2>5. (last - 1) * s = x
    <3>1. last - 1 = q
      OBVIOUS
    <3>2. QED BY <3>1
  <2> HIDE DEF x, y
  <2>6. /\ last \in 1..total + 1
        /\ total <= y
        /\ x < total
    BY <1>2, <2>4
  <2>7. QED BY <2>5, <2>6 DEF y
<1>3. QED BY <1>1, <1>2

\* What the pages of a listing owe its clients.
Tiled(total, size, last, n) ==
  LET page == towerBounds(total, n, size)
      ops  == opsBounds(total, n, size)
  IN  /\ Sliceable(page)
      /\ IF (DefaultedPage(n) - 1) * DefaultedSize(size) <= MaxInt
           THEN ops = page /\ (n > last => page.start = page.end)
           ELSE Sliceable(ops) => ops = page

LEMMA Tiles ==
  ASSUME NEW total, Fits(total), NEW size \in Machine
  PROVE  \E last \in 1..total + 1 :
           /\ towerBounds(total, 1, size).start = 0
           /\ \A n \in 1..last - 1 :
                LET page == towerBounds(total, n, size) IN
                page.end < total /\ page.end = towerBounds(total, n + 1, size).start
           /\ towerBounds(total, last, size).end = total
           /\ \A n \in Machine : Tiled(total, size, last, n)
<1> DEFINE s == DefaultedSize(size)
<1>1. MaxInt \in Nat /\ s \in 1..MaxPageSize /\ MaxPageSize \in 1..MaxInt /\ total \in Nat
      /\ total + MaxPageSize <= MaxInt
  BY MaxIntOK, DefaultsOK DEF Fits
<1>2. s \in Nat \ {0} /\ s + total <= MaxInt /\ total + 1 <= MaxInt
  BY <1>1
<1> HIDE DEF s
<1>3. PICK last \in 1..total + 1 :
        /\ total <= last * s
        /\ last = 1 \/ (last - 1) * s < total
  BY <1>1, <1>2, LastPage
\* The pages up to the last, by the products that bound them.
<1>4. ASSUME NEW n \in 1..last
      PROVE  /\ n \in Machine /\ Reach(n, size) = (n - 1) * s
             /\ (n - 1) * s \in Nat /\ (n - 1) * s <= total
             /\ n < last => (n - 1) * s + s < total
             /\ n * s = (n - 1) * s + s
             /\ towerBounds(total, n, size).start = (n - 1) * s
             /\ towerBounds(total, n, size).end =
                  IF (n - 1) * s + s > total THEN total ELSE (n - 1) * s + s
  <2> DEFINE x == (n - 1) * s
  <2>1. n \in Machine /\ n >= 1 /\ n - 1 \in Nat /\ last - 1 \in Nat /\ (n - 1) + 1 = n
    BY <1>1, <1>2 DEF Machine
  <2>2. Reach(n, size) = x
    BY <2>1, DefaultsOK DEF Reach, s
  <2>3. x \in Nat /\ n * s = x + s
    BY <1>2, <2>1, Products
  <2>4. x <= total
    <3>1. CASE last = 1
      BY <1>1, <1>2, <2>1, <3>1
    <3>2. CASE (last - 1) * s < total
      <4>1. n - 1 <= last - 1
        BY <2>1
      <4>2. x <= (last - 1) * s /\ (last - 1) * s \in Nat
        BY <1>2, <2>1, <4>1, Products
      <4>3. QED BY <1>1, <2>3, <3>2, <4>2
    <3>3. QED BY <1>3, <3>1, <3>2
  <2>5. n < last => x + s < total
    <3> SUFFICES ASSUME n < last PROVE x + s < total
      OBVIOUS
    <3>1. n <= last - 1 /\ n \in Nat /\ last # 1
      BY <2>1
    <3>2. n * s <= (last - 1) * s /\ (last - 1) * s \in Nat
      BY <1>2, <2>1, <3>1, Products
    <3>3. (last - 1) * s < total
      BY <1>3, <3>1
    <3>4. n * s \in Nat
      BY <1>2, <2>3
    <3>5. QED BY <1>1, <2>3, <3>2, <3>3, <3>4
  <2> HIDE DEF x
  <2>6. Reach(n, size) <= MaxInt
    BY <1>1, <2>2, <2>3, <2>4
  <2>7. towerBounds(total, n, size).start = x
    BY <1>1, <2>1, <2>2, <2>3, <2>4, <2>6, TowerPage
  <2>8. towerBounds(total, n, size).end = IF x + s > total THEN total ELSE x + s
    BY <2>1, <2>6, <2>7, TowerPage DEF s
  <2>9. QED BY <2>1, <2>2, <2>3, <2>4, <2>5, <2>7, <2>8 DEF x
<1>5. towerBounds(total, 1, size).start = 0
  <2>1. 1 \in 1..last
    OBVIOUS
  <2>2. (1 - 1) * s = 0
    BY <1>2
  <2>3. QED BY <1>4, <2>1, <2>2
<1>6. ASSUME NEW n \in 1..last - 1
      PROVE  /\ towerBounds(total, n, size).end < total
             /\ towerBounds(total, n, size).end = towerBounds(total, n + 1, size).start
  <2>1. n \in 1..last /\ n + 1 \in 1..last /\ n < last /\ (n + 1) - 1 = n
    OBVIOUS
  <2> DEFINE x == (n - 1) * s
  <2>2. /\ x \in Nat /\ x + s < total /\ n * s = x + s
        /\ towerBounds(total, n, size).end = IF x + s > total THEN total ELSE x + s
    BY <1>4, <2>1
  <2>3. towerBounds(total, n + 1, size).start = n * s
    <3>1. towerBounds(total, n + 1, size).start = ((n + 1) - 1) * s
      BY <1>4, <2>1
    <3>2. QED BY <2>1, <3>1
  <2> HIDE DEF x
  <2>4. QED BY <1>1, <1>2, <2>2, <2>3
<1>7. towerBounds(total, last, size).end = total
  <2>1. last \in 1..last
    OBVIOUS
  <2> DEFINE x == (last - 1) * s
  <2>2. /\ x \in Nat /\ last * s = x + s
        /\ towerBounds(total, last, size).end = IF x + s > total THEN total ELSE x + s
    BY <1>4, <2>1
  <2>3. total <= x + s
    BY <1>3, <2>2
  <2> HIDE DEF x
  <2>4. QED BY <1>1, <1>2, <2>2, <2>3
<1>8. ASSUME NEW n \in Machine
      PROVE  Tiled(total, size, last, n)
  <2> DEFINE page == towerBounds(total, n, size)
             x == Reach(n, size)
  <2>1. Sliceable(page)
    BY TowerPage
  <2>2. ASSUME x <= MaxInt, n > last
        PROVE  page.start = page.end
    <3>1. n \in Nat /\ DefaultedPage(n) = n /\ n - 1 \in Nat /\ last \in Nat /\ last <= n - 1
      BY <1>1, <2>2, DefaultsOK DEF Machine
    <3>2. x = (n - 1) * s
      BY <3>1 DEF Reach, s
    <3>3. last * s <= x /\ last * s \in Nat /\ x \in Nat
      BY <1>2, <3>1, <3>2, Products
    <3> HIDE DEF x
    <3>4. total <= x
      <4> DEFINE y == last * s
      <4>1. total <= y /\ y <= x /\ y \in Nat
        BY <1>3, <3>3
      <4> HIDE DEF y
      <4>2. QED BY <1>1, <3>3, <4>1
    <3>5. /\ page.start = IF x > total THEN total ELSE x
          /\ page.end = IF page.start + s > total THEN total ELSE page.start + s
      BY <2>2, TowerPage DEF x, s
    <3> HIDE DEF page
    <3>6. page.start = total
      BY <1>1, <3>3, <3>4, <3>5
    <3>7. QED BY <1>1, <1>2, <3>5, <3>6
  <2>3. (DefaultedPage(n) - 1) * DefaultedSize(size) = x
    BY DEF Reach
  <2>4. /\ x <= MaxInt => opsBounds(total, n, size) = page
        /\ Sliceable(opsBounds(total, n, size)) => opsBounds(total, n, size) = page
    BY OpsPage
  <2> HIDE DEF page, x
  <2>5. QED BY <2>1, <2>2, <2>3, <2>4, Zenon DEF Tiled, page
<1>9. QED BY <1>5, <1>6, <1>7, <1>8

LEMMA TotalsFit ==
  ASSUME NEW q, NEW total \in PagedTotals(q)
  PROVE  Fits(total)
<1>1. /\ MaxFindings \in Nat /\ MaxInspections \in Nat
      /\ MaxFindings + MaxPageSize <= MaxInt /\ MaxInspections + MaxPageSize <= MaxInt
  <2>1. MaxFindings \in Nat
    BY ReadsSeeds
  <2>2. QED BY <2>1, StoreSeeds, ReadsFit
<1>2. CASE total = Cardinality(filterFindings(ListFindings, q))
  <2> DEFINE n == Cardinality(NumbersOf(findings))
             places == filterFindings(ListFindings, q)
  <2>1. n \in Nat /\ n <= MaxFindings
    <3>1. NumbersOf(findings) \subseteq 1..MaxFindings
      BY DEF NumbersOf, FindingId
    <3>2. IsFiniteSet(1..MaxFindings) /\ Cardinality(1..MaxFindings) = MaxFindings
      BY <1>1, FS_Interval
    <3>3. QED BY <3>1, <3>2, FS_Subset, FS_CardinalityType
  <2>2. places \subseteq 1..n
    BY DEF filterFindings, ListFindings, Listing
  <2> HIDE DEF n, places
  <2>3. IsFiniteSet(1..n) /\ Cardinality(1..n) = n
    BY <2>1, FS_Interval
  <2>4. Cardinality(places) \in Nat /\ Cardinality(places) <= n
    BY <2>2, <2>3, FS_Subset, FS_CardinalityType
  <2>5. total = Cardinality(places)
    BY <1>2 DEF places
  <2>6. QED BY <1>1, <2>1, <2>4, <2>5, MaxIntOK DEF Fits
<1>3. CASE total = Cardinality(filterInspections(inspections, q))
  <2> DEFINE ids == filterInspections(inspections, q)
  <2>1. ids \subseteq 1..MaxInspections
    BY DEF filterInspections, StoredIn, InspectionId
  <2> HIDE DEF ids
  <2>2. IsFiniteSet(1..MaxInspections) /\ Cardinality(1..MaxInspections) = MaxInspections
    BY <1>1, FS_Interval
  <2>3. Cardinality(ids) \in Nat /\ Cardinality(ids) <= MaxInspections
    BY <2>1, <2>2, FS_Subset, FS_CardinalityType
  <2>4. total = Cardinality(ids)
    BY <1>3 DEF ids
  <2>5. QED BY <1>1, <2>3, <2>4, MaxIntOK DEF Fits
<1>4. QED BY <1>2, <1>3 DEF PagedTotals

\* Whatever is stored, whatever page and size a client asks for and however wide an
\* int is, the pages of a listing tile it, and those of the operations records do
\* wherever an offset fits.
THEOREM PagesFollow == Spec => []PagesTile
<1>1. PagesTile
  <2> SUFFICES ASSUME NEW q \in Filters, NEW total \in PagedTotals(q), NEW size \in Sizes
               PROVE  \E last \in 1..total + 1 :
                        /\ towerBounds(total, 1, size).start = 0
                        /\ \A n \in 1..last - 1 :
                             LET page == towerBounds(total, n, size) IN
                             page.end < total /\ page.end = towerBounds(total, n + 1, size).start
                        /\ towerBounds(total, last, size).end = total
                        /\ \A n \in Pages : Tiled(total, size, last, n)
    BY DEF PagesTile, Tiled
  <2>1. size \in Machine /\ Pages \subseteq Machine
    BY ReadsFit DEF Machine
  <2>2. Fits(total)
    BY TotalsFit
  <2>3. QED BY <2>1, <2>2, Tiles
<1>2. QED BY <1>1, PTL
===============================================================================
