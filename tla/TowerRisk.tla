------------------------------- MODULE TowerRisk -------------------------------
(* What is computed from a listing of findings: TowerRiskEngine.Score,         *)
(* riskLevelFor, the findings half of computeTowerSummary and topFindings.     *)
(* A listing is a sequence of findings in the order of their numbers, as       *)
(* ListFindings sorts them.  Wind load is kept in whole percents.              *)
EXTENDS Integers, Sequences, FiniteSets, SequencesExt

\* "unlisted" stands for any severity that is none of the three constants:
\* RecordFinding only asks that there is one.
FindingSeverity == {"low", "medium", "high", "unlisted"}

Clamp(n, low, high) == IF n < low THEN low ELSE IF n > high THEN high ELSE n

FindingsOn(tower, listing) == {i \in DOMAIN listing : listing[i].tower = tower}

-------------------------------------------------------------------------------
(* The risk score of a tower                                                   *)

ScoreWeight == [low |-> 2, medium |-> 5, high |-> 12, unlisted |-> 0]

\* Mutant: the corrosion of the survey is used as it comes.
ScoreUnclamped(tower, info, listing) ==
  LET Weigh(severity) ==
        ScoreWeight[severity] *
        Cardinality({i \in FindingsOn(tower, listing) : listing[i].severity = severity})
  IN  info.corrosion * 6 + Clamp(info.wind, 0, 100) \div 10
        + Weigh("low") + Weigh("medium") + Weigh("high")

\* TowerRiskEngine.Score.
Score(tower, info, listing) ==
  LET Weigh(severity) ==
        ScoreWeight[severity] *
        Cardinality({i \in FindingsOn(tower, listing) : listing[i].severity = severity})
      raw == Clamp(info.corrosion, 0, 10) * 6 + Clamp(info.wind, 0, 100) \div 10
               + Weigh("low") + Weigh("medium") + Weigh("high")
  IN  IF raw > 100 THEN 100 ELSE raw

riskLevelFor(score) ==
  CASE score >= 80 -> "critical"
    [] score >= 60 /\ score < 80 -> "high"
    [] score >= 40 /\ score < 60 -> "medium"
    [] score < 40 -> "low"

-------------------------------------------------------------------------------
(* The high-risk towers of a summary: a criterion of its own, not the score's. *)
(* Only towers with findings are looked at, known to the store or not.         *)

HighRiskTowers(info, listing) ==
  { t \in {listing[i].tower : i \in DOMAIN listing} :
      \/ t \in DOMAIN info /\ info[t].corrosion >= 7
      \/ Cardinality(FindingsOn(t, listing)) >= 3 }

-------------------------------------------------------------------------------
(* The findings a report puts first                                            *)

SortWeight(finding) ==
  CASE finding.severity = "high"   -> 3
    [] finding.severity = "medium" -> 2
    [] OTHER                       -> 1

\* Mutant: a finding overtakes its equals.
InsertBeforeEquals(sorted, finding) ==
  LET heavier == {i \in DOMAIN sorted : SortWeight(sorted[i]) > SortWeight(finding)}
  IN  InsertAt(sorted, Cardinality(heavier) + 1, finding)

\* The inner loop of sortFindingsBySeverity: a finding moves up past every one
\* it outweighs, and stays behind its equals.
Insert(sorted, finding) ==
  LET ahead == {i \in DOMAIN sorted : SortWeight(sorted[i]) >= SortWeight(finding)}
  IN  InsertAt(sorted, Cardinality(ahead) + 1, finding)

sortFindingsBySeverity(listing) ==
  LET sorted[n \in 0..Len(listing)] ==
        IF n = 0 THEN <<>> ELSE Insert(sorted[n - 1], listing[n])
  IN  sorted[Len(listing)]

topFindings(listing, limit) ==
  LET sorted == sortFindingsBySeverity(listing)
  IN  IF Len(sorted) > limit THEN SubSeq(sorted, 1, limit) ELSE sorted
===============================================================================
