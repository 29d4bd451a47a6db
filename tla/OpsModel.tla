------------------------------- MODULE OpsModel -------------------------------
(* Data of the operations records: the status vocabulary, the transition       *)
(* table, what a record is, and the names a request may give a record.         *)
(* A name is a model value; owner, subject, labels and the two time stamps of  *)
(* OpsRecord never influence control after the policy check and are left out.  *)
EXTENDS Integers, Sequences, FiniteSets

CONSTANTS
  Request,     \* the HTTP requests a behaviour may contain, one goroutine each
  Spelling,    \* the record names clients send, in the spelling they send
  Blank,       \* the empty name
  RecordId,    \* the names after normalizeOpsRecord, the keys of the store
  Normal,      \* the spelling of a name after ToLower(TrimSpace(.))
  Generated,   \* the n-th name of opsCreateSequence, "ops-%03d" of n
  NoRecord,    \* the value of a key the store does not hold
  Seed,        \* the records newOpsStore is given at start
  Expectations \* the "expected" revisions clients send, 0 or less is "any"

OpsStatus == {"queued", "active", "paused", "closed"}

\* Every other string: OpsService.Create stores whatever status it is given.
Unlisted == "unlisted"
StatusText == OpsStatus \cup {Unlisted}

OpsRecord == [status : StatusText, revision : Nat \ {0}]

ASSUME OpsNames ==
  /\ RecordId \subseteq Spelling
  /\ Blank \in RecordId
  /\ Normal \in [Spelling -> RecordId]
  /\ \A id \in RecordId : Normal[id] = id
  /\ Generated \in Seq(RecordId)
  /\ Blank \notin {Generated[n] : n \in DOMAIN Generated}

ASSUME OpsSeed ==
  /\ NoRecord \notin OpsRecord
  /\ Seed \in [RecordId -> OpsRecord \cup {NoRecord}]

ASSUME OpsExpectations == Expectations \subseteq Int

ASSUME OpsRequests == IsFiniteSet(Request)

opsTransitionTable ==
  [ queued   |-> {"active", "closed"},
    active   |-> {"paused", "closed"},
    paused   |-> {"active", "closed"},
    closed   |-> {},
    unlisted |-> {} ]

\* OpsStateMachine.Move lets a record stay where it is, or follow the table.
CanMove(from, to) == from = to \/ to \in opsTransitionTable[from]

opsStatusForError ==
  [ not_found  |-> 404, conflict |-> 409, transition |-> 409,
    invalid    |-> 400, policy   |-> 403, create     |-> 500,
    internal   |-> 500 ]
===============================================================================
