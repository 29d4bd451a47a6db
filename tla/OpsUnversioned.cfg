CONSTANTS
  blank = blank
  ops0001 = ops0001
  ops001 = ops001
  OPS001 = OPS001
  NoOpsRecord = NoOpsRecord
  p1 = p1
  p2 = p2
  p3 = p3
  Request <- MCRequest2
  Spelling <- MCSpelling
  Blank = blank
  RecordId <- MCRecordId
  Normal <- MCNormal
  Generated <- MCGenerated
  NoRecord = NoOpsRecord
  Seed <- MCSeed
  Expectations <- MCUnversioned
SPECIFICATION Spec
PROPERTY ClosedIsFinal
CHECK_DEADLOCK FALSE
