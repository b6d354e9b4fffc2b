CONSTANTS
  A = A
  B = B
  here = here
  there = there
  Records <- MCRecords
  Anchors = {here, there}
  U64Max = 4
SPECIFICATION Spec
INVARIANT ExplainedWithinIssued
CHECK_DEADLOCK FALSE
