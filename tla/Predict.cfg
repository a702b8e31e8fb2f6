CONSTANTS
  Rows = 3
  Width = 2
  SampleSpace = 4

SPECIFICATION PredictSpec

INVARIANTS
  Restored

CHECK_DEADLOCK FALSE
