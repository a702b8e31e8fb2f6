CONSTANTS
  Requests <- MCZeroSlice
  Tables <- MCTables
  ExtraBits <- MCExtraBits
  OffsetSpace = 4096
  MaxDimension = 4

SPECIFICATION PairSpec

INVARIANT NeverPanics
