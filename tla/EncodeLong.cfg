CONSTANTS
  Requests <- MCLong
  Tables <- MCTables
  ExtraBits <- MCExtraBits
  OffsetSpace = 64
  MaxDimension = 8

SPECIFICATION PairSpec

INVARIANT EmittedDecodes
