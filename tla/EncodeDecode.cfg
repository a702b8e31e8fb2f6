CONSTANTS
  Requests <- MCRequests
  Tables <- MCTables
  ExtraBits <- MCExtraBits
  OffsetSpace = 4096
  MaxDimension = 4

SPECIFICATION PairSpec

INVARIANTS
  BlocksIntact
  AutoNeverLonger
  EmittedDecodes
  SlicesFound
