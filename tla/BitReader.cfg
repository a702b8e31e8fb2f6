CONSTANTS
  DataLens <- MCDataLens
  Peeks <- MCPeeks
  TableBits <- MCTableBits
  CodeLens <- MCCodeLens
  Beyond = 72
SPECIFICATION ReaderSpec
INVARIANTS ReaderTypeOK WindowFaithful Buffered
PROPERTY StreamSpec
CHECK_DEADLOCK FALSE
