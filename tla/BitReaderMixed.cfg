CONSTANTS
  DataLens <- MCDataLens
  Peeks <- MCPeeks
  TableBits <- MCTableBits
  CodeLens <- MCCodeLens
  Beyond = 72
SPECIFICATION MixedSpec
PROPERTY ResumesExactly
CHECK_DEADLOCK FALSE
