CONSTANTS
  CodeLengths <- MCCodeLengths
  RawDepths <- MCRawDepths
  MaxBits = 70
  DataLens <- MCDataLens
  Depths <- MCDepths
  Beyond = 80
  N = 6
  MaxLength = 2
  MaxRun = 3
  CountSpace = 4
  Tails <- MCTails
  Wire <- MCWire
  Requests <- MCRequests
  DamagedBytes <- MCDamagedBytes
  MaxDimension = 32768
  Blocks <- MCBlocks
  Modulus = 8
  MaxSlices = 3

SPECIFICATION PartsSpec

INVARIANTS
  AccFaithful
  WindowFaithful
  RoundTrip
  HeaderSurvives
  KnobsIndependent
  ResidualsMatchId
  ChoiceMinimal

PROPERTIES
  SinkSpec
  StreamSpec

CHECK_DEADLOCK FALSE
