CONSTANTS
  Params <- MCParams
  Patterns <- MCPatterns
  Faults <- MCFaults
  ByteSpace = 4
  DeepModulus = 8
  Rounds = 2

SPECIFICATION Spec

INVARIANTS
  ChannelsSurvive
  LabelTruthful

PROPERTY Reencodes

CHECK_DEADLOCK FALSE
