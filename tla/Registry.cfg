CONSTANTS
  NoPts = NoPts
  MaxPackets = 3
  Timestamps <- MCTimestamps

SPECIFICATION Spec

INVARIANTS
  Conserved
  EofComplete
  PtsFollow

PROPERTIES
  FlushAnswered
  AllAnswered
