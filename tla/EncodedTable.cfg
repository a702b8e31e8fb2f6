CONSTANTS
  N = 6
  MaxLength = 4
  PrimaryBits = 2
  AccSpace = 64
  Histograms <- MCHistograms
  Caps <- MCCaps
  FirstTag = 100

SPECIFICATION EncodedSpec

INVARIANTS
  TypeOK
  KraftDecides
  DecodeExact
  LengthsValid
  LengthsOptimal
  CodesRoundTrip

PROPERTIES
  WrittenOnce

CHECK_DEADLOCK FALSE
