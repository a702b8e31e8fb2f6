SPECIFICATION Spec
CONSTANTS
  Packets <- MCPackets
  Offsets <- MCOffsets
  Descriptors <- MCDescriptors
  MaxDimension = 8
  MaxCalls = 2
INVARIANTS
  TypeOK
  MapExact
  RowsTiled
  SlicesInPacket
  MemoryBounded
PROPERTIES
  NoLateTruncation
  SlotSpec
