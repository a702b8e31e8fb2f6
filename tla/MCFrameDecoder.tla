---------------------------- MODULE MCFrameDecoder ----------------------------
(* Packets for FrameDecoder.  Where only one sequence of table entries gives *)
(* slices of a legal size, the sequences that do not are refused at once.    *)
EXTENDS FrameDecoder

Packet(fourcc, len, width, height, sliceHeight, entry1) ==
  [len |-> len, flaw |-> "none", rec |-> FourccTable[fourcc],
   width |-> width, height |-> height, sliceHeight |-> sliceHeight,
   entry1 |-> entry1, planeCount |-> FourccTable[fourcc].planes]

Descriptor(size, minLen, complete) ==
  [size |-> size, error |-> "none", minLen |-> minLen, complete |-> complete]

Bad(size, error) ==
  [size |-> size, error |-> error, minLen |-> 0, complete |-> FALSE]

(* Three planes of two slices, chroma subsampled both ways, the last slice   *)
(* shorter than the others: every order of the six plane-index bytes.  Then  *)
(* an indivisible slice height, an odd height, and one byte too few.         *)
MapPackets ==
  { Packet("M8Y0", 88, 2, 6, 4, 38), Packet("M8Y0", 88, 2, 6, 3, 38),
    Packet("M8Y0", 88, 2, 3, 2, 38), Packet("M8Y0", 87, 2, 6, 4, 38) }

(* One plane of two slices, six and three samples of 8 or 10 bits, a first   *)
(* slice of every length around what it needs, every end of the packet.      *)
BytePackets ==
  { Packet("M8G0", len, 3, 3, 2, entry1) : len \in {58, 60}, entry1 \in 15 .. 22 }
    \cup { Packet("M8G0", len, 3, 3, 2, 16) : len \in {49, 55, 56, 57, 59, 62} }
    \cup { Packet("M0G0", len, 3, 3, 2, 16) : len \in {64, 65, 66} }
    \cup { Packet("M8G0", 60, 2, 1, 3, entry1) : entry1 \in {3, 8, 9, 12, 29} }

(* Formats of three and four planes, and a head for each check of the header.*)
Plain == Packet("M0RG", 67, 1, 1, 1, 23)

StreamPackets ==
  { Plain, Packet("M8RA", 78, 1, 1, 1, 29), Packet("M8Y0", 67, 2, 2, 2, 23),
    [Plain EXCEPT !.len = 31], [Plain EXCEPT !.len = 40], [Plain EXCEPT !.planeCount = 4],
    [Plain EXCEPT !.sliceHeight = 0], [Plain EXCEPT !.height = 9],
    [Plain EXCEPT !.entry1 = 18] }
    \cup { [Plain EXCEPT !.flaw = f] :
             f \in {"BadMagic", "BadHeaderSize", "BadVersion", "UnsupportedFormatByte",
                    "AuxByteMismatch"} }

MCPackets == MapPackets \cup BytePackets \cup StreamPackets

(* Descriptors that fit, end with the preamble, run past it, assign no code, *)
(* or leave code space unused.                                               *)
MCDescriptors ==
  { Descriptor(1, 1, TRUE), Descriptor(3, 3, FALSE), Descriptor(2, 0, FALSE),
    Descriptor(4, 1, TRUE), Bad(1, "HuffmanLengthExceedsMax"), Bad(3, "HuffmanOverfull") }

MCOffsets == {24, 25, 26, 27, 31, 35, 39, 41, 44, 47, 50, 53}
==============================================================================
