-------------------------------- MODULE Header --------------------------------
(***************************************************************************)
(* The 32 bytes in front of a frame: write_header of encoder.rs, which     *)
(* pushes the fields one after another, and parse of header.rs with the    *)
(* accessors of FrameHeader, which read them by offset.  A header reaches  *)
(* the parser as it was written, cut short, or with one byte changed.      *)
(***************************************************************************)
EXTENDS Fourcc, Sequences, FiniteSetsExt, Sums

CONSTANTS
  Requests,                \* arguments of write_header considered
  DamagedBytes,            \* values of a changed byte
  MaxDimension             \* header.rs MAX_DIMENSION

HeaderSize == 32
Byte == 0 .. 255

(* The range of a u32, by its highest byte. *)
Dword == {n \in Nat : n \div 16777216 \in Byte}

RequestRecords ==
  [width : Dword, height : Dword, sliceHeight : Dword,
   interlaced : BOOLEAN, matrix : Byte, fullRange : BOOLEAN]

ASSUME HeaderAssumption ==
  /\ Requests \subseteq RequestRecords
  /\ DamagedBytes \subseteq Byte
  /\ MaxDimension \in Nat

VARIABLES
  format,                  \* FOURCC of the frame
  request,                 \* the other arguments of write_header
  buf,                     \* bytes that reach the parser
  damaged,                 \* offset of the changed byte (0 .. 31), or -1
  outcome                  \* what parse returned

headerVars == <<format, request, buf, damaged, outcome>>

------------------------------------------------------------------------------
(* Columns format_byte and aux_byte of the table. *)
FormatByte ==
  [M8RG |-> 101, M8RA |-> 102, M8Y4 |-> 103, M8Y2 |-> 104, M8Y0 |-> 105, M8YA |-> 106,
   M8G0 |-> 107, M0Y2 |-> 108, M0RG |-> 109, M0RA |-> 110, M2RG |-> 111, M2RA |-> 112,
   M4RG |-> 113, M4RA |-> 114, M0G0 |-> 115, M0Y4 |-> 118, M0Y0 |-> 123]

AuxByte(name) ==
  CASE FourccTable[name].depth = 8  -> 12 [] FourccTable[name].depth = 10 -> 14
    [] FourccTable[name].depth = 12 -> 16 [] FourccTable[name].depth = 14 -> 18

Magic == <<77, 65, 71, 89>>

(* A u32 in four bytes, lowest first; and back, from offset `at`. *)
LittleEndian(n) ==
  <<n % 256, (n \div 256) % 256, (n \div 65536) % 256, (n \div 16777216) % 256>>
U32(b, at)      == b[at + 1] + 256 * (b[at + 2] + 256 * (b[at + 3] + 256 * b[at + 4]))

(* The flags dword is the set of its bits that are 1. *)
FlagInterlaced == {1}
FlagFullRange  == {2}
ColorMatrixAt  == 20
ColorMatrixMask == ColorMatrixAt .. ColorMatrixAt + 3

Weight == <<1, 2, 4, 8, 16, 32, 64, 128>>

BitsOf(n, bits) == {b \in bits : (n \div Weight[b + 1]) % 2 = 1}
Number(bits)    == Sum([k \in 1 .. 8 |-> IF k - 1 \in bits THEN Weight[k] ELSE 0], 8)

FlagByte(flags, k) == Number({b \in 0 .. 7 : 8 * k + b \in flags})
FlagBytes(flags)   == <<FlagByte(flags, 0), FlagByte(flags, 1),
                        FlagByte(flags, 2), FlagByte(flags, 3)>>
FlagsAt(b, at) == {f \in 0 .. 31 : f % 8 \in BitsOf(b[at + 1 + f \div 8], 0 .. 7)}

(* FULL_RANGE_KEEP_MASK 0xf1903f, over format_byte - 0x67; below 0x67 the    *)
(* subtraction wraps around to beyond 0x17.                                  *)
FullRangeKeepMask == (0 .. 5) \cup {12, 15, 16} \cup (20 .. 23)

KeepsFullRangeAll(formatByte) == TRUE

KeepsFullRange(formatByte) ==
  LET biased == (formatByte - 103) % 256
  IN  biased <= 23 /\ biased \in FullRangeKeepMask

(* The flags write_header accumulates. *)
MatrixBits(matrix) ==
  IF matrix = 1 THEN {} ELSE {b + ColorMatrixAt : b \in BitsOf(matrix, 0 .. 3)}

Flags ==
  ((IF request.interlaced THEN FlagInterlaced ELSE {})
     \cup (IF request.fullRange THEN FlagFullRange ELSE {})
     \cup MatrixBits(request.matrix))
  \ (IF KeepsFullRange(FormatByte[format]) THEN {} ELSE FlagFullRange)

(* The bytes in the order they are pushed: magic, header size, version,      *)
(* format, aux and codec variant byte, flags, width, height, width again,    *)
(* slice height.                                                             *)
Written ==
  Magic \o LittleEndian(HeaderSize)
    \o <<7, FormatByte[format], AuxByte(format), 2>>
    \o FlagBytes(Flags)
    \o LittleEndian(request.width) \o LittleEndian(request.height)
    \o LittleEndian(request.width) \o LittleEndian(request.sliceHeight)

------------------------------------------------------------------------------
(* FrameHeader, as parse fills it in by offset; and with the slice height    *)
(* taken from the field before it.                                           *)
FieldsMisread(b) ==
  [format |-> b[10], aux |-> b[11], variant |-> b[12], flags |-> FlagsAt(b, 12),
   width |-> U32(b, 16), height |-> U32(b, 20), widthExtra |-> U32(b, 24),
   sliceHeight |-> U32(b, 24)]

Fields(b) ==
  [format |-> b[10], aux |-> b[11], variant |-> b[12], flags |-> FlagsAt(b, 12),
   width |-> U32(b, 16), height |-> U32(b, 20), widthExtra |-> U32(b, 24),
   sliceHeight |-> U32(b, 28)]

(* tables::lookup, by format byte: the names it may stand for. *)
Lookup(formatByte) == {name \in DOMAIN FormatByte : FormatByte[name] = formatByte}

(* The checks of parse, in their order. *)
Check(fails, error) == [fails |-> fails, error |-> error]

Checks(b) ==
  LET h     == Fields(b)
      sizes == {h.width, h.height, h.sliceHeight}
  IN  << Check(SubSeq(b, 1, 4) # Magic, "BadMagic"),
         Check(U32(b, 4) # HeaderSize, "BadHeaderSize"),
         Check(b[9] > 7, "BadVersion"),
         Check(Lookup(b[10]) = {}, "UnsupportedFormatByte"),
         Check(\A name \in Lookup(b[10]) : AuxByte(name) # b[11], "AuxByteMismatch"),
         Check(0 \in sizes, "ZeroDimension"),
         Check(\E d \in sizes : d > MaxDimension, "DimensionTooLarge") >>

ParseOf(b) ==
  IF Len(b) < HeaderSize THEN [verdict |-> "Truncated"]
  ELSE LET checks  == Checks(b)
           failing == {i \in DOMAIN checks : checks[i].fails}
       IN  IF failing = {} THEN [verdict |-> "Ok", header |-> Fields(b)]
           ELSE [verdict |-> checks[Min(failing)].error]

(* The accessors of FrameHeader. *)
IsInterlaced(h)      == h.flags \cap FlagInterlaced # {}
IsFullRange(h)       == h.flags \cap FlagFullRange # {}
ColorMatrixNibble(h) == Number({b - ColorMatrixAt : b \in h.flags \cap ColorMatrixMask})
WidthFieldsAgree(h)  == h.width = h.widthExtra

------------------------------------------------------------------------------
HeaderInit ==
  /\ format \in DOMAIN FormatByte
  /\ request \in Requests
  /\ buf = << >> /\ damaged = -1
  /\ outcome = [verdict |-> "none"]

WriteHeader ==
  /\ buf = << >>
  /\ buf' = Written
  /\ UNCHANGED <<format, request, damaged, outcome>>

Damage(i, b) ==
  /\ Len(buf) = HeaderSize /\ damaged = -1 /\ outcome.verdict = "none"
  /\ b # buf[i + 1]
  /\ buf' = [buf EXCEPT ![i + 1] = b]
  /\ damaged' = i
  /\ UNCHANGED <<format, request, outcome>>

Cut(n) ==
  /\ Len(buf) = HeaderSize /\ damaged = -1 /\ outcome.verdict = "none"
  /\ buf' = SubSeq(buf, 1, n)
  /\ UNCHANGED <<format, request, damaged, outcome>>

Parse ==
  /\ buf # << >>
  /\ outcome.verdict = "none"
  /\ outcome' = ParseOf(buf)
  /\ UNCHANGED <<format, request, buf, damaged>>

HeaderNext ==
  \/ WriteHeader
  \/ \E i \in 0 .. HeaderSize - 1, b \in DamagedBytes : Damage(i, b)
  \/ \E n \in {1, HeaderSize - 1} : Cut(n)
  \/ Parse

HeaderSpec == HeaderInit /\ [][HeaderNext]_headerVars

------------------------------------------------------------------------------
Arrived == buf # << >> /\ Len(buf) = HeaderSize /\ damaged = -1

Changed == LET before == Fields(Written)
           IN  {f \in DOMAIN before : before[f] # outcome.header[f]}

(* What write_header pushes field by field parse finds by offset: a header   *)
(* that arrives unchanged gives the format and the sizes it was written for, *)
(* or is refused for a size and nothing else.  Whatever byte is changed, a   *)
(* header that is still accepted differs in one field only, and its sizes    *)
(* are legal.                                                                *)
HeaderSurvives ==
  /\ Arrived /\ outcome.verdict # "none" =>
       IF \A d \in {request.width, request.height, request.sliceHeight} : d \in 1 .. MaxDimension
       THEN /\ outcome.verdict = "Ok"
            /\ Lookup(outcome.header.format) = {format}
            /\ outcome.header.width = request.width
            /\ outcome.header.height = request.height
            /\ outcome.header.sliceHeight = request.sliceHeight
            /\ WidthFieldsAgree(outcome.header)
       ELSE outcome.verdict \in {"ZeroDimension", "DimensionTooLarge"}
  /\ damaged # -1 /\ outcome.verdict = "Ok" =>
       /\ Cardinality(Changed) <= 1
       /\ \A d \in {outcome.header.width, outcome.header.height, outcome.header.sliceHeight} :
            d \in 1 .. MaxDimension

(* "The three knobs ride the same flags dword without interference"          *)
(* (encoder.rs 148-149) and each comes back out of its accessor: interlaced  *)
(* as it was, full range for the formats that are not RGB ("RGB-family       *)
(* headers always carry a clear bit 2", 160-161), the matrix by its low      *)
(* nibble, 1 as 0.                                                           *)
KnobsIndependent ==
  Arrived /\ outcome.verdict = "Ok" =>
    /\ IsInterlaced(outcome.header) = request.interlaced
    /\ IsFullRange(outcome.header) =
         (request.fullRange /\ FourccTable[format].family \notin {"RGB", "RGBA"})
    /\ ColorMatrixNibble(outcome.header) =
         (IF request.matrix = 1 THEN 0 ELSE request.matrix % 16)
==============================================================================
