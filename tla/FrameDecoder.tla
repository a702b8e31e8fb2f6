----------------------------- MODULE FrameDecoder -----------------------------
(***************************************************************************)
(* decoder.rs: decode_into, one call after another on the same             *)
(* DecodedFrame, as the streaming path does.  A call walks the packet in   *)
(* the code's order: header, geometry and slice table, the slice-to-plane  *)
(* map, one Huffman descriptor per plane, validate_slices, then the decode *)
(* loop into the buffers drained from dst, and the final assignments.      *)
(*                                                                         *)
(* The bytes of a packet are abstracted to what these decisions depend on. *)
(* The fields read before the loops are chosen with the packet; a byte or  *)
(* table entry read by a loop is chosen by the loop's step.  A sample is   *)
(* abstracted to the call that wrote it (0: the zero fill of resize).      *)
(***************************************************************************)
EXTENDS Fourcc, Sums, Sequences

CONSTANTS
  Packets,                 \* heads of the packets considered
  Offsets,                 \* values of the slice table entries from 2 on
  Descriptors,             \* Huffman descriptors considered
  MaxDimension,            \* header.rs MAX_DIMENSION (32768)
  MaxCalls                 \* bound on the number of decode_into calls

HeaderSize == 32

(* What the first pass over a packet sees.  `flaw` is the first check of     *)
(* header::parse on magic, header size, version, format and aux byte that    *)
(* fails; entry1 is slice table entry 1, entry 0 is never used.              *)
PacketHeads ==
  [len : Nat,
   flaw : {"none", "BadMagic", "BadHeaderSize", "BadVersion",
           "UnsupportedFormatByte", "AuxByteMismatch"},
   rec : FourccRecords,
   width : Nat, height : Nat, sliceHeight : Nat,
   entry1 : Nat, planeCount : Nat]

(* A plane's descriptor: the bytes parse_lengths takes, the error it or      *)
(* HuffmanTable::build ends with, the shortest code assigned (0: none) and   *)
(* whether the codes fill the code space.                                    *)
DescriptorRecords ==
  [size : Nat, error : {"none", "HuffmanLengthExceedsMax", "HuffmanOverfull"},
   minLen : Nat, complete : BOOLEAN]

ASSUME FrameDecoderAssumption ==
  /\ Packets \subseteq PacketHeads
  /\ Offsets \subseteq Nat
  /\ Descriptors \subseteq DescriptorRecords
  /\ \A d \in Descriptors : d.complete => d.minLen > 0
  /\ MaxDimension \in Nat
  /\ MaxCalls \in Nat

VARIABLES
  pc,                      \* the part of decode_into that runs next
  calls,                   \* calls made so far; numbers the current one
  result,                  \* what the last call returned ("none" while it runs)
  pkt,                     \* head of the packet being decoded
  sliceMap,                \* slice_plane_map, per slice [plane, idx]
  planeFill,               \* plane_fill, slices mapped so far per plane
  tables,                  \* huff_tables, per plane [minLen, complete]
  descPos,                 \* desc_pos, cursor in the preamble
  ranges,                  \* slice_ranges with the mode bit, [start, end, raw]
  bufs,                    \* plane_bufs: per plane, row -> writer
  decoded,                 \* slices the decode loop has done
  dst                      \* the caller's DecodedFrame

vars == <<pc, calls, result, pkt, sliceMap, planeFill, tables, descPos, ranges,
          bufs, decoded, dst>>

locals == <<sliceMap, planeFill, tables, descPos, ranges, bufs, decoded>>

------------------------------------------------------------------------------
(* Derived quantities of decode_into.                                        *)
SlicesPerPlane(p) == CeilDiv(p.height, p.sliceHeight)
TotalSlices(p)    == p.rec.planes * SlicesPerPlane(p)
PreambleStart(p)  == HeaderSize + 4 * (TotalSlices(p) + 1)
PreambleEnd(p)    == p.entry1 + HeaderSize
PreambleLen(p)    == PreambleEnd(p) - PreambleStart(p)

Geom(p, plane) == PlaneGeom(p.rec, plane, p.width, p.height, p.sliceHeight)

(* min_payload_bytes. *)
MinPayload(pixels, bits) == CeilDiv(pixels * bits, 8)

(* Residuals of slice m = [plane, idx]; the subtraction saturates. *)
Pixels(p, m) ==
  LET g == Geom(p, m.plane)
      rows == RowEnd(g, m.idx) - RowStart(g, m.idx)
  IN  (IF rows < 0 THEN 0 ELSE rows) * g.width

(* Ordered checks: the first one that fails decides the error. *)
Check(fails, error) == [fails |-> fails, error |-> error]

Passes(checks) == \A i \in DOMAIN checks : ~ checks[i].fails

FailsWith(checks, error) ==
  \E i \in DOMAIN checks :
    /\ checks[i].fails
    /\ checks[i].error = error
    /\ \A j \in 1 .. i - 1 : ~ checks[j].fails

(* decode_into's own length check, then header::parse. *)
HeaderChecks(p) ==
  << Check(p.len < HeaderSize, "Truncated"),
     Check(p.flaw # "none", p.flaw),
     Check(0 \in {p.width, p.height, p.sliceHeight}, "ZeroDimension"),
     Check(\E d \in {p.width, p.height, p.sliceHeight} : d > MaxDimension,
           "DimensionTooLarge") >>

(* The slice_height check that was added for the chroma partition, dropped. *)
LayoutChecksNoTiling(p) ==
  << Check(p.width % p.rec.subX # 0, "OddDimension"),
     Check(p.height % p.rec.subY # 0, "OddDimension"),
     Check(p.len < PreambleStart(p), "Truncated"),
     Check(PreambleEnd(p) < PreambleStart(p) \/ p.len < PreambleEnd(p), "Truncated"),
     Check(PreambleLen(p) < 1 + TotalSlices(p), "Truncated"),
     Check(p.planeCount # p.rec.planes, "Truncated") >>

(* Geometry, slice table and preamble bounds, up to the plane-index bytes.   *)
(* (An empty preamble and a wrong plane_count byte are both Truncated.)      *)
LayoutChecks(p) ==
  << Check(p.width % p.rec.subX # 0, "OddDimension"),
     Check(p.height % p.rec.subY # 0, "OddDimension"),
     Check(p.sliceHeight % p.rec.subY # 0, "SliceHeightNotDivisible"),
     Check(p.len < PreambleStart(p), "Truncated"),
     Check(PreambleEnd(p) < PreambleStart(p) \/ p.len < PreambleEnd(p), "Truncated"),
     Check(PreambleLen(p) < 1 \/ p.planeCount # p.rec.planes, "Truncated"),
     Check(PreambleLen(p) < 1 + TotalSlices(p), "Truncated") >>

------------------------------------------------------------------------------
Errors ==
  {"Truncated", "BadMagic", "BadHeaderSize", "BadVersion", "UnsupportedFormatByte",
   "AuxByteMismatch", "ZeroDimension", "DimensionTooLarge", "OddDimension",
   "SliceHeightNotDivisible", "BadPlaneIndex", "HuffmanLengthExceedsMax",
   "HuffmanOverfull", "HuffmanIncomplete", "SlicePrefixMissing", "SliceTruncated",
   "BadPredictorId"}

(* The call returns `r` and its local state is dropped. *)
Return(r) ==
  /\ pc' = "idle"
  /\ result' = r
  /\ sliceMap' = << >> /\ planeFill' = << >> /\ tables' = << >> /\ descPos' = 0
  /\ ranges' = << >> /\ bufs' = << >> /\ decoded' = 0
  /\ UNCHANGED <<calls, pkt>>

(* The early return with Err: dst keeps whatever it holds at that point. *)
Reject(error) == Return(error) /\ UNCHANGED dst

RejectIf(checks) == \E e \in Errors : FailsWith(checks, e) /\ Reject(e)

(* What DecodedFrame keeps of the packet's header and record. *)
HeaderOf(p) == [rec |-> p.rec, width |-> p.width, height |-> p.height]

(* DecodedFrame::empty, with FourccRecord::placeholder. *)
Placeholder == Row(0, 0, "Gray", 1, 1)

EmptyFrame ==
  [call   |-> 0,
   header |-> [rec |-> Placeholder, width |-> 0, height |-> 0],
   planes |-> << >>]

FrameHeaders == [rec : FourccRecords \cup {Placeholder}, width : Nat, height : Nat]

Init ==
  /\ pc = "idle"
  /\ calls = 0
  /\ result = "none"
  /\ pkt \in Packets
  /\ sliceMap = << >> /\ planeFill = << >> /\ tables = << >> /\ descPos = 0
  /\ ranges = << >> /\ bufs = << >> /\ decoded = 0
  /\ dst = EmptyFrame

Call(p) ==
  /\ pc = "idle"
  /\ calls < MaxCalls
  /\ pc' = "header"
  /\ calls' = calls + 1
  /\ result' = "none"
  /\ pkt' = p
  /\ UNCHANGED dst
  /\ UNCHANGED locals

ParseHeader ==
  /\ pc = "header"
  /\ \/ RejectIf(HeaderChecks(pkt))
     \/ /\ Passes(HeaderChecks(pkt))
        /\ pc' = "layout"
        /\ UNCHANGED <<calls, result, pkt, dst>>
        /\ UNCHANGED locals

ReadLayout ==
  /\ pc = "layout"
  /\ \/ RejectIf(LayoutChecks(pkt))
     \/ /\ Passes(LayoutChecks(pkt))
        /\ pc' = "map"
        /\ planeFill' = [q \in Planes(pkt.rec) |-> 0]
        /\ descPos' = 1 + TotalSlices(pkt)
        /\ UNCHANGED <<calls, result, pkt, sliceMap, tables, ranges, bufs, decoded, dst>>

------------------------------------------------------------------------------
(* One per_slice_plane_index byte; `b` beyond the planes of the format       *)
(* stands for every byte that names no plane.                                *)
MapAcceptsNoQuota(b) == b < pkt.rec.planes

MapAcceptsOneMore(b) == b < pkt.rec.planes /\ planeFill[b] <= SlicesPerPlane(pkt)

MapAccepts(b) == b < pkt.rec.planes /\ planeFill[b] < SlicesPerPlane(pkt)

MapSlice(b) ==
  /\ pc = "map"
  /\ IF MapAccepts(b)
     THEN /\ sliceMap' = Append(sliceMap, [plane |-> b, idx |-> planeFill[b]])
          /\ planeFill' = [planeFill EXCEPT ![b] = @ + 1]
          /\ pc' = IF Len(sliceMap') = TotalSlices(pkt) THEN "tables" ELSE "map"
          /\ UNCHANGED <<calls, result, pkt, tables, descPos, ranges, bufs, decoded, dst>>
     ELSE Reject("BadPlaneIndex")

(* parse_lengths and HuffmanTable::build for the next plane.                 *)
DescriptorChecksToPacketEnd(d) ==
  << Check(PreambleStart(pkt) + descPos + d.size > pkt.len, "Truncated"),
     Check(d.error # "none", d.error) >>

DescriptorChecks(d) ==
  << Check(descPos + d.size > PreambleLen(pkt), "Truncated"),
     Check(d.error # "none", d.error) >>

BuildTable(d) ==
  /\ pc = "tables"
  /\ \/ RejectIf(DescriptorChecks(d))
     \/ /\ Passes(DescriptorChecks(d))
        /\ tables' = Append(tables, [minLen |-> d.minLen, complete |-> d.complete])
        /\ descPos' = descPos + d.size
        /\ pc' = IF Len(tables') = pkt.rec.planes THEN "validate" ELSE "tables"
        /\ UNCHANGED <<calls, result, pkt, sliceMap, planeFill, ranges, bufs, decoded, dst>>

------------------------------------------------------------------------------
(* validate_slices, slice Len(ranges): it starts where the one before ends   *)
(* (both read the same entry); `e` is the entry that ends it, unless it is   *)
(* the last and ends with the packet.                                        *)
SliceStart ==
  IF ranges = << >> THEN PreambleEnd(pkt) ELSE ranges[Len(ranges)].end

SliceEnd(e) ==
  IF Len(ranges) + 1 < TotalSlices(pkt) THEN e + HeaderSize ELSE pkt.len

Payload(start, end) == end - start - 2

(* Bits of the smallest residual of slice m. *)
ResidualBits(m, raw) ==
  IF raw THEN pkt.rec.depth ELSE tables[m.plane + 1].minLen

(* The payload check as it would be for Huffman slices alone. *)
SliceChecksHuffmanOnly(m, start, end, raw) ==
  << Check(end < start \/ pkt.len < end, "SliceTruncated"),
     Check(end - start < 2, "SlicePrefixMissing"),
     Check(ResidualBits(m, FALSE) = 0, "HuffmanIncomplete"),
     Check(Payload(start, end) < MinPayload(Pixels(pkt, m), ResidualBits(m, FALSE)),
           "SliceTruncated") >>

(* The checks before the memory bound was added. *)
SliceChecksNoPayload(m, start, end, raw) ==
  << Check(end < start \/ pkt.len < end, "SliceTruncated"),
     Check(end - start < 2, "SlicePrefixMissing") >>

SliceChecks(m, start, end, raw) ==
  << Check(end < start \/ pkt.len < end, "SliceTruncated"),
     Check(end - start < 2, "SlicePrefixMissing"),
     Check(ResidualBits(m, raw) = 0, "HuffmanIncomplete"),
     Check(Payload(start, end) < MinPayload(Pixels(pkt, m), ResidualBits(m, raw)),
           "SliceTruncated") >>

ValidateSlice(e, raw) ==
  LET m == sliceMap[Len(ranges) + 1]
      checks == SliceChecks(m, SliceStart, SliceEnd(e), raw)
  IN  /\ pc = "validate"
      /\ \/ RejectIf(checks)
         \/ /\ Passes(checks)
            /\ ranges' = Append(ranges,
                                [start |-> SliceStart, end |-> SliceEnd(e), raw |-> raw])
            /\ pc' = IF Len(ranges') = TotalSlices(pkt) THEN "take" ELSE "validate"
            /\ UNCHANGED <<calls, result, pkt, sliceMap, planeFill, tables, descPos,
                           bufs, decoded, dst>>

------------------------------------------------------------------------------
(* take_plane_bufs_u8 / _u16: the storage of dst.planes is drained, cleared  *)
(* and resized, which zero-fills every row (writer 0).                       *)
TakeBuffersAndHeader ==
  /\ pc = "take"
  /\ pc' = "slices"
  /\ bufs' = [q \in Planes(pkt.rec) |->
                [r \in 0 .. Geom(pkt, q).height - 1 |-> 0]]
  /\ dst' = [dst EXCEPT !.planes = << >>, !.header = HeaderOf(pkt)]
  /\ UNCHANGED <<calls, result, pkt, sliceMap, planeFill, tables, descPos, ranges, decoded>>

TakeBuffers ==
  /\ pc = "take"
  /\ pc' = "slices"
  /\ bufs' = [q \in Planes(pkt.rec) |->
                [r \in 0 .. Geom(pkt, q).height - 1 |-> 0]]
  /\ dst' = [dst EXCEPT !.planes = << >>]
  /\ UNCHANGED <<calls, result, pkt, sliceMap, planeFill, tables, descPos, ranges, decoded>>

(* One turn of the decode loop.  A symbol of a table that leaves code space  *)
(* unused may hit it; a table that fills it has no such symbol.              *)
DecodeChecks(m, r, predictorKnown, codesUsed) ==
  << Check(~ predictorKnown, "BadPredictorId"),
     Check(r.raw /\ Payload(r.start, r.end) < MinPayload(Pixels(pkt, m), pkt.rec.depth),
           "SliceTruncated"),
     Check(~ r.raw /\ ~ codesUsed /\ ~ tables[m.plane + 1].complete, "HuffmanIncomplete") >>

DecodeSlice(predictorKnown, codesUsed) ==
  LET m == sliceMap[decoded + 1]
      checks == DecodeChecks(m, ranges[decoded + 1], predictorKnown, codesUsed)
  IN  /\ pc = "slices"
      /\ decoded < TotalSlices(pkt)
      /\ \/ RejectIf(checks)
         \/ /\ Passes(checks)
            /\ bufs' = [bufs EXCEPT ![m.plane] =
                 [r \in DOMAIN @ |-> IF r \in SliceRows(Geom(pkt, m.plane), m.idx)
                                     THEN calls ELSE @[r]]]
            /\ decoded' = decoded + 1
            /\ UNCHANGED <<pc, calls, result, pkt, sliceMap, planeFill, tables, descPos,
                           ranges, dst>>

(* Output plane q is made from these planes of the packet: for RGB, with     *)
(* planes B', G, R' and A, it is G, B' + G, R' + G and A.                    *)
Sources(rec, q) ==
  IF rec.family \in {"RGB", "RGBA"}
  THEN CASE q = 0 -> {1} [] q = 1 -> {0, 1} [] q = 2 -> {1, 2} [] OTHER -> {q}
  ELSE {q}

(* The frame the call ends with: per plane its geometry and, for each row,   *)
(* the calls whose samples it is made from.                                  *)
FinalPlanes ==
  [i \in 1 .. pkt.rec.planes |->
     [width  |-> Geom(pkt, i - 1).width,
      height |-> Geom(pkt, i - 1).height,
      rows   |-> [r \in 0 .. Geom(pkt, i - 1).height - 1 |->
                    {bufs[q][r] : q \in Sources(pkt.rec, i - 1)}]]]

Finish ==
  /\ pc = "slices"
  /\ decoded = TotalSlices(pkt)
  /\ dst' = [call |-> calls, header |-> HeaderOf(pkt), planes |-> FinalPlanes]
  /\ Return("Ok")

------------------------------------------------------------------------------
(* What the call does after it has begun, step by step. *)
Advance ==
  \/ ParseHeader
  \/ ReadLayout
  \/ \E b \in 0 .. pkt.rec.planes : MapSlice(b)
  \/ \E d \in Descriptors : BuildTable(d)
  \/ \E e \in Offsets, raw \in BOOLEAN : ValidateSlice(e, raw)
  \/ TakeBuffers
  \/ \E known, used \in BOOLEAN : DecodeSlice(known, used)
  \/ Finish

(* The caller makes MaxCalls calls; within a call there is always a next     *)
(* step, which TLC checks by checking for deadlock.                          *)
Rest == pc = "idle" /\ calls = MaxCalls /\ UNCHANGED vars

Next ==
  \/ \E p \in Packets : Call(p)
  \/ Advance
  \/ Rest

Spec == Init /\ [][Next]_vars

------------------------------------------------------------------------------
InCall  == pc # "idle"
Mapped  == pc \in {"tables", "validate", "take", "slices"}
Checked == pc \in {"take", "slices"}

(* The types of decode_into's locals and of the caller's frame. *)
TypeOK ==
  /\ pc \in {"idle", "header", "layout", "map", "tables", "validate", "take", "slices"}
  /\ calls \in 0 .. MaxCalls
  /\ result \in Errors \cup {"none", "Ok"}
  /\ pkt \in Packets
  /\ sliceMap \in Seq([plane : Nat, idx : Nat])
  /\ \A i \in DOMAIN sliceMap :
       /\ sliceMap[i].plane \in Planes(pkt.rec)
       /\ sliceMap[i].idx < SlicesPerPlane(pkt)
  /\ tables \in Seq([minLen : Nat, complete : BOOLEAN])
  /\ descPos \in Nat
  /\ ranges \in Seq([start : Int, end : Int, raw : BOOLEAN])
  /\ decoded \in Nat
  /\ dst.call \in 0 .. calls
  /\ dst.header \in FrameHeaders

(* decoder.rs 320-331 trusts the counters alone: the k-th byte naming plane  *)
(* p becomes slice k of p.  Once every byte is read the slices are all the   *)
(* (plane, index) pairs, each exactly once, whatever order the encoder used. *)
MapExact ==
  Mapped =>
    /\ Len(sliceMap) = TotalSlices(pkt)
    /\ \A i, j \in DOMAIN sliceMap : sliceMap[i] = sliceMap[j] => i = j
    /\ \A q \in Planes(pkt.rec), k \in 0 .. SlicesPerPlane(pkt) - 1 :
         \E i \in DOMAIN sliceMap : sliceMap[i] = [plane |-> q, idx |-> k]

(* The decode loop subtracts row_start from row_end and cuts that range out  *)
(* of the plane unchecked (decoder.rs 635-650): every slice has a row, all   *)
(* its rows are in the plane, and every row of every plane, chroma planes    *)
(* with their own height too, is in exactly one slice.                       *)
RowsTiled ==
  Mapped =>
    /\ \A i \in DOMAIN sliceMap :
         LET g == Geom(pkt, sliceMap[i].plane)
         IN  RowStart(g, sliceMap[i].idx) < RowEnd(g, sliceMap[i].idx)
    /\ \A q \in Planes(pkt.rec) : \A r \in 0 .. Geom(pkt, q).height - 1 :
         \E i \in DOMAIN sliceMap :
           /\ sliceMap[i].plane = q
           /\ r \in SliceRows(Geom(pkt, q), sliceMap[i].idx)
           /\ \A j \in DOMAIN sliceMap \ {i} :
                ~ (/\ sliceMap[j].plane = q
                   /\ r \in SliceRows(Geom(pkt, q), sliceMap[j].idx))

(* "the chain also guarantees that no slice starts inside the header, slice  *)
(* table or preamble" (validate_slices): slices start after the last         *)
(* descriptor byte, do not overlap, have room for their prefix and end in    *)
(* the packet.                                                               *)
SlicesInPacket ==
  \A i \in DOMAIN ranges :
    /\ ranges[i].start >= PreambleStart(pkt) + descPos
    /\ ranges[i].start + 2 <= ranges[i].end
    /\ ranges[i].end <= pkt.len
    /\ \A j \in 1 .. i - 1 : ranges[j].end <= ranges[i].start

(* "With it, the decoded raster is at most 8 samples per input byte": before *)
(* any buffer is sized from the header, the slices have paid for every       *)
(* sample of every plane, not counting headers, table, preamble or prefixes. *)
Raster(p) ==
  Sum([i \in 1 .. p.rec.planes |-> Geom(p, i - 1).width * Geom(p, i - 1).height],
      p.rec.planes)

MemoryBounded ==
  Checked => Raster(pkt) <= 8 * (pkt.len - PreambleEnd(pkt) - 2 * TotalSlices(pkt))

(* "Bounds, prefix and minimum size were checked by validate_slices": the    *)
(* decode loop, which has already given up the caller's planes, can fail for *)
(* what it reads in a slice but not for a slice that is too short.           *)
NoLateTruncation == [][pc = "slices" => result' # "SliceTruncated"]_vars

(* The caller's view of dst.                                                 *)
Whole(f) ==
  /\ Len(f.planes) = f.header.rec.planes
  /\ \A i \in DOMAIN f.planes :
       LET q == i - 1
       IN  /\ f.planes[i].width * SubX(f.header.rec, q) = f.header.width
           /\ f.planes[i].height * SubY(f.header.rec, q) = f.header.height
           /\ DOMAIN f.planes[i].rows = 0 .. f.planes[i].height - 1
           /\ \A r \in DOMAIN f.planes[i].rows : f.planes[i].rows[r] = {f.call}

Slot == INSTANCE FrameSlot WITH
  Headers <- {HeaderOf(p) : p \in Packets} \cup {EmptyFrame.header},
  verdict <- IF InCall THEN "running"
             ELSE IF result \in {"none", "Ok"} THEN (IF calls = 0 THEN "none" ELSE "ok")
             ELSE "error",
  call    <- calls,
  age     <- dst.call,
  header  <- dst.header,
  content <- IF dst.planes = << >> THEN "none" ELSE IF Whole(dst) THEN "whole" ELSE "torn"

(* decode_into keeps the promise of FrameSlot to the streaming caller.       *)
SlotSpec == Slot!Spec
==============================================================================
