----------------------------- MODULE EncodeDecode -----------------------------
(***************************************************************************)
(* A frame from encode_frame to decode_into: the decoder of FrameDecoder   *)
(* runs on the packet the encoder of Encoder has put together.  Where the  *)
(* decoder reads a byte that FrameDecoder leaves open, it reads the one    *)
(* the encoder wrote there, and any byte if it looks in the wrong place.   *)
(***************************************************************************)
EXTENDS Encoder

CONSTANT MaxDimension      \* header.rs MAX_DIMENSION

ASSUME MaxDimensionAssumption == MaxDimension \in Nat

VARIABLES
  dpc, calls, result, pkt, sliceMap, planeFill, tables, descPos, ranges, bufs,
  decoded, dst             \* the variables of FrameDecoder

decoderVars == <<dpc, calls, result, pkt, sliceMap, planeFill, tables, descPos, ranges,
                 bufs, decoded, dst>>

pairVars == <<encoderVars, decoderVars>>

(* The head of a packet for request r as FrameDecoder sees it. *)
HeadOf(r, len, entry1) ==
  [len |-> len, flaw |-> "none", rec |-> r.rec, width |-> r.width,
   height |-> r.height, sliceHeight |-> r.sliceHeight,
   entry1 |-> entry1, planeCount |-> r.rec.planes]

NoHead == HeadOf(CHOOSE r \in Requests : TRUE, 0, 0)

D == INSTANCE FrameDecoder WITH
  pc <- dpc, Packets <- {NoHead}, Offsets <- {}, Descriptors <- {}, MaxCalls <- 1

PairInit == Init /\ D!Init

Encode == Next /\ UNCHANGED decoderVars

(* FourccRecord::max_huffman_length. *)
MaxHuffmanLength(depth) ==
  CASE depth = 8 -> 12 [] depth = 10 -> 14 [] depth = 12 -> 16 [] depth = 14 -> 18

DescriptorOf(t) ==
  [size |-> t.size, minLen |-> t.minLen, complete |-> t.complete,
   error |-> IF t.maxLen > MaxHuffmanLength(pkt.rec.depth)
             THEN "HuffmanLengthExceedsMax" ELSE "none"]

(* Slice table entry i + 1, the end of slice i; nothing reads one past the   *)
(* last.                                                                     *)
EndEntry(i) == IF i < Len(packet.entries) THEN packet.entries[i + 1] ELSE 0

(* The slice's two prefix bytes and its codes are the encoder's if the       *)
(* decoder looks where they are.                                             *)
Found(i, start) == start = packet.at[i]

DecodeStep ==
  \/ D!Call(HeadOf(req, packet.len, packet.entries[1]))
  \/ D!ParseHeader
  \/ D!ReadLayout
  \/ /\ dpc = "map"
     /\ D!MapSlice(packet.indexes[Len(sliceMap) + 1])
  \/ /\ dpc = "tables"
     /\ D!BuildTable(DescriptorOf(huffs[Len(tables) + 1]))
  \/ /\ dpc = "validate"
     /\ LET i == Len(ranges) + 1
        IN  \E raw \in BOOLEAN :
              /\ Found(i, D!SliceStart) => raw = payloads[i].raw
              /\ D!ValidateSlice(EndEntry(i), raw)
  \/ D!TakeBuffers
  \/ /\ dpc = "slices" /\ decoded < Len(ranges)
     /\ \E known, used \in BOOLEAN :
          /\ Found(decoded + 1, ranges[decoded + 1].start) => known /\ used
          /\ D!DecodeSlice(known, used)
  \/ D!Finish

Decode ==
  /\ verdict = "Ok"
  /\ DecodeStep
  /\ UNCHANGED encoderVars

(* The decoder has returned, or there was nothing to decode.                 *)
Rest ==
  /\ stage = "returned"
  /\ verdict # "Ok" \/ result # "none"
  /\ UNCHANGED pairVars

PairNext == Encode \/ Decode \/ Rest

PairSpec == PairInit /\ [][PairNext]_pairVars

------------------------------------------------------------------------------
(* "Every emitted frame is a well-formed v7 stream that round-trips through  *)
(* decode_frame" (encoder.rs 3-5): none of the decoder's checks refuses what *)
(* assemble_frame has put together, for any format, size, slice height and   *)
(* mode, down to planes of one symbol and slices of one row.                 *)
EmittedDecodes == result \in {"none", "Ok"}

(* The decoder takes slices from the table, planes from the index bytes and  *)
(* rows from counters; the encoder wrote all three from the one loop order.  *)
(* Each slice is read from the bytes of its payload, the last one with the   *)
(* pad byte, and goes to the rows it was cut from.                           *)
SlicesFound ==
  /\ \A i \in DOMAIN sliceMap :
       sliceMap[i] = [plane |-> PlaneOf(i - 1), idx |-> IndexOf(i - 1)]
  /\ \A i \in DOMAIN ranges :
       /\ ranges[i].start = packet.at[i]
       /\ ranges[i].end = IF i < TotalSlices THEN packet.at[i + 1] ELSE packet.len
       /\ ranges[i].raw = payloads[i].raw
       /\ D!Pixels(pkt, sliceMap[i]) = Len(payloads[i].block)
==============================================================================
