-------------------------------- MODULE Encoder --------------------------------
(***************************************************************************)
(* encoder.rs, one call of encode_frame: the input checks, the residual    *)
(* loop over planes and slices, one Huffman table per plane, the payload   *)
(* loop with its choice of Huffman or raw, and assemble_frame.  The u8 and *)
(* u16 functions are one here; they differ in the sample width.            *)
(*                                                                         *)
(* A residual is abstracted to the slice and predictor it was made for     *)
(* (SliceResiduals has how); a table to what a reader of the stream can    *)
(* tell (EncodedTable has which lengths); the bits of a Huffman payload to *)
(* their number (BitWriter has which bits).                                *)
(***************************************************************************)
EXTENDS Fourcc, Sums, Sequences

CONSTANTS
  Requests,                \* arguments of encode_frame considered
  Tables,                  \* Huffman tables a plane may get
  ExtraBits,               \* bits of a slice's codes beyond the shortest possible
  OffsetSpace              \* 2^32, the range of a slice table entry

Kinds == {"Left", "Gradient", "Median"}

(* One PlaneInput: its variant and its length. *)
PlaneInputs == [deep : BOOLEAN, len : Nat]

(* Frames without samples are left out: a table here has a symbol.           *)
RequestRecords ==
  [rec : FourccRecords, width : Nat \ {0}, height : Nat \ {0}, sliceHeight : Nat,
   planes : Seq(PlaneInputs),
   strategy : Kinds \cup {"Dynamic"}, mode : {"Huffman", "Raw", "Auto"}]

(* Bytes of the descriptor, shortest and longest code, whether the codes     *)
(* fill the code space: all do but that of a plane with one symbol only.     *)
TableRecords == [size : Nat, minLen : Nat \ {0}, maxLen : Nat, complete : BOOLEAN]

ASSUME EncoderAssumption ==
  /\ Requests \subseteq RequestRecords
  /\ Tables \subseteq TableRecords
  /\ \A t \in Tables : t.minLen <= t.maxLen /\ (~ t.complete => t.maxLen = 1)
  /\ ExtraBits \subseteq Nat
  /\ OffsetSpace \in Nat \ {0}

VARIABLES
  stage,                   \* the part of encode_frame that runs next
  req,                     \* its arguments
  verdict,                 \* how the call ended ("none": it has not)
  residuals,               \* plane_resid: per plane, slices one after another
  predictors,              \* slice_predictors, per slice of the frame
  huffs,                   \* plane_huffs
  payloads,                \* slice_payloads
  packet                   \* what assemble_frame returned

encoderVars == <<stage, req, verdict, residuals, predictors, huffs, payloads, packet>>

------------------------------------------------------------------------------
EncHeaderSize == 32

SlicesPerPlane == CeilDiv(req.height, req.sliceHeight)
TotalSlices    == req.rec.planes * SlicesPerPlane

(* plane_dims_for, and the place of global slice s, counted from 0. *)
Dims(p)    == PlaneGeom(req.rec, p, req.width, req.height, req.sliceHeight)
PlaneOf(s) == s \div SlicesPerPlane
IndexOf(s) == s % SlicesPerPlane

Deep == req.rec.depth > 8

(* max_huff_len_for. *)
MaxHuffLenFor(depth) ==
  CASE depth = 10 -> 14 [] depth = 12 -> 16 [] depth = 14 -> 18 [] OTHER -> 12

(* encode_frame's checks, then those of encode_frame_u8 / _u16.  The number  *)
(* of slices is computed between them, by a division that panics for a slice *)
(* height of 0.                                                              *)
InputChecksNoTiling ==
  << [fails |-> req.width % req.rec.subX # 0,  error |-> "OddDimension"],
     [fails |-> req.height % req.rec.subY # 0, error |-> "OddDimension"],
     [fails |-> Len(req.planes) # req.rec.planes, error |-> "EncoderInputMismatch"],
     [fails |-> req.sliceHeight = 0, error |-> "panic"],
     [fails |-> \E i \in DOMAIN req.planes : req.planes[i].deep # Deep,
      error |-> "EncoderInputMismatch"],
     [fails |-> \E i \in DOMAIN req.planes :
                  req.planes[i].len # Dims(i - 1).width * Dims(i - 1).height,
      error |-> "EncoderInputMismatch"] >>

InputChecks ==
  << [fails |-> req.width % req.rec.subX # 0,  error |-> "OddDimension"],
     [fails |-> req.height % req.rec.subY # 0, error |-> "OddDimension"],
     [fails |-> req.sliceHeight % req.rec.subY # 0, error |-> "SliceHeightNotDivisible"],
     [fails |-> Len(req.planes) # req.rec.planes, error |-> "EncoderInputMismatch"],
     [fails |-> req.sliceHeight = 0, error |-> "panic"],
     [fails |-> \E i \in DOMAIN req.planes : req.planes[i].deep # Deep,
      error |-> "EncoderInputMismatch"],
     [fails |-> \E i \in DOMAIN req.planes :
                  req.planes[i].len # Dims(i - 1).width * Dims(i - 1).height,
      error |-> "EncoderInputMismatch"] >>

NoPacket == << >>

Init ==
  /\ stage = "check"
  /\ req \in Requests
  /\ verdict = "none"
  /\ residuals = << >> /\ predictors = << >> /\ huffs = << >> /\ payloads = << >>
  /\ packet = NoPacket

CheckInput ==
  /\ stage = "check"
  /\ LET failing == {i \in DOMAIN InputChecks : InputChecks[i].fails}
     IN  IF failing = {}
         THEN /\ stage' = "residuals"
              /\ residuals' = [p \in Planes(req.rec) |-> << >>]
              /\ UNCHANGED verdict
         ELSE /\ stage' = "returned"
              /\ \E i \in failing : /\ \A j \in failing : i <= j
                                    /\ verdict' = InputChecks[i].error
              /\ UNCHANGED residuals
  /\ UNCHANGED <<req, predictors, huffs, payloads, packet>>

------------------------------------------------------------------------------
(* The residual loop: one slice, plane after plane.                          *)
SamplesOf(p, k) == Dims(p).width * (RowEnd(Dims(p), k) - RowStart(Dims(p), k))

BuildSliceResiduals(kind) ==
  LET s == Len(predictors)
      p == PlaneOf(s)
      k == IndexOf(s)
  IN  /\ stage = "residuals"
      /\ s < TotalSlices
      /\ req.strategy \in {"Dynamic", kind}
      /\ residuals' = [residuals EXCEPT ![p] =
                         @ \o [i \in 1 .. SamplesOf(p, k) |-> [slice |-> k, kind |-> kind]]]
      /\ predictors' = Append(predictors, kind)
      /\ stage' = IF s + 1 = TotalSlices THEN "tables" ELSE "residuals"
      /\ UNCHANGED <<req, verdict, huffs, payloads, packet>>

(* A plane's table has the symbols of its residuals: two of them at least    *)
(* unless all are the same.                                                  *)
BuildPlaneHuff(t) ==
  LET p == Len(huffs)
  IN  /\ stage = "tables"
      /\ t.complete => Len(residuals[p]) >= 2
      /\ t.maxLen <= MaxHuffLenFor(req.rec.depth)
      /\ huffs' = Append(huffs, t)
      /\ stage' = IF p + 1 = req.rec.planes THEN "payloads" ELSE "tables"
      /\ UNCHANGED <<req, verdict, residuals, predictors, payloads, packet>>

------------------------------------------------------------------------------
(* With the geometry the residual loop ended with.                           *)
ResBlockLastPlane(s) ==
  LET g == Dims(req.rec.planes - 1)
      k == IndexOf(s)
  IN  SubSeq(residuals[PlaneOf(s)], RowStart(g, k) * g.width + 1, RowEnd(g, k) * g.width)

(* The payload loop.  res_block is cut out of the plane's residuals again.   *)
ResBlock(s) ==
  LET g == Dims(PlaneOf(s))
      k == IndexOf(s)
  IN  SubSeq(residuals[PlaneOf(s)], RowStart(g, k) * g.width + 1, RowEnd(g, k) * g.width)

(* Bytes of the packed bits: what BitWriter puts out.                        *)
PackedBytes(bits) == CeilDiv(bits, 8)

(* raw_size, to which Auto compares; and the size of the samples in memory.  *)
RawSizeInMemory(samples) == IF Deep THEN 2 * samples ELSE samples
RawSize(samples)         == CeilDiv(samples * req.rec.depth, 8)

(* flags: 0 for Huffman, 1 for raw. *)
ChoosesRaw(samples, huffBytes) ==
  CASE req.mode = "Huffman" -> FALSE
    [] req.mode = "Raw"     -> TRUE
    [] req.mode = "Auto"    -> huffBytes > RawSize(samples)

WritePayload(extra) ==
  LET s     == Len(payloads)
      block == ResBlock(s)
      t     == huffs[PlaneOf(s) + 1]
      bits  == Len(block) * t.minLen + extra
      raw   == ChoosesRaw(Len(block), PackedBytes(bits))
      packedRaw == PackedBytes(Len(block) * req.rec.depth)
  IN  /\ stage = "payloads"
      /\ bits <= Len(block) * t.maxLen
      /\ payloads' = Append(payloads,
           [raw |-> raw, kind |-> predictors[s + 1], block |-> block,
            body |-> IF raw THEN packedRaw ELSE PackedBytes(bits),
            asHuffman |-> PackedBytes(bits), asRaw |-> packedRaw])
      /\ stage' = IF s + 1 = TotalSlices THEN "assemble" ELSE "payloads"
      /\ UNCHANGED <<req, verdict, residuals, predictors, huffs, packet>>

------------------------------------------------------------------------------
(* assemble_frame.  per_slice_plane_index: the planes one after another, from *)
(* 0; and slices of the planes in turn.                                      *)
PlaneIndexByteInterleaved(s) == s % req.rec.planes
PlaneIndexByte(s)            == PlaneOf(s)

DescriptorBytes == Sum([p \in DOMAIN huffs |-> huffs[p].size], Len(huffs))

TableBytes == 4 * (TotalSlices + 1)

(* `off` when the payload loop comes to slice s: offsets do not count the    *)
(* frame header.                                                             *)
PayloadOffset(s) ==
  TableBytes + 1 + TotalSlices + DescriptorBytes
    + Sum([i \in DOMAIN payloads |-> 2 + payloads[i].body], s)

(* A table entry is cut to a u32. *)
EntryOf(offset) == offset % OffsetSpace

EvenUp(n) == n + (n % 2)

Assemble ==
  /\ stage = "assemble"
  /\ stage' = "returned"
  /\ verdict' = "Ok"
  /\ packet' =
       [len     |-> EvenUp(EncHeaderSize + PayloadOffset(TotalSlices)),
        entries |-> [s \in 1 .. TotalSlices |-> EntryOf(PayloadOffset(s - 1))],
        indexes |-> [s \in 1 .. TotalSlices |-> PlaneIndexByte(s - 1)],
        at      |-> [s \in 1 .. TotalSlices + 1 |-> EncHeaderSize + PayloadOffset(s - 1)]]
  /\ UNCHANGED <<req, residuals, predictors, huffs, payloads>>

Next ==
  \/ CheckInput
  \/ \E kind \in Kinds : BuildSliceResiduals(kind)
  \/ \E t \in Tables : BuildPlaneHuff(t)
  \/ \E extra \in ExtraBits : WritePayload(extra)
  \/ Assemble

Spec == Init /\ [][Next]_encoderVars

------------------------------------------------------------------------------
(* Residuals are written slice after slice into one buffer per plane and cut *)
(* out of it by row numbers in another loop (encoder.rs 1224 and 1670): what *)
(* a payload carries is the residuals of its own slice, all of them, made by *)
(* the predictor whose id it carries.                                        *)
BlocksIntact ==
  \A i \in DOMAIN payloads :
    /\ Len(payloads[i].block) = SamplesOf(PlaneOf(i - 1), IndexOf(i - 1))
    /\ \A j \in DOMAIN payloads[i].block :
         payloads[i].block[j] = [slice |-> IndexOf(i - 1), kind |-> payloads[i].kind]

(* "Auto [...] picks the smaller" (encoder.rs 29-32), also where a raw slice *)
(* of 10 to 14 bits ends inside a byte: no frame of the same residuals and   *)
(* tables in one mode throughout is shorter.                                 *)
FrameLength(bodies) ==
  EvenUp(EncHeaderSize + PayloadOffset(0)
           + Sum([i \in DOMAIN bodies |-> 2 + bodies[i]], TotalSlices))

AutoNeverLonger ==
  verdict = "Ok" /\ req.mode = "Auto" =>
    /\ packet.len <= FrameLength([i \in DOMAIN payloads |-> payloads[i].asHuffman])
    /\ packet.len <= FrameLength([i \in DOMAIN payloads |-> payloads[i].asRaw])

(* encoder.rs 256-258: a slice height of 0 "is normalised to a single        *)
(* full-frame slice by the callers below before reaching the partition       *)
(* arithmetic", so no call of encode_frame divides by it.                    *)
NeverPanics == verdict # "panic"
==============================================================================
