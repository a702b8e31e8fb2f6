------------------------------ MODULE FrameLayout ------------------------------
(***************************************************************************)
(* Samples on their way through registry.rs: make_encoder with its         *)
(* options, send_frame with the conversion of a VideoFrame's bytes into    *)
(* planes, the RGB decorrelation of encoder.rs and its reverse of          *)
(* decoder.rs, and map_to_video_frame.  What the decoder emits is sent to  *)
(* the encoder again, as in a transcode.                                   *)
(*                                                                         *)
(* Between decorrelation and its reverse the wire planes are unchanged:    *)
(* the other modules show it.  A byte has ByteSpace values and a u16 is    *)
(* two bytes; 10, 12 and 14 bits are one depth between the two.            *)
(***************************************************************************)
EXTENDS Fourcc, Sequences, FiniteSets

CONSTANTS
  Params,                  \* CodecParameters given to make_encoder
  Patterns,                \* contents of frames: per plane, its first sample
  Faults,                  \* what may be wrong with a caller's frame
  ByteSpace,               \* values of a byte
  DeepModulus,             \* 1 << bit_depth above 8 bits
  Rounds                   \* bound on the frames sent

ASSUME FrameLayoutAssumption ==
  /\ Params \subseteq [tag : STRING, width : Nat, height : Nat, sliceHeight : Nat]
  /\ Patterns \subseteq [1 .. 4 -> Nat]
  /\ Faults \subseteq {"none", "planeMissing", "byteMissing"}
  /\ ByteSpace \in Nat \ {0, 1}
  /\ DeepModulus \in (ByteSpace + 1) .. (ByteSpace * ByteSpace)
  /\ Rounds \in Nat

VARIABLES
  params,                  \* CodecParameters
  enc,                     \* the MagicYuvEncoder, or NoEncoder
  sent,                    \* history: the samples the caller means, per plane
  video,                   \* VideoFrame in the caller's hands, per plane stride and bytes
  wire,                    \* wire_planes
  planes,                  \* DecodedFrame.planes
  reply,                   \* of the last call
  rounds                   \* frames accepted so far

vars == <<params, enc, sent, video, wire, planes, reply, rounds>>

------------------------------------------------------------------------------
IsRgb(rec) == rec.family \in {"RGB", "RGBA"}
Deep(rec)  == rec.depth > 8

(* The type of a sample: container values, and those of its depth. *)
Container(rec) == IF Deep(rec) THEN ByteSpace * ByteSpace ELSE ByteSpace
Modulus(rec)   == IF Deep(rec) THEN DeepModulus ELSE ByteSpace

NoEncoder == [rec |-> Row(0, 0, "Gray", 1, 1), width |-> 0, height |-> 0, sliceHeight |-> 0]

(* fourcc_record_for_params finds a record.                                  *)
Native(tag) == tag \in DOMAIN FourccTable

(* make_encoder: a native FOURCC and a size, of which 0 is refused (and      *)
(* stands for an absent one); slice_height 0 is the whole frame and no slice *)
(* is taller than the frame.                                                 *)
SliceHeightOf(option, height) ==
  IF option = 0 THEN height ELSE Lower(option, height)

MakeEncoder ==
  /\ reply = "none"
  /\ IF Native(params.tag) /\ params.width > 0 /\ params.height > 0
     THEN /\ enc' = [rec |-> FourccTable[params.tag],
                     width |-> params.width, height |-> params.height,
                     sliceHeight |-> SliceHeightOf(params.sliceHeight, params.height)]
          /\ reply' = "made"
     ELSE reply' = "Invalid" /\ UNCHANGED enc
  /\ UNCHANGED <<params, sent, video, wire, planes, rounds>>

(* pixel_format_for, by what its value says of a frame: channels packed into *)
(* one plane, bytes of a sample, subsampling.  YUVA has none, nor have       *)
(* depths and subsamplings that no row of the table has.                     *)
NoFormat == [channels |-> 0, bytes |-> 0, subX |-> 0, subY |-> 0]

PixelFormatForAllPacked(rec) ==
  IF IsRgb(rec) THEN [channels |-> rec.planes, bytes |-> 1, subX |-> 1, subY |-> 1]
  ELSE IF rec.family = "YUVA" THEN NoFormat
  ELSE [channels |-> 1, bytes |-> IF Deep(rec) THEN 2 ELSE 1, subX |-> rec.subX, subY |-> rec.subY]

PixelFormatFor(rec) ==
  IF IsRgb(rec) /\ ~ Deep(rec)
  THEN [channels |-> rec.planes, bytes |-> 1, subX |-> 1, subY |-> 1]
  ELSE IF rec.family = "YUVA" THEN NoFormat
  ELSE [channels |-> 1, bytes |-> IF Deep(rec) THEN 2 ELSE 1, subX |-> rec.subX, subY |-> rec.subY]

------------------------------------------------------------------------------
(* samples_to_bytes, low byte first, and back.                               *)
ToBytes(rec, s) ==
  IF ~ Deep(rec) THEN s
  ELSE [j \in 1 .. 2 * Len(s) |->
          IF j % 2 = 1 THEN s[(j + 1) \div 2] % ByteSpace ELSE s[j \div 2] \div ByteSpace]

FromBytes(rec, d) ==
  IF ~ Deep(rec) THEN d
  ELSE [i \in 1 .. Len(d) \div 2 |-> d[2 * i - 1] + ByteSpace * d[2 * i]]

(* Bytes R, G, B and A of a pixel come from planes G, B, R and A, and go     *)
(* back to them; in the order of their names they would not.                 *)
PackOrder         == <<3, 1, 2, 4>>
UnpackOrderByName == <<1, 2, 3, 4>>
UnpackOrder       == <<2, 3, 1, 4>>

Interleave(rec, ps) ==
  [j \in 1 .. rec.planes * Len(ps[1]) |->
     ps[PackOrder[((j - 1) % rec.planes) + 1]][(j - 1) \div rec.planes + 1]]

Deinterleave(rec, d) ==
  [p \in 1 .. rec.planes |->
     [i \in 1 .. Len(d) \div rec.planes |-> d[(i - 1) * rec.planes + UnpackOrder[p]]]]

Geom(p) == PlaneGeom(enc.rec, p, enc.width, enc.height, enc.sliceHeight)

Planar(rec, ps) ==
  [p \in 1 .. Len(ps) |->
     [stride |-> Geom(p - 1).width * (IF Deep(rec) THEN 2 ELSE 1), data |-> ToBytes(rec, ps[p])]]

Packed(rec, ps) == << [stride |-> enc.width * rec.planes, data |-> Interleave(rec, ps)] >>

(* map_to_video_frame. *)
VideoOf(rec, ps) == IF IsRgb(rec) /\ ~ Deep(rec) THEN Packed(rec, ps) ELSE Planar(rec, ps)

(* The caller's frame: planar, or packed where the decoder would pack it;    *)
(* samples over the whole container.  A plane or a byte may be missing.      *)
Content(pattern) ==
  [p \in 1 .. enc.rec.planes |->
     [i \in 1 .. Geom(p - 1).width * Geom(p - 1).height |->
        (pattern[p] + i - 1) % Container(enc.rec)]]

Faulty(v, fault) ==
  CASE fault = "none"         -> v
    [] fault = "planeMissing" -> Tail(v)
    [] fault = "byteMissing"  -> [v EXCEPT ![1].data = Tail(@)]

ComposeFrame(pattern, fault) ==
  /\ reply = "made"
  /\ sent' = Content(pattern)
  /\ \E v \in {Planar(enc.rec, Content(pattern)), VideoOf(enc.rec, Content(pattern))} :
       video' = Faulty(v, fault)
  /\ reply' = "composed"
  /\ UNCHANGED <<params, enc, wire, planes, rounds>>

------------------------------------------------------------------------------
(* MagicYuvEncoder::send_frame.  plane_pixel_count knows chroma planes of    *)
(* YUV only: YUVA has no subsampled ones.                                    *)
PlanePixelCount(p) ==
  IF enc.rec.family = "YUV" /\ p \in {1, 2}
  THEN (enc.width \div enc.rec.subX) * (enc.height \div enc.rec.subY)
  ELSE enc.width * enc.height

(* Whether a frame is taken for packed: never, if planes alone are known.    *)
InterleavedNever(v) == FALSE
Interleaved(v)      == ~ Deep(enc.rec) /\ IsRgb(enc.rec) /\ Len(v) = 1

Fits(v) ==
  IF Interleaved(v)
  THEN Len(v[1].data) = enc.width * enc.height * enc.rec.planes
  ELSE /\ Len(v) = enc.rec.planes
       /\ \A p \in DOMAIN v :
            Len(v[p].data) = PlanePixelCount(p - 1) * (IF Deep(enc.rec) THEN 2 ELSE 1)

Inputs(v) ==
  IF Interleaved(v) THEN Deinterleave(enc.rec, v[1].data)
  ELSE [p \in DOMAIN v |-> FromBytes(enc.rec, v[p].data)]

(* The checks of encode_frame and the functions it calls. *)
RequestOf(inputs) ==
  [rec |-> enc.rec, width |-> enc.width, height |-> enc.height,
   sliceHeight |-> enc.sliceHeight,
   planes |-> [p \in DOMAIN inputs |-> [deep |-> Deep(enc.rec), len |-> Len(inputs[p])]],
   strategy |-> "Dynamic", mode |-> "Auto"]

E(inputs) == INSTANCE Encoder WITH
  req <- RequestOf(inputs),
  Requests <- {}, Tables <- {}, ExtraBits <- {}, OffsetSpace <- 1,
  stage <- "check", verdict <- "none", residuals <- << >>, predictors <- << >>,
  huffs <- << >>, payloads <- << >>, packet <- << >>

EncodeFails(inputs, error) ==
  LET checks == E(inputs)!InputChecks
  IN  \E i \in DOMAIN checks :
        /\ checks[i].fails /\ checks[i].error = error
        /\ \A j \in 1 .. i - 1 : ~ checks[j].fails

EncodeErrors == {"OddDimension", "SliceHeightNotDivisible", "EncoderInputMismatch", "panic"}

(* The depth mask of encode_frame_u16. *)
MaskedSamples(rec, s) == [i \in DOMAIN s |-> s[i] % Modulus(rec)]

(* apply_rgb_decorrelation_u8 / _u16: planes G, B, R become B - G, G, R - G. *)
Minus(rec, s, t) == [i \in DOMAIN s |-> (s[i] - t[i]) % Modulus(rec)]
Plus(rec, s, t)  == [i \in DOMAIN s |-> (s[i] + t[i]) % Modulus(rec)]

Decorrelate(rec, ps) ==
  IF ~ IsRgb(rec) THEN ps
  ELSE << Minus(rec, ps[2], ps[1]), ps[1], Minus(rec, ps[3], ps[1]) >> \o SubSeq(ps, 4, Len(ps))

(* reverse_rgb_decorrelation_u8 / _u16. *)
ReverseDecorrelation(rec, ws) ==
  IF ~ IsRgb(rec) THEN ws
  ELSE << ws[2], Plus(rec, ws[1], ws[2]), Plus(rec, ws[3], ws[2]) >> \o SubSeq(ws, 4, Len(ws))

SendFrame ==
  /\ reply \in {"composed", "mapped"}
  /\ rounds < Rounds
  /\ \/ /\ ~ Fits(video)
        /\ reply' = "Invalid"
        /\ UNCHANGED <<wire, rounds>>
     \/ /\ Fits(video)
        /\ \E e \in EncodeErrors : EncodeFails(Inputs(video), e) /\ reply' = e
        /\ UNCHANGED <<wire, rounds>>
     \/ /\ Fits(video)
        /\ \A e \in EncodeErrors : ~ EncodeFails(Inputs(video), e)
        /\ LET inputs == Inputs(video)
           IN  wire' = Decorrelate(enc.rec, [p \in DOMAIN inputs |-> MaskedSamples(enc.rec, inputs[p])])
        /\ rounds' = rounds + 1
        /\ reply' = "Ok"
  /\ UNCHANGED <<params, enc, sent, video, planes>>

Decode ==
  /\ reply = "Ok"
  /\ planes' = ReverseDecorrelation(enc.rec, wire)
  /\ reply' = "decoded"
  /\ UNCHANGED <<params, enc, sent, video, wire, rounds>>

MapToVideoFrame ==
  /\ reply = "decoded"
  /\ video' = VideoOf(enc.rec, planes)
  /\ reply' = "mapped"
  /\ UNCHANGED <<params, enc, sent, wire, planes, rounds>>

Init ==
  /\ params \in Params
  /\ enc = NoEncoder
  /\ sent = << >> /\ video = << >> /\ wire = << >> /\ planes = << >>
  /\ reply = "none" /\ rounds = 0

Next ==
  \/ MakeEncoder
  \/ \E pattern \in Patterns, fault \in Faults : ComposeFrame(pattern, fault)
  \/ SendFrame
  \/ Decode
  \/ MapToVideoFrame

Spec == Init /\ [][Next]_vars

------------------------------------------------------------------------------
(* Five functions in three files keep the order of the channels, two of them *)
(* the wrap at the depth: what the caller means by a channel is decoded as   *)
(* that channel, cut to the depth ("the encoder masks before encoding"),     *)
(* also when the decoder's own frame is sent again.                          *)
ChannelsSurvive ==
  reply \in {"decoded", "mapped"} =>
    planes = [p \in DOMAIN sent |-> [i \in DOMAIN sent[p] |-> sent[p][i] % Modulus(enc.rec)]]

(* "This makes a registry-level decode -> re-encode lossless" (registry.rs   *)
(* 462-463): the frame the decoder emits is one the encoder takes.           *)
Reencodes == [][reply = "mapped" => reply' = "Ok"]_vars

(* output_params labels the stream with a pixel format although the layout   *)
(* is decided elsewhere: the frame emitted has the planes, strides and bytes *)
(* that the label says.                                                      *)
LabelTruthful ==
  LET f == PixelFormatFor(enc.rec)
  IN  reply = "mapped" /\ f # NoFormat =>
        /\ Len(video) * f.channels = enc.rec.planes
        /\ \A p \in DOMAIN video :
             LET chroma == p \in {2, 3} /\ f.channels = 1
                 width  == enc.width \div (IF chroma THEN f.subX ELSE 1)
                 height == enc.height \div (IF chroma THEN f.subY ELSE 1)
             IN  /\ video[p].stride = width * f.channels * f.bytes
                 /\ Len(video[p].data) = video[p].stride * height
==============================================================================
