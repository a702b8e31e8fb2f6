------------------------------- MODULE Predict -------------------------------
(***************************************************************************)
(* The slice predictors: encode_predictor_u8 / _u16 of encoder.rs, which   *)
(* turn the pixels of a slice into residuals in place, bottom-up and right *)
(* to left, and apply_u8_with_stride / apply_u16_with_stride of predict.rs,*)
(* which turn residuals back into pixels in place, top-down and left to    *)
(* right.  One step is one sample.                                         *)
(***************************************************************************)
EXTENDS Integers

CONSTANTS
  Rows, Width,             \* of the slice; the code returns at once if one is 0
  SampleSpace              \* 1 << bit_depth

ASSUME PredictAssumption ==
  /\ Rows \in Nat \ {0} /\ Width \in Nat \ {0}
  /\ SampleSpace \in Nat \ {0}

VARIABLES
  predictor,               \* PredictorKind of the slice
  deep,                    \* TRUE: the u16 functions, FALSE: the u8 ones
  stride,                  \* FieldStride: 1 progressive, 2 interlaced
  data,                    \* the buffer both passes work on in place
  pass, row, col,          \* the pass, and the sample it is at
  pixels                   \* history: what the encoder was given

predictVars == <<predictor, deep, stride, data, pass, row, col, pixels>>

Samples == 0 .. SampleSpace - 1
Buffers == [0 .. Rows - 1 -> [0 .. Width - 1 -> Samples]]

------------------------------------------------------------------------------
(* Median at 8 bits clamps the wrapped gradient; at 10 to 14 bits it is the  *)
(* JPEG-LS rule on the unwrapped one.                                        *)
Smaller(a, b) == IF a < b THEN a ELSE b
Larger(a, b)  == IF a < b THEN b ELSE a

Gradient(left, top, corner) == (left + top - corner) % SampleSpace

MedianU8(left, top, corner) ==
  LET gradient == Gradient(left, top, corner)
  IN  Smaller(Larger(gradient, Smaller(left, top)), Larger(left, top))

MedianU16(left, top, corner) ==
  IF corner >= Larger(left, top) THEN Smaller(left, top)
  ELSE IF corner <= Smaller(left, top) THEN Larger(left, top)
  ELSE Gradient(left, top, corner)

(* What a predictor makes of the samples left of, above and diagonally       *)
(* above a sample; above means `fs` rows up.  The first `fs` rows have no    *)
(* row above them and are predicted from the left, from nothing at column 0. *)
Prediction(d, r, c, fs) ==
  IF r < fs THEN (IF c = 0 THEN 0 ELSE d[r][c - 1])
  ELSE IF c = 0 THEN d[r - fs][0]
  ELSE IF predictor = "Left" THEN d[r][c - 1]
  ELSE IF predictor = "Gradient" THEN Gradient(d[r][c - 1], d[r - fs][c], d[r - fs][c - 1])
  ELSE IF deep THEN MedianU16(d[r][c - 1], d[r - fs][c], d[r - fs][c - 1])
  ELSE MedianU8(d[r][c - 1], d[r - fs][c], d[r - fs][c - 1])

(* An encoder that forgets the field stride. *)
EncodeSampleProgressive(d, r, c) == (d[r][c] - Prediction(d, r, c, 1)) % SampleSpace
EncodeSample(d, r, c) == (d[r][c] - Prediction(d, r, c, stride)) % SampleSpace

DecodeSample(d, r, c) == (d[r][c] + Prediction(d, r, c, stride)) % SampleSpace

PredictInit ==
  /\ predictor \in {"Left", "Gradient", "Median"}
  /\ deep \in BOOLEAN
  /\ stride \in {1, 2}
  /\ pixels \in Buffers
  /\ data = pixels
  /\ pass = "encode" /\ row = Rows - 1 /\ col = Width - 1

(* Residuals from the last sample to the first, so that a sample's           *)
(* neighbours are still pixels when it is replaced.                          *)
Encode ==
  /\ pass = "encode"
  /\ data' = [data EXCEPT ![row][col] = EncodeSample(data, row, col)]
  /\ IF col > 0 THEN col' = col - 1 /\ UNCHANGED <<row, pass>>
     ELSE IF row > 0 THEN row' = row - 1 /\ col' = Width - 1 /\ UNCHANGED pass
     ELSE pass' = "decode" /\ UNCHANGED <<row, col>>
  /\ UNCHANGED <<predictor, deep, stride, pixels>>

(* Pixels from the first sample to the last, so that a sample's neighbours   *)
(* are pixels again when it is restored.                                     *)
Decode ==
  /\ pass = "decode"
  /\ data' = [data EXCEPT ![row][col] = DecodeSample(data, row, col)]
  /\ IF col < Width - 1 THEN col' = col + 1 /\ UNCHANGED <<row, pass>>
     ELSE IF row < Rows - 1 THEN row' = row + 1 /\ col' = 0 /\ UNCHANGED pass
     ELSE pass' = "done" /\ UNCHANGED <<row, col>>
  /\ UNCHANGED <<predictor, deep, stride, pixels>>

PredictNext == Encode \/ Decode

PredictSpec == PredictInit /\ [][PredictNext]_predictVars

------------------------------------------------------------------------------
PredictTypeOK ==
  /\ predictor \in {"Left", "Gradient", "Median"} /\ deep \in BOOLEAN /\ stride \in {1, 2}
  /\ data \in Buffers /\ pixels \in Buffers
  /\ pass \in {"encode", "decode", "done"}
  /\ row \in 0 .. Rows - 1 /\ col \in 0 .. Width - 1

(* The codec is lossless: decoding in place what was encoded in place gives  *)
(* back every pixel, for every predictor, depth and field stride.  While the *)
(* decoder is under way this holds of every sample it has passed.            *)
Passed(r, c) == r < row \/ (r = row /\ c < col)

Restored ==
  /\ pass = "decode" => 
       \A r \in 0 .. Rows - 1, c \in 0 .. Width - 1 : Passed(r, c) => data[r][c] = pixels[r][c]
  /\ pass = "done" => data = pixels
==============================================================================
