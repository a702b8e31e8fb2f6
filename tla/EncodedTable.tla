----------------------------- MODULE EncodedTable -----------------------------
(***************************************************************************)
(* A plane's Huffman table from the encoder to the decoder: the lengths    *)
(* come from canonical_huffman_lengths over the plane's histogram, travel  *)
(* in the descriptor (Descriptor.tla) and are what the decoder's           *)
(* HuffmanTable::build is run on; the slices hold the encoder's codes,     *)
(* numbered by PlaneHuff::build_from_histogram.                            *)
(***************************************************************************)
EXTENDS HuffmanTable, CodeLengths

CONSTANTS
  Histograms,              \* histograms of a plane's residuals considered
  Caps                     \* values of max_huff_len_for

ASSUME EncodedTableAssumption ==
  /\ Histograms \subseteq [Symbols -> Nat]
  /\ Caps \subseteq 1 .. MaxLength
  /\ FirstTag \in Nat /\ FirstTag >= N

VARIABLES
  hist,                    \* the histogram of the plane's residuals
  cap                      \* max_len; 0 for lengths no encoder computed

encodedVars == <<hist, cap, vars>>

(* A plane has residuals, at least the one encode_frame puts in when it has  *)
(* none; an alphabet of 2^depth symbols is never above 2^cap.                *)
FromEncoder ==
  /\ hist \in Histograms
  /\ cap \in Caps
  /\ Cardinality(Active(hist)) \in 1 .. Pow2(cap)
  /\ lengths = CanonicalHuffmanLengths(hist, cap)

(* A descriptor of any other origin.                                         *)
FromElsewhere == hist = [s \in Symbols |-> 0] /\ cap = 0

EncodedInit == (FromEncoder \/ FromElsewhere) /\ Init

EncodedNext == Next /\ UNCHANGED <<hist, cap>>

EncodedSpec == EncodedInit /\ [][EncodedNext]_encodedVars

Encoded == cap > 0

------------------------------------------------------------------------------
(* encoder.rs 561-573: whatever the histogram, exactly the symbols that      *)
(* occur have a code, none is longer than the decoder of this depth accepts, *)
(* and the lengths fill the code space exactly (one symbol alone has length  *)
(* 1 and leaves half of it), so the decoder never finds them over-full.      *)
LengthsValid ==
  Encoded =>
    /\ \A s \in Symbols : (lengths[s] = 0 <=> hist[s] = 0) /\ lengths[s] <= cap
    /\ KraftSum = IF Cardinality(Used) = 1 THEN 1 ELSE Pow2(MaxLen)
    /\ phase # "overfull"

(* "Optimal length-limited": no prefix code under the cap packs the plane    *)
(* into fewer bits, neither when the tree was kept nor after package-merge.  *)
Bits(l) == Sum([i \in 1 .. N |-> IF i - 1 \in Used THEN hist[i - 1] * l[i - 1] ELSE 0], N)

KraftFits(l) ==
  Sum([i \in 1 .. N |-> IF i - 1 \in Used THEN Pow2(cap - l[i - 1]) ELSE 0], N) <= Pow2(cap)

LengthsOptimal ==
  Encoded /\ phase = "built" =>
    \A other \in [Used -> 1 .. cap] : KraftFits(other) => Bits(lengths) <= Bits(other)

------------------------------------------------------------------------------
(* build_from_histogram: numbers handed out from the longest length down,    *)
(* within a length in symbol order; the order of the tiers the other way.    *)
StartCodeAscending(l) ==
  LET start[k \in 1 .. l] ==
        IF k = 1 THEN AccSpace - 1
        ELSE ((start[k - 1] + BlCount(k - 1)) % AccSpace) * 2 % AccSpace
  IN  (start[l] + 1) % AccSpace

StartCode(l) ==
  LET start[k \in l .. MaxLen] ==
        IF k = MaxLen THEN AccSpace - 1
        ELSE ((start[k + 1] + BlCount(k + 1)) % AccSpace) \div 2
  IN  (start[l] + 1) % AccSpace

Code(s) ==
  StartCode(lengths[s]) + Cardinality({t \in Symbols : t < s /\ lengths[t] = lengths[s]})

(* Encoder and decoder number the codes in two separate loops.  A residual   *)
(* written with the encoder's code is read back as that residual, and as     *)
(* many bits are consumed as were written, whatever bits follow it; so a     *)
(* code also fits its length, which the bit writers take for granted.        *)
CodesRoundTrip ==
  Encoded /\ phase = "built" =>
    \A s \in Used : \A rest \in 0 .. Pow2(MaxLen - lengths[s]) - 1 :
      Decode(Code(s) * Pow2(MaxLen - lengths[s]) + rest)
        = Decoded(s, lengths[s], TRUE)
==============================================================================
