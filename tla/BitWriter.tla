------------------------------ MODULE BitWriter ------------------------------
(***************************************************************************)
(* encoder.rs, the three loops that pack bits into bytes: BitWriter::write *)
(* and finish, pack_raw_bits_from_u16, and pack_huffman_residuals_u8 /     *)
(* _u16.  Each ORs a code into a 64-bit accumulator behind the bits that   *)
(* wait there and drains whole bytes from the top.  Bits are symbolic, as  *)
(* in BitWindow: bit k is the k-th bit the caller handed over.             *)
(***************************************************************************)
EXTENDS BitWindow

CONSTANTS
  CodeLengths,             \* lengths of the codes given to write and packed
  RawDepths,               \* values of `bits` for pack_raw_bits_from_u16
  MaxBits                  \* bound on the bits packed

ASSUME BitWriterAssumption ==
  /\ CodeLengths \subseteq 0 .. 32
  /\ RawDepths \subseteq Nat
  /\ MaxBits \in Nat

VARIABLES
  loop,                    \* which of the three loops runs
  bits,                    \* raw: the `bits` argument
  acc, used,               \* the accumulator and bits_used
  phase,                   \* before a code, draining, or returned
  written,                 \* history: bits handed over so far
  pushed, byte             \* history: bytes pushed, and the last of them

vars == <<loop, bits, acc, used, phase, written, pushed, byte>>

Stray == -3                \* a bit of a sample above its nominal depth

Init ==
  /\ loop \in {"write", "raw", "huffman"}
  /\ bits \in RawDepths
  /\ acc = Blank /\ used = 0
  /\ phase = "code"
  /\ written = 0 /\ pushed = 0 /\ byte = << >>

------------------------------------------------------------------------------
(* Bit b, counted from the least significant, of a code of l bits; a caller  *)
(* of write, and the packed table, give no bit above the length.             *)
CodeBit(l, b) == IF b < l THEN written + (l - 1 - b) ELSE Zero

(* Bit b of a u16 sample, and of the sample under the mask. *)
SampleBit(l, b) == IF b >= l /\ b < 16 THEN Stray ELSE CodeBit(l, b)

(* pack_raw without its mask. *)
MaskedBitUnmasked(l, b) == SampleBit(l, b)
MaskedBit(l, b) == IF b < l THEN SampleBit(l, b) ELSE Zero

GivenBit(l, b) == IF loop = "raw" THEN MaskedBit(l, b) ELSE CodeBit(l, b)

(* acc | (code << 64 - used - l): slot i gets bit 63 - i of the shifted code, *)
(* which is bit used + l - 1 - i of the code.                                 *)
Placed(l, b) == IF b >= 0 THEN GivenBit(l, b) ELSE Zero

Merge(l) == [i \in Slots |-> Or(acc[i], Placed(l, used + l - 1 - i))]

(* Whether the drain loop runs (again). *)
PhaseAt(n) == IF n >= 8 THEN "drain" ELSE "code"

AppendCode(l) ==
  /\ phase = "code"
  /\ written + l <= MaxBits
  /\ acc' = Merge(l)
  /\ used' = used + l
  /\ written' = written + l
  /\ phase' = PhaseAt(used + l)
  /\ UNCHANGED <<loop, bits, pushed, byte>>

(* BitWriter::write, and one round of pack_huffman_residuals; a code of      *)
(* length 0 is passed over.                                                  *)
WriteCode(l) == loop \in {"write", "huffman"} /\ l > 0 /\ AppendCode(l)

(* One round of pack_raw_bits_from_u16. *)
PackSample == loop = "raw" /\ bits \in 1 .. 16 /\ AppendCode(bits)

PushTop ==
  /\ byte' = Top(acc, 8)
  /\ pushed' = pushed + 1

(* One round of the drain loop all three share. *)
DrainByte ==
  /\ phase = "drain"
  /\ PushTop
  /\ acc' = Shl(acc, 8)
  /\ used' = used - 8
  /\ phase' = PhaseAt(used - 8)
  /\ UNCHANGED <<loop, bits, written>>

(* BitWriter::finish and the ends of the packers; pack_raw returns at once,  *)
(* with nothing pushed, for a depth it does not know.  (A test that takes a  *)
(* single waiting bit for none.)                                             *)
PartialByteOver1 == used > 1
PartialByte      == used > 0

Finish ==
  /\ phase = "code"
  /\ phase' = "returned"
  /\ IF PartialByte THEN PushTop ELSE UNCHANGED <<byte, pushed>>
  /\ UNCHANGED <<loop, bits, acc, used, written>>

Next ==
  \/ \E l \in CodeLengths : WriteCode(l)
  \/ PackSample
  \/ DrainByte
  \/ Finish

Spec == Init /\ [][Next]_vars

------------------------------------------------------------------------------
TypeOK ==
  /\ loop \in {"write", "raw", "huffman"}
  /\ bits \in RawDepths
  /\ acc \in [Slots -> Int]
  /\ used \in 0 .. 39
  /\ phase \in {"code", "drain", "returned"}
  /\ phase = "code" => used < 8
  /\ phase = "drain" => used >= 8
  /\ written \in Nat /\ pushed \in Nat

(* The accumulator holds the bits that have not been pushed, in order from   *)
(* the top, and nothing else: no code overwrites a waiting bit, none leaves  *)
(* a bit behind for the next one to collide with, and with at most seven     *)
(* bits waiting a code of 32 bits still fits above bit 0.                    *)
AccFaithful ==
  phase # "returned" =>
    /\ written = 8 * pushed + used
    /\ acc = [i \in Slots |-> IF i < used THEN 8 * pushed + i ELSE Zero]

(* "Same observable byte stream" (encoder.rs 739, 845 and 902): each loop    *)
(* puts out the bits it was given, in order, every whole byte at once and    *)
(* the rest zero-padded at the end; together with BitStream, the reader gets *)
(* back the bits the writer was given.                                       *)
Sink == INSTANCE BitSink WITH
  Widths   <- CodeLengths \cup RawDepths,
  accepted <- written,
  emitted  <- pushed,
  closed   <- phase = "returned"

SinkSpec == Sink!Spec
==============================================================================
