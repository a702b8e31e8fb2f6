------------------------------ MODULE Descriptor ------------------------------
(***************************************************************************)
(* The run-length form of a plane's code lengths: encode_descriptor of     *)
(* encoder.rs writes it, parse_lengths of huffman.rs reads it back from a  *)
(* preamble in which the descriptors of the planes follow one another.  A  *)
(* byte below 128 is one length, a byte 128 + v and a count c stand for    *)
(* 1 + c lengths v.  One step is one round of a while loop.                *)
(***************************************************************************)
EXTENDS Integers, SequencesExt

CONSTANTS
  N,                       \* symbols of the alphabet
  MaxLength,               \* FourccRecord::max_huffman_length
  MaxRun,                  \* MAX_RUN
  CountSpace,              \* 256, the range of a count byte
  Tails,                   \* what may follow a descriptor in the preamble
  Wire                     \* preambles of other origin

ASSUME DescriptorAssumption ==
  /\ N \in Nat \ {0} /\ MaxLength \in 0 .. 127
  /\ CountSpace \in Nat /\ MaxRun \in 1 .. CountSpace
  /\ Tails \subseteq Seq(0 .. 255) /\ Wire \subseteq Seq(0 .. 255)

VARIABLES
  lengths,                 \* history: what was encoded, << >> for Wire
  bytes,                   \* the preamble from this descriptor on
  stage,                   \* encode, parse, parsed, or the error returned
  i, got,                  \* encode: lengths done; parse: lengths read
  pos,                     \* parse: bytes read
  size                     \* history: bytes the encoder wrote

descriptorVars == <<lengths, bytes, stage, i, got, pos, size>>

DescriptorInit ==
  /\ \/ /\ lengths \in [1 .. N -> 0 .. MaxLength]
        /\ stage = "encode" /\ bytes = << >>
     \/ /\ lengths = << >>
        /\ stage = "parse" /\ bytes \in Wire
  /\ i = 0 /\ got = << >> /\ pos = 0 /\ size = 0

------------------------------------------------------------------------------
(* The lengths from the i-th on that one run covers. *)
Runs(from) == {n \in 1 .. N - from : \A k \in 1 .. n : lengths[from + k] = lengths[from + 1]}
RunAtUncapped(from) == Max(Runs(from))
RunAt(from)         == Max({n \in Runs(from) : n <= MaxRun})

EncodeRun ==
  /\ stage = "encode" /\ i < N
  /\ LET v   == lengths[i + 1]
         run == RunAt(i)
     IN  /\ bytes' = bytes \o IF run >= 2 THEN <<128 + v, (run - 1) % CountSpace>> ELSE <<v>>
         /\ i' = i + run
  /\ UNCHANGED <<lengths, stage, got, pos, size>>

(* The preamble goes on after the descriptor. *)
Assemble ==
  /\ stage = "encode" /\ i = N
  /\ \E tail \in Tails : bytes' = bytes \o tail
  /\ size' = Len(bytes)
  /\ stage' = "parse"
  /\ UNCHANGED <<lengths, i, got, pos>>

(* Copies of a value pushed by a run: the loop stops at n lengths.           *)
Copies(count) == IF 1 + count < N - Len(got) THEN 1 + count ELSE N - Len(got)

Fail(error) == stage' = error /\ UNCHANGED <<lengths, bytes, i, got, pos, size>>

Push(value, copies, read) ==
  /\ got' = got \o [k \in 1 .. copies |-> value]
  /\ pos' = pos + read
  /\ UNCHANGED <<lengths, bytes, stage, i, size>>

ParseLiteral ==
  /\ stage = "parse" /\ Len(got) < N
  /\ pos < Len(bytes) /\ bytes[pos + 1] < 128
  /\ IF bytes[pos + 1] > MaxLength
     THEN Fail("HuffmanLengthExceedsMax")
     ELSE Push(bytes[pos + 1], 1, 1)

ParseRun ==
  /\ stage = "parse" /\ Len(got) < N
  /\ pos < Len(bytes) /\ bytes[pos + 1] >= 128
  /\ LET v == bytes[pos + 1] - 128
     IN  IF pos + 1 >= Len(bytes) THEN Fail("Truncated")
         ELSE IF v > MaxLength THEN Fail("HuffmanLengthExceedsMax")
         ELSE Push(v, Copies(bytes[pos + 2]), 2)

ParsePastEnd ==
  /\ stage = "parse" /\ Len(got) < N
  /\ pos >= Len(bytes)
  /\ Fail("Truncated")

(* The loop has collected n lengths; the check after it that there are not   *)
(* more of them never fires, because a run stops at n.                       *)
ParseEnd ==
  /\ stage = "parse" /\ Len(got) >= N
  /\ stage' = IF Len(got) = N THEN "parsed" ELSE "Truncated"
  /\ UNCHANGED <<lengths, bytes, i, got, pos, size>>

DescriptorNext == EncodeRun \/ Assemble \/ ParseLiteral \/ ParseRun \/ ParsePastEnd \/ ParseEnd

DescriptorSpec == DescriptorInit /\ [][DescriptorNext]_descriptorVars

------------------------------------------------------------------------------
(* What the encoder wrote is read back: the same lengths, from exactly its   *)
(* bytes, so that the next plane's descriptor is read from its beginning.    *)
RoundTrip ==
  lengths # << >> =>
    /\ stage \in {"encode", "parse", "parsed"}
    /\ stage = "parsed" => got = lengths /\ pos = size
==============================================================================
