----------------------------- MODULE MCCodecParts -----------------------------
(***************************************************************************)
(* The loops of the codec that share no state: the bit packers and the     *)
(* header, descriptor and residual writers of the encoder, and the raw     *)
(* unpacker of the decoder.  The crate calls them one at a time and hands  *)
(* values over, so that a behaviour runs one part and the others rest in   *)
(* an initial state.                                                       *)
(***************************************************************************)
EXTENDS BitWriter, RawUnpack, Descriptor, Header, SliceResiduals

VARIABLE part              \* the part that runs

partsVars == <<part, vars, rawVars, descriptorVars, headerVars, residualVars>>

AnyOf(set) == CHOOSE x \in set : TRUE

BitsRest       == loop = "write" /\ bits = AnyOf(RawDepths) /\ Init
RawRest        == len = AnyOf(DataLens) /\ sampleBits = AnyOf(Depths) /\ RawInit
DescriptorRest == lengths = << >> /\ bytes = AnyOf(Wire) /\ stage = "parse" /\ DescriptorInit
HeaderRest     == format = "M8RG" /\ request = AnyOf(Requests) /\ HeaderInit
ResidualsRest  ==
  strategy = "Dynamic" /\ yields = [k \in Kinds |-> AnyOf(Blocks)] /\ ResidualsInit

PartsInit ==
  /\ part \in {"bits", "raw", "descriptor", "header", "residuals"}
  /\ IF part = "bits" THEN Init ELSE BitsRest
  /\ IF part = "raw" THEN RawInit ELSE RawRest
  /\ IF part = "descriptor" THEN DescriptorInit ELSE DescriptorRest
  /\ IF part = "header" THEN HeaderInit ELSE HeaderRest
  /\ IF part = "residuals" THEN ResidualsInit ELSE ResidualsRest

BitsRun ==
  /\ part = "bits" /\ Next
  /\ UNCHANGED <<part, rawVars, descriptorVars, headerVars, residualVars>>

RawRun ==
  /\ part = "raw" /\ RawNext
  /\ UNCHANGED <<part, vars, descriptorVars, headerVars, residualVars>>

DescriptorRun ==
  /\ part = "descriptor" /\ DescriptorNext
  /\ UNCHANGED <<part, vars, rawVars, headerVars, residualVars>>

HeaderRun ==
  /\ part = "header" /\ HeaderNext
  /\ UNCHANGED <<part, vars, rawVars, descriptorVars, residualVars>>

ResidualsRun ==
  /\ part = "residuals" /\ ResidualsNext
  /\ UNCHANGED <<part, vars, rawVars, descriptorVars, headerVars>>

PartsNext == BitsRun \/ RawRun \/ DescriptorRun \/ HeaderRun \/ ResidualsRun

PartsSpec == PartsInit /\ [][PartsNext]_partsVars

------------------------------------------------------------------------------
(* BitWriter: codes of every length an encoder table can hold (0 to 18) and  *)
(* the 32 bits write allows, raw depths in and out of the range pack_raw     *)
(* handles; MaxBits reaches past one accumulator at every phase of the       *)
(* waiting bits.                                                             *)
MCCodeLengths == 0 .. 18 \cup {31, 32}
MCRawDepths   == {0, 8, 10, 12, 14, 16, 17}

(* RawUnpack: every payload length around the first three 8-byte loads, so   *)
(* that each sample width meets the end of data at every phase of its window.*)
MCDataLens == 0 .. 36
MCDepths   == {10, 12, 14}

(* Descriptor: six lengths up to 2, runs of at most three in counts below    *)
(* four, so that a run is split and an uncapped one would wrap; the          *)
(* descriptor is last in the preamble or followed by one that continues its  *)
(* last run.  The other preambles mix lengths, run heads, counts and values  *)
(* above the cap, cut anywhere.                                              *)
MCTails == {<< >>, <<1, 129, 2>>}
MCBytes == {0, 2, 3, 128, 129, 131, 255}
MCWire  == UNION {[1 .. n -> MCBytes] : n \in 0 .. 4}

(* Header: sizes at the bounds of MAX_DIMENSION, of a byte and of two, with  *)
(* and without all flags; for one size every flag, every bit of the matrix   *)
(* nibble, its skipped value 1 and values beyond a nibble.                   *)
Sized(w, h, sh, interlaced, matrix, fullRange) ==
  [width |-> w, height |-> h, sliceHeight |-> sh,
   interlaced |-> interlaced, matrix |-> matrix, fullRange |-> fullRange]

MCRequests ==
  {Sized(w, h, sh, on, IF on THEN 15 ELSE 1, on) :
     w \in {0, 258, 32768}, h \in {1, 32769, 65537}, sh \in {0, 3, 32769}, on \in BOOLEAN}
  \cup {Sized(640, 480, 28, on, m, full) :
          on, full \in BOOLEAN, m \in {0, 1, 2, 5, 8, 15, 17, 255}}

MCDamagedBytes  == {0, 2, 12, 14, 105, 127}

(* SliceResiduals: blocks of two residuals of three bits, small positive and *)
(* negative ones, half the range, and several of the same score.             *)
MCBlocks == {<<0, 1>>, <<7, 0>>, <<4, 0>>, <<2, 6>>, <<5, 5>>}
==============================================================================
