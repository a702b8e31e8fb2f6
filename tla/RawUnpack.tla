------------------------------ MODULE RawUnpack ------------------------------
(***************************************************************************)
(* bitreader.rs, unpack_raw_bits_to_u16: the batched unpacker of raw       *)
(* slices with samples of 10, 12 or 14 bits.  It keeps a bit window of its *)
(* own, with rules that differ from BitReader's: it refills only when      *)
(* fewer bits than a sample has are left, stops as soon as it has enough,  *)
(* pads with a single zero byte at the end of data and lets the fill count *)
(* saturate at 0 from then on.                                             *)
(***************************************************************************)
EXTENDS BitWindow

CONSTANTS
  DataLens,                \* payload lengths in bytes considered
  Depths,                  \* sample widths (decode_high_bit_depth: 10, 12, 14)
  Beyond                   \* bound on the bits unpacked past the end of data

ASSUME RawUnpackAssumption ==
  /\ DataLens \subseteq Nat
  /\ Depths \subseteq 1 .. 16
  /\ Beyond \in Nat

VARIABLES
  len,                     \* data.len()
  sampleBits,              \* the argument `bits`: sample width of the plane
  win,                     \* the locals acc, fill, pos
  taken,                   \* history: bits unpacked so far
  out                      \* history: the bits of the sample written last

rawVars == <<len, sampleBits, win, taken, out>>

------------------------------------------------------------------------------
(* Merge whole bytes at bit w.fill, zero bytes past the end of data. *)
MergeBytes(n, w, bytes) ==
  [acc  |-> Load(n, w.acc, w.pos, w.fill, w.fill + 8 * bytes),
   fill |-> w.fill + 8 * bytes,
   pos  |-> Least(n, w.pos + bytes)]

(* One 8-byte load: the bits of the byte that does not fit stay as residue.  *)
WideLoad(n, w) ==
  [acc  |-> Load(n, w.acc, w.pos, w.fill, AccBits),
   fill |-> w.fill + 8 * Room(w.fill),
   pos  |-> w.pos + Room(w.fill)]

(* The byte loops break after the first pad byte. *)
UpToOnePad(n, w, bytes) == Least(bytes, n - w.pos + 1)

InitialFill(n) ==
  LET w == [acc |-> Blank, fill |-> 0, pos |-> 0]
  IN  IF n >= 8 THEN WideLoad(n, w) ELSE MergeBytes(n, w, UpToOnePad(n, w, 8))

(* Bytes until at least `depth` bits are there: while fill < depth.          *)
Missing(w, depth) == (depth - w.fill + 7) \div 8

(* A wide load whose byte count is rounded up. *)
TopUpRoundUp(n, w, depth) ==
  IF w.fill >= depth THEN w
  ELSE IF w.pos + 8 <= n
       THEN [WideLoad(n, w) EXCEPT !.pos = w.pos + (AccBits - w.fill + 7) \div 8]
       ELSE MergeBytes(n, w, UpToOnePad(n, w, Missing(w, depth)))

(* A byte loop that merges one byte only. *)
TopUpOneByte(n, w, depth) ==
  IF w.fill >= depth THEN w
  ELSE IF w.pos + 8 <= n THEN WideLoad(n, w) ELSE MergeBytes(n, w, 1)

TopUp(n, w, depth) ==
  IF w.fill >= depth THEN w
  ELSE IF w.pos + 8 <= n
       THEN WideLoad(n, w)
       ELSE MergeBytes(n, w, UpToOnePad(n, w, Missing(w, depth)))

------------------------------------------------------------------------------
RawInit ==
  /\ len \in DataLens
  /\ sampleBits \in Depths
  /\ win = InitialFill(len)
  /\ taken = 0
  /\ out = << >>

(* One round of the loop over dst. *)
Sample ==
  LET w == TopUp(len, win, sampleBits)
  IN  /\ taken + sampleBits <= 8 * len + Beyond
      /\ out' = Top(w.acc, sampleBits)
      /\ win' = [acc  |-> Shl(w.acc, sampleBits),
                 fill |-> SatSub(w.fill, sampleBits),
                 pos  |-> w.pos]
      /\ taken' = taken + sampleBits
      /\ UNCHANGED <<len, sampleBits>>

RawNext == Sample

RawSpec == RawInit /\ [][RawNext]_rawVars

------------------------------------------------------------------------------
RawTypeOK ==
  /\ len \in DataLens
  /\ sampleBits \in Depths
  /\ win \in Windows
  /\ taken \in 0 .. 8 * len + Beyond

(* The unpacker's window is as faithful as BitReader's, its single pad byte  *)
(* and its saturating fill count notwithstanding: what they leave behind is  *)
(* only ever the zeros that follow the data.                                 *)
WindowFaithful == Faithful(len, taken, win)

(* Same observable bits as a read_bits loop (bitreader.rs:226-227): both     *)
(* implement the one abstract cursor.                                        *)
Stream == INSTANCE BitStream WITH cur <- taken, Widths <- Depths

StreamSpec == Stream!Spec
==============================================================================
