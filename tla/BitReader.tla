------------------------------ MODULE BitReader ------------------------------
(***************************************************************************)
(* bitreader.rs, struct BitReader: an MSB-first reader over a byte slice   *)
(* with a 64-bit accumulator, an 8-byte fast refill, a byte-wise slow      *)
(* refill with zero padding past the end, a per-symbol interface           *)
(* (peek_bits / consume / read_bits) and a batched decode loop             *)
(* (decode_single_level_into_u8) that postpones its refills.               *)
(*                                                                         *)
(* A reader serves one slice.  HuffmanTable::decode_into_u8 runs the whole *)
(* slice through the batch loop; decode_into_u16, decode and read_bits use *)
(* the per-symbol interface.  `use` says which; MixedSpec drops that       *)
(* restriction, as the doc comment of the batch loop does.                 *)
(***************************************************************************)
EXTENDS BitWindow

CONSTANTS
  DataLens,                \* lengths in bytes of the slices considered
  Peeks,                   \* widths peeked by per-symbol callers (<= 32)
  TableBits,               \* widths of the batch loop's flat table (<= 12)
  CodeLens,                \* code lengths the tables hold (0: unused slot)
  Beyond                   \* bound on the bits consumed past the end of data

ASSUME BitReaderAssumption ==
  /\ DataLens \subseteq Nat
  /\ Peeks \subseteq 1 .. 32
  /\ TableBits \subseteq 1 .. 12
  /\ CodeLens \subseteq Nat
  /\ Beyond \in Nat

VARIABLES
  len,                     \* data.len()
  use,                     \* "symbol" or "batch": how this slice is read
  tableBits,               \* primary_bits of the batch loop's table
  win,                     \* the fields acc, fill, pos
  taken,                   \* history: bits consumed since BitReader::new
  out                      \* history: the bits delivered last

readerVars == <<len, use, tableBits, win, taken, out>>

------------------------------------------------------------------------------
(* BitReader::refill.  The fast path ORs in eight bytes; all of them that    *)
(* fit entirely are counted, the bits of the next one stay as residue.  The  *)
(* slow path merges byte by byte until more than 56 bits are there, and      *)
(* merges zero bytes, with pos at rest, once the data is used up.            *)
FastRefill(n, w) ==
  [acc  |-> Load(n, w.acc, w.pos, w.fill, AccBits),
   fill |-> w.fill + 8 * Room(w.fill),
   pos  |-> w.pos + Room(w.fill)]

SlowRefill(n, w) ==
  LET to == w.fill + 8 * Room(w.fill)
  IN  [acc  |-> Load(n, w.acc, w.pos, w.fill, to),
       fill |-> to,
       pos  |-> Least(n, w.pos + Room(w.fill))]

(* An earlier version stopped after a single pad byte at the end of data. *)
SlowRefillOnePad(n, w) ==
  LET bytes == Least(Room(w.fill), n - w.pos + 1)
      to    == w.fill + 8 * bytes
  IN  [acc  |-> Load(n, w.acc, w.pos, w.fill, to),
       fill |-> to,
       pos  |-> Least(n, w.pos + bytes)]

(* The fast path counting the partly merged byte as consumed. *)
RefillRoundUp(n, w) ==
  IF w.fill <= 56 /\ w.pos + 8 <= n
  THEN [acc  |-> Load(n, w.acc, w.pos, w.fill, AccBits),
        fill |-> AccBits,
        pos  |-> w.pos + (AccBits - w.fill + 7) \div 8]
  ELSE SlowRefill(n, w)

(* The padding loop without its upper bound on pos. *)
RefillPadMoves(n, w) ==
  IF w.fill <= 56 /\ w.pos + 8 <= n
  THEN FastRefill(n, w)
  ELSE [SlowRefill(n, w) EXCEPT !.pos = w.pos + Room(w.fill)]

(* A slow path that runs only when the accumulator is empty. *)
RefillLazy(n, w) ==
  IF w.fill <= 56 /\ w.pos + 8 <= n THEN FastRefill(n, w)
  ELSE IF w.fill = 0 THEN SlowRefill(n, w) ELSE w

RefillOnePad(n, w) ==
  IF w.fill <= 56 /\ w.pos + 8 <= n THEN FastRefill(n, w)
                                    ELSE SlowRefillOnePad(n, w)

Refill(n, w) ==
  IF w.fill <= 56 /\ w.pos + 8 <= n THEN FastRefill(n, w)
                                    ELSE SlowRefill(n, w)

(* BitReader::consume. *)
Consume(n, w, k) ==
  Refill(n, [acc |-> Shl(w.acc, k), fill |-> SatSub(w.fill, k), pos |-> w.pos])

------------------------------------------------------------------------------
(* BitReader::new refills before the first read. *)
ReaderInit ==
  /\ len \in DataLens
  /\ use \in {"symbol", "batch"}
  /\ tableBits \in TableBits
  /\ win = Refill(len, [acc |-> Blank, fill |-> 0, pos |-> 0])
  /\ taken = 0
  /\ out = << >>

(* peek_bits(p), a table lookup, consume(l): HuffmanTable::decode and       *)
(* decode_into_u16, where l = 0 for an unused slot; with l = p it is        *)
(* read_bits and the prefix step of a two-level lookup.                     *)
Lookup(p, l) ==
  /\ taken + l <= 8 * len + Beyond
  /\ out' = Top(win.acc, p)
  /\ win' = Consume(len, win, l)
  /\ taken' = taken + l
  /\ UNCHANGED <<len, use, tableBits>>

(* One round of the loop of decode_single_level_into_u8: refill only when   *)
(* fewer than primary_bits bits are left, peek, shift by the length found.  *)
(* The subtraction is not saturating.                                       *)
BatchSymbol(l) ==
  LET w == IF win.fill < tableBits THEN Refill(len, win) ELSE win
  IN  /\ taken + l <= 8 * len + Beyond
      /\ out' = Top(w.acc, tableBits)
      /\ win' = [acc |-> Shl(w.acc, l), fill |-> w.fill - l, pos |-> w.pos]
      /\ taken' = taken + l
      /\ UNCHANGED <<len, use, tableBits>>

SymbolStep == \E p \in Peeks : \E l \in CodeLens \cap (0 .. p) : Lookup(p, l)
BatchStep  == \E l \in CodeLens \cap (0 .. tableBits) : BatchSymbol(l)

ReaderNext ==
  \/ use = "symbol" /\ SymbolStep
  \/ use = "batch"  /\ BatchStep

ReaderSpec == ReaderInit /\ [][ReaderNext]_readerVars

(* The reader with both interfaces used on the same slice in any order. *)
MixedSpec == ReaderInit /\ [][SymbolStep \/ BatchStep]_readerVars

------------------------------------------------------------------------------
(* Type invariant; its bound on fill says that the batch loop's plain u32   *)
(* subtraction `fill -= len` never underflows.                              *)
ReaderTypeOK ==
  /\ len \in DataLens
  /\ use \in {"symbol", "batch"}
  /\ tableBits \in TableBits
  /\ win \in Windows
  /\ taken \in 0 .. 8 * len + Beyond

(* The accumulator never holds a wrong, stale or doubly merged bit: below    *)
(* `fill` only zeros and the residue the next refill will merge identically, *)
(* which is what makes the OR in refill harmless (bitreader.rs:107-111).     *)
(* And position() is exact: pos stays inside the slice and, until the end of *)
(* data, counts exactly the bytes whose bits are buffered or consumed.       *)
WindowFaithful == Faithful(len, taken, win)

(* Between two per-symbol calls more than 56 bits are buffered, so that any *)
(* peek of up to 32 bits is served from valid bits (refill's contract).     *)
Buffered == use = "symbol" => win.fill > 56

(* Every read delivers exactly the next input bits, as the abstract cursor   *)
(* over a zero-extended stream does: no bit lost, repeated or out of place.  *)
Stream == INSTANCE BitStream WITH cur <- taken, Widths <- Peeks \cup TableBits

StreamSpec == Stream!Spec

(* The step part of StreamSpec as an action property, for the run that mixes *)
(* the two interfaces (bitreader.rs:165-167: after a batch "a subsequent     *)
(* reader call resumes exactly where this left off").                        *)
ResumesExactly ==
  [][\E p \in Peeks \cup TableBits : out' = [i \in 0 .. p - 1 |-> StreamBit(len, taken + i)]]_readerVars
==============================================================================
