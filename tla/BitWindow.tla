------------------------------ MODULE BitWindow ------------------------------
(***************************************************************************)
(* The 64-bit accumulator shared by the bit-level readers of bitreader.rs: *)
(* BitReader and unpack_raw_bits_to_u16.                                   *)
(*                                                                         *)
(* Bits are symbolic.  An accumulator bit does not hold 0 or 1 but the     *)
(* index of the input bit it was loaded from, or Zero for a bit that is 0  *)
(* whatever the input (shifted in, or padded past the end of the data).    *)
(* What a reader delivers is then checked for every input at once: a bit   *)
(* in the wrong place is a wrong index, not a coincidence of the data.     *)
(* Index 0 is the most significant bit, the next one to be delivered.      *)
(***************************************************************************)
EXTENDS Integers

AccBits == 64              \* u64
Zero    == -1              \* a bit that is 0 for every input
Clash   == -2              \* two different input bits ORed into one place

Slots == 0 .. AccBits - 1

(* Bit k of an n-byte input that is followed by zeros without end. *)
StreamBit(n, k) == IF k < 8 * n THEN k ELSE Zero

(* x | y for symbolic bits: idempotent, Zero is neutral. *)
Or(x, y) ==
  IF y = Zero \/ x = y THEN x ELSE IF x = Zero THEN y ELSE Clash

Blank == [i \in Slots |-> Zero]

(* acc << k. *)
Shl(acc, k) == [i \in Slots |-> IF i + k < AccBits THEN acc[i + k] ELSE Zero]

(* acc >> (64 - p): the p bits a peek delivers, most significant first. *)
Top(acc, p) == [i \in 0 .. p - 1 |-> acc[i]]

(* acc | (the input from byte pos on, aligned to bit `from`), limited to the *)
(* accumulator bits from .. to - 1.                                          *)
Load(n, acc, pos, from, to) ==
  [i \in Slots |-> IF i \in from .. to - 1
                   THEN Or(acc[i], StreamBit(n, 8 * pos + (i - from)))
                   ELSE acc[i]]

(* Whole bytes that fit above bit 64 when the top `fill` bits are taken. *)
Room(fill) == (AccBits - fill) \div 8

Least(a, b) == IF a < b THEN a ELSE b

(* u32::saturating_sub. *)
SatSub(a, b) == IF b > a THEN 0 ELSE a - b

------------------------------------------------------------------------------
(* What every reader keeps true of its window onto an n-byte input when c    *)
(* bits have been delivered: the top `fill` bits are the next input bits;    *)
(* below them sits 0 or the residue of a partly merged byte, which is the    *)
(* very bit the next merge will OR in; and `pos` accounts for every bit.     *)
Windows == [acc : [Slots -> Int], fill : 0 .. AccBits, pos : Nat]

AtEnd(n, c, w) == w.pos = n /\ c + w.fill >= 8 * n

Faithful(n, c, w) ==
  /\ w \in Windows
  /\ w.pos <= n
  /\ \A i \in Slots :
       \/ w.acc[i] = StreamBit(n, c + i)
       \/ i >= w.fill /\ w.acc[i] = Zero
  /\ c + w.fill = 8 * w.pos \/ AtEnd(n, c, w)
==============================================================================
