----------------------------- MODULE HuffmanTable -----------------------------
(***************************************************************************)
(* huffman.rs, HuffmanTable::build and the lookups over what it builds.    *)
(* build numbers the codes tier by tier from the longest length down, with *)
(* one accumulator that starts at -1 and is halved between tiers, rejects  *)
(* a tier that runs out of codespace, hands the numbers out in symbol      *)
(* order, and spreads every code over a primary table of at most           *)
(* PRIMARY_BITS bits, codes longer than that over a subtable behind it.    *)
(*                                                                         *)
(* One step is one round of one of build's loops; a key is the next        *)
(* max_len bits of a slice.                                                *)
(***************************************************************************)
EXTENDS Integers, FiniteSets, FiniteSetsExt, SequencesExt, Sums

CONSTANTS
  N,                       \* symbols of the alphabet, 1 << depth
  MaxLength,               \* FourccRecord::max_huffman_length
  PrimaryBits,             \* PRIMARY_BITS
  AccSpace                 \* 2^32, the range of the u32 accumulator

(* The length byte that marks a redirect in a packed entry. *)
RedirectMarker == 255

ASSUME HuffmanTableAssumption ==
  /\ N \in Nat \ {0} /\ PrimaryBits \in Nat \ {0}
  /\ MaxLength \in 0 .. RedirectMarker - 1
  /\ AccSpace \in Nat /\ AccSpace > N + Pow2(MaxLength)

VARIABLES
  lengths,                 \* the argument of build
  phase,                   \* the loop build is in, or its result
  tier,                    \* tiers: the length at hand
  acc,                     \* tiers: the accumulator
  cur,                     \* start, then cur: next code of each length
  sym,                     \* codes, fill: the symbol at hand
  code,                    \* code of each symbol
  primary, secondary,      \* the tables
  subIdx                   \* prefix_to_idx: subtable of a prefix, or -1

vars == <<lengths, phase, tier, acc, cur, sym, code, primary, secondary, subIdx>>

Symbols == 0 .. N - 1

(* max_len, and how build splits it. *)
MaxLen      == Max(Range(lengths))
TopBits     == IF MaxLen < PrimaryBits THEN MaxLen ELSE PrimaryBits
SubBits     == MaxLen - TopBits
Used        == {s \in Symbols : lengths[s] > 0}
BlCount(l)  == Cardinality({s \in Symbols : lengths[s] = l})

(* A packed entry: a symbol or subtable index, and a length or the marker of *)
(* a redirect; the tables start out zeroed.                                  *)
Entry(value, len) == [value |-> value, len |-> len]
ZeroEntry         == Entry(0, 0)
Zeroed(bits)      == [k \in 0 .. Pow2(bits) - 1 |-> ZeroEntry]

(* An all-unused descriptor passes every loop and returns before the fill. *)
Init ==
  /\ lengths \in [Symbols -> 0 .. MaxLength]
  /\ phase = IF MaxLen = 0 THEN "built" ELSE "tiers"
  /\ tier = MaxLen
  /\ acc = AccSpace - 1
  /\ cur = [l \in 0 .. MaxLen + 1 |-> 0]
  /\ sym = 0
  /\ code = [s \in Symbols |-> 0]
  /\ primary = Zeroed(TopBits)
  /\ secondary = << >>
  /\ subIdx = [k \in DOMAIN primary |-> -1]

------------------------------------------------------------------------------
(* The tier loop.  Its check compares the last code of the tier, `top`.      *)
OverfullLate(l, top) == Pow2(l) < top
Overfull(l, top)     == Pow2(l) <= top

(* A number of codes carried to the next tier without halving it. *)
NextAccKeeps(top) == top
NextAcc(top)      == top \div 2

Tier ==
  LET top == (acc + BlCount(tier)) % AccSpace
  IN  /\ phase = "tiers"
      /\ cur' = [cur EXCEPT ![tier] = (acc + 1) % AccSpace]
      /\ IF Overfull(tier, top)
         THEN phase' = "overfull" /\ UNCHANGED <<tier, acc>>
         ELSE /\ acc' = NextAcc(top)
              /\ tier' = tier - 1
              /\ phase' = IF tier = 1 THEN "codes" ELSE "tiers"
      /\ UNCHANGED <<lengths, sym, code, primary, secondary, subIdx>>

(* One round of the two loops over the symbols. *)
ForSymbol(here, after) ==
  /\ phase = here
  /\ phase' = IF sym = N - 1 THEN after ELSE here
  /\ sym'   = IF sym = N - 1 THEN 0 ELSE sym + 1
  /\ UNCHANGED <<lengths, tier, acc>>

AssignCode ==
  /\ ForSymbol("codes", "fill")
  /\ LET l == lengths[sym]
     IN  IF l = 0
         THEN UNCHANGED <<code, cur>>
         ELSE /\ code' = [code EXCEPT ![sym] = cur[l]]
              /\ cur' = [cur EXCEPT ![l] = @ + 1]
  /\ UNCHANGED <<primary, secondary, subIdx>>

(* Entries base .. base + 2^shift - 1 of a table; past its end, the table    *)
(* would grow, which TypeOK forbids.                                         *)
Spread(table, base, shift, entry) ==
  LET slots == base .. base + Pow2(shift) - 1
  IN  [k \in DOMAIN table \cup slots |-> IF k \in slots THEN entry ELSE table[k]]

SkipUnused ==
  /\ lengths[sym] = 0
  /\ ForSymbol("fill", "built")
  /\ UNCHANGED <<cur, code, primary, secondary, subIdx>>

(* A code that the primary table holds whole. *)
FillTerminal ==
  LET shift == TopBits - lengths[sym]
  IN  /\ lengths[sym] \in 1 .. TopBits
      /\ ForSymbol("fill", "built")
      /\ primary' = Spread(primary, code[sym] * Pow2(shift), shift, Entry(sym, lengths[sym]))
      /\ UNCHANGED <<cur, code, secondary, subIdx>>

(* A longer code: its first bits redirect to a subtable, made on first use,  *)
(* and its other bits are spread there.                                      *)
SubtableOfFresh(prefix) == Len(secondary)

SubtableOf(prefix) == IF subIdx[prefix] < 0 THEN Len(secondary) ELSE subIdx[prefix]

FillDeferred ==
  LET residBits == lengths[sym] - TopBits
      shift     == SubBits - residBits
      prefix    == code[sym] \div Pow2(residBits)
      resid     == code[sym] % Pow2(residBits)
      sub       == SubtableOf(prefix)
      tables    == IF sub = Len(secondary) THEN Append(secondary, Zeroed(SubBits)) ELSE secondary
  IN  /\ lengths[sym] > TopBits
      /\ ForSymbol("fill", "built")
      /\ secondary' = [tables EXCEPT ![sub + 1] = Spread(@, resid * Pow2(shift), shift, Entry(sym, residBits))]
      /\ primary' = [primary EXCEPT ![prefix] = Entry(sub, RedirectMarker)]
      /\ subIdx' = [subIdx EXCEPT ![prefix] = sub]
      /\ UNCHANGED <<cur, code>>

Next == Tier \/ AssignCode \/ SkipUnused \/ FillTerminal \/ FillDeferred

Spec == Init /\ [][Next]_vars

------------------------------------------------------------------------------
(* What decode_checked, decode_into_u16 and, on a single-level table, the    *)
(* batch loop make of the next bits: a symbol, the bits consumed, and        *)
(* whether the slot was one of a real code.                                  *)
Decoded(s, len, valid) == [sym |-> s, len |-> len, valid |-> valid]

LookupSub(sub, key) ==
  LET e == secondary[sub + 1][key % Pow2(SubBits)]
  IN  Decoded(e.value, TopBits + e.len, e.len # 0)

LookupSubUnchecked(sub, key) ==
  LET e == secondary[sub + 1][key % Pow2(SubBits)]
  IN  Decoded(e.value, TopBits + e.len, TRUE)

DecodeSubUnchecked(key) ==
  LET e == primary[key \div Pow2(SubBits)]
  IN  IF e.len = RedirectMarker THEN LookupSubUnchecked(e.value, key)
      ELSE Decoded(e.value, e.len, e.len # 0)

Decode(key) ==
  LET e == primary[key \div Pow2(SubBits)]
  IN  IF MaxLen = 0 THEN Decoded(0, 0, FALSE)
      ELSE IF e.len = RedirectMarker THEN LookupSub(e.value, key)
      ELSE Decoded(e.value, e.len, e.len # 0)

------------------------------------------------------------------------------
Entries == [value : Nat, len : 0 .. MaxLength \cup {RedirectMarker}]

(* Type invariant; its bounds on the codes say that no write of the fill    *)
(* loops is past the end of its table (an index panic in build).            *)
TypeOK ==
  /\ lengths \in [Symbols -> 0 .. MaxLength]
  /\ phase \in {"tiers", "codes", "fill", "built", "overfull"}
  /\ tier \in 0 .. MaxLen /\ sym \in Symbols
  /\ acc \in 0 .. AccSpace - 1
  /\ \A s \in Used : code[s] \in 0 .. Pow2(lengths[s]) - 1
  /\ DOMAIN primary = 0 .. Pow2(TopBits) - 1
  /\ Range(primary) \subseteq Entries
  /\ \A i \in DOMAIN secondary :
       /\ DOMAIN secondary[i] = 0 .. Pow2(SubBits) - 1
       /\ Range(secondary[i]) \subseteq Entries
  /\ subIdx \in [DOMAIN primary -> -1 .. Len(secondary) - 1]

(* The running check of the tier loop is Kraft's inequality and nothing      *)
(* else: build refuses exactly the lengths no prefix code has, whatever the  *)
(* rounding of the accumulator between tiers and its start at -1 mod 2^32.   *)
Share(s) == IF lengths[s] = 0 THEN 0 ELSE Pow2(MaxLen - lengths[s])
KraftSum == Sum([i \in 1 .. N |-> Share(i - 1)], N)

KraftDecides ==
  /\ phase = "overfull" => KraftSum > Pow2(MaxLen)
  /\ phase \in {"codes", "fill", "built"} => KraftSum <= Pow2(MaxLen)

(* Filling never takes a slot back: what a symbol wrote stays, in the        *)
(* primary table and in every subtable, whatever the order of the symbols.   *)
Keeps(old, new) == \A k \in DOMAIN old : old[k] # ZeroEntry => new[k] = old[k]

WrittenOnce ==
  [][/\ Keeps(primary, primary')
     /\ \A i \in DOMAIN secondary : Keeps(secondary[i], secondary'[i])]_vars

(* A built table decodes: for every string of max_len bits it finds the      *)
(* symbol whose code the string begins with and that code's length, and      *)
(* flags exactly the strings that begin with no code.                        *)
Heads(s, key) == code[s] = key \div Pow2(MaxLen - lengths[s])

DecodeExact ==
  phase = "built" =>
    \A key \in 0 .. Pow2(MaxLen) - 1 :
      LET d == Decode(key)
      IN  /\ d.valid <=> \E s \in Used : Heads(s, key)
          /\ d.valid => d.sym \in Used /\ Heads(d.sym, key) /\ d.len = lengths[d.sym]

(* The documentation of is_empty (huffman.rs:347-351): an under-full         *)
(* descriptor is rejected before a table is ever returned, "so a built table *)
(* is always complete".                                                      *)
BuiltComplete == phase = "built" /\ Used # {} => KraftSum = Pow2(MaxLen)
==============================================================================
