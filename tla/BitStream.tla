------------------------------ MODULE BitStream ------------------------------
(***************************************************************************)
(* What the bit-level readers promise their callers: one cursor over the   *)
(* input bits, most significant first, zero beyond the end of the data.    *)
(* No accumulator, no refill: BitReader and RawUnpack implement this.      *)
(***************************************************************************)
EXTENDS BitWindow

CONSTANT Widths            \* the widths in bits a caller may ask for

VARIABLES
  len,                     \* bytes of input
  cur,                     \* input bits consumed so far
  out                      \* the bits the last operation delivered

streamVars == <<len, cur, out>>

Init ==
  /\ len \in Nat
  /\ cur = 0
  /\ out = << >>

(* Deliver the next p bits and advance the cursor by l of them. *)
Take(p, l) ==
  /\ cur' = cur + l
  /\ out' = [i \in 0 .. p - 1 |-> StreamBit(len, cur + i)]
  /\ UNCHANGED len

Next == \E p \in Widths : \E l \in 0 .. p : Take(p, l)

Spec == Init /\ [][Next]_streamVars
==============================================================================
