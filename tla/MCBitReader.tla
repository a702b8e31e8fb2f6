----------------------------- MODULE MCBitReader -----------------------------
(* Slice lengths on both sides of the 8-byte fast load, peeks that leave     *)
(* residue (odd widths) and the widest peek and table in the code.           *)
EXTENDS BitReader

MCDataLens  == {0, 1, 3, 7, 8, 9, 12, 17, 25}
MCPeeks     == {5, 18, 32}
MCTableBits == {5, 12}
MCCodeLens  == {0, 1, 3, 5, 12, 18, 32}
==============================================================================
