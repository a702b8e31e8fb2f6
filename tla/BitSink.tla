------------------------------- MODULE BitSink -------------------------------
(***************************************************************************)
(* What the bit writers of encoder.rs promise: the bits they are given     *)
(* come out in order, most significant first, as bytes, and the last byte  *)
(* is filled up with zeros.  The mirror image of BitStream: bit k of the   *)
(* bytes that come out is the k-th bit that went in.                       *)
(***************************************************************************)
EXTENDS BitWindow

CONSTANT Widths            \* the widths in bits a caller may hand over

VARIABLES
  accepted,                \* bits handed over so far
  emitted,                 \* bytes that have come out
  byte,                    \* the last of them, as symbolic bits
  closed                   \* the caller has taken the bytes

sinkVars == <<accepted, emitted, byte, closed>>

Init ==
  /\ accepted = 0
  /\ emitted = 0
  /\ byte = << >>
  /\ closed = FALSE

(* Every whole byte is out before the next bits are accepted. *)
Drained == emitted = accepted \div 8

Accept(l) ==
  /\ ~ closed /\ Drained
  /\ accepted' = accepted + l
  /\ UNCHANGED <<emitted, byte, closed>>

ByteAt(n) ==
  [i \in 0 .. 7 |-> IF 8 * n + i < accepted THEN 8 * n + i ELSE Zero]

Emit ==
  /\ ~ closed /\ ~ Drained
  /\ emitted' = emitted + 1
  /\ byte' = ByteAt(emitted)
  /\ UNCHANGED <<accepted, closed>>

Close ==
  /\ ~ closed /\ Drained
  /\ closed' = TRUE
  /\ IF accepted % 8 = 0
     THEN UNCHANGED <<emitted, byte>>
     ELSE emitted' = emitted + 1 /\ byte' = ByteAt(emitted)
  /\ UNCHANGED accepted

Next == (\E l \in Widths : Accept(l)) \/ Emit \/ Close

Spec == Init /\ [][Next]_sinkVars
==============================================================================
