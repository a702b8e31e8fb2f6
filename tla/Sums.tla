--------------------------------- MODULE Sums ---------------------------------
(***************************************************************************)
(* The running totals of the codec's loops: sizes of descriptors and       *)
(* payloads, costs of residuals, samples of planes, shares of a code       *)
(* space.  Recursive functions, so that what they compute can be proved by *)
(* induction (Lemmas).                                                     *)
(***************************************************************************)
EXTENDS Integers

(* f[1] + ... + f[n]. *)
Sum(f, n) ==
  LET upTo[k \in Nat] == IF k = 0 THEN 0 ELSE upTo[k - 1] + f[k]
  IN  upTo[n]

(* 2 ^ n. *)
Pow2(n) ==
  LET power[k \in Nat] == IF k = 0 THEN 1 ELSE 2 * power[k - 1]
  IN  power[n]
==============================================================================
