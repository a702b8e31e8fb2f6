---------------------------- MODULE MCEncodedTable ----------------------------
(* A six-symbol alphabet and a primary table of 2 bits, so that codes of     *)
(* lengths 3 and 4 are deferred.  Every table of lengths up to 4; and the    *)
(* lengths the encoder gives to every histogram with counts up to 3, to      *)
(* rising, falling and folded ones with counts up to 4, and to rising ones   *)
(* of Fibonacci numbers, whose trees are up to five deep: a cap of 4, 3 or 2 *)
(* sends those through package-merge, and a cap of 2 with four symbols       *)
(* leaves one code.                                                          *)
EXTENDS EncodedTable

Rising(counts) == {h \in [Symbols -> counts] : \A s \in 1 .. N - 1 : h[s - 1] <= h[s]}

Falling(h) == [s \in Symbols |-> h[N - 1 - s]]
Folded(h)  == [s \in Symbols |-> IF 2 * s < N THEN h[2 * s] ELSE h[2 * (N - 1 - s) + 1]]

MCHistograms ==
  [Symbols -> 0 .. 3]
    \cup UNION {{h, Falling(h), Folded(h)} : h \in Rising(0 .. 4)}
    \cup Rising({1, 2, 3, 5, 8})

MCCaps == 2 .. 4
==============================================================================
