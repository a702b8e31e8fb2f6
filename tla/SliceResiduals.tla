---------------------------- MODULE SliceResiduals ----------------------------
(***************************************************************************)
(* encoder.rs, build_slice_residuals_u8_into and _u16_into, called for one *)
(* slice after another with the same two scratch buffers.  Dynamic tries   *)
(* Left in trial_a, Gradient in trial_b and Median in whichever of them    *)
(* lost, and appends the winner to the plane's residuals; Fixed works in   *)
(* the residuals themselves.  What the predictors make of the pixels is    *)
(* Predict.tla's matter: here each yields some block of residuals.         *)
(***************************************************************************)
EXTENDS Sums, Sequences, FiniteSetsExt

CONSTANTS
  Blocks,                  \* blocks of residuals a predictor may produce
  Modulus,                 \* 1 << bit_depth
  MaxSlices                \* bound on the slices of the planes

Kinds == {"Left", "Gradient", "Median"}

ASSUME SliceResidualsAssumption ==
  /\ Modulus \in Nat \ {0} /\ Modulus % 2 = 0
  /\ Blocks \subseteq Seq(0 .. Modulus - 1)
  /\ MaxSlices \in Nat

VARIABLES
  slice,                   \* slices done; numbers the current one
  strategy,                \* PredictorStrategy: "Dynamic" or the Fixed kind
  yields,                  \* the block each predictor makes of this slice
  step,                    \* how far the current call has come
  trialA, trialB,          \* the scratch buffers, as they were left
  bestInA, bestKind, bestScore,
  last,                    \* history: the block appended last
  chosen                   \* and the kind returned with it

residualVars == <<slice, strategy, yields, step, trialA, trialB, bestInA, bestKind,
                  bestScore, last, chosen>>

(* What a buffer holds: residuals of a kind of predictor over one slice. *)
Filled(kind) == [slice |-> slice, kind |-> kind, block |-> yields[kind]]
Empty        == [slice |-> 0, kind |-> "none", block |-> << >>]

(* abs_signed_sum: residuals from half the range on are negative.  (Without  *)
(* the sign.)                                                                *)
MagnitudeUnsigned(r) == r
Magnitude(r) == IF r >= Modulus \div 2 THEN Modulus - r ELSE r

Score(buffer) ==
  Sum([i \in DOMAIN buffer.block |-> Magnitude(buffer.block[i])], Len(buffer.block))

ResidualsInit ==
  /\ slice = 0
  /\ strategy \in Kinds \cup {"Dynamic"}
  /\ yields \in [Kinds -> Blocks]
  /\ step = "done"
  /\ trialA = Empty /\ trialB = Empty
  /\ bestInA = TRUE /\ bestKind = "Left" /\ bestScore = 0
  /\ last = Empty /\ chosen = "Left"

NextSlice(y) ==
  /\ step = "done"
  /\ slice < MaxSlices
  /\ slice' = slice + 1
  /\ yields' = y
  /\ step' = IF strategy = "Dynamic" THEN "left" ELSE "fixed"
  /\ UNCHANGED <<strategy, trialA, trialB, bestInA, bestKind, bestScore, last, chosen>>

Fixed ==
  /\ step = "fixed"
  /\ last' = Filled(strategy)
  /\ chosen' = strategy
  /\ step' = "done"
  /\ UNCHANGED <<slice, strategy, yields, trialA, trialB, bestInA, bestKind, bestScore>>

TryLeft ==
  /\ step = "left"
  /\ trialA' = Filled("Left")
  /\ bestKind' = "Left" /\ bestInA' = TRUE /\ bestScore' = Score(trialA')
  /\ step' = "gradient"
  /\ UNCHANGED <<slice, strategy, yields, trialB, last, chosen>>

TryGradient ==
  /\ step = "gradient"
  /\ trialB' = Filled("Gradient")
  /\ IF Score(trialB') < bestScore
     THEN bestKind' = "Gradient" /\ bestInA' = FALSE /\ bestScore' = Score(trialB')
     ELSE UNCHANGED <<bestKind, bestInA, bestScore>>
  /\ step' = "median"
  /\ UNCHANGED <<slice, strategy, yields, trialA, last, chosen>>

(* Median goes where the loser is; a trial that always takes trial_b.        *)
LoserIsAAlways == FALSE
LoserIsA       == ~ bestInA

TryMedian ==
  /\ step = "median"
  /\ IF LoserIsA
     THEN trialA' = Filled("Median") /\ UNCHANGED trialB
     ELSE trialB' = Filled("Median") /\ UNCHANGED trialA
  /\ IF Score(Filled("Median")) < bestScore
     THEN bestKind' = "Median" /\ bestInA' = ~ bestInA
     ELSE UNCHANGED <<bestKind, bestInA>>
  /\ step' = "append"
  /\ UNCHANGED <<slice, strategy, yields, bestScore, last, chosen>>

AppendWinner ==
  /\ step = "append"
  /\ last' = IF bestInA THEN trialA ELSE trialB
  /\ chosen' = bestKind
  /\ step' = "done"
  /\ UNCHANGED <<slice, strategy, yields, trialA, trialB, bestInA, bestKind, bestScore>>

ResidualsNext ==
  \/ \E y \in [Kinds -> Blocks] : NextSlice(y)
  \/ Fixed
  \/ TryLeft \/ TryGradient \/ TryMedian \/ AppendWinner

ResidualsSpec == ResidualsInit /\ [][ResidualsNext]_residualVars

------------------------------------------------------------------------------
(* The residuals that go into the stream are this slice's, not those an      *)
(* earlier slice left in a buffer, and were made by the predictor whose id   *)
(* the slice will carry: else the decoder undoes the wrong prediction.       *)
ResidualsMatchId ==
  step = "done" /\ slice > 0 => last = Filled(chosen)

(* "Pick the minimiser, ties broken by predictor-id ascending"               *)
(* (encoder.rs 1311-1313), the cost of a residual being its distance from 0  *)
(* around the circle of samples: no other kind costs less, and none that     *)
(* costs the same has a lower id.                                            *)
Cost(kind) ==
  Sum([i \in DOMAIN yields[kind] |-> Min({yields[kind][i], Modulus - yields[kind][i]})],
      Len(yields[kind]))

Id(kind) == CASE kind = "Left" -> 1 [] kind = "Gradient" -> 2 [] kind = "Median" -> 3

ChoiceMinimal ==
  step = "done" /\ slice > 0 /\ strategy = "Dynamic" =>
    \A k \in Kinds :
      \/ Cost(k) > Cost(chosen)
      \/ Cost(k) = Cost(chosen) /\ Id(k) >= Id(chosen)
==============================================================================
