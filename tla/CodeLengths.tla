----------------------------- MODULE CodeLengths -----------------------------
(***************************************************************************)
(* encoder.rs, from the histogram of a plane's residuals to the lengths of *)
(* its codes: canonical_huffman_lengths, and package_merge_lengths for the *)
(* trees that are too deep.  A histogram is a function from the symbols    *)
(* 0 .. n - 1 to their counts.                                             *)
(***************************************************************************)
EXTENDS Integers, FiniteSets, Sequences, Sums

CONSTANT
  FirstTag                 \* next_tag of the first inner node, 0x1000_0000

Active(hist) == {s \in DOMAIN hist : hist[s] > 0}

AtLeast1(k) == IF k < 1 THEN 1 ELSE k

------------------------------------------------------------------------------
(* canonical_huffman_lengths.  A node is its weight, its tag and, in place   *)
(* of child indices, the depth below it of each symbol it covers.            *)
Leaf(hist, s) == [freq |-> hist[s], tag |-> s, depth |-> [x \in {s} |-> 0]]

Joined(a, b, tag) ==
  [freq  |-> a.freq + b.freq,
   tag   |-> tag,
   depth |-> [s \in DOMAIN a.depth \cup DOMAIN b.depth |->
                1 + (IF s \in DOMAIN a.depth THEN a.depth[s] ELSE b.depth[s])]]

(* The order of the heap. *)
Before(a, b) == a.freq < b.freq \/ (a.freq = b.freq /\ a.tag < b.tag)

First(nodes) == CHOOSE a \in nodes : \A b \in nodes \ {a} : Before(a, b)

(* One round of the loop: the two first nodes become one. *)
Round(nodes, tag) ==
  LET a == First(nodes)
      b == First(nodes \ {a})
  IN  (nodes \ {a, b}) \cup {Joined(a, b, tag)}

(* The heap after each number of rounds; the last has the root alone.        *)
Heaps(hist) ==
  LET heap[k \in 0 .. Cardinality(Active(hist)) - 1] ==
        IF k = 0 THEN {Leaf(hist, s) : s \in Active(hist)}
        ELSE Round(heap[k - 1], FirstTag + k - 1)
  IN  heap

Root(hist) == First(Heaps(hist)[Cardinality(Active(hist)) - 1])

TreeLengths(hist) ==
  LET root == Root(hist)
  IN  [s \in DOMAIN hist |-> IF s \in Active(hist) THEN AtLeast1(root.depth[s]) ELSE 0]

------------------------------------------------------------------------------
(* package_merge_lengths.  The active symbols by weight, then by symbol.     *)
Rank(hist, s) ==
  Cardinality({t \in Active(hist) : hist[t] < hist[s] \/ (hist[t] = hist[s] /\ t <= s)})

Ordered(hist) ==
  [i \in 1 .. Cardinality(Active(hist)) |-> CHOOSE s \in Active(hist) : Rank(hist, s) = i]

(* An item is its weight and how often it holds each active symbol.          *)
Item(weight, leaves) == [weight |-> weight, leaves |-> leaves]

LeafItems(hist) ==
  [i \in DOMAIN Ordered(hist) |->
     LET s == Ordered(hist)[i]
     IN  Item(hist[s], [t \in Active(hist) |-> IF t = s THEN 1 ELSE 0])]

(* Neighbours joined in pairs, an odd item at the end dropped.               *)
Packaged(items) ==
  [j \in 1 .. Len(items) \div 2 |->
     LET x == items[2 * j - 1]
         y == items[2 * j]
     IN  Item(x.weight + y.weight, [s \in DOMAIN x.leaves |-> x.leaves[s] + y.leaves[s]])]

(* A merge that only appends the packages to the leaves.                     *)
MergedAppend(leaves, packages) == leaves \o packages

(* The merge of two ascending lists, a leaf first at equal weight: how many  *)
(* leaves are among the first p items.                                       *)
LeafNext(leaves, packages, a, b) ==
  /\ a < Len(leaves)
  /\ b < Len(packages) => leaves[a + 1].weight <= packages[b + 1].weight

LeavesAmong(leaves, packages) ==
  LET among[p \in 0 .. Len(leaves) + Len(packages)] ==
        IF p = 0 THEN 0
        ELSE LET a == among[p - 1]
             IN  IF LeafNext(leaves, packages, a, p - 1 - a) THEN a + 1 ELSE a
  IN  among

Merged(leaves, packages) ==
  LET among == LeavesAmong(leaves, packages)
  IN  [p \in 1 .. Len(leaves) + Len(packages) |->
         IF among[p] > among[p - 1] THEN leaves[among[p]] ELSE packages[p - among[p]]]

(* The lists of all levels, the deepest first.                               *)
Levels(hist, cap) ==
  LET level[k \in 1 .. cap] ==
        IF k = 1 THEN LeafItems(hist)
        ELSE Merged(LeafItems(hist), Packaged(level[k - 1]))
  IN  level

(* The 2m - 2 cheapest items: how often they hold a symbol is its length.    *)
Need(hist, items) ==
  LET need == 2 * Cardinality(Active(hist)) - 2
  IN  IF Len(items) < need THEN Len(items) ELSE need

Held(items, n, s) == Sum([p \in 1 .. n |-> items[p].leaves[s]], n)

PackageMergeLengths(hist, cap) ==
  LET top == Levels(hist, cap)[cap]
  IN  [s \in DOMAIN hist |->
         IF s \notin Active(hist) THEN 0
         ELSE IF Cardinality(Active(hist)) = 1 THEN 1
         ELSE AtLeast1(Held(top, Need(hist, top), s))]

------------------------------------------------------------------------------
(* The tree if it fits under the cap, package-merge if not; and a cap that   *)
(* cuts the lengths off instead.                                             *)
CanonicalHuffmanLengthsClamped(hist, cap) ==
  [s \in DOMAIN hist |->
     LET l == TreeLengths(hist)[s] IN IF l > cap THEN cap ELSE l]

CanonicalHuffmanLengths(hist, cap) ==
  LET free == TreeLengths(hist)
  IN  IF \A s \in DOMAIN hist : free[s] <= cap
      THEN free
      ELSE PackageMergeLengths(hist, cap)
==============================================================================
