---------------------------- MODULE MCEncodeDecode ----------------------------
(* Frames of a few samples: one and several slices per plane, a last slice   *)
(* that is short, chroma planes with rows of their own, raw slices that end  *)
(* inside a byte (3 samples of 10 bits), planes of a single sample; inputs   *)
(* with a plane missing, of the wrong width or length.  Descriptors of even  *)
(* and odd size, so that frames of both parities are padded.                 *)
EXTENDS EncodeDecode

Good(rec, w, h, sh) ==
  [p \in 1 .. rec.planes |->
     [deep |-> rec.depth > 8,
      len |-> LET g == PlaneGeom(rec, p - 1, w, h, sh) IN g.width * g.height]]

Request(name, w, h, sh, strategy, mode) ==
  [rec |-> FourccTable[name], width |-> w, height |-> h, sliceHeight |-> sh,
   planes |-> Good(FourccTable[name], w, h, sh), strategy |-> strategy, mode |-> mode]

Modes == {"Huffman", "Raw", "Auto"}

Legal ==
  {Request("M8G0", 2, 3, 2, st, m) : st \in {"Dynamic", "Left"}, m \in Modes}
  \cup {Request("M0G0", 3, 2, 1, "Dynamic", m) : m \in Modes}
  \cup {Request("M8Y0", 4, 4, 2, "Median", m) : m \in Modes}
  \cup {Request("M0Y2", 2, 2, 4, "Gradient", m) : m \in Modes}
  \cup {Request("M8RA", 1, 1, 1, "Left", "Auto"), Request("M8YA", 2, 3, 2, "Left", "Auto"),
        Request("M8Y2", 4, 3, 2, "Median", "Auto"), Request("M4RG", 1, 2, 1, "Left", "Auto"),
        Request("M2RA", 1, 1, 4, "Left", "Auto")}

OneWrong(r) ==
  {[r EXCEPT !.planes = SubSeq(@, 1, Len(@) - 1)],
   [r EXCEPT !.planes[1].deep = ~ @],
   [r EXCEPT !.planes[Len(r.planes)].len = @ + 1]}

Refused ==
  UNION {OneWrong(r) : r \in Legal}
  \cup {Request("M8Y0", 3, 4, 2, "Left", "Auto"), Request("M8Y0", 4, 3, 2, "Left", "Auto"),
        Request("M8Y0", 4, 4, 3, "Left", "Auto")}

MCRequests == Legal \cup Refused

Table(size, minLen, maxLen) ==
  [size |-> size, minLen |-> minLen, maxLen |-> maxLen, complete |-> maxLen > 1]

MCTables    == {Table(4, 1, 1), Table(5, 1, 12), Table(6, 2, 18)}
MCExtraBits == {0, 9, 30}

(* A slice height of 0.                                                      *)
MCZeroSlice ==
  {Request(name, 2, 2, sh, "Left", m) : name \in {"M8G0", "M8Y0"}, sh \in {0, 2}, m \in Modes}

(* Frames longer than the range of a slice table entry.                      *)
MCLong == {Request("M8G0", 8, 8, sh, "Left", "Raw") : sh \in {2, 4, 8}}
==============================================================================
