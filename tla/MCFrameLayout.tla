----------------------------- MODULE MCFrameLayout -----------------------------
(* Frames of one or a few pixels in every family and depth class, with bytes  *)
(* of two bits and samples of two and three bits; slice heights 0, smaller    *)
(* than, equal to and beyond the frame's; parameters make_encoder refuses.    *)
EXTENDS FrameLayout

P(tag, w, h, sh) == [tag |-> tag, width |-> w, height |-> h, sliceHeight |-> sh]

Good ==
  {P(tag, 1, 1, 0) : tag \in {"M8RG", "M8RA", "M8YA", "M8G0", "M0RG", "M4RA", "M0G0"}}
  \cup {P("M8RG", 2, 1, 5), P("M0RG", 1, 2, 1)}
  \cup {P("M8Y2", 2, 1, 1), P("M8Y0", 2, 2, 0), P("M0Y2", 2, 1, 0), P("M0Y4", 1, 1, 0)}

Refused ==
  {P("M8RG", 0, 1, 0), P("M8RG", 1, 0, 0), P("AVC1", 1, 1, 0), P("M8Y0", 1, 2, 0),
   P("M8Y0", 2, 1, 0)}

MCParams == Good \cup Refused

MCPatterns == [1 .. 4 -> {0, 1, 3}] \cup {<<a, b, c, 11>> : a, b, c \in {0, 7, 8, 15}}

MCFaults == {"none", "planeMissing", "byteMissing"}
================================================================================
