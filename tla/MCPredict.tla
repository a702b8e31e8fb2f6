------------------------------- MODULE MCPredict -------------------------------
(* Slices of three rows of two samples: two rows below the header row when    *)
(* progressive, one below the two header rows when interlaced.                *)
EXTENDS Predict
==============================================================================
