----------------------------- MODULE MCImageJob -----------------------------
(* Small instances of ImageJob. *)
EXTENDS ImageJob
CONSTANTS j1, j2, w1, w2, c1, c2
=============================================================================
