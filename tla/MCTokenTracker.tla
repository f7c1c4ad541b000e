--------------------------- MODULE MCTokenTracker ---------------------------
(* The token tracker as TLC checks it.                                     *)
EXTENDS TokenTracker, TLC

\* Transcripts are alike.
Symmetry == Permutations(File)
=============================================================================
