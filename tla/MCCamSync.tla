----------------------------- MODULE MCCamSync -----------------------------
(* CamSync for TLC: rows of one use are alike, and so are threads.           *)
EXTENDS CamSync, TLC

Symmetry == Permutations(Singles) \union Permutations(Rows \ Singles) \union Permutations(Threads)
=============================================================================
