------------------------------ MODULE MCIpaPm ------------------------------
(* IpaPm for TLC: callers are alike.                                       *)
EXTENDS IpaPm, TLC

Symmetry == Permutations(Callers)
=============================================================================
