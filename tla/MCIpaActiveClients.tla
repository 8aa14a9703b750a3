------------------------- MODULE MCIpaActiveClients -------------------------
(* IpaActiveClients for TLC: the threads but the boot one are alike, and   *)
(* so are the scaling contexts.                                            *)
EXTENDS IpaActiveClients, TLC

Symmetry == Permutations(Threads \ {Boot}) \union Permutations(Scalers)
=============================================================================
