--------------------------- MODULE MCIpaPmScaling ---------------------------
(* IpaPmScaling for TLC.                                                   *)
EXTENDS IpaPmScaling, TLC

CONSTANTS usb, rmnet

Groups == [n \in Names |-> IF n = rmnet THEN "apps" ELSE "default"]

\* Thresholds low enough for the bounded throughputs to cross them.
LowHigh == <<1, 2>>

\* A list, and a single client.
ListAndOne == << [clients |-> {rmnet, usb}, threshold |-> <<0, 0>>],
                 [clients |-> {usb}, threshold |-> <<0, 1>>] >>

Symmetry == Permutations(Contexts)
=============================================================================
