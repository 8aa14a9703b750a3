------------------------------ MODULE ClockGate ------------------------------
(***************************************************************************)
(* What the IPA clock vote promises its users, without mutex, works or     *)
(* register writes: a number of votes and a hardware block that may be     *)
(* used or not.  A vote is granted only while the block is usable, and the *)
(* block changes only while there is no vote.                              *)
(***************************************************************************)
EXTENDS Integers

VARIABLES votes, usable
gateVars == <<votes, usable>>

Init == votes = 1 /\ usable = TRUE          \* the vote of the driver's probe

Vote == usable /\ votes' = votes + 1 /\ UNCHANGED usable

Unvote == votes > 0 /\ votes' = votes - 1 /\ UNCHANGED usable

Switch == votes = 0 /\ usable' = ~usable /\ UNCHANGED votes

Next == Vote \/ Unvote \/ Switch

Spec == Init /\ [][Next]_gateVars
=============================================================================
