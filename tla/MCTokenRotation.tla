--------------------------- MODULE MCTokenRotation ---------------------------
(* An instance of TokenRotation for TLC. *)
EXTENDS TokenRotation, TLC

CONSTANTS b1, b2, c1, c2

MCTabs  == {b1, b2}
MCCalls == {c1, c2}
Symmetric == Permutations(MCTabs) \cup Permutations(MCCalls)
=============================================================================
