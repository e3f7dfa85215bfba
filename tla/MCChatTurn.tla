------------------------------ MODULE MCChatTurn ------------------------------
(* Instances of ChatTurn for TLC. *)
EXTENDS ChatTurn, TLC

CONSTANTS m1, l1, l2

OneScope  == {Global}
MCScopes  == {Global, m1}
Material  == {m1}
MCLoads   == {l1, l2}
None      == {}
LoadSlots == Permutations(MCLoads)
=============================================================================
