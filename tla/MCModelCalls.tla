----------------------------- MODULE MCModelCalls -----------------------------
(* An instance of ModelCalls for TLC. *)
EXTENDS ModelCalls

CONSTANTS s1, s2, a1

MCCalls == {s1, s2, a1}
MCAsync == {a1}
=============================================================================
