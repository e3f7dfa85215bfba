----------------------------- MODULE MCAdmission -----------------------------
(* An instance of Admission for TLC. *)
EXTENDS Admission, TLC

CONSTANTS c1, c2

MCCalls == {c1, c2}
Symmetric == Permutations(MCCalls)
=============================================================================
