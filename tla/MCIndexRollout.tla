---------------------------- MODULE MCIndexRollout ----------------------------
(* Instances of IndexRollout for TLC. *)
EXTENDS IndexRollout

CONSTANTS m1, m2, m3

MCMaterials == {m1, m2, m3}
MCImported  == {m1, m2}
\* m1 is the first to be switched; m2 only at 100 percent; m3 is a new material.
MCCohort == [p \in {10, 50, 100} |->
  CASE p = 10 -> {m1} [] p = 50 -> {m1, m3} [] p = 100 -> {m1, m2, m3}]
=============================================================================
