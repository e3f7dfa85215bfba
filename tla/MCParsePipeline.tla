--------------------------- MODULE MCParsePipeline ---------------------------
(* Instances of ParsePipeline for TLC. *)
EXTENDS ParsePipeline, TLC

CONSTANTS w1, w2, c1, c2

MCWorkers == {w1, w2}
MCCalls   == {c1, c2}
Slots     == Permutations(MCWorkers) \cup Permutations(MCCalls)
NoFiles   == {}
OneFile   == {1}
=============================================================================
