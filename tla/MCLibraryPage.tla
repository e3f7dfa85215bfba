---------------------------- MODULE MCLibraryPage ----------------------------
(* An instance of LibraryPage for TLC. *)
EXTENDS LibraryPage, TLC

CONSTANTS t1, t2, m1

MCTeamOf == m1 :> t1
=============================================================================
