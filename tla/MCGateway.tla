----------------------------- MODULE MCGateway -----------------------------
(***************************************************************************)
(* Symmetry for the TLC run of MySQLGateway.                               *)
(***************************************************************************)
EXTENDS MySQLGateway, TLC

CallSymmetry == Permutations(Calls) \cup Permutations(Targets) \cup Permutations(Executors)
=============================================================================
