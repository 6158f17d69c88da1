---------------------------- MODULE MCWriteSwarm ----------------------------
(***************************************************************************)
(* WriteSwarm for TLC.  Setups differ in nothing and every property treats *)
(* them alike; the jobs differ in that one is forced.                      *)
(***************************************************************************)
EXTENDS WriteSwarm, TLC

SetupSymmetry == Permutations(Setups)
=============================================================================
