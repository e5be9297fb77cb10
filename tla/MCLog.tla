------------------------------- MODULE MCLog -------------------------------
(* Log on small instances.                                                 *)
EXTENDS Log, TLC

LogSymmetry == Permutations(Procs) \cup Permutations(Blocks)
=============================================================================
