------------------------------- MODULE MCProc -------------------------------
(* The process table on small instances, for TLC.                          *)
EXTENDS Proc, TLC

CpuSymmetry == Permutations(CPU)
=============================================================================
