---------------------------- MODULE MCColdStart ----------------------------
(* Small instances of the cold-start manager: see the cfg files and README.  *)
EXTENDS ColdStart, TLC

Symmetry == Permutations(Callers) \cup Permutations(Funcs)
============================================================================
