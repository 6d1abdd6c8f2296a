------------------------------ MODULE MCThrottle ------------------------------
(* Small instances of the throttle: see the cfg files and README.            *)
EXTENDS Throttle, TLC

Symmetry == Permutations(Names)
==============================================================================
