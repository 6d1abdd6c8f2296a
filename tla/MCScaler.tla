------------------------------ MODULE MCScaler ------------------------------
(* Small instances of the scaler: see the cfg files and README.              *)
EXTENDS Scaler, TLC

Symmetry == Permutations(Workers)

\* Between none and two instances, or two always. The first includes all that happens
\* with one always, and with the built-in functions, for which it is always none.
MCBounds == {[min |-> 0, max |-> 2], [min |-> 2, max |-> 2]}
============================================================================
