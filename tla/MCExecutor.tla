------------------------------ MODULE MCExecutor ------------------------------
(* Two workers, and a call submitted twice: see the cfg files and README.    *)
EXTENDS Executor, TLC

CONSTANTS e1, e2, i1

Twins == (e1 :> i1) @@ (e2 :> i1)
==============================================================================
