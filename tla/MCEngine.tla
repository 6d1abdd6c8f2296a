------------------------------- MODULE MCEngine -------------------------------
(* Two requests for a registered function and one for a name nobody knows.   *)
EXTENDS Engine, TLC

CONSTANTS r1, r2, r3, f, g

MCNameOf == (r1 :> f) @@ (r2 :> f) @@ (r3 :> g)
==============================================================================
