-------------------------------- MODULE Policy --------------------------------
(* How many instances a function is to have: internal/scale/policy.go, for   *)
(* the instance bounds that internal/func/validator.go lets in.              *)
EXTENDS Integers

MaxInstancesPerFunction == 16

\* Instance bounds of functions that Validate accepts.
Validated == {b \in [min : 0..16, max : 0..16] : b.min <= b.max}

\* The sizes that Resize accepts.
ValidSizes == 0..16

Lesser(m, n) == IF m <= n THEN m ELSE n

Recommend(pending, min, max) ==
    LET wanted == IF pending > 0 /\ min < 1 THEN 1 ELSE min
    IN  Lesser(Lesser(wanted, max), MaxInstancesPerFunction)
==============================================================================
