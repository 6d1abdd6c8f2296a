-------------------------- MODULE ExecutionRegister --------------------------
(***************************************************************************)
(* What executing a call promises: a call ID has at most one owner, only   *)
(* the owner writes the outcome of the call, and no owner lets go of a     *)
(* call that has no outcome yet.                                           *)
(***************************************************************************)
CONSTANTS Workers, Ids, Outcomes, Nobody

VARIABLES owner,     \* who executes each call ID
          outcome    \* the stored outcome of each call ID

Init ==
    /\ owner = [i \in Ids |-> Nobody]
    /\ outcome = [i \in Ids |-> "none"]

Own(i, w) ==
    /\ owner[i] = Nobody
    /\ owner' = [owner EXCEPT ![i] = w]
    /\ UNCHANGED outcome

Record(i, w, o) ==
    /\ owner[i] = w
    /\ outcome' = [outcome EXCEPT ![i] = o]
    /\ UNCHANGED owner

LetGo(i, w) ==
    /\ owner[i] = w /\ outcome[i] # "none"
    /\ owner' = [owner EXCEPT ![i] = Nobody]
    /\ UNCHANGED outcome

Next ==
    \E i \in Ids, w \in Workers :
        Own(i, w) \/ LetGo(i, w) \/ \E o \in Outcomes : Record(i, w, o)

Spec == Init /\ [][Next]_<<owner, outcome>>
==============================================================================
