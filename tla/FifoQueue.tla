------------------------------ MODULE FifoQueue ------------------------------
(***************************************************************************)
(* What the call queue promises its users: calls leave in arrival order,   *)
(* at most n at a time, none twice and none lost; a call put back for      *)
(* another attempt is the next to leave; a closed queue takes no more      *)
(* calls but still hands out those it holds.                               *)
(***************************************************************************)
EXTENDS Integers, Sequences

CONSTANTS Calls, BatchSizes

VARIABLES pending,   \* waiting calls, oldest first
          shut,      \* no further calls are taken
          batch      \* what the latest take returned

NoBatch == [calls |-> <<>>, more |-> FALSE]

Init == pending = <<>> /\ shut = FALSE /\ batch = NoBatch

Put(c) == ~shut /\ pending' = Append(pending, c) /\ UNCHANGED <<shut, batch>>

PutFirst(c) == ~shut /\ pending' = <<c>> \o pending /\ UNCHANGED <<shut, batch>>

Shut == shut' = TRUE /\ UNCHANGED <<pending, batch>>

\* A take of size n returns the n oldest calls, all of them when fewer wait,
\* and one call when n is not positive.
Take(n) ==
    \E k \in 0..Len(pending) :
        /\ k = Len(pending) \/ k = n \/ (n <= 0 /\ k = 1)
        /\ k <= n \/ k <= 1
        /\ batch' = [calls |-> SubSeq(pending, 1, k), more |-> k < Len(pending)]
        /\ pending' = SubSeq(pending, k + 1, Len(pending))
        /\ UNCHANGED shut

Next ==
    \/ \E c \in Calls : Put(c) \/ PutFirst(c)
    \/ Shut
    \/ \E n \in BatchSizes : Take(n)

Spec == Init /\ [][Next]_<<pending, shut, batch>>
==============================================================================
