----------------------------- MODULE QueueClient -----------------------------
(***************************************************************************)
(* The call queue under any sequence of calls of its methods, by any       *)
(* number of goroutines: since each method holds the mutex throughout, the *)
(* interleavings are exactly the sequences of the steps below.             *)
(***************************************************************************)
EXTENDS CallQueue

CONSTANTS BatchSizes,   \* the sizes DequeueBatch is called with
          MaxItems      \* bound: most items the slice may hold

ASSUME BatchSizesAssumption == BatchSizes \subseteq Int
ASSUME MaxItemsAssumption == MaxItems \in Nat

VARIABLE batch          \* what the latest DequeueBatch returned

clientVars == <<items, head, notify, closed, batch>>

Init == QueueInit /\ batch = [calls |-> <<>>, more |-> FALSE]

AddCall(c) == Len(items) < MaxItems /\ Enqueue(c) /\ UNCHANGED batch

PutBack(c) == Len(items) - head < MaxItems /\ Retry(c) /\ UNCHANGED batch

TakeBatch(n) == batch' = Batch(n) /\ DequeueBatch(n)

Next ==
    \/ \E c \in Calls : AddCall(c) \/ PutBack(c)
    \/ \E n \in BatchSizes : TakeBatch(n)
    \/ Receive /\ UNCHANGED batch
    \/ Close /\ UNCHANGED batch

Spec == Init /\ [][Next]_clientVars

------------------------------------------------------------------------------
\* The state of the queue is well formed, and nothing handed out is retained
\* once the queue has run empty (compactLocked).
TypeOK ==
    /\ QueueTypeOK
    /\ batch.calls \in Seq(Calls) /\ batch.more \in BOOLEAN
    /\ head = Len(items) => items = <<>>

Fifo == INSTANCE FifoQueue WITH pending <- Pending, shut <- closed

\* The head index, the retained prefix, the compaction and the splice of Retry
\* together behave like a first-in first-out queue: no call is skipped, handed
\* out twice or reordered, and More tells the truth about the cut.
ImplementsFifo == Fifo!Spec
==============================================================================
