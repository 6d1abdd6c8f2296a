------------------------------ MODULE CallQueue ------------------------------
(***************************************************************************)
(* The in-memory call queue of internal/queue.  Every method of            *)
(* queue.Queue takes the mutex for its whole body, so each one is a        *)
(* single step.  The slice `items' keeps the calls already handed out in   *)
(* front of `head' until the queue runs empty and is compacted; `notify'   *)
(* is the one-slot channel that wakes a dispatcher.                        *)
(***************************************************************************)
EXTENDS Integers, Sequences

CONSTANT Calls       \* the calls (pointers to model.Call) a client may enqueue

VARIABLES items,     \* q.items, handed-out prefix included
          head,      \* q.head, number of items already handed out
          notify,    \* TRUE iff the notify channel holds its token
          closed     \* q.closed

queueVars == <<items, head, notify, closed>>

QueueTypeOK ==
    /\ items \in Seq(Calls)
    /\ head \in 0..Len(items)
    /\ notify \in BOOLEAN
    /\ closed \in BOOLEAN

QueueInit ==
    /\ items = <<>>
    /\ head = 0
    /\ notify = FALSE
    /\ closed = FALSE

\* q.items[q.head:], the calls still waiting, and q.lenLocked().
Pending == SubSeq(items, head + 1, Len(items))

PendingLen == IF Len(items) - head < 0 THEN 0 ELSE Len(items) - head

Signal == notify' = TRUE

\* Mutant: the wake-up is forgotten.
EnqueueSilently(c) ==
    /\ ~closed
    /\ items' = Append(items, c)
    /\ UNCHANGED <<head, notify, closed>>

Enqueue(c) ==
    /\ ~closed
    /\ items' = Append(items, c)
    /\ Signal
    /\ UNCHANGED <<head, closed>>

\* Mutant: the handed-out prefix survives, so its calls are handed out again.
RetryKeepsPrefix(c) ==
    /\ ~closed
    /\ items' = <<c>> \o items
    /\ head' = 0
    /\ Signal
    /\ UNCHANGED closed

\* Queue.Retry: the call becomes the first waiting one, and the handed-out
\* prefix is dropped.
Retry(c) ==
    /\ ~closed
    /\ items' = <<c>> \o Pending
    /\ head' = 0
    /\ Signal
    /\ UNCHANGED closed

Close ==
    /\ closed' = TRUE
    /\ Signal
    /\ UNCHANGED <<items, head>>

\* A dispatcher's receive from Notify().
Receive ==
    /\ notify
    /\ notify' = FALSE
    /\ UNCHANGED <<items, head, closed>>

\* DequeueBatch(n): what it returns, and what it leaves behind.  The queue is
\* compacted as soon as nothing waits.
BatchEnd(n) ==
    LET wanted == head + (IF n <= 0 THEN 1 ELSE n)
    IN  IF wanted > Len(items) THEN Len(items) ELSE wanted

Batch(n) ==
    [calls |-> SubSeq(items, head + 1, BatchEnd(n)),
     more  |-> BatchEnd(n) < Len(items)]

\* Mutant: no compaction, so the slice grows for ever.
DequeueUncompacted(n) ==
    /\ head' = BatchEnd(n)
    /\ UNCHANGED <<items, notify, closed>>

DequeueBatch(n) ==
    /\ IF BatchEnd(n) >= Len(items)
       THEN items' = <<>> /\ head' = 0
       ELSE head' = BatchEnd(n) /\ UNCHANGED items
    /\ UNCHANGED <<notify, closed>>
==============================================================================
