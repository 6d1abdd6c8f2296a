------------------------------ MODULE Dispatcher ------------------------------
(***************************************************************************)
(* The dispatcher workers of internal/exec/dispatch.go over the call       *)
(* queue.  A worker sleeps in a select on the context and on the one-slot  *)
(* notify channel; once woken it drains the queue batch by batch, and      *)
(* dispatches the calls of a batch one after the other.  Dispatch itself   *)
(* is the module Executor: here it is a step that may put the call back    *)
(* into the queue for another attempt, as Dispatch does through            *)
(* retry.Schedule.                                                         *)
(***************************************************************************)
EXTENDS CallQueue

CONSTANTS Workers,      \* the goroutines Run starts
          BatchSize,    \* calls per DequeueBatch
          MaxAttempts   \* attempts a call may get, retries included

\* The queue is a place beside the workers.
ASSUME WorkersAssumption == "queue" \notin Workers
ASSUME BatchSizeAssumption == BatchSize \in Nat \ {0}
ASSUME MaxAttemptsAssumption == MaxAttempts \in Nat \ {0}

VARIABLES pc,           \* where each worker is
          batch,        \* what is left of each worker's batch
          submitted,    \* calls that have arrived (each arrives once)
          attempt,      \* call.Attempt
          cancelled     \* the context is done

workerVars == <<pc, batch>>
vars == <<queueVars, workerVars, submitted, attempt, cancelled>>

Done == [calls |-> <<>>, more |-> FALSE]

TypeOK ==
    /\ QueueTypeOK
    /\ pc \in [Workers -> {"select", "dequeue", "dispatch", "busy", "exited"}]
    /\ batch \in [Workers -> [calls : Seq(Calls), more : BOOLEAN]]
    /\ submitted \in SUBSET Calls
    /\ attempt \in [Calls -> 1..MaxAttempts]
    /\ cancelled \in BOOLEAN

Init ==
    /\ QueueInit
    /\ pc = [w \in Workers |-> "select"]
    /\ batch = [w \in Workers |-> Done]
    /\ submitted = {}
    /\ attempt = [c \in Calls |-> 1]
    /\ cancelled = FALSE

------------------------------------------------------------------------------
(* The surroundings: arriving calls, and Engine.Stop.                      *)

\* A new call arrives; a closed queue turns it away and nothing changes.
Submit(c) ==
    /\ c \notin submitted
    /\ submitted' = submitted \cup {c}
    /\ Enqueue(c)
    /\ UNCHANGED <<workerVars, attempt, cancelled>>

Cancel ==
    /\ ~cancelled
    /\ cancelled' = TRUE
    /\ UNCHANGED <<queueVars, workerVars, submitted, attempt>>

\* Stop closes the queue after it has cancelled the context.
CloseQueue ==
    /\ cancelled /\ ~closed
    /\ Close
    /\ UNCHANGED <<workerVars, submitted, attempt, cancelled>>

------------------------------------------------------------------------------
(* One worker.                                                             *)

\* The select may take either ready case.
Wake(w) ==
    /\ pc[w] = "select"
    /\ Receive
    /\ pc' = [pc EXCEPT ![w] = "dequeue"]
    /\ UNCHANGED <<batch, submitted, attempt, cancelled>>

\* Mutant: a worker leaves only when the queue is empty.
ExitWhenEmpty(w) ==
    /\ pc[w] = "select" /\ cancelled /\ PendingLen = 0
    /\ pc' = [pc EXCEPT ![w] = "exited"]
    /\ UNCHANGED <<queueVars, batch, submitted, attempt, cancelled>>

Exit(w) ==
    /\ pc[w] = "select" /\ cancelled
    /\ pc' = [pc EXCEPT ![w] = "exited"]
    /\ UNCHANGED <<queueVars, batch, submitted, attempt, cancelled>>

\* drain: cut a batch; an empty one ends the drain (an empty batch never has
\* More set).
Dequeue(w) ==
    /\ pc[w] = "dequeue"
    /\ LET b == Batch(BatchSize) IN
           IF b.calls = <<>>
           THEN /\ pc' = [pc EXCEPT ![w] = IF b.more THEN "dequeue" ELSE "select"]
                /\ UNCHANGED batch
           ELSE /\ pc' = [pc EXCEPT ![w] = "dispatch"]
                /\ batch' = [batch EXCEPT ![w] = b]
    /\ DequeueBatch(BatchSize)
    /\ UNCHANGED <<submitted, attempt, cancelled>>

\* drain looks at the context before each call, then Dispatch runs: it ends
\* whenever it likes, even after the context is done.
Start(w) ==
    /\ pc[w] = "dispatch" /\ batch[w].calls # <<>> /\ ~cancelled
    /\ pc' = [pc EXCEPT ![w] = "busy"]
    /\ UNCHANGED <<queueVars, batch, submitted, attempt, cancelled>>

NextCall(w) ==
    /\ pc[w] = "busy"
    /\ pc' = [pc EXCEPT ![w] = "dispatch"]
    /\ batch' = [batch EXCEPT ![w].calls = Tail(@)]

Finish(w) ==
    /\ NextCall(w)
    /\ UNCHANGED <<queueVars, submitted, attempt, cancelled>>

\* Mutant: the timeout path schedules the retry as well (timeout.go:15-20).
ScheduleTwice(w) ==
    /\ NextCall(w)
    /\ LET c == Head(batch[w].calls) IN
           /\ attempt[c] < MaxAttempts
           /\ attempt' = [attempt EXCEPT ![c] = @ + 1]
           /\ ~closed /\ items' = items \o <<c, c>> /\ Signal
           /\ UNCHANGED <<head, closed>>
    /\ UNCHANGED <<submitted, cancelled>>

\* Mutant: the retry budget is not checked.
RetryForever(w) ==
    /\ NextCall(w)
    /\ LET c == Head(batch[w].calls) IN
           /\ attempt' = [attempt EXCEPT ![c] = @ + 1]
           /\ IF closed THEN UNCHANGED queueVars ELSE Enqueue(c)
    /\ UNCHANGED <<submitted, cancelled>>

\* The call failed and is scheduled again: the attempt is counted before
\* Enqueue is tried, so a closed queue loses a call already marked as retried.
FinishAndRetry(w) ==
    /\ NextCall(w)
    /\ LET c == Head(batch[w].calls) IN
           /\ attempt[c] < MaxAttempts
           /\ attempt' = [attempt EXCEPT ![c] = @ + 1]
           /\ IF closed THEN UNCHANGED queueVars ELSE Enqueue(c)
    /\ UNCHANGED <<submitted, cancelled>>

\* drain returns when the context is done; what is left of the batch is lost.
AbandonBatch(w) ==
    /\ pc[w] = "dispatch" /\ batch[w].calls # <<>> /\ cancelled
    /\ batch' = [batch EXCEPT ![w] = Done]
    /\ pc' = [pc EXCEPT ![w] = "select"]
    /\ UNCHANGED <<queueVars, submitted, attempt, cancelled>>

\* Mutant: one batch per wake-up.
OneBatchPerWake(w) ==
    /\ pc[w] = "dispatch" /\ batch[w].calls = <<>>
    /\ pc' = [pc EXCEPT ![w] = "select"]
    /\ batch' = [batch EXCEPT ![w] = Done]
    /\ UNCHANGED <<queueVars, submitted, attempt, cancelled>>

\* The batch is used up: go on while More was set or the queue has refilled.
EndBatch(w) ==
    /\ pc[w] = "dispatch" /\ batch[w].calls = <<>>
    /\ pc' = [pc EXCEPT ![w] = IF batch[w].more \/ PendingLen > 0
                               THEN "dequeue" ELSE "select"]
    /\ batch' = [batch EXCEPT ![w] = Done]
    /\ UNCHANGED <<queueVars, submitted, attempt, cancelled>>

Worker(w) ==
    \/ Wake(w) \/ Exit(w) \/ Dequeue(w)
    \/ Start(w) \/ Finish(w) \/ FinishAndRetry(w)
    \/ AbandonBatch(w) \/ EndBatch(w)

\* Nothing is left to do: every call has come and gone and the workers sleep,
\* or the workers have stopped.
Quiet ==
    /\ submitted = Calls \/ closed
    /\ \/ /\ \A w \in Workers : pc[w] = "select"
          /\ ~cancelled /\ ~notify /\ PendingLen = 0
       \/ \A w \in Workers : pc[w] = "exited"
    /\ UNCHANGED vars

Next ==
    \/ \E c \in Calls : Submit(c)
    \/ Cancel \/ CloseQueue
    \/ \E w \in Workers : Worker(w)
    \/ Quiet

Spec == Init /\ [][Next]_vars

\* The Go scheduler runs every goroutine that can run, and every Dispatch
\* returns (Execute is bounded by the deadline of the call).  Callers and Stop
\* owe nothing.
FairSpec == Spec /\ \A w \in Workers : WF_vars(Worker(w))

------------------------------------------------------------------------------
Waiting(c) == \E i \in 1..Len(Pending) : Pending[i] = c

Running(c) == \E w \in Workers : pc[w] = "busy" /\ Head(batch[w].calls) = c

Active(w) == pc[w] \in {"dequeue", "dispatch", "busy"}

\* The one-slot notify channel never loses a wake-up: while calls wait, the
\* token is in the channel or some worker is awake and will look at the queue
\* again before it sleeps (queue.go:28-40, dispatch.go:22-55).
NoLostWakeup ==
    PendingLen > 0 /\ ~cancelled => notify \/ \E w \in Workers : Active(w)

\* A call is in one place at a time, be it waiting in the queue or in the batch
\* of one worker: no batch overlaps another, and a retry never re-enters while
\* the call is still held (the double enqueue timeout.go:15-20 warns of).
Slots == {<<"queue", i>> : i \in 1..Len(Pending)}
         \cup UNION {{<<w, i>> : i \in 1..Len(batch[w].calls)} : w \in Workers}
CallAt(s) == IF s[1] = "queue" THEN Pending[s[2]] ELSE batch[s[1]].calls[s[2]]
OnePlace == \A s, t \in Slots : s # t => CallAt(s) # CallAt(t)

\* Every waiting call is dispatched, at each of its attempts and wherever it
\* stands in line, unless the engine stops.
EveryCallDispatched ==
    \A c \in Calls : Waiting(c) ~> (Running(c) \/ cancelled)

\* Once the context is done every worker returns, so Run returns
\* (dispatch.go:8-20), whatever is still queued.
WorkersStop == cancelled ~> \A w \in Workers : pc[w] = "exited"
==============================================================================
