--------------------------- MODULE DispatcherProofs ---------------------------
(***************************************************************************)
(* For every number of workers, set of calls, batch size and retry budget: *)
(* the dispatcher is type correct, never loses a wake-up, and has a call   *)
(* in one place at a time.                                                 *)
(***************************************************************************)
EXTENDS Dispatcher, CallQueueProofs

\* A worker inside Dispatch holds the call it dispatches.
BusyHoldsCall == \A w \in Workers : pc[w] = "busy" => batch[w].calls # <<>>

\* The types and BusyHoldsCall make NoLostWakeup inductive: without them the
\* tail of a batch or the cut of the queue could be anything.
IInv == TypeOK /\ BusyHoldsCall /\ NoLostWakeup

------------------------------------------------------------------------------
(* The operations of the queue.                                            *)

\* A batch consists of calls, and an empty batch means an empty queue.
LEMMA BatchProperties ==
    ASSUME QueueTypeOK, NEW n \in Nat \ {0}
    PROVE  /\ Batch(n) \in [calls : Seq(Calls), more : BOOLEAN]
           /\ Batch(n).calls = <<>> => head = Len(items)
<1>1. /\ BatchEnd(n) \in head..Len(items)
      /\ BatchEnd(n) = Len(items) \/ BatchEnd(n) - head = n
  BY BatchEndBounds
<1>2. head \in Nat /\ Len(items) \in Nat /\ Len(Pending) = Len(items) - head
  <2>1. items \in Seq(Calls) /\ head \in 0..Len(items)
    BY DEF QueueTypeOK
  <2>2. Len(items) \in Nat
    BY <2>1, LenProperties
  <2>3. Len(Pending) = Len(items) - head
    BY PendingProperties
  <2> QED BY <2>1, <2>2, <2>3
<1>3. Batch(n).calls \in Seq(Calls) /\ Batch(n).calls = SubSeq(Pending, 1, BatchEnd(n) - head)
  BY BatchIsPrefix
<1>4. ASSUME Batch(n).calls = <<>> PROVE head = Len(items)
  <2> DEFINE k == BatchEnd(n) - head
  <2>1. Pending \in Seq(Calls)
    BY PendingProperties
  <2>2. k \in 0..Len(Pending)
    BY <1>1, <1>2
  <2>3. SubSeq(Pending, 1, k) = <<>>
    BY <1>3, <1>4
  <2> HIDE DEF k
  <2>4. Len(SubSeq(Pending, 1, k)) = k
    BY <2>1, <2>2, PrefixProperties
  <2>5. k = 0
    BY <2>3, <2>4, EmptySeq
  <2> QED BY <1>1, <1>2, <2>5 DEF k
<1>5. Batch(n) \in [calls : Seq(Calls), more : BOOLEAN]
  BY <1>3 DEF Batch
<1> QED BY <1>4, <1>5

\* Appending keeps the queue well formed and signals.
LEMMA EnqueueTypeOK ==
    ASSUME QueueTypeOK, NEW c \in Calls, Enqueue(c)
    PROVE  QueueTypeOK' /\ notify'
BY EnqueueAppends DEF Enqueue, Signal

\* A cut keeps it well formed and leaves an empty queue empty.
LEMMA DequeueTypeOK ==
    ASSUME QueueTypeOK, NEW n \in Nat \ {0}, DequeueBatch(n)
    PROVE  /\ QueueTypeOK'
           /\ head = Len(items) => PendingLen' = 0
<1>1. QueueTypeOK' /\ BatchEnd(n) \in head..Len(items)
  BY DequeueDrops, BatchEndBounds
<1>2. ASSUME head = Len(items) PROVE PendingLen' = 0
  BY <1>1, <1>2, EmptySeq DEF QueueTypeOK, DequeueBatch, PendingLen
<1> QED BY <1>1, <1>2

\* What is left of a batch when its first call is done.
LEMMA NextCallTypeOK ==
    ASSUME TypeOK, BusyHoldsCall, NEW w \in Workers, NextCall(w)
    PROVE  /\ batch' \in [Workers -> [calls : Seq(Calls), more : BOOLEAN]]
           /\ Head(batch[w].calls) \in Calls
<1>1. batch[w].calls \in Seq(Calls) /\ batch[w].calls # <<>>
  BY DEF TypeOK, BusyHoldsCall, NextCall
<1>2. Tail(batch[w].calls) \in Seq(Calls) /\ Head(batch[w].calls) \in Calls
  BY <1>1, HeadTailProperties
<1> QED BY <1>2 DEF TypeOK, NextCall

------------------------------------------------------------------------------
(* The inductive invariant.                                                *)

LEMMA InitIInv == Init => IInv
<1> SUFFICES ASSUME Init PROVE IInv
  OBVIOUS
<1>1. <<>> \in Seq(Calls) /\ Len(<<>>) = 0
  BY EmptySeq
<1>2. TypeOK
  <2>1. Done \in [calls : Seq(Calls), more : BOOLEAN]
    BY <1>1 DEF Done
  <2>2. items \in Seq(Calls) /\ head \in 0..Len(items)
    BY <1>1 DEF Init, QueueInit
  <2>3. notify \in BOOLEAN /\ closed \in BOOLEAN /\ cancelled \in BOOLEAN
    BY DEF Init, QueueInit
  <2>4. batch \in [Workers -> [calls : Seq(Calls), more : BOOLEAN]]
    BY <2>1 DEF Init
  <2>5. attempt \in [Calls -> 1..MaxAttempts]
    BY MaxAttemptsAssumption DEF Init
  <2> QED BY <2>2, <2>3, <2>4, <2>5 DEF Init, TypeOK, QueueTypeOK
<1>3. BusyHoldsCall
  BY DEF Init, BusyHoldsCall
<1>4. NoLostWakeup
  BY <1>1 DEF Init, QueueInit, NoLostWakeup, PendingLen
<1> QED BY <1>2, <1>3, <1>4 DEF IInv

LEMMA NextTypeOK ==
    ASSUME TypeOK, BusyHoldsCall, [Next]_vars
    PROVE  TypeOK' /\ BusyHoldsCall'
<1> USE BatchSizeAssumption, MaxAttemptsAssumption
<1>1. ASSUME NEW c \in Calls, Submit(c) PROVE TypeOK' /\ BusyHoldsCall'
  BY <1>1, EnqueueTypeOK DEF Submit, TypeOK, BusyHoldsCall, workerVars
<1>2. CASE Cancel
  BY <1>2 DEF Cancel, TypeOK, QueueTypeOK, queueVars, workerVars, BusyHoldsCall
<1>3. CASE CloseQueue
  BY <1>3 DEF CloseQueue, Close, Signal, TypeOK, QueueTypeOK, workerVars,
              BusyHoldsCall
<1>4. ASSUME NEW w \in Workers, Wake(w) PROVE TypeOK' /\ BusyHoldsCall'
  BY <1>4 DEF Wake, Receive, TypeOK, QueueTypeOK, BusyHoldsCall
<1>5. ASSUME NEW w \in Workers, Exit(w) PROVE TypeOK' /\ BusyHoldsCall'
  BY <1>5 DEF Exit, TypeOK, QueueTypeOK, queueVars, BusyHoldsCall
<1>6. ASSUME NEW w \in Workers, Dequeue(w) PROVE TypeOK' /\ BusyHoldsCall'
  <2>1. QueueTypeOK' /\ Batch(BatchSize) \in [calls : Seq(Calls), more : BOOLEAN]
    BY <1>6, DequeueTypeOK, BatchProperties DEF Dequeue, TypeOK
  <2>2. CASE Batch(BatchSize).calls = <<>>
    BY <1>6, <2>1, <2>2 DEF Dequeue, TypeOK, BusyHoldsCall
  <2>3. CASE Batch(BatchSize).calls # <<>>
    BY <1>6, <2>1, <2>3 DEF Dequeue, TypeOK, BusyHoldsCall
  <2> QED BY <2>2, <2>3
<1>7. ASSUME NEW w \in Workers, Start(w) PROVE TypeOK' /\ BusyHoldsCall'
  BY <1>7 DEF Start, TypeOK, QueueTypeOK, queueVars, BusyHoldsCall
<1>8. ASSUME NEW w \in Workers, Finish(w) PROVE TypeOK' /\ BusyHoldsCall'
  <2>1. batch' \in [Workers -> [calls : Seq(Calls), more : BOOLEAN]]
    BY <1>8, NextCallTypeOK DEF Finish
  <2> QED BY <1>8, <2>1
             DEF Finish, NextCall, TypeOK, QueueTypeOK, queueVars, BusyHoldsCall
<1>9. ASSUME NEW w \in Workers, FinishAndRetry(w) PROVE TypeOK' /\ BusyHoldsCall'
  <2> DEFINE c == Head(batch[w].calls)
  <2>1. c \in Calls /\ batch' \in [Workers -> [calls : Seq(Calls), more : BOOLEAN]]
    BY <1>9, NextCallTypeOK DEF FinishAndRetry
  <2>2. QueueTypeOK'
    <3>1. CASE closed
      BY <1>9, <3>1 DEF FinishAndRetry, TypeOK, QueueTypeOK, queueVars
    <3>2. CASE ~closed
      <4>1. QueueTypeOK /\ Enqueue(c)
        BY <1>9, <3>2 DEF FinishAndRetry, TypeOK
      <4> QED BY <2>1, <4>1, EnqueueTypeOK
    <3> QED BY <3>1, <3>2
  <2>3. attempt' \in [Calls -> 1..MaxAttempts]
    BY <1>9, <2>1 DEF FinishAndRetry, TypeOK
  <2> QED BY <1>9, <2>1, <2>2, <2>3
             DEF FinishAndRetry, NextCall, TypeOK, BusyHoldsCall
<1>10. ASSUME NEW w \in Workers, AbandonBatch(w) PROVE TypeOK' /\ BusyHoldsCall'
  BY <1>10, EmptySeq
     DEF AbandonBatch, Done, TypeOK, QueueTypeOK, queueVars, BusyHoldsCall
<1>11. ASSUME NEW w \in Workers, EndBatch(w) PROVE TypeOK' /\ BusyHoldsCall'
  BY <1>11, EmptySeq
     DEF EndBatch, Done, TypeOK, QueueTypeOK, queueVars, BusyHoldsCall
<1>12. CASE UNCHANGED vars
  BY <1>12 DEF vars, queueVars, workerVars, TypeOK, QueueTypeOK, BusyHoldsCall
<1> QED BY <1>1, <1>2, <1>3, <1>4, <1>5, <1>6, <1>7, <1>8, <1>9, <1>10, <1>11,
           <1>12 DEF Next, Worker, Quiet

LEMMA NextNoLostWakeup ==
    ASSUME IInv, [Next]_vars
    PROVE  NoLostWakeup'
<1> USE DEF NoLostWakeup
<1>1. ASSUME NEW c \in Calls, Submit(c) PROVE NoLostWakeup'
  BY <1>1 DEF Submit, Enqueue, Signal
<1>2. CASE Cancel
  BY <1>2 DEF Cancel
<1>3. CASE CloseQueue
  BY <1>3 DEF CloseQueue, Close, Signal
<1>4. ASSUME NEW w \in Workers, Wake(w) PROVE NoLostWakeup'
  BY <1>4 DEF Wake, Active, IInv, TypeOK
<1>5. ASSUME NEW w \in Workers, Exit(w) PROVE NoLostWakeup'
  BY <1>5 DEF Exit
<1>6. ASSUME NEW w \in Workers, Dequeue(w) PROVE NoLostWakeup'
  <2>1. CASE Batch(BatchSize).calls = <<>>
    <3>1. PendingLen' = 0
      BY <1>6, <2>1, BatchProperties, DequeueTypeOK, BatchSizeAssumption
         DEF Dequeue, IInv, TypeOK
    <3> QED BY <3>1
  <2>2. CASE Batch(BatchSize).calls # <<>>
    BY <1>6, <2>2 DEF Dequeue, Active, IInv, TypeOK
  <2> QED BY <2>1, <2>2
<1>7. ASSUME NEW w \in Workers, Start(w) \/ NextCall(w) PROVE NoLostWakeup'
  BY <1>7 DEF Start, NextCall, Active, IInv, TypeOK
<1>8. ASSUME NEW w \in Workers, AbandonBatch(w) PROVE NoLostWakeup'
  BY <1>8 DEF AbandonBatch
<1>9. ASSUME NEW w \in Workers, EndBatch(w) PROVE NoLostWakeup'
  <2>1. CASE batch[w].more \/ PendingLen > 0
    BY <1>9, <2>1 DEF EndBatch, Active, IInv, TypeOK
  <2>2. CASE ~(batch[w].more \/ PendingLen > 0)
    BY <1>9, <2>2 DEF EndBatch, queueVars, PendingLen
  <2> QED BY <2>1, <2>2
<1>10. CASE UNCHANGED vars
  BY <1>10 DEF vars, queueVars, workerVars, Active, IInv, PendingLen
<1> QED BY <1>1, <1>2, <1>3, <1>4, <1>5, <1>6, <1>7, <1>8, <1>9, <1>10
           DEF Next, Worker, Quiet, Finish, FinishAndRetry

\* IInv holds in every reachable state.
THEOREM Invariance == Spec => []IInv
<1>1. IInv /\ [Next]_vars => IInv'
  BY NextTypeOK, NextNoLostWakeup DEF IInv
<1> QED BY InitIInv, <1>1, PTL DEF Spec

\* The dispatcher and its queue keep to their types: no index of the queue
\* leaves the slice (queue.go, batch.go), no retry exceeds the budget, and no
\* worker looks for the next call of an empty batch (dispatch.go).
THEOREM TypeCorrect == Spec => []TypeOK
<1>1. IInv => TypeOK
  BY DEF IInv
<1> QED BY Invariance, <1>1, PTL

\* However many workers share the one-slot notify channel, calls never wait
\* while every worker sleeps without a token (queue.go:28-40, dispatch.go:22-55).
THEOREM WakeupsNotLost == Spec => []NoLostWakeup
<1>1. IInv => NoLostWakeup
  BY DEF IInv
<1> QED BY Invariance, <1>1, PTL

------------------------------------------------------------------------------
(* A call is in one place.                                                 *)

Held(w) == Range(batch[w].calls)

\* OnePlace without positions.  That the calls on their way have been submitted
\* is what makes it inductive: a new arrival is none of them.
Apart ==
    /\ IsInjective(Pending)
    /\ \A w \in Workers : IsInjective(batch[w].calls)
    /\ \A w \in Workers : Range(Pending) \cap Held(w) = {}
    /\ \A v, w \in Workers : v # w => Held(v) \cap Held(w) = {}
    /\ Range(Pending) \subseteq submitted
    /\ \A w \in Workers : Held(w) \subseteq submitted

\* How a step moves calls: one arrives at the end of the queue, a batch is cut off
\* its front for one worker, a worker is done with its first call and puts it back
\* at the end or not, or it drops a batch, one with calls in it only when cancelled.
Arrives(c) ==
    /\ c \notin submitted /\ submitted' = submitted \cup {c}
    /\ Pending' = Append(Pending, c)
    /\ UNCHANGED batch

IsCut(w, k) ==
    /\ batch[w].calls = <<>>
    /\ batch'[w].calls = SubSeq(Pending, 1, k)
    /\ Pending' = SubSeq(Pending, k + 1, Len(Pending))
    /\ \A v \in Workers \ {w} : batch'[v] = batch[v]
    /\ UNCHANGED submitted

PutsBack(w) ==
    /\ pc[w] = "busy" /\ batch[w].calls # <<>>
    /\ batch'[w].calls = Tail(batch[w].calls)
    /\ Pending' = Append(Pending, Head(batch[w].calls))
    /\ \A v \in Workers \ {w} : batch'[v] = batch[v]
    /\ UNCHANGED submitted

Drops(w) ==
    /\ \/ batch'[w].calls = <<>> /\ (batch[w].calls = <<>> \/ cancelled)
       \/ /\ pc[w] = "busy" /\ batch[w].calls # <<>>
          /\ batch'[w].calls = Tail(batch[w].calls)
    /\ \A v \in Workers \ {w} : batch'[v] = batch[v]
    /\ UNCHANGED <<Pending, submitted>>

MovesNothing == UNCHANGED <<Pending, batch, submitted>>

Move == \/ \E c \in Calls : Arrives(c)
        \/ \E w \in Workers, k \in 0..Len(Pending) : IsCut(w, k)
        \/ \E w \in Workers : PutsBack(w) \/ Drops(w)
        \/ MovesNothing

\* A worker that is not going through a batch has none.
EmptyHanded ==
    \A w \in Workers : pc[w] \in {"select", "dequeue", "exited"} => batch[w].calls = <<>>

LEMMA NextEmptyHanded ==
    ASSUME TypeOK, EmptyHanded, [Next]_vars
    PROVE  EmptyHanded'
<1> USE DEF EmptyHanded
<1>1. ASSUME NEW c \in Calls, Submit(c) PROVE EmptyHanded'
  BY <1>1 DEF Submit, workerVars
<1>2. ASSUME Cancel \/ CloseQueue \/ UNCHANGED vars PROVE EmptyHanded'
  BY <1>2 DEF Cancel, CloseQueue, vars, workerVars
<1>3. ASSUME NEW w \in Workers, Wake(w) \/ Exit(w) \/ Start(w) PROVE EmptyHanded'
  BY <1>3 DEF Wake, Exit, Start, TypeOK
<1>4. ASSUME NEW w \in Workers, Dequeue(w) PROVE EmptyHanded'
  BY <1>4 DEF Dequeue, TypeOK
<1>5. ASSUME NEW w \in Workers, NextCall(w) PROVE EmptyHanded'
  BY <1>5 DEF NextCall, TypeOK
<1>6. ASSUME NEW w \in Workers, AbandonBatch(w) \/ EndBatch(w) PROVE EmptyHanded'
  BY <1>6 DEF AbandonBatch, EndBatch, Done, TypeOK
<1> QED BY <1>1, <1>2, <1>3, <1>4, <1>5, <1>6
        DEF Next, Worker, Quiet, Finish, FinishAndRetry

LEMMA CallSteps ==
    ASSUME TypeOK, BusyHoldsCall, EmptyHanded, [Next]_vars
    PROVE  Move
<1>1. ASSUME NEW c \in Calls, Submit(c) PROVE Arrives(c)
  BY <1>1, EnqueueAppends DEF Submit, TypeOK, workerVars, Arrives
<1>2. CASE Cancel
  BY <1>2 DEF Cancel, queueVars, workerVars, Pending, MovesNothing, Move
<1>3. CASE CloseQueue
  BY <1>3 DEF CloseQueue, Close, workerVars, Pending, MovesNothing, Move
<1>4. ASSUME NEW w \in Workers, Wake(w) PROVE MovesNothing
  BY <1>4 DEF Wake, Receive, Pending, MovesNothing
<1>5. ASSUME NEW w \in Workers, Exit(w) \/ Start(w) PROVE MovesNothing
  BY <1>5 DEF Exit, Start, queueVars, Pending, MovesNothing
<1>6. ASSUME NEW w \in Workers, Dequeue(w)
      PROVE  MovesNothing \/ \E k \in 0..Len(Pending) : IsCut(w, k)
  <2> DEFINE k == BatchEnd(BatchSize) - head
  <2>1. /\ QueueTypeOK /\ BatchSize \in Int /\ DequeueBatch(BatchSize)
        /\ batch[w].calls = <<>> /\ UNCHANGED submitted
    BY <1>6, BatchSizeAssumption DEF Dequeue, TypeOK, EmptyHanded
  <2>2. k \in 0..Len(Pending)
    <3>1. /\ BatchEnd(BatchSize) \in head..Len(items)
          /\ Len(Pending) = Len(items) - head
      BY <2>1, BatchEndBounds, PendingProperties
    <3>2. items \in Seq(Calls) /\ head \in 0..Len(items)
      BY <2>1 DEF QueueTypeOK
    <3>3. Len(items) \in Nat
      BY <3>2, LenProperties
    <3> QED BY <3>1, <3>2, <3>3
  <2>3. Pending' = SubSeq(Pending, k + 1, Len(Pending))
    BY <2>1, DequeueDrops
  <2>4. Batch(BatchSize).calls = SubSeq(Pending, 1, k)
    BY <2>1, BatchIsPrefix
  <2> HIDE DEF k
  <2>5. CASE Batch(BatchSize).calls # <<>>
    <3>1. batch' = [batch EXCEPT ![w] = Batch(BatchSize)]
      BY <1>6, <2>5 DEF Dequeue
    <3>2. batch'[w].calls = SubSeq(Pending, 1, k)
      BY <2>4, <3>1 DEF TypeOK
    <3> QED BY <2>1, <2>2, <2>3, <3>1, <3>2 DEF TypeOK, IsCut
  <2>6. CASE Batch(BatchSize).calls = <<>>
    <3>1. UNCHANGED batch
      BY <1>6, <2>6 DEF Dequeue
    <3>2. Pending \in Seq(Calls)
      BY <2>1, PendingProperties
    <3>3. k = 0
      BY <2>2, <2>4, <2>6, <3>2, PrefixProperties, EmptySeq
    <3>4. Pending' = Pending
      BY <2>3, <3>2, <3>3, SubSeqFull
    <3> QED BY <2>1, <3>1, <3>4 DEF MovesNothing
  <2> QED BY <2>5, <2>6
<1>7. ASSUME NEW w \in Workers, NextCall(w)
      PROVE  /\ pc[w] = "busy"
             /\ batch[w].calls # <<>> /\ Head(batch[w].calls) \in Calls
             /\ batch'[w].calls = Tail(batch[w].calls)
             /\ \A v \in Workers \ {w} : batch'[v] = batch[v]
  <2>1. batch[w].calls # <<>> /\ Head(batch[w].calls) \in Calls
    BY <1>7, NextCallTypeOK DEF BusyHoldsCall, NextCall
  <2> QED BY <1>7, <2>1 DEF NextCall, TypeOK
<1>8. ASSUME NEW w \in Workers, Finish(w) PROVE Drops(w)
  BY <1>7, <1>8 DEF Finish, queueVars, Pending, Drops
<1>9. ASSUME NEW w \in Workers, FinishAndRetry(w) PROVE Drops(w) \/ PutsBack(w)
  <2>1. NextCall(w) /\ UNCHANGED submitted
    BY <1>9 DEF FinishAndRetry
  <2>2. CASE closed
    <3>1. UNCHANGED Pending
      BY <1>9, <2>2 DEF FinishAndRetry, queueVars, Pending
    <3> QED BY <1>7, <2>1, <3>1 DEF Drops
  <2>3. CASE ~closed
    <3>1. QueueTypeOK /\ Head(batch[w].calls) \in Calls /\ Enqueue(Head(batch[w].calls))
      BY <1>7, <1>9, <2>1, <2>3 DEF FinishAndRetry, TypeOK
    <3>2. Pending' = Append(Pending, Head(batch[w].calls))
      BY <3>1, EnqueueAppends
    <3> QED BY <1>7, <2>1, <3>2 DEF PutsBack
  <2> QED BY <2>2, <2>3
<1>10. ASSUME NEW w \in Workers, AbandonBatch(w) \/ EndBatch(w) PROVE Drops(w)
  <2>1. /\ batch' = [batch EXCEPT ![w] = Done] /\ UNCHANGED <<items, head, submitted>>
        /\ batch[w].calls = <<>> \/ cancelled
    BY <1>10 DEF AbandonBatch, EndBatch, queueVars
  <2>2. batch'[w].calls = <<>> /\ \A v \in Workers \ {w} : batch'[v] = batch[v]
    BY <2>1 DEF TypeOK, Done
  <2> QED BY <2>1, <2>2 DEF Pending, Drops
<1>11. CASE UNCHANGED vars
  BY <1>11 DEF vars, queueVars, workerVars, Pending, MovesNothing, Move
<1> QED BY <1>1, <1>2, <1>3, <1>4, <1>5, <1>6, <1>8, <1>9, <1>10, <1>11
        DEF Next, Worker, Quiet, Move

LEMMA NextApart ==
    ASSUME TypeOK, Apart, Move
    PROVE  Apart'
<1>0. Pending \in Seq(Calls) /\ \A w \in Workers : batch[w].calls \in Seq(Calls)
  BY PendingProperties DEF TypeOK
<1>1. ASSUME NEW c \in Calls, Arrives(c) PROVE Apart'
  <2>1. c \notin Range(Pending) /\ \A w \in Workers : c \notin Held(w)
    BY <1>1 DEF Apart, Arrives
  <2>2. Range(Pending') = Range(Pending) \cup {c} /\ IsInjective(Pending')
    BY <1>0, <1>1, <2>1, AppendFresh DEF Apart, Arrives
  <2>3. \A w \in Workers : Held(w)' = Held(w)
    BY <1>1 DEF Held, Arrives
  <2> QED BY <1>1, <2>1, <2>2, <2>3 DEF Apart, Arrives
<1>2. ASSUME NEW w \in Workers, NEW k \in 0..Len(Pending), IsCut(w, k)
      PROVE  Apart'
  <2>1. /\ Held(w)' \cup Range(Pending') \subseteq Range(Pending)
        /\ IsInjective(batch'[w].calls) /\ IsInjective(Pending')
        /\ Held(w)' \cap Range(Pending') = {}
    BY <1>0, <1>2, CutApart DEF Apart, IsCut, Held
  <2>2. \A v \in Workers \ {w} : batch'[v] = batch[v] /\ Held(v)' = Held(v)
    BY <1>2 DEF IsCut, Held
  <2>3. UNCHANGED submitted
    BY <1>2 DEF IsCut
  <2>4. \A v \in Workers : IsInjective(batch'[v].calls)
    BY <2>1, <2>2 DEF Apart
  <2>5. \A v \in Workers : Range(Pending') \cap Held(v)' = {}
    BY <2>1, <2>2 DEF Apart
  <2>6. \A u, v \in Workers : u # v => Held(u)' \cap Held(v)' = {}
    BY <2>1, <2>2 DEF Apart
  <2>7. Range(Pending') \subseteq submitted /\ \A v \in Workers : Held(v)' \subseteq submitted
    BY <2>1, <2>2 DEF Apart
  <2> QED BY <2>1, <2>3, <2>4, <2>5, <2>6, <2>7 DEF Apart
<1>3. ASSUME NEW w \in Workers, PutsBack(w) PROVE Apart'
  <2> DEFINE c == Head(batch[w].calls)
  <2>1. /\ c \in Held(w) /\ Held(w)' \subseteq Held(w) /\ c \notin Held(w)'
        /\ IsInjective(batch'[w].calls)
    BY <1>0, <1>3, TailApart DEF Apart, PutsBack, Held
  <2>2. \A v \in Workers \ {w} : batch'[v] = batch[v] /\ Held(v)' = Held(v)
    BY <1>3 DEF PutsBack, Held
  <2>3. c \in Calls
    BY <1>0, <1>3, HeadTailProperties DEF PutsBack
  <2>4. Range(Pending') = Range(Pending) \cup {c} /\ IsInjective(Pending')
    BY <1>0, <1>3, <2>1, <2>3, AppendFresh DEF Apart, PutsBack
  <2> HIDE DEF c
  <2> QED BY <1>3, <2>1, <2>2, <2>4 DEF Apart, PutsBack
<1>4. ASSUME NEW w \in Workers, Drops(w) PROVE Apart'
  <2>1. IsInjective(batch'[w].calls) /\ Held(w)' \subseteq Held(w)
    <3>1. CASE batch'[w].calls = <<>>
      BY <3>1 DEF IsInjective, Held, Range
    <3>2. CASE batch[w].calls # <<>> /\ batch'[w].calls = Tail(batch[w].calls)
      BY <1>0, <3>2, TailApart DEF Apart, Held
    <3> QED BY <1>4, <3>1, <3>2 DEF Drops
  <2>2. \A v \in Workers \ {w} : batch'[v] = batch[v] /\ Held(v)' = Held(v)
    BY <1>4 DEF Drops, Held
  <2> QED BY <1>4, <2>1, <2>2 DEF Apart, Drops
<1>5. CASE MovesNothing
  BY <1>5 DEF MovesNothing, Apart, Held
<1> QED BY <1>1, <1>2, <1>3, <1>4, <1>5 DEF Move

LEMMA ApartOnePlace == TypeOK /\ Apart => OnePlace
<1> SUFFICES ASSUME TypeOK, Apart, NEW s \in Slots, NEW t \in Slots,
                    CallAt(s) = CallAt(t)
             PROVE  s = t
  BY DEF OnePlace
<1>0. Pending \in Seq(Calls) /\ \A w \in Workers : batch[w].calls \in Seq(Calls)
  BY PendingProperties DEF TypeOK
<1>1. ASSUME NEW i \in 1..Len(Pending)
      PROVE  CallAt(<<"queue", i>>) = Pending[i] /\ Pending[i] \in Range(Pending)
  BY <1>0, LenProperties DEF CallAt, Range
<1>2. ASSUME NEW w \in Workers, NEW i \in 1..Len(batch[w].calls)
      PROVE  /\ CallAt(<<w, i>>) = batch[w].calls[i]
             /\ batch[w].calls[i] \in Held(w)
  <2>1. w # "queue"
    BY WorkersAssumption
  <2> QED BY <1>0, <2>1, LenProperties DEF CallAt, Held, Range
<1>3. ASSUME NEW u \in Slots
      PROVE  \/ \E i \in 1..Len(Pending) : u = <<"queue", i>>
             \/ \E w \in Workers : \E i \in 1..Len(batch[w].calls) : u = <<w, i>>
  BY DEF Slots
<1>4. ASSUME NEW i \in 1..Len(Pending), NEW j \in 1..Len(Pending),
             Pending[i] = Pending[j]
      PROVE  i = j
  BY <1>0, <1>4, LenProperties DEF Apart, IsInjective
<1>5. ASSUME NEW w \in Workers, NEW i \in 1..Len(batch[w].calls),
             NEW j \in 1..Len(batch[w].calls), batch[w].calls[i] = batch[w].calls[j]
      PROVE  i = j
  BY <1>0, <1>5, LenProperties DEF Apart, IsInjective
<1>6. ASSUME NEW i \in 1..Len(Pending), s = <<"queue", i>> PROVE s = t
  BY <1>1, <1>2, <1>3, <1>4, <1>6 DEF Apart
<1>7. ASSUME NEW v \in Workers, NEW i \in 1..Len(batch[v].calls), s = <<v, i>>
      PROVE  s = t
  <2>1. ASSUME NEW j \in 1..Len(Pending), t = <<"queue", j>> PROVE FALSE
    BY <1>1, <1>2, <1>7, <2>1 DEF Apart
  <2>2. ASSUME NEW w \in Workers, NEW j \in 1..Len(batch[w].calls), t = <<w, j>>
        PROVE  s = t
    <3>1. v = w
      BY <1>2, <1>7, <2>2 DEF Apart
    <3> QED BY <1>2, <1>5, <1>7, <2>2, <3>1
  <2> QED BY <1>3, <2>1, <2>2
<1> QED BY <1>3, <1>6, <1>7

\* Calls and batches stay together.
Placing == IInv /\ EmptyHanded /\ Apart

LEMMA PlacingInvariance == Spec => []Placing
<1>1. Init => EmptyHanded /\ Apart
  <2> SUFFICES ASSUME Init PROVE EmptyHanded /\ Apart
    OBVIOUS
  <2>1. Pending = <<>> /\ \A w \in Workers : batch[w].calls = <<>>
    BY EmptySeq, SubSeqEmpty DEF Init, QueueInit, Pending, Done
  <2> QED BY <2>1 DEF Init, EmptyHanded, Apart, Held, IsInjective, Range
<1>2. Placing /\ [Next]_vars => EmptyHanded' /\ Apart'
  BY CallSteps, NextEmptyHanded, NextApart DEF Placing, IInv
<1> QED BY Invariance, <1>1, <1>2, PTL DEF Spec, Placing

\* However many workers cut batches and put calls back, no call is handed to two
\* of them, nor waits while one still holds it (dispatch.go:35-55, batch.go:14-36,
\* retry.go:52-72).
THEOREM CallsInOnePlace == Spec => []OnePlace
<1>1. Placing => OnePlace
  BY ApartOnePlace DEF Placing, IInv
<1> QED BY PlacingInvariance, <1>1, PTL

\* Calls go from the queue to an empty-handed worker from the front, in their order
\* and without gaps, a worker goes through its batch in order, and while the engine
\* runs it drops no batch: a call leaves a batch only by being dispatched
\* (dispatch.go:35-55).
THEOREM CallsMoveInOrder == Spec => [][Move]_vars
<1>1. Placing /\ [Next]_vars => [Move]_vars
  BY CallSteps DEF Placing, IInv
<1> QED BY PlacingInvariance, <1>1, PTL DEF Spec
==============================================================================
