----------------------------- MODULE QueueProofs -----------------------------
(***************************************************************************)
(* The call queue is a first-in first-out queue: whatever the calls, the   *)
(* batch sizes and the sequence of method calls.                           *)
(***************************************************************************)
EXTENDS QueueClient, CallQueueProofs

------------------------------------------------------------------------------
(* Types.                                                                  *)

LEMMA InitTypeOK == Init => TypeOK
<1> SUFFICES ASSUME Init PROVE TypeOK
  OBVIOUS
<1>1. <<>> \in Seq(Calls) /\ Len(<<>>) = 0
  BY EmptySeq
<1>2. items \in Seq(Calls) /\ head \in 0..Len(items)
  BY <1>1 DEF Init, QueueInit
<1>3. notify \in BOOLEAN /\ closed \in BOOLEAN
  BY DEF Init, QueueInit
<1>4. QueueTypeOK
  BY <1>2, <1>3 DEF QueueTypeOK
<1> QED BY <1>1, <1>4 DEF Init, QueueInit, TypeOK

LEMMA NextTypeOK ==
    ASSUME TypeOK, [Next]_clientVars
    PROVE  TypeOK'
<1>1. ASSUME NEW c \in Calls, AddCall(c) PROVE TypeOK'
  <2>1. QueueTypeOK' /\ UNCHANGED batch /\ items' = Append(items, c) /\ head' = head
    BY <1>1, EnqueueAppends DEF AddCall, TypeOK, Enqueue
  <2>2. head' # Len(items')
    BY <2>1, AppendProperties, LenProperties DEF TypeOK, QueueTypeOK
  <2> QED BY <2>1, <2>2 DEF TypeOK
<1>2. ASSUME NEW c \in Calls, PutBack(c) PROVE TypeOK'
  <2>1. QueueTypeOK' /\ UNCHANGED batch /\ items' # <<>> /\ head' = 0
    BY <1>2, RetryPutsFirst DEF PutBack, TypeOK, Retry
  <2>2. Len(items') # 0
    BY <2>1, EmptySeq DEF QueueTypeOK
  <2> QED BY <2>1, <2>2 DEF TypeOK
<1>3. ASSUME NEW n \in BatchSizes, TakeBatch(n) PROVE TypeOK'
  <2>1. n \in Int /\ QueueTypeOK /\ DequeueBatch(n) /\ batch' = Batch(n)
    BY <1>3, BatchSizesAssumption DEF TakeBatch, TypeOK
  <2>2. QueueTypeOK' /\ (head' = Len(items') => items' = <<>>)
    BY <2>1, DequeueDrops
  <2>3. batch'.calls \in Seq(Calls) /\ batch'.more \in BOOLEAN
    <3>1. Batch(n).calls \in Seq(Calls)
      BY <2>1, BatchIsPrefix
    <3>2. Batch(n).more \in BOOLEAN
      BY DEF Batch
    <3> QED BY <2>1, <3>1, <3>2
  <2> QED BY <2>2, <2>3 DEF TypeOK
<1>4. CASE Receive /\ UNCHANGED batch
  BY <1>4 DEF Receive, TypeOK, QueueTypeOK
<1>5. CASE Close /\ UNCHANGED batch
  BY <1>5 DEF Close, Signal, TypeOK, QueueTypeOK
<1>6. CASE UNCHANGED clientVars
  BY <1>6 DEF clientVars, TypeOK, QueueTypeOK
<1> QED BY <1>1, <1>2, <1>3, <1>4, <1>5, <1>6 DEF Next

\* The head index never leaves the slice, whatever sizes are asked for, and a
\* queue that has run empty retains no call it has handed out (queue.go, batch.go).
THEOREM TypeCorrect == Spec => []TypeOK
BY InitTypeOK, NextTypeOK, PTL DEF Spec

------------------------------------------------------------------------------
(* The refinement.                                                         *)

\* Each method is an operation of the abstract queue, a receive is none.
LEMMA FifoStep ==
    ASSUME TypeOK, [Next]_clientVars
    PROVE  [Fifo!Next]_<<Pending, closed, batch>>
<1>1. ASSUME NEW c \in Calls, AddCall(c) PROVE Fifo!Put(c)
  BY <1>1, EnqueueAppends DEF AddCall, TypeOK, Enqueue, Fifo!Put
<1>2. ASSUME NEW c \in Calls, PutBack(c) PROVE Fifo!PutFirst(c)
  BY <1>2, RetryPutsFirst DEF PutBack, TypeOK, Retry, Fifo!PutFirst
<1>3. ASSUME NEW n \in BatchSizes, TakeBatch(n) PROVE Fifo!Take(n)
  <2> DEFINE k == BatchEnd(n) - head
  <2>1. n \in Int /\ QueueTypeOK /\ DequeueBatch(n) /\ batch' = Batch(n)
    BY <1>3, BatchSizesAssumption DEF TakeBatch, TypeOK
  <2>2. head \in Nat /\ Len(items) \in Nat /\ Len(Pending) = Len(items) - head
    BY <2>1, PendingProperties, LenProperties DEF QueueTypeOK
  <2>3. /\ BatchEnd(n) \in head..Len(items)
        /\ k <= n \/ k <= 1
        /\ BatchEnd(n) = Len(items) \/ k = n \/ (n <= 0 /\ k = 1)
    BY <2>1, BatchEndBounds
  <2>4. k \in 0..Len(Pending) /\ (k = Len(Pending) \/ k = n \/ (n <= 0 /\ k = 1))
    BY <2>2, <2>3
  <2>5. batch' = [calls |-> SubSeq(Pending, 1, k), more |-> k < Len(Pending)]
    BY <2>1, BatchIsPrefix
  <2>6. Pending' = SubSeq(Pending, k + 1, Len(Pending))
    BY <2>1, DequeueDrops
  <2>7. UNCHANGED closed
    BY <2>1 DEF DequeueBatch
  <2> HIDE DEF k
  <2> QED BY <2>3, <2>4, <2>5, <2>6, <2>7 DEF Fifo!Take
<1>4. CASE Receive /\ UNCHANGED batch
  BY <1>4 DEF Receive, Pending
<1>5. CASE Close /\ UNCHANGED batch
  BY <1>5 DEF Close, Pending, Fifo!Next, Fifo!Shut
<1>6. CASE UNCHANGED clientVars
  BY <1>6 DEF clientVars, Pending
<1> QED BY <1>1, <1>2, <1>3, <1>4, <1>5, <1>6 DEF Next, Fifo!Next

\* Slice, head index, compaction and put-back together are a first-in first-out
\* queue: no call is skipped, handed out twice or reordered, and More tells the
\* truth about the cut (queue.go:28-89, batch.go:14-52).
THEOREM FifoImplemented == Spec => ImplementsFifo
<1>1. Init => Fifo!Init
  BY EmptySeq, SubSeqEmpty DEF Init, QueueInit, Pending, Fifo!Init, Fifo!NoBatch
<1>2. TypeOK /\ [Next]_clientVars => [Fifo!Next]_<<Pending, closed, batch>>
  BY FifoStep
<1>3. Spec => Fifo!Init /\ [][Fifo!Next]_<<Pending, closed, batch>>
  BY <1>1, <1>2, TypeCorrect, PTL DEF Spec
<1> QED BY <1>3 DEF ImplementsFifo, Fifo!Spec
==============================================================================
