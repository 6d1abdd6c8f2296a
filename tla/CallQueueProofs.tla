--------------------------- MODULE CallQueueProofs ---------------------------
(***************************************************************************)
(* What the methods of the call queue do to the calls that wait: lemmas    *)
(* for the proofs about QueueClient and about Dispatcher.                  *)
(***************************************************************************)
EXTENDS CallQueue, SequenceTheorems, TLAPS

------------------------------------------------------------------------------
(* The waiting calls and the batches cut from them.                        *)

\* The two parts into which a sequence is cut.
LEMMA PrefixProperties ==
    ASSUME NEW S, NEW s \in Seq(S), NEW k \in 0..Len(s)
    PROVE  /\ SubSeq(s, 1, k) \in Seq(S) /\ Len(SubSeq(s, 1, k)) = k
           /\ \A i \in 1..k : SubSeq(s, 1, k)[i] = s[i]
<1>1. Len(s) \in Nat /\ k \in Int /\ \A i \in 1..k : s[i] \in S
  BY LenProperties, ElementOfSeq
<1>2. /\ SubSeq(s, 1, k) \in Seq(S)
      /\ Len(SubSeq(s, 1, k)) = IF 1 <= k THEN k - 1 + 1 ELSE 0
      /\ \A i \in 1 .. k - 1 + 1 : SubSeq(s, 1, k)[i] = s[1 + i - 1]
  BY <1>1, SubSeqProperties
<1> QED BY <1>1, <1>2

LEMMA SuffixProperties ==
    ASSUME NEW S, NEW s \in Seq(S), NEW k \in 0..Len(s)
    PROVE  /\ SubSeq(s, k + 1, Len(s)) \in Seq(S)
           /\ Len(SubSeq(s, k + 1, Len(s))) = Len(s) - k
           /\ \A i \in 1 .. Len(s) - k : SubSeq(s, k + 1, Len(s))[i] = s[k + i]
<1>1. Len(s) \in Nat /\ k \in Int /\ \A i \in k + 1 .. Len(s) : s[i] \in S
  BY LenProperties, ElementOfSeq
<1>2. /\ SubSeq(s, k + 1, Len(s)) \in Seq(S)
      /\ Len(SubSeq(s, k + 1, Len(s)))
             = IF k + 1 <= Len(s) THEN Len(s) - (k + 1) + 1 ELSE 0
      /\ \A i \in 1 .. Len(s) - (k + 1) + 1 :
             SubSeq(s, k + 1, Len(s))[i] = s[k + 1 + i - 1]
  BY <1>1, SubSeqProperties
<1> QED BY <1>1, <1>2

\* The waiting calls are what the slice holds behind the head.
LEMMA PendingProperties ==
    ASSUME QueueTypeOK
    PROVE  /\ Pending \in Seq(Calls)
           /\ Len(Pending) = Len(items) - head
           /\ \A i \in 1..Len(Pending) : Pending[i] = items[head + i]
<1>1. items \in Seq(Calls) /\ head \in 0..Len(items)
  BY DEF QueueTypeOK
<1>2. /\ SubSeq(items, head + 1, Len(items)) \in Seq(Calls)
      /\ Len(SubSeq(items, head + 1, Len(items))) = Len(items) - head
      /\ \A i \in 1 .. Len(items) - head :
             SubSeq(items, head + 1, Len(items))[i] = items[head + i]
  BY <1>1, SuffixProperties
<1> QED BY <1>2 DEF Pending

\* A batch ends behind the head and within the slice, takes no more than asked
\* for (one call when asked for none), and falls short only when the slice ends.
LEMMA BatchEndBounds ==
    ASSUME QueueTypeOK, NEW n \in Int
    PROVE  /\ BatchEnd(n) \in head..Len(items)
           /\ BatchEnd(n) - head <= n \/ BatchEnd(n) - head <= 1
           /\ \/ BatchEnd(n) = Len(items) \/ BatchEnd(n) - head = n
              \/ n <= 0 /\ BatchEnd(n) - head = 1
<1>1. head \in 0..Len(items) /\ Len(items) \in Nat
  BY LenProperties DEF QueueTypeOK
<1> QED BY <1>1 DEF BatchEnd

\* A batch is a first part of the waiting calls, and More tells whether any
\* waited behind it.
LEMMA BatchIsPrefix ==
    ASSUME QueueTypeOK, NEW n \in Int
    PROVE  /\ Batch(n).calls \in Seq(Calls)
           /\ Batch(n) = [calls |-> SubSeq(Pending, 1, BatchEnd(n) - head),
                          more  |-> BatchEnd(n) - head < Len(Pending)]
<1> DEFINE k == BatchEnd(n) - head
<1>0. BatchEnd(n) \in head..Len(items) /\ Len(Pending) = Len(items) - head
  BY BatchEndBounds, PendingProperties
<1>1. /\ items \in Seq(Calls) /\ head \in 0..Len(items) /\ Len(items) \in Nat
      /\ BatchEnd(n) \in head..Len(items) /\ k \in 0..Len(Pending)
  BY <1>0, LenProperties DEF QueueTypeOK
<1>2. \A i \in head + 1 .. BatchEnd(n) : items[i] \in Calls
  BY <1>1, ElementOfSeq
<1>3. /\ SubSeq(items, head + 1, BatchEnd(n)) \in Seq(Calls)
      /\ Len(SubSeq(items, head + 1, BatchEnd(n))) = k
      /\ \A i \in 1..k : SubSeq(items, head + 1, BatchEnd(n))[i] = items[head + i]
  <2>1. /\ SubSeq(items, head + 1, BatchEnd(n)) \in Seq(Calls)
        /\ Len(SubSeq(items, head + 1, BatchEnd(n)))
               = IF head + 1 <= BatchEnd(n) THEN BatchEnd(n) - (head + 1) + 1 ELSE 0
        /\ \A i \in 1 .. BatchEnd(n) - (head + 1) + 1 :
               SubSeq(items, head + 1, BatchEnd(n))[i] = items[head + 1 + i - 1]
    BY <1>1, <1>2, SubSeqProperties
  <2> QED BY <1>1, <2>1
<1>4. /\ SubSeq(Pending, 1, k) \in Seq(Calls) /\ Len(SubSeq(Pending, 1, k)) = k
      /\ \A i \in 1..k : SubSeq(Pending, 1, k)[i] = Pending[i] /\ Pending[i] = items[head + i]
  <2>1. Pending \in Seq(Calls) /\ \A i \in 1..k : Pending[i] = items[head + i]
    BY <1>1, PendingProperties
  <2> HIDE DEF k
  <2> QED BY <1>1, <2>1, PrefixProperties
<1>5. SubSeq(items, head + 1, BatchEnd(n)) = SubSeq(Pending, 1, k)
  BY <1>3, <1>4, SeqEqual
<1>6. (BatchEnd(n) < Len(items)) = (k < Len(Pending))
  BY <1>0, <1>1
<1> QED BY <1>3, <1>5, <1>6 DEF Batch

\* An arriving call is the last to wait, a call put back the first.
LEMMA EnqueueAppends ==
    ASSUME QueueTypeOK, NEW c \in Calls, Enqueue(c)
    PROVE  QueueTypeOK' /\ Pending' = Append(Pending, c)
<1>1. /\ items \in Seq(Calls) /\ head \in 0..Len(items) /\ Len(items) \in Nat
      /\ items' = Append(items, c) /\ head' = head
  BY LenProperties DEF QueueTypeOK, Enqueue
<1>2. /\ items' \in Seq(Calls) /\ Len(items') = Len(items) + 1
      /\ \A i \in 1..Len(items) : items'[i] = items[i]
      /\ items'[Len(items) + 1] = c
  BY <1>1, AppendProperties
<1>3. QueueTypeOK'
  BY <1>1, <1>2 DEF QueueTypeOK, Enqueue, Signal
<1>4. /\ Pending' \in Seq(Calls) /\ Len(Pending') = Len(items') - head'
      /\ \A i \in 1..Len(Pending') : Pending'[i] = items'[head' + i]
  <2>1. (QueueTypeOK => /\ Pending \in Seq(Calls)
                        /\ Len(Pending) = Len(items) - head
                        /\ \A i \in 1..Len(Pending) : Pending[i] = items[head + i])'
    BY PendingProperties, PTL
  <2> QED BY <1>3, <2>1
<1>5. /\ Pending \in Seq(Calls) /\ Len(Pending) = Len(items) - head
      /\ \A i \in 1..Len(Pending) : Pending[i] = items[head + i]
  BY PendingProperties
<1>6. /\ Append(Pending, c) \in Seq(Calls)
      /\ Len(Append(Pending, c)) = Len(Pending) + 1
      /\ \A i \in 1..Len(Pending) : Append(Pending, c)[i] = Pending[i]
      /\ Append(Pending, c)[Len(Pending) + 1] = c
  BY <1>5, AppendProperties
<1>7. \A i \in 1..Len(Pending') : Pending'[i] = Append(Pending, c)[i]
  <2> SUFFICES ASSUME NEW i \in 1..Len(Pending') PROVE Pending'[i] = Append(Pending, c)[i]
    OBVIOUS
  <2>1. CASE i \in 1..Len(Pending)
    BY <1>1, <1>2, <1>4, <1>5, <1>6, <2>1
  <2>2. CASE i = Len(Pending) + 1
    BY <1>1, <1>2, <1>4, <1>5, <1>6, <2>2
  <2>3. Len(Pending) \in Nat /\ Len(Pending') = Len(Pending) + 1
    BY <1>1, <1>2, <1>4, <1>5
  <2> QED BY <2>1, <2>2, <2>3
<1>8. Len(Pending') = Len(Append(Pending, c))
  BY <1>1, <1>2, <1>4, <1>5, <1>6
<1>9. Pending' = Append(Pending, c)
  BY <1>4, <1>6, <1>7, <1>8, SeqEqual
<1> QED BY <1>3, <1>9

LEMMA RetryPutsFirst ==
    ASSUME QueueTypeOK, NEW c \in Calls, Retry(c)
    PROVE  QueueTypeOK' /\ Pending' = <<c>> \o Pending /\ items' # <<>>
<1>1. Pending \in Seq(Calls) /\ <<c>> \in Seq(Calls) /\ Len(<<c>>) = 1
  BY PendingProperties
<1>2. /\ <<c>> \o Pending \in Seq(Calls)
      /\ Len(<<c>> \o Pending) = 1 + Len(Pending) /\ Len(Pending) \in Nat
  BY <1>1, ConcatProperties, LenProperties
<1>3. items' = <<c>> \o Pending /\ head' = 0
  BY DEF Retry
<1>4. items' # <<>>
  BY <1>2, <1>3, EmptySeq
<1>5. QueueTypeOK'
  BY <1>2, <1>3 DEF QueueTypeOK, Retry, Signal
<1>6. Pending' = SubSeq(items', 1, Len(items'))
  BY <1>3 DEF Pending
<1> QED BY <1>2, <1>3, <1>4, <1>5, <1>6, SubSeqFull

\* A cut leaves the calls behind it waiting, in order, and an empty slice when
\* there are none (compactLocked).
LEMMA DequeueDrops ==
    ASSUME QueueTypeOK, NEW n \in Int, DequeueBatch(n)
    PROVE  /\ QueueTypeOK'
           /\ Pending' = SubSeq(Pending, BatchEnd(n) - head + 1, Len(Pending))
           /\ head' = Len(items') => items' = <<>>
<1> DEFINE k == BatchEnd(n) - head
<1>0. /\ BatchEnd(n) \in head..Len(items) /\ Pending \in Seq(Calls)
      /\ Len(Pending) = Len(items) - head
      /\ \A i \in 1..Len(Pending) : Pending[i] = items[head + i]
  BY BatchEndBounds, PendingProperties
<1>1. /\ items \in Seq(Calls) /\ head \in 0..Len(items) /\ Len(items) \in Nat
      /\ k \in 0..Len(Pending)
  BY <1>0, LenProperties DEF QueueTypeOK
<1>2. CASE BatchEnd(n) >= Len(items)
  <2>1. items' = <<>> /\ head' = 0 /\ k = Len(Pending)
    BY <1>0, <1>1, <1>2 DEF DequeueBatch
  <2>2. QueueTypeOK'
    BY <2>1, EmptySeq DEF QueueTypeOK, DequeueBatch
  <2>3. Pending' = <<>>
    BY <2>1, EmptySeq, SubSeqEmpty DEF Pending
  <2>4. SubSeq(Pending, k + 1, Len(Pending)) = <<>>
    BY <1>1, <2>1, SubSeqEmpty
  <2> QED BY <2>1, <2>2, <2>3, <2>4
<1>3. CASE ~(BatchEnd(n) >= Len(items))
  <2>1. items' = items /\ head' = BatchEnd(n) /\ head' < Len(items')
    BY <1>0, <1>1, <1>3 DEF DequeueBatch
  <2>2. QueueTypeOK'
    BY <1>0, <1>1, <2>1 DEF QueueTypeOK, DequeueBatch
  <2>3. /\ Pending' \in Seq(Calls) /\ Len(Pending') = Len(items') - head'
        /\ \A i \in 1..Len(Pending') : Pending'[i] = items'[head' + i]
    <3>1. (QueueTypeOK => /\ Pending \in Seq(Calls)
                          /\ Len(Pending) = Len(items) - head
                          /\ \A i \in 1..Len(Pending) : Pending[i] = items[head + i])'
      BY PendingProperties, PTL
    <3> QED BY <2>2, <3>1
  <2>4. /\ SubSeq(Pending, k + 1, Len(Pending)) \in Seq(Calls)
        /\ Len(SubSeq(Pending, k + 1, Len(Pending))) = Len(Pending) - k
        /\ \A i \in 1 .. Len(Pending) - k :
               SubSeq(Pending, k + 1, Len(Pending))[i] = Pending[k + i]
    <3> HIDE DEF k
    <3> QED BY <1>0, <1>1, SuffixProperties
  <2>5. Len(Pending') = Len(Pending) - k
    BY <1>0, <1>1, <2>1, <2>3
  <2>6. \A i \in 1..Len(Pending') :
            Pending'[i] = SubSeq(Pending, k + 1, Len(Pending))[i]
    <3>1. BatchEnd(n) = head + k /\ head + k \in Int
      BY <1>0, <1>1
    <3>2. ASSUME NEW i \in 1 .. Len(Pending) - k
          PROVE  items[BatchEnd(n) + i] = Pending[k + i]
      <4> HIDE DEF k
      <4>1. k + i \in 1..Len(Pending) /\ BatchEnd(n) + i = head + (k + i)
        BY <1>0, <1>1, <3>1
      <4> QED BY <1>0, <4>1
    <3> HIDE DEF k
    <3> QED BY <2>1, <2>3, <2>4, <2>5, <3>2
  <2>7. Pending' = SubSeq(Pending, k + 1, Len(Pending))
    BY <2>3, <2>4, <2>5, <2>6, SeqEqual
  <2> QED BY <2>1, <2>2, <2>7
<1> QED BY <1>2, <1>3

------------------------------------------------------------------------------
(* Sequences without repetitions.                                          *)

\* An element that is not in the sequence may be added to it.
LEMMA AppendFresh ==
    ASSUME NEW S, NEW s \in Seq(S), NEW e \in S
    PROVE  /\ Range(Append(s, e)) = Range(s) \cup {e}
           /\ IsInjective(s) /\ e \notin Range(s) => IsInjective(Append(s, e))
<1>1. /\ Append(s, e) \in Seq(S) /\ Len(Append(s, e)) = Len(s) + 1 /\ Len(s) \in Nat
      /\ \A i \in 1..Len(s) : Append(s, e)[i] = s[i]
      /\ Append(s, e)[Len(s) + 1] = e
  BY AppendProperties, LenProperties
<1>2. DOMAIN s = 1..Len(s) /\ DOMAIN Append(s, e) = 1..Len(s) + 1
  BY <1>1, LenProperties
<1>3. Range(Append(s, e)) = Range(s) \cup {e}
  <2>1. \A i \in 1..Len(s) + 1 : i \in 1..Len(s) \/ i = Len(s) + 1
    BY <1>1
  <2>2. \A i \in 1..Len(s) : i \in 1..Len(s) + 1
    BY <1>1
  <2>3. Len(s) + 1 \in 1..Len(s) + 1
    BY <1>1
  <2> QED BY <1>1, <1>2, <2>1, <2>2, <2>3 DEF Range
<1>4. ASSUME IsInjective(s), e \notin Range(s) PROVE IsInjective(Append(s, e))
  <2>1. \A i \in 1..Len(s) : s[i] # e
    BY <1>2, <1>4 DEF Range
  <2>2. \A i, j \in 1..Len(s) : s[i] = s[j] => i = j
    BY <1>2, <1>4 DEF IsInjective
  <2>3. \A i, j \in 1..Len(s) + 1 : Append(s, e)[i] = Append(s, e)[j] => i = j
    BY <1>1, <2>1, <2>2
  <2> QED BY <1>2, <2>3 DEF IsInjective
<1> QED BY <1>3, <1>4

\* What a cut leaves on either side has nothing in common.
LEMMA CutApart ==
    ASSUME NEW S, NEW s \in Seq(S), NEW k \in 0..Len(s)
    PROVE  LET p == SubSeq(s, 1, k)
               q == SubSeq(s, k + 1, Len(s))
           IN  /\ Range(p) \cup Range(q) \subseteq Range(s)
               /\ IsInjective(s) => /\ IsInjective(p) /\ IsInjective(q)
                                    /\ Range(p) \cap Range(q) = {}
<1> DEFINE p == SubSeq(s, 1, k)
           q == SubSeq(s, k + 1, Len(s))
<1>1. p \in Seq(S) /\ Len(p) = k /\ \A i \in 1..k : p[i] = s[i]
  BY PrefixProperties
<1>2. /\ q \in Seq(S) /\ Len(q) = Len(s) - k
      /\ \A i \in 1 .. Len(s) - k : q[i] = s[k + i]
  BY SuffixProperties
<1>3. /\ Len(s) \in Nat /\ k \in 0..Len(s) /\ DOMAIN s = 1..Len(s)
      /\ DOMAIN p = 1..k /\ DOMAIN q = 1 .. Len(s) - k
  BY <1>1, <1>2, LenProperties
<1> HIDE DEF p, q
<1>4. /\ \A i \in 1..k : i \in 1..Len(s)
      /\ \A i \in 1 .. Len(s) - k : k + i \in 1..Len(s)
  BY <1>3
<1>5. Range(p) \cup Range(q) \subseteq Range(s)
  <2>1. Range(p) \subseteq Range(s)
    BY <1>1, <1>3, <1>4 DEF Range
  <2>2. ASSUME NEW i \in 1 .. Len(s) - k PROVE q[i] \in Range(s)
    <3>1. q[i] = s[k + i] /\ k + i \in DOMAIN s
      BY <1>2, <1>3, <1>4
    <3> QED BY <3>1 DEF Range
  <2>3. Range(q) \subseteq Range(s)
    BY <1>3, <2>2 DEF Range
  <2> QED BY <2>1, <2>3
<1>6. ASSUME IsInjective(s)
      PROVE  IsInjective(p) /\ IsInjective(q) /\ Range(p) \cap Range(q) = {}
  <2>1. \A i, j \in 1..Len(s) : s[i] = s[j] => i = j
    BY <1>3, <1>6 DEF IsInjective
  <2>2. IsInjective(p)
    BY <1>1, <1>3, <1>4, <2>1 DEF IsInjective
  <2>3. ASSUME NEW i \in 1 .. Len(s) - k, NEW j \in 1 .. Len(s) - k, q[i] = q[j]
        PROVE  i = j
    <3>1. s[k + i] = s[k + j] /\ k + i \in 1..Len(s) /\ k + j \in 1..Len(s)
      BY <1>2, <1>4, <2>3
    <3>2. k + i = k + j
      BY <2>1, <3>1
    <3> QED BY <1>3, <3>2
  <2>4. \A i \in 1..k, j \in 1 .. Len(s) - k : p[i] # q[j]
    <3> SUFFICES ASSUME NEW i \in 1..k, NEW j \in 1 .. Len(s) - k, p[i] = q[j]
                 PROVE  FALSE
      OBVIOUS
    <3>1. s[i] = s[k + j] /\ i \in 1..Len(s) /\ k + j \in 1..Len(s)
      BY <1>1, <1>2, <1>4
    <3>2. i = k + j
      BY <2>1, <3>1
    <3> QED BY <1>3, <3>2
  <2> QED BY <1>3, <2>2, <2>3, <2>4 DEF IsInjective, Range
<1> QED BY <1>5, <1>6 DEF p, q

\* The first element is not among the others.
LEMMA TailApart ==
    ASSUME NEW S, NEW s \in Seq(S), s # <<>>
    PROVE  /\ Head(s) \in Range(s) /\ Range(Tail(s)) \subseteq Range(s)
           /\ IsInjective(s) => IsInjective(Tail(s)) /\ Head(s) \notin Range(Tail(s))
<1>1. /\ Len(s) \in Nat \ {0} /\ DOMAIN s = 1..Len(s) /\ Head(s) = s[1]
      /\ Tail(s) \in Seq(S) /\ Len(Tail(s)) = Len(s) - 1
      /\ \A i \in 1 .. Len(s) - 1 : Tail(s)[i] = s[i + 1]
  BY HeadTailProperties, LenProperties, EmptySeq
<1>2. DOMAIN Tail(s) = 1 .. Len(s) - 1
  BY <1>1, LenProperties
<1>3. 1 \in 1..Len(s) /\ \A i \in 1 .. Len(s) - 1 : i + 1 \in 1..Len(s) /\ i + 1 # 1
  BY <1>1
<1>4. Head(s) \in Range(s) /\ Range(Tail(s)) \subseteq Range(s)
  BY <1>1, <1>2, <1>3 DEF Range
<1>5. ASSUME IsInjective(s)
      PROVE  IsInjective(Tail(s)) /\ Head(s) \notin Range(Tail(s))
  <2>1. \A i, j \in 1..Len(s) : s[i] = s[j] => i = j
    BY <1>1, <1>5 DEF IsInjective
  <2>2. Head(s) \notin Range(Tail(s))
    BY <1>1, <1>2, <1>3, <2>1 DEF Range
  <2>3. ASSUME NEW i \in 1 .. Len(s) - 1, NEW j \in 1 .. Len(s) - 1,
               Tail(s)[i] = Tail(s)[j]
        PROVE  i = j
    <3>1. i + 1 = j + 1
      BY <1>1, <1>3, <2>1, <2>3
    <3> QED BY <1>1, <3>1
  <2> QED BY <1>2, <2>2, <2>3 DEF IsInjective
<1> QED BY <1>4, <1>5
==============================================================================
