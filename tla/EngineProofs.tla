----------------------------- MODULE EngineProofs -----------------------------
(***************************************************************************)
(* Start, Stop and Trigger.Handle for any requests, names and registered   *)
(* functions: the types, what callers are told, when the queue turns them  *)
(* away, and the buckets of the throttle.                                  *)
(***************************************************************************)
EXTENDS Engine, FiniteSetTheorems, SequenceTheorems, TLAPS

\* The queue is closed by the last step of Stop, and not before Shutdown has either
\* seen the last handler end or given up; the server is gone by then.
Phases ==
    /\ closed <=> main = "stopped"
    /\ main \in {"remove", "close", "stopped"} /\ ~gaveUp => Active = {}
    /\ "serve" \in goroutines => main \in {"serving", "shutdown"}

\* A handler gets past the lookup with a registered name only.
LookedUp ==
    /\ \A r \in Requests : pc[r] \in {"allow", "enqueue", "reply"} => NameOf[r] \in Registered
    /\ buckets \subseteq Registered

\* Nobody is turned away by an open queue.
Refused == (\E r \in Requests : answer[r] = "closed") => closed

Inv == TypeOK /\ Phases /\ LookedUp /\ Refused /\ TurnedAwayOnlyByTimeout

Entered(r) == pc[r] = "reply" \/ answer[r] = "queued"
InQueue(r) == \E i \in 1..Len(waiting) : waiting[i] = r

\* The queue holds each call once, and just the calls whose callers have been told, or
\* are about to be told, that they are in it and that nobody has taken out.
QueueExact ==
    /\ \A i, j \in 1..Len(waiting) : waiting[i] = waiting[j] => i = j
    /\ \A r \in Requests : InQueue(r) <=> Entered(r) /\ fate[r] = "none"
    /\ \A r \in Requests : fate[r] # "none" => Entered(r)

------------------------------------------------------------------------------
\* A step of Start or Stop, of a goroutine or of the outside, but not of a handler,
\* moves no handler; of the queue's users only TakeCall and Enqueue change its calls.
LEMMA MainSteps ==
  ASSUME Main \/ Signal \/ Stop
  PROVE  UNCHANGED <<requestVars, waiting, fate>>
BY DEF Main, Launch, ListenFails, Listen, Shutdown, ShutdownReturns, RemoveAll, CloseQueue,
       Signal, Stop, queueVars, requestVars, Queue!Shut

\* The initial states satisfy the invariants.
LEMMA InitInv == Init => Inv /\ QueueExact
<1> SUFFICES ASSUME Init PROVE Inv /\ QueueExact OBVIOUS
<1>1. waiting = <<>> /\ closed = FALSE BY DEF Init, Queue!Init
<1>2. waiting \in Seq(Requests) BY <1>1, EmptySeq
<1>5. TypeOK BY <1>1, <1>2 DEF Init, TypeOK
<1>3. Phases /\ LookedUp /\ Refused /\ TurnedAwayOnlyByTimeout
  BY <1>1 DEF Init, Phases, LookedUp, Refused, TurnedAwayOnlyByTimeout
<1>4. QueueExact BY <1>1 DEF Init, QueueExact, InQueue, Entered
<1> QED BY <1>3, <1>4, <1>5 DEF Inv

\* What TakeCall takes is the first call.
LEMMA TakeFirst ==
  ASSUME TypeOK, TakeCall
  PROVE  /\ Len(waiting) \in Nat /\ Len(waiting) > 0
         /\ waiting' = SubSeq(waiting, 2, Len(waiting))
         /\ waiting' \in Seq(Requests)
         /\ Len(waiting') = Len(waiting) - 1
         /\ \A i \in 1..Len(waiting) - 1 : waiting'[i] = waiting[i + 1]
         /\ waiting[1] \in Requests
         /\ fate' = [fate EXCEPT ![waiting[1]] = IF cancelled THEN "dropped" ELSE "dispatched"]
         /\ UNCHANGED <<stopVars, requestVars, closed>>
<1>1. waiting \in Seq(Requests) /\ waiting # <<>> BY DEF TypeOK, TakeCall
<1>2. /\ Len(waiting) \in Nat /\ Len(waiting) > 0
      /\ \A i \in 1..Len(waiting) : waiting[i] \in Requests
  BY <1>1
<1>3. PICK k \in 0..Len(waiting) :
         /\ k = Len(waiting) \/ k = 1 \/ (1 <= 0 /\ k = 1)
         /\ k <= 1 \/ k <= 1
         /\ waiting' = SubSeq(waiting, k + 1, Len(waiting))
         /\ UNCHANGED closed
  BY DEF TakeCall, Queue!Take
<1>4. k = 1 BY <1>2, <1>3
<1>5. waiting' = SubSeq(waiting, 2, Len(waiting)) BY <1>3, <1>4
<1>6. /\ waiting' \in Seq(Requests) /\ Len(waiting') = Len(waiting) - 1
      /\ \A i \in 1..Len(waiting) - 1 : waiting'[i] = waiting[i + 1]
  <2>1. waiting' = Tail(waiting) BY <1>1, <1>5, TailIsSubSeq
  <2> QED BY <1>1, <2>1, HeadTailProperties
<1>7. Head(waiting) = waiting[1] BY <1>1
<1> QED BY <1>2, <1>3, <1>5, <1>6, <1>7 DEF TakeCall

\* An Enqueue that is not turned away adds the call at the end.
LEMMA PutLast ==
  ASSUME TypeOK, NEW r \in Requests, Enqueue(r), ~closed
  PROVE  /\ Len(waiting) \in Nat
         /\ waiting' \in Seq(Requests) /\ Len(waiting') = Len(waiting) + 1
         /\ \A i \in 1..Len(waiting) : waiting'[i] = waiting[i]
         /\ waiting'[Len(waiting) + 1] = r
         /\ pc[r] = "enqueue" /\ pc' = [pc EXCEPT ![r] = "reply"]
         /\ UNCHANGED <<stopVars, answer, buckets, closed, fate>>
<1>1. waiting' = Append(waiting, r) /\ UNCHANGED closed
  BY DEF Enqueue, Queue!Put
<1>2. waiting \in Seq(Requests) BY DEF TypeOK
<1> QED BY <1>1, <1>2, AppendProperties DEF Enqueue, Goto

------------------------------------------------------------------------------
\* A step of Start or Stop keeps the invariant.
LEMMA MainInv == ASSUME Inv, Main \/ Signal \/ Stop PROVE Inv'
<1> USE DEF Inv, TypeOK, Phases, LookedUp, Refused, TurnedAwayOnlyByTimeout, At, Active,
            queueVars, requestVars
<1>1. CASE Launch BY <1>1 DEF Launch
<1>2. CASE ListenFails BY <1>2 DEF ListenFails
<1>3. CASE Listen BY <1>3 DEF Listen
<1>4. CASE Signal BY <1>4 DEF Signal
<1>9. CASE Stop BY <1>9 DEF Stop
<1>5. CASE Shutdown BY <1>5 DEF Shutdown
<1>6. CASE ShutdownReturns
  <2>1. gaveUp' \in BOOLEAN BY <1>6 DEF ShutdownReturns
  <2>2. ~gaveUp' => Active' = {} BY <1>6 DEF ShutdownReturns
  <2>3. TypeOK' BY <1>6, <2>1 DEF ShutdownReturns
  <2>4. Phases' BY <1>6, <2>2 DEF ShutdownReturns
  <2>5. answer' = answer /\ closed' = closed /\ LookedUp' BY <1>6 DEF ShutdownReturns
  <2>6. TurnedAwayOnlyByTimeout'
    <3> SUFFICES ASSUME NEW r \in Requests, answer[r] = "closed" PROVE FALSE
      BY <2>5
    <3> QED BY <1>6 DEF ShutdownReturns
  <2> QED BY <2>3, <2>4, <2>5, <2>6
<1>7. CASE RemoveAll BY <1>7 DEF RemoveAll
<1>8. CASE CloseQueue BY <1>8 DEF CloseQueue, Queue!Shut
<1> QED BY <1>1, <1>2, <1>3, <1>4, <1>5, <1>6, <1>7, <1>8, <1>9 DEF Main

\* A step of a goroutine keeps the invariant.
LEMMA GoroutineInv ==
  ASSUME Inv, TakeCall \/ \E g \in goroutines : GoroutineEnds(g)
  PROVE  Inv'
<1> USE DEF Inv, TypeOK, Phases, LookedUp, Refused, TurnedAwayOnlyByTimeout, Active,
            stopVars, queueVars, requestVars
<1>1. CASE TakeCall
  <2>1. /\ waiting' \in Seq(Requests) /\ waiting[1] \in Requests
        /\ fate' = [fate EXCEPT ![waiting[1]] = IF cancelled THEN "dropped" ELSE "dispatched"]
        /\ UNCHANGED <<stopVars, requestVars, closed>>
    BY <1>1, TakeFirst
  <2>2. fate' \in [Requests -> {"none", "dispatched", "dropped"}] BY <2>1
  <2> QED BY <2>1, <2>2
<1>2. CASE \E g \in goroutines : GoroutineEnds(g) BY <1>2 DEF GoroutineEnds
<1> QED BY <1>1, <1>2

\* While a handler runs, Shutdown has not returned or has given up.
LEMMA HandlerRuns ==
  ASSUME Phases, NEW r \in Requests, pc[r] \notin {"out", "done"}
  PROVE  main \in {"remove", "close", "stopped"} => gaveUp
BY DEF Phases, Active

\* A step of a handler keeps the invariant.
LEMMA HandlerInv == ASSUME Inv, NEW r \in Requests, Arrive(r) \/ Handle(r) PROVE Inv'
<1> USE DEF Inv, TypeOK, LookedUp, Refused, TurnedAwayOnlyByTimeout, stopVars, queueVars
<1>1. CASE Arrive(r)
  <2>1. main \notin {"remove", "close", "stopped"} BY <1>1 DEF Arrive, Phases
  <2>2. Phases' BY <1>1, <2>1 DEF Arrive, Phases
  <2> QED BY <1>1, <2>2 DEF Arrive, Goto
<1>2. CASE Handle(r)
  <2>1. pc[r] \notin {"out", "done"}
    BY <1>2 DEF Handle, Lookup, Allow, Enqueue, Accepted, Goto, Reply
  <2>2. main \in {"remove", "close", "stopped"} => gaveUp BY <2>1, HandlerRuns
  <2>3. UNCHANGED <<main, goroutines, cancelled, gaveUp, closed>>
    BY <1>2 DEF Handle, Lookup, Allow, Enqueue, Accepted, Queue!Put
  <2>4. Phases' BY <2>2, <2>3 DEF Phases
  <2>5. CASE Lookup(r) BY <2>4, <2>5 DEF Lookup, Goto, Reply
  <2>6. CASE Allow(r)
    <3>1. NameOf[r] \in Registered BY <2>6 DEF Allow, Goto, Reply
    <3>2. buckets' \subseteq Names /\ buckets' \subseteq Registered
      BY <2>6, <3>1, RegisteredAssumption DEF Allow
    <3>3. UNCHANGED <<stopVars, queueVars, fate>> BY <2>6 DEF Allow
    <3>4. CASE Goto(r, "allow", "enqueue") BY <2>4, <3>1, <3>2, <3>3, <3>4 DEF Goto
    <3>5. CASE Reply(r, "allow", "throttled") BY <2>4, <3>1, <3>2, <3>3, <3>5 DEF Reply
    <3> QED BY <2>6, <3>4, <3>5 DEF Allow
  <2>7. CASE Enqueue(r)
    <3>1. CASE closed
      <4>1. gaveUp BY <2>2, <3>1 DEF Phases
      <4> QED BY <2>4, <2>7, <3>1, <4>1 DEF Enqueue, Reply
    <3>2. CASE ~closed
      <4>1. /\ waiting' \in Seq(Requests)
            /\ pc[r] = "enqueue" /\ pc' = [pc EXCEPT ![r] = "reply"]
            /\ UNCHANGED <<stopVars, answer, buckets, closed, fate>>
        BY <2>7, <3>2, PutLast
      <4> QED BY <2>4, <4>1
    <3> QED BY <3>1, <3>2
  <2>8. CASE Accepted(r) BY <2>4, <2>8 DEF Accepted, Reply
  <2> QED BY <1>2, <2>5, <2>6, <2>7, <2>8 DEF Handle
<1> QED BY <1>1, <1>2

\* Every step keeps the invariant.
LEMMA NextInv == Inv /\ [Next]_vars => Inv'
<1> SUFFICES ASSUME Inv, [Next]_vars PROVE Inv' OBVIOUS
<1>1. CASE UNCHANGED vars
  BY <1>1 DEF vars, stopVars, queueVars, requestVars, Inv, TypeOK, Phases, Active, LookedUp,
              Refused, TurnedAwayOnlyByTimeout
<1> QED BY <1>1, MainInv, GoroutineInv, HandlerInv DEF Next, Ended

------------------------------------------------------------------------------
\* Steps that leave the queue, the fates and who has entered alone keep it exact.
LEMMA QueueKept ==
  ASSUME QueueExact, UNCHANGED <<waiting, fate>>,
         \A r \in Requests : Entered(r)' <=> Entered(r)
  PROVE  QueueExact'
BY DEF QueueExact, InQueue

\* An Enqueue adds a call that the queue does not have.
LEMMA QueuePut ==
  ASSUME Inv, QueueExact, NEW r \in Requests, Enqueue(r), ~closed
  PROVE  QueueExact'
<1> DEFINE n == Len(waiting)
<1>1. /\ n \in Nat /\ Len(waiting') = n + 1
      /\ \A i \in 1..n : waiting'[i] = waiting[i]
      /\ waiting'[n + 1] = r
      /\ pc[r] = "enqueue" /\ pc' = [pc EXCEPT ![r] = "reply"]
      /\ UNCHANGED <<answer, fate>>
  BY PutLast DEF Inv
<1>2. ~Entered(r) /\ ~InQueue(r) /\ fate[r] = "none"
  BY <1>1 DEF Inv, TypeOK, QueueExact, Entered
<1>3. \A q \in Requests : Entered(q)' <=> Entered(q) \/ q = r
  BY <1>1 DEF Inv, TypeOK, Entered
<1>4. \A i \in 1..n : waiting[i] # r BY <1>2 DEF InQueue
<1>5. \A i \in 1..n + 1 : i \in 1..n \/ i = n + 1 BY <1>1
<1>6. \A i, j \in 1..n + 1 : waiting'[i] = waiting'[j] => i = j
  <2> HIDE DEF n
  <2> SUFFICES ASSUME NEW i \in 1..n + 1, NEW j \in 1..n + 1, waiting'[i] = waiting'[j]
               PROVE  i = j
    OBVIOUS
  <2>1. \A k, l \in 1..n : waiting[k] = waiting[l] => k = l BY DEF QueueExact, n
  <2>2. CASE i \in 1..n /\ j \in 1..n BY <1>1, <2>1, <2>2
  <2>3. CASE i \in 1..n /\ j = n + 1 BY <1>1, <1>4, <2>3
  <2>4. CASE i = n + 1 /\ j \in 1..n BY <1>1, <1>4, <2>4
  <2> QED BY <1>5, <2>2, <2>3, <2>4
<1>7. \A q \in Requests : InQueue(q)' <=> InQueue(q) \/ q = r
  <2>1. \A q : InQueue(q) <=> \E i \in 1..n : waiting[i] = q BY DEF InQueue
  <2>2. \A q : InQueue(q)' <=> \E i \in 1..n + 1 : waiting'[i] = q BY <1>1 DEF InQueue
  <2> HIDE DEF n
  <2>3. n + 1 \in 1..n + 1 /\ \A i \in 1..n : i \in 1..n + 1 BY <1>1
  <2> SUFFICES ASSUME NEW q \in Requests
               PROVE  (\E i \in 1..n + 1 : waiting'[i] = q)
                        <=> (\E i \in 1..n : waiting[i] = q) \/ q = r
    BY <2>1, <2>2
  <2> QED BY <1>1, <1>5, <2>3
<1> HIDE DEF n
<1>8. \A i, j \in 1..Len(waiting') : waiting'[i] = waiting'[j] => i = j BY <1>1, <1>6
<1>9. \A q \in Requests : InQueue(q)' <=> Entered(q)' /\ fate'[q] = "none"
  BY <1>1, <1>2, <1>3, <1>7 DEF QueueExact
<1>10. \A q \in Requests : fate'[q] # "none" => Entered(q)'
  BY <1>1, <1>3 DEF QueueExact
<1> QED BY <1>8, <1>9, <1>10 DEF QueueExact

\* A worker takes one call out, which the queue does not have twice.
LEMMA QueueTaken ==
  ASSUME Inv, QueueExact, TakeCall
  PROVE  QueueExact'
<1> DEFINE n == Len(waiting)
           r == waiting[1]
<1>1. /\ n \in Nat /\ n > 0 /\ Len(waiting') = n - 1
      /\ \A i \in 1..n - 1 : waiting'[i] = waiting[i + 1]
      /\ r \in Requests
      /\ fate' = [fate EXCEPT ![r] = IF cancelled THEN "dropped" ELSE "dispatched"]
      /\ UNCHANGED <<pc, answer>>
  BY TakeFirst DEF Inv, requestVars
<1>2. \A i, j \in 1..n : waiting[i] = waiting[j] => i = j BY DEF QueueExact
<1>3. InQueue(r)
  <2>1. 1 \in 1..Len(waiting) BY <1>1
  <2> QED BY <2>1 DEF InQueue
<1>4. Entered(r) /\ fate[r] = "none" BY <1>1, <1>3 DEF QueueExact
<1>5. \A q \in Requests : Entered(q)' <=> Entered(q) BY <1>1 DEF Entered
<1>6. \A i, j \in 1..n - 1 : waiting'[i] = waiting'[j] => i = j
  <2> HIDE DEF n, r
  <2>1. \A i \in 1..n - 1 : i + 1 \in 1..n /\ i \in Int BY <1>1
  <2> SUFFICES ASSUME NEW i \in 1..n - 1, NEW j \in 1..n - 1, waiting'[i] = waiting'[j]
               PROVE  i = j
    OBVIOUS
  <2>2. i + 1 = j + 1 BY <1>1, <1>2, <2>1
  <2> QED BY <2>1, <2>2
<1>7. \A q \in Requests : InQueue(q)' <=> InQueue(q) /\ q # r
  <2>1. \A q : InQueue(q) <=> \E i \in 1..n : waiting[i] = q BY DEF InQueue
  <2>2. \A q : InQueue(q)' <=> \E i \in 1..n - 1 : waiting'[i] = q BY <1>1 DEF InQueue
  <2>3. waiting[1] = r OBVIOUS
  <2> HIDE DEF n, r
  <2>4. \A i \in 1..n - 1 : i + 1 \in 1..n /\ i + 1 # 1 BY <1>1
  <2>5. 1 \in 1..n /\ \A i \in 1..n : i = 1 \/ (i - 1 \in 1..n - 1 /\ (i - 1) + 1 = i)
    BY <1>1
  <2> SUFFICES ASSUME NEW q \in Requests
               PROVE  (\E i \in 1..n - 1 : waiting'[i] = q)
                        <=> (\E i \in 1..n : waiting[i] = q) /\ q # r
    BY <2>1, <2>2
  <2>6. ASSUME NEW i \in 1..n - 1, waiting'[i] = q
        PROVE  (\E j \in 1..n : waiting[j] = q) /\ q # r
    BY <1>1, <1>2, <2>3, <2>4, <2>5, <2>6
  <2>7. ASSUME NEW i \in 1..n, waiting[i] = q, q # r
        PROVE  \E j \in 1..n - 1 : waiting'[j] = q
    <3>1. i - 1 \in 1..n - 1 /\ (i - 1) + 1 = i BY <2>3, <2>5, <2>7
    <3>2. waiting'[i - 1] = q BY <1>1, <2>7, <3>1
    <3> QED BY <3>1, <3>2
  <2> QED BY <2>6, <2>7
<1> HIDE DEF n, r
<1>8. \A i, j \in 1..Len(waiting') : waiting'[i] = waiting'[j] => i = j BY <1>1, <1>6
<1>9. \A q \in Requests : q # r => fate'[q] = fate[q] BY <1>1 DEF Inv, TypeOK
<1>10. fate'[r] # "none" BY <1>1 DEF Inv, TypeOK
<1>11. \A q \in Requests : InQueue(q)' <=> Entered(q)' /\ fate'[q] = "none"
  BY <1>5, <1>7, <1>9, <1>10 DEF QueueExact
<1>12. \A q \in Requests : fate'[q] # "none" => Entered(q)'
  BY <1>4, <1>5, <1>9 DEF QueueExact
<1> QED BY <1>8, <1>11, <1>12 DEF QueueExact

\* Every step keeps the queue exact.
LEMMA NextExact == Inv /\ QueueExact /\ [Next]_vars => QueueExact'
<1> SUFFICES ASSUME Inv, QueueExact, [Next]_vars PROVE QueueExact' OBVIOUS
<1>1. CASE UNCHANGED vars
  BY <1>1, QueueKept DEF vars, queueVars, requestVars, Entered
<1>2. CASE Main \/ Signal \/ Stop BY <1>2, MainSteps, QueueKept DEF requestVars, Entered
<1>3. CASE TakeCall BY <1>3, QueueTaken
<1>4. CASE \E g \in goroutines : GoroutineEnds(g)
  BY <1>4, QueueKept DEF GoroutineEnds, queueVars, requestVars, Entered
<1>5. ASSUME NEW r \in Requests, Arrive(r) \/ Handle(r) PROVE QueueExact'
  <2> USE DEF Inv, TypeOK, Entered, queueVars
  <2>1. CASE Arrive(r) BY <2>1, QueueKept DEF Arrive, Goto
  <2>2. CASE Lookup(r) BY <2>2, QueueKept DEF Lookup, Goto, Reply
  <2>3. CASE Allow(r) BY <2>3, QueueKept DEF Allow, Goto, Reply
  <2>4. CASE Enqueue(r) /\ ~closed BY <2>4, QueuePut
  <2>5. CASE Enqueue(r) /\ closed BY <2>5, QueueKept DEF Enqueue, Reply
  <2>6. CASE Accepted(r) BY <2>6, QueueKept DEF Accepted, Reply
  <2> QED BY <1>5, <2>1, <2>2, <2>3, <2>4, <2>5, <2>6 DEF Handle
<1> QED BY <1>1, <1>2, <1>3, <1>4, <1>5 DEF Next, Ended

\* An exact queue is what ToldTheTruth counts.
LEMMA ExactTruth == QueueExact => ToldTheTruth
<1> SUFFICES ASSUME QueueExact, NEW r \in Requests
             PROVE  HowOften(r) + (IF fate[r] = "none" THEN 0 ELSE 1)
                      = IF Entered(r) THEN 1 ELSE 0
  BY DEF ToldTheTruth, Entered
<1> DEFINE S == {i \in DOMAIN waiting : waiting[i] = r}
<1>1. CASE InQueue(r)
  <2>1. PICK i \in S : TRUE BY <1>1 DEF InQueue
  <2>2. S = {i} BY <2>1 DEF QueueExact
  <2>3. Cardinality(S) = 1 BY <2>2, FS_Singleton
  <2> QED BY <1>1, <2>3 DEF HowOften, QueueExact
<1>2. CASE ~InQueue(r)
  <2>1. S = {} BY <1>2 DEF InQueue
  <2>2. Cardinality(S) = 0 BY <2>1, FS_EmptySet
  <2> QED BY <1>2, <2>2 DEF HowOften, QueueExact
<1> QED BY <1>1, <1>2

------------------------------------------------------------------------------
LEMMA Invariance == Spec => [](Inv /\ QueueExact)
BY InitInv, NextInv, NextExact, PTL DEF Spec

\* The engine's state keeps its types; every request under way is unanswered and every
\* finished one has an answer.
THEOREM TypeCorrect == Spec => []TypeOK
BY Invariance, PTL DEF Inv

\* A caller that is told "queued" has its call in the queue or handed out, exactly
\* once, and any other caller has none (trigger.go:60-65), however many there are.
THEOREM CallersToldTheTruth == Spec => []ToldTheTruth
BY Invariance, ExactTruth, PTL

\* Stop turns away no request that the server has let in, unless Shutdown has run out
\* of time (engine.go:141-148).
THEOREM OrderlyStop == Spec => []TurnedAwayOnlyByTimeout
BY Invariance, PTL DEF Inv

\* The throttle keeps buckets for registered functions only (trigger.go:38-50).
THEOREM BucketsForRegistered == Spec => []BucketsBounded
<1>1. Inv => BucketsBounded BY DEF Inv, LookedUp, BucketsBounded
<1> QED BY <1>1, Invariance, PTL

\* After Stop has returned nothing gets into the queue (engine.go:141-149).
THEOREM StoppedQueueOnlyDrains == Spec => QuietAfterStop
<1>1. Inv /\ [Next]_vars => [main = "stopped" => Len(waiting') <= Len(waiting)]_vars
  <2> SUFFICES ASSUME Inv, Next, main = "stopped"
               PROVE  Len(waiting') <= Len(waiting)
    OBVIOUS
  <2>0. closed /\ Len(waiting) \in Nat BY DEF Inv, Phases, TypeOK
  <2>1. CASE TakeCall BY <2>1, TakeFirst DEF Inv
  <2>2. CASE ~TakeCall
    <3>1. waiting' = waiting
      BY <2>0, <2>2, MainSteps DEF Next, GoroutineEnds, Arrive, Handle, Lookup, Allow, Enqueue,
         Accepted, Ended, vars, queueVars
    <3> QED BY <2>0, <3>1
  <2> QED BY <2>1, <2>2
<1> QED BY <1>1, Invariance, PTL DEF Spec, QuietAfterStop
==============================================================================
