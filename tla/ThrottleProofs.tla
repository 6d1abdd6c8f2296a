---------------------------- MODULE ThrottleProofs ----------------------------
(***************************************************************************)
(* The bounds of the token bucket, for every rate, resolution of the clock *)
(* and number of functions.  Both follow one argument: what a bucket holds *)
(* at this moment is weighed against the clock.                            *)
(***************************************************************************)
EXTENDS Throttle, TLAPS

\* The rate the bucket works with is positive, also when none was configured.
LEMMA RatePositive == Rate \in Nat \ {0} /\ Second \in Nat \ {0}
BY ConfiguredRateAssumption, SecondAssumption DEF Rate

\* Products of naturals, for the steps that must not see the factors.
LEMMA FullPositive == Full \in Nat /\ Second \in Nat \ {0} /\ Second <= Full
<1>1. \A m, n \in Nat \ {0} : m * n \in Nat /\ n <= m * n
  OBVIOUS
<1> QED BY <1>1, RatePositive DEF Full, Parts

LEMMA EarnedMonotone ==
    ASSUME NEW s \in Nat, NEW t \in Nat, s <= t
    PROVE  /\ Earned(t - s) \in Nat
           /\ Earned((t + 1) - s) = Earned(t - s) + Rate
           /\ s = t => Earned(t - s) = 0
<1>1. \A d, r \in Nat : d * r \in Nat /\ (d + 1) * r = d * r + r /\ 0 * r = 0
  OBVIOUS
<1>2. t - s \in Nat /\ (t + 1) - s = (t - s) + 1 /\ Rate \in Nat
  BY RatePositive
<1>3. Earned((t + 1) - s) = Earned((t - s) + 1)
  BY <1>2
<1>4. Earned((t - s) + 1) = Earned(t - s) + Rate /\ Earned(t - s) \in Nat /\ Earned(0) = 0
  BY <1>1, <1>2 DEF Earned
<1> QED BY <1>3, <1>4

\* The bucket's content is between nothing and full at every moment.
LEMMA FilledTyped ==
    ASSUME TypeOK, NEW f \in Names
    PROVE  Filled(f) \in 0..Full
<1>1. lastFill[f] \in Nat /\ now \in Nat /\ lastFill[f] <= now /\ tokens[f] \in 0..Full
  BY MaxTimeAssumption DEF TypeOK, Times
<1>2. Earned(now - lastFill[f]) \in Nat
  BY <1>1, EarnedMonotone
<1> QED BY <1>1, <1>2, FullPositive DEF Filled

\* The types of one function's numbers.
LEMMA Numbers ==
    ASSUME TypeOK, NEW f \in Names
    PROVE  /\ now \in Nat /\ now \in Times
           /\ passed[f] \in Nat
           /\ lastPass[f] \in Nat /\ lastPass[f] <= now
           /\ Filled(f) \in Nat /\ Filled(f) <= Full
           /\ Full \in Nat /\ Rate \in Nat /\ Second \in Nat \ {0}
           /\ \A s \in 0..now : s \in Nat /\ s <= now /\ before[f][s] \in Nat
<1>1. now \in Nat /\ now <= MaxTime /\ now \in Times
  BY MaxTimeAssumption DEF TypeOK, Times
<1>2. Filled(f) \in 0..Full /\ Full \in Nat /\ Rate \in Nat /\ Second \in Nat \ {0}
  BY FilledTyped, FullPositive, RatePositive
<1>3. lastPass[f] \in 0..now /\ passed[f] \in Nat
  BY DEF TypeOK
<1>4. ASSUME NEW s \in 0..now PROVE s \in Nat /\ s <= now /\ before[f][s] \in Nat
  <2>1. s \in Times
    BY <1>1, MaxTimeAssumption DEF Times
  <2>2. before[f] \in [Times -> Nat]
    BY DEF TypeOK
  <2> QED BY <1>1, <2>1, <2>2
<1>5. Filled(f) \in Nat /\ Filled(f) <= Full
  BY <1>2
<1> QED BY <1>1, <1>2, <1>3, <1>4, <1>5

LEMMA InitTypeOK == Init => TypeOK
BY FullPositive, MaxTimeAssumption DEF Init, TypeOK, Times

LEMMA NextTypeOK ==
    ASSUME TypeOK, [Next]_vars
    PROVE  TypeOK'
<1>1. ASSUME NEW f \in Names, Allow(f) PROVE TypeOK'
  <2>1. Filled(f) \in 0..Full
    BY FilledTyped
  <2>2. tokens' \in [Names -> 0..Full]
    BY <1>1, <2>1, FullPositive DEF Allow, TypeOK
  <2>3. lastFill' \in [Names -> 0..now'] /\ lastPass' \in [Names -> 0..now']
    BY <1>1, MaxTimeAssumption DEF Allow, TypeOK, Times
  <2>4. passed' \in [Names -> Nat] /\ buckets' \subseteq Names
    BY <1>1 DEF Allow, TypeOK
  <2> QED BY <1>1, <2>2, <2>3, <2>4 DEF Allow, TypeOK
<1>2. CASE Tick
  <2>1. now' \in Times /\ 0..now \subseteq 0..now' /\ now + 1 \in Times
    BY <1>2, MaxTimeAssumption DEF Tick, TypeOK, Times
  <2>2. before' \in [Names -> [Times -> Nat]]
    BY <1>2, <2>1 DEF Tick, TypeOK
  <2> QED BY <1>2, <2>1, <2>2 DEF Tick, TypeOK, bucketVars
<1>3. CASE UNCHANGED vars
  BY <1>3 DEF vars, bucketVars, historyVars, TypeOK
<1> QED BY <1>1, <1>2, <1>3 DEF Next

\* The throttle keeps to its types: a bucket never goes below empty or above full.
THEOREM TypeCorrect == Spec => []TypeOK
BY InitTypeOK, NextTypeOK, PTL DEF Spec

-----------------------------------------------------------------------------
\* A tick adds at most one rate to what a bucket holds, and never takes away.
LEMMA TickFills ==
    ASSUME TypeOK, Tick, NEW f \in Names
    PROVE  /\ Filled(f)' <= Filled(f) + Rate
           /\ Filled(f)' = IF Filled(f) + Rate > Full THEN Full ELSE Filled(f) + Rate
<1>1. lastFill[f] \in Nat /\ now \in Nat /\ lastFill[f] <= now /\ tokens[f] \in 0..Full
  BY MaxTimeAssumption DEF TypeOK, Times
<1>2. Earned((now + 1) - lastFill[f]) = Earned(now - lastFill[f]) + Rate
      /\ Earned(now - lastFill[f]) \in Nat
  BY <1>1, EarnedMonotone
<1>3. now' = now + 1 /\ tokens' = tokens /\ lastFill' = lastFill /\ buckets' = buckets
  BY DEF Tick, bucketVars
<1> DEFINE e == Earned(now - lastFill[f])
<1> DEFINE g == Earned(now' - lastFill'[f])
<1>4. g = e + Rate
  BY ONLY <1>2, <1>3
<1>5. Filled(f)' = IF f \notin buckets' \/ tokens'[f] + g > Full THEN Full
                   ELSE tokens'[f] + g
  BY DEF Filled
<1> HIDE DEF g
<1>6. Filled(f)' = IF f \notin buckets \/ tokens[f] + (e + Rate) > Full THEN Full
                   ELSE tokens[f] + (e + Rate)
  BY ONLY <1>4, <1>5, <1>3
<1>7. Filled(f) = IF f \notin buckets \/ tokens[f] + e > Full THEN Full ELSE tokens[f] + e
  BY DEF Filled
<1>8. e \in Nat /\ Rate \in Nat /\ Full \in Nat /\ tokens[f] \in Nat
  BY <1>1, <1>2, FullPositive, RatePositive
<1> HIDE DEF e
<1> QED BY <1>6, <1>7, <1>8

\* Allow takes one token's worth out of the bucket exactly when it lets the event
\* through, and leaves the other buckets alone.
LEMMA AllowSpends ==
    ASSUME TypeOK, NEW g \in Names, Allow(g), NEW f \in Names
    PROVE  \/ /\ f = g /\ Filled(f) >= Second
              /\ Filled(f)' = Filled(f) - Second
              /\ passed'[f] = passed[f] + 1 /\ lastPass'[f] = now
           \/ /\ f = g => Filled(f) < Second
              /\ Filled(f)' = Filled(f)
              /\ passed'[f] = passed[f] /\ lastPass'[f] = lastPass[f]
<1>1. now' = now /\ now \in Nat
  BY MaxTimeAssumption DEF Allow, TypeOK, Times
<1>2. CASE f # g
  BY <1>1, <1>2 DEF Allow, Filled, TypeOK
<1>3. CASE f = g
  <2>1. Filled(f) \in 0..Full /\ Full \in Nat /\ Second \in Nat \ {0}
    BY FilledTyped, FullPositive
  <2>2. tokens'[f] = (IF Filled(f) >= Second THEN Filled(f) - Second ELSE Filled(f))
        /\ lastFill'[f] = now /\ f \in buckets'
    BY <1>3 DEF Allow, TypeOK
  <2>3. Earned(now' - lastFill'[f]) = 0
    <3>1. Earned(now - now) = 0
      BY <1>1, EarnedMonotone
    <3> QED BY <1>1, <2>2, <3>1
  <2>4. Filled(f)' = IF tokens'[f] > Full THEN Full ELSE tokens'[f]
    BY <2>1, <2>2, <2>3 DEF Filled
  <2>5. Filled(f)' = tokens'[f]
    BY <2>1, <2>2, <2>4
  <2> QED BY <1>3, <2>1, <2>2, <2>5 DEF Allow, TypeOK
<1> QED BY <1>2, <1>3

-----------------------------------------------------------------------------
\* What has passed since an instant s and what the bucket still holds add up to at
\* most a full bucket and what was earned since s.
Budget ==
    \A f \in Names : \A s \in 0..now :
        Parts(passed[f] - before[f][s]) + Filled(f) <= Full + Earned(now - s)

\* An event let through is worth one token.
LEMMA OneMore ==
    ASSUME NEW p \in Nat, NEW b \in Nat
    PROVE  /\ Parts(p - b) \in Int
           /\ Parts((p + 1) - b) = Parts(p - b) + Second
           /\ p = b => Parts(p - b) = 0
<1>1. \A d \in Int, n \in Nat :
         d * n \in Int /\ (d + 1) * n = d * n + n /\ 0 * n = 0
  OBVIOUS
<1>2. p - b \in Int /\ (p + 1) - b = (p - b) + 1 /\ Second \in Nat
  BY SecondAssumption
<1>3. Parts((p + 1) - b) = Parts((p - b) + 1)
  BY <1>2
<1>4. Parts((p - b) + 1) = Parts(p - b) + Second /\ Parts(p - b) \in Int /\ Parts(0) = 0
  BY <1>1, <1>2 DEF Parts
<1> QED BY <1>3, <1>4

LEMMA InitBudget == Init => Budget
<1> SUFFICES ASSUME Init, NEW f \in Names, NEW s \in 0..now
             PROVE  Parts(passed[f] - before[f][s]) + Filled(f)
                       <= Full + Earned(now - s)
  BY DEF Budget
<1>1. now = 0 /\ s = 0 /\ passed[f] = 0 /\ Filled(f) = Full
  BY DEF Init, Filled
<1>2. before[f][s] = 0
  BY <1>1, MaxTimeAssumption DEF Init, Times
<1>3. Parts(passed[f] - before[f][s]) = 0
  BY <1>1, <1>2, OneMore
<1>4. Earned(now - s) = 0
  BY <1>1, EarnedMonotone
<1> QED BY <1>1, <1>3, <1>4, FullPositive

LEMMA NextBudget ==
    ASSUME TypeOK, TypeOK', Budget, [Next]_vars
    PROVE  Budget'
<1> SUFFICES ASSUME NEW f \in Names, NEW s \in 0..now'
             PROVE  Parts(passed'[f] - before'[f][s]) + Filled(f)'
                       <= Full + Earned(now' - s)
  BY DEF Budget
<1>1. /\ now \in Nat /\ passed[f] \in Nat /\ Filled(f) \in Nat /\ Full \in Nat
      /\ Rate \in Nat /\ Second \in Nat
  BY Numbers
<1>2. ASSUME NEW g \in Names, Allow(g) PROVE Parts(passed'[f] - before'[f][s])
         + Filled(f)' <= Full + Earned(now' - s)
  <2>1. now' = now /\ before' = before /\ s \in 0..now
    BY <1>2 DEF Allow
  <2>2. Parts(passed[f] - before[f][s]) + Filled(f) <= Full + Earned(now - s)
    BY <2>1 DEF Budget
  <2>3. before[f][s] \in Nat /\ s \in Nat /\ s <= now
    BY <2>1, Numbers
  <2>4. Parts((passed[f] + 1) - before[f][s])
           = Parts(passed[f] - before[f][s]) + Second
        /\ Parts(passed[f] - before[f][s]) \in Int
    BY <1>1, <2>3, OneMore
  <2>5. Earned(now - s) \in Nat
    BY <1>1, <2>3, EarnedMonotone
  <2> DEFINE p == Parts(passed[f] - before[f][s])
             e == Earned(now - s)
  <2>6. \/ passed'[f] = passed[f] + 1 /\ Filled(f)' = Filled(f) - Second
        \/ passed'[f] = passed[f] /\ Filled(f)' = Filled(f)
    BY <1>2, AllowSpends
  <2>7. \/ Parts(passed'[f] - before'[f][s]) = p + Second
           /\ Filled(f)' = Filled(f) - Second
        \/ Parts(passed'[f] - before'[f][s]) = p /\ Filled(f)' = Filled(f)
    BY ONLY <2>1, <2>4, <2>6
  <2>8. p \in Int /\ e \in Nat /\ p + Filled(f) <= Full + e /\ Earned(now' - s) = e
    BY ONLY <2>1, <2>2, <2>4, <2>5
  <2> HIDE DEF p, e
  <2> QED BY <1>1, <2>7, <2>8
<1>3. CASE Tick
  <2>1. /\ now' = now + 1 /\ passed' = passed /\ now + 1 \in Times
        /\ before' = [h \in Names |-> [before[h] EXCEPT ![now + 1] = passed[h]]]
    BY <1>3, MaxTimeAssumption DEF Tick, TypeOK, Times
  <2>2. Filled(f)' <= Filled(f) + Rate /\ Filled(f)' \in 0..Full
    <3>1. Filled(f)' <= Filled(f) + Rate
      BY <1>3, TickFills
    <3>2. /\ Filled(f)' = IF Filled(f) + Rate > Full THEN Full ELSE Filled(f) + Rate
      BY <1>3, TickFills
    <3> QED BY <1>1, <3>1, <3>2
  <2>3. CASE s = now + 1
    <3>1. before'[f][s] = passed[f]
      BY <2>1, <2>3 DEF TypeOK
    <3>2. Parts(passed'[f] - before'[f][s]) = 0 /\ Earned(now' - s) = 0
      BY <1>1, <2>1, <2>3, <3>1, OneMore, EarnedMonotone
    <3> QED BY <1>1, <2>2, <3>2
  <2>4. CASE s # now + 1
    <3>1. s \in 0..now /\ before'[f][s] = before[f][s]
      BY <1>1, <2>1, <2>4, MaxTimeAssumption DEF TypeOK, Times
    <3>2. Parts(passed[f] - before[f][s]) + Filled(f) <= Full + Earned(now - s)
      BY <3>1 DEF Budget
    <3>3. Earned((now + 1) - s) = Earned(now - s) + Rate /\ Earned(now - s) \in Nat
      BY <1>1, <3>1, EarnedMonotone
    <3>4. before[f][s] \in Nat
      BY <3>1, Numbers
    <3>5. Parts(passed[f] - before[f][s]) \in Int
      BY <1>1, <3>4, OneMore
    <3> DEFINE p == Parts(passed[f] - before[f][s])
               e == Earned(now - s)
    <3>6. /\ Parts(passed'[f] - before'[f][s]) = p /\ Earned(now' - s) = e + Rate
          /\ p \in Int /\ e \in Nat /\ p + Filled(f) <= Full + e
      BY ONLY <2>1, <3>1, <3>2, <3>3, <3>5
    <3> HIDE DEF p, e
    <3> QED BY <1>1, <2>2, <3>6
  <2> QED BY <2>3, <2>4
<1>4. CASE UNCHANGED vars
  <2>1. s \in 0..now /\ UNCHANGED <<now, passed, before>> /\ Filled(f)' = Filled(f)
    BY <1>4 DEF vars, bucketVars, historyVars, Filled
  <2> QED BY <2>1 DEF Budget
<1> QED BY <1>2, <1>3, <1>4 DEF Next

\* In any stretch of time a function gets through at most a full bucket and what is
\* earned meanwhile (throttle.go:29-49): the bound that does hold where "up to rate
\* events per second" does not.
THEOREM RateIsBounded == Spec => []RateBounded
<1>1. ASSUME TypeOK, Budget PROVE RateBounded
  <2> SUFFICES ASSUME NEW f \in Names, NEW s \in 0..now
               PROVE  Parts(passed[f] - before[f][s]) <= Full + Earned(now - s)
    BY DEF RateBounded
  <2>1. now \in Nat /\ s \in Nat /\ s <= now /\ Filled(f) \in Nat /\ Full \in Nat
    BY <1>1, Numbers
  <2>2. Parts(passed[f] - before[f][s]) + Filled(f) <= Full + Earned(now - s)
    BY <1>1 DEF Budget
  <2>3. passed[f] \in Nat /\ before[f][s] \in Nat
    BY <1>1, Numbers
  <2>4. Parts(passed[f] - before[f][s]) \in Int /\ Earned(now - s) \in Nat
    BY <2>1, <2>3, OneMore, EarnedMonotone
  <2> QED BY <2>1, <2>2, <2>4
<1> QED BY <1>1, InitTypeOK, NextTypeOK, InitBudget, NextBudget, PTL DEF Spec

-----------------------------------------------------------------------------
LEMMA NextEarned ==
    ASSUME TypeOK, TypeOK', RefusalsCostNothing, [Next]_vars
    PROVE  RefusalsCostNothing'
<1> DEFINE Least(x) == IF x > Full THEN Full ELSE x
<1> SUFFICES ASSUME NEW f \in Names
             PROVE  Filled(f)' >= Least(Earned(now' - lastPass'[f]))
  BY DEF RefusalsCostNothing
<1>1. Filled(f) >= Least(Earned(now - lastPass[f]))
  BY DEF RefusalsCostNothing
<1>2. /\ now \in Nat /\ lastPass[f] \in Nat /\ lastPass[f] <= now
      /\ Filled(f) \in Nat /\ Filled(f) <= Full
      /\ Full \in Nat /\ Rate \in Nat /\ Second \in Nat \ {0}
  BY Numbers
<1>3. Earned(now - lastPass[f]) \in Nat
      /\ Earned((now + 1) - lastPass[f]) = Earned(now - lastPass[f]) + Rate
  BY <1>2, EarnedMonotone
<1>4. ASSUME NEW g \in Names, Allow(g)
      PROVE  Filled(f)' >= Least(Earned(now' - lastPass'[f]))
  <2>1. now' = now
    BY <1>4 DEF Allow
  <2>2. CASE lastPass'[f] = now /\ Filled(f) >= Second /\ Filled(f)' = Filled(f) - Second
    <3>1. Earned(now' - lastPass'[f]) = 0
      BY <1>2, <2>1, <2>2, EarnedMonotone
    <3>2. Filled(f)' >= 0
      BY <1>2, <2>2
    <3> QED BY <1>2, <3>1, <3>2
  <2>3. CASE lastPass'[f] = lastPass[f] /\ Filled(f)' = Filled(f)
    BY <1>1, <2>1, <2>3
  <2> QED BY <1>4, <2>2, <2>3, AllowSpends
<1>5. CASE Tick
  <2>1. now' = now + 1 /\ lastPass' = lastPass
    BY <1>5 DEF Tick
  <2>2. Filled(f)' = Least(Filled(f) + Rate)
    BY <1>5, TickFills
  <2> DEFINE e == Earned(now - lastPass[f])
  <2>3. Earned(now' - lastPass'[f]) = e + Rate /\ e \in Nat /\ Filled(f) >= Least(e)
    BY ONLY <1>1, <1>3, <2>1
  <2> HIDE DEF e
  <2> QED BY <1>2, <2>2, <2>3
<1>6. CASE UNCHANGED vars
  BY <1>1, <1>6 DEF vars, bucketVars, historyVars, Filled
<1> QED BY <1>4, <1>5, <1>6 DEF Next

\* Refused events cost a function nothing: whatever callers do, its bucket has earned
\* its share of every moment since an event passed last, up to its size.
THEOREM RefusalsAreFree == Spec => []RefusalsCostNothing
<1>1. ASSUME Init PROVE RefusalsCostNothing
  <2> SUFFICES ASSUME NEW f \in Names
               PROVE  Filled(f) >= IF Earned(now - lastPass[f]) > Full
                                   THEN Full ELSE Earned(now - lastPass[f])
    BY DEF RefusalsCostNothing
  <2>1. Filled(f) = Full /\ now = 0 /\ lastPass[f] = 0
    BY <1>1 DEF Init, Filled
  <2>2. Earned(now - lastPass[f]) = 0
    BY <2>1, EarnedMonotone
  <2> QED BY <2>1, <2>2, FullPositive
<1> QED BY <1>1, InitTypeOK, NextTypeOK, NextEarned, PTL DEF Spec
==============================================================================
