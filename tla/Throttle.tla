------------------------------- MODULE Throttle -------------------------------
(***************************************************************************)
(* The token bucket of internal/trigger/throttle.go, one per function.     *)
(* Allow holds the mutex throughout and reads the clock inside it, so each *)
(* call is one step and the times it sees never go back.                   *)
(*                                                                         *)
(* Time runs in ticks, `Second' of them to a second, and a token is cut    *)
(* into `Second' parts, so that a tick earns exactly `Rate' parts: the     *)
(* fractions of the code's floating-point tokens, without its rounding.    *)
(***************************************************************************)
EXTENDS Integers

CONSTANTS Names,           \* function names
          ConfiguredRate,  \* the argument of NewThrottle
          Second,          \* ticks in a second
          MaxTime          \* bound: the clock stops there

ASSUME ConfiguredRateAssumption == ConfiguredRate \in Int
ASSUME SecondAssumption == Second \in Nat \ {0}
ASSUME MaxTimeAssumption == MaxTime \in Nat

VARIABLES now,        \* time.Now()
          buckets,    \* names that have a bucket
          tokens,     \* parts of tokens in each bucket
          lastFill,   \* bucket.lastFill
          passed,     \* events let through so far
          before,     \* of each instant: how many had been let through before it
          lastPass    \* when an event was let through last

bucketVars == <<buckets, tokens, lastFill>>
historyVars == <<passed, before, lastPass>>
vars == <<now, bucketVars, historyVars>>

Times == 0..MaxTime

Rate == IF ConfiguredRate <= 0 THEN 100 ELSE ConfiguredRate

\* The parts that n tokens have, and those that a bucket earns in t ticks.
Parts(n) == n * Second
Earned(t) == t * Rate
Full == Parts(Rate)

TypeOK ==
    /\ now \in Times
    /\ buckets \subseteq Names
    /\ tokens \in [Names -> 0..Full]
    /\ lastFill \in [Names -> 0..now]
    /\ passed \in [Names -> Nat]
    /\ before \in [Names -> [Times -> Nat]]
    /\ lastPass \in [Names -> 0..now]

Init ==
    /\ now = 0
    /\ buckets = {}
    /\ tokens = [f \in Names |-> 0] /\ lastFill = [f \in Names |-> 0]
    /\ passed = [f \in Names |-> 0]
    /\ before = [f \in Names |-> [t \in Times |-> 0]]
    /\ lastPass = [f \in Names |-> 0]

\* Mutant: what a bucket earns is not cut off at its size.
FilledWithoutLimit(f) ==
    IF f \in buckets THEN tokens[f] + Earned(now - lastFill[f]) ELSE Full

\* Mutant: only whole tokens are earned, as with an integer count.
FilledWithWholeTokens(f) ==
    LET earned == Parts(Earned(now - lastFill[f]) \div Second)
    IN  IF f \notin buckets \/ tokens[f] + earned > Full THEN Full
        ELSE tokens[f] + earned

\* What the bucket holds at this moment: a new one is full, an old one has
\* earned its share since it was filled last.
Filled(f) ==
    LET earned == Earned(now - lastFill[f])
    IN  IF f \notin buckets \/ tokens[f] + earned > Full THEN Full
        ELSE tokens[f] + earned

\* Allow: at least one whole token lets the event through and is spent. A
\* refused event moves lastFill as well, and keeps what has been earned.
Allow(f) ==
    LET pass == Filled(f) >= Second IN
    /\ buckets' = buckets \cup {f}
    /\ tokens' = [tokens EXCEPT ![f] = IF pass THEN Filled(f) - Second ELSE Filled(f)]
    /\ lastFill' = [lastFill EXCEPT ![f] = now]
    /\ passed' = [passed EXCEPT ![f] = IF pass THEN @ + 1 ELSE @]
    /\ lastPass' = [lastPass EXCEPT ![f] = IF pass THEN now ELSE @]
    /\ UNCHANGED <<now, before>>

Tick ==
    /\ now < MaxTime
    /\ now' = now + 1
    /\ before' = [f \in Names |-> [before[f] EXCEPT ![now + 1] = passed[f]]]
    /\ UNCHANGED <<bucketVars, passed, lastPass>>

Next == Tick \/ \E f \in Names : Allow(f)

Spec == Init /\ [][Next]_vars

------------------------------------------------------------------------------
\* What does hold of the rate: in any stretch of time, from an instant s up to
\* now, a function gets through at most a full bucket and what is earned
\* meanwhile, however its events are spread (throttle.go:38-48).
RateBounded ==
    \A f \in Names : \A s \in 0..now :
        Parts(passed[f] - before[f][s]) <= Full + Earned(now - s)

\* A function whose events have all been refused for a while has earned its full
\* share of tokens meanwhile: being asked again and again costs it nothing, and
\* the bucket refills whatever callers do (trigger_test.go:46-49).
RefusalsCostNothing ==
    \A f \in Names :
        LET earned == Earned(now - lastPass[f])
        IN  Filled(f) >= IF earned > Full THEN Full ELSE earned
==============================================================================
