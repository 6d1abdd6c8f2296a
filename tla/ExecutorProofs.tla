---------------------------- MODULE ExecutorProofs ----------------------------
(***************************************************************************)
(* The executor, for every value of the constants: it is type correct,     *)
(* claims are exact and exclusive, the commits of a dispatch are not       *)
(* disturbed by another one, no timeout hides a success, and all of it     *)
(* together implements the abstract register of call IDs.  A call object   *)
(* is in one place, no call is lost between its duplicates and its         *)
(* retries, no runtime handle leaks, and each attempt starts its handler   *)
(* once.  Two theorems say what it takes for a success to be overwritten   *)
(* and for two handlers of one call to run at the same time.               *)
(***************************************************************************)
EXTENDS Executor, FiniteSetTheorems, TLAPS

LEMMA InitTypeOK == Init => TypeOK
<1> SUFFICES ASSUME Init PROVE TypeOK
  OBVIOUS
<1>1. attempt \in [Entries -> Attempts]
  BY MaxRetriesAssumption DEF Init, Attempts
<1>2. handler \in [Entries -> [Attempts -> {"none", "running", "ok", "err"}]]
  BY DEF Init
<1>3. pc \in [Workers -> Places] /\ \A w \in Workers : pc[w] = "idle"
  BY DEF Init, Places
<1>4. /\ results \in [Ids -> Outcomes \cup {"none"}]
      /\ res \in [Workers -> Outcomes \cup {"none"}]
      /\ cur \in [Workers -> Entries \cup {NoEntry}]
      /\ queued \in [Entries -> Nat]
  BY DEF Init
<1>5. cancelled \in BOOLEAN /\ closed \in BOOLEAN
  BY DEF Init
<1>6. /\ submitted \in SUBSET Entries /\ expired \in SUBSET Entries
      /\ claims \in SUBSET Ids /\ inflight \in SUBSET Ids
      /\ spent \in SUBSET Ids /\ slots \in Int
  BY DEF Init
<1> QED BY <1>1, <1>2, <1>3, <1>4, <1>5, <1>6 DEF TypeOK

\* The workers' part of TypeOK, and how the moves of a worker keep it.
WorkersTyped ==
    /\ pc \in [Workers -> Places]
    /\ cur \in [Workers -> Entries \cup {NoEntry}]
    /\ \A w \in Workers : pc[w] \notin {"idle", "exited"} => cur[w] \in Entries

LEMMA GotoTyped ==
    ASSUME WorkersTyped, NEW w \in Workers, NEW from \in Places \ {"idle", "exited"},
           NEW to \in Places, Goto(w, from, to)
    PROVE  WorkersTyped'
BY DEF WorkersTyped, Goto, Places

LEMMA LeaveTyped ==
    ASSUME TypeOK, NEW w \in Workers, Leave(w)
    PROVE  WorkersTyped' /\ res' \in [Workers -> Outcomes \cup {"none"}]
BY DEF TypeOK, WorkersTyped, Leave, Places

LEMMA CommitTyped ==
    ASSUME TypeOK, NEW w \in Workers, pc[w] \notin {"idle", "exited"},
           NEW o \in Outcomes \cup {"none"}, Commit(Id(w), o)
    PROVE  results' \in [Ids -> Outcomes \cup {"none"}]
BY IdOfAssumption DEF TypeOK, Commit, Id

\* Every step keeps the types; ScheduleRetry counts an attempt only while the
\* budget allows one, and Take takes only what waits.
LEMMA NextTypeOK ==
    ASSUME TypeOK, [Next]_vars
    PROVE  TypeOK'
<1> USE DEF queueVars, poolVars, envVars
<1>1. WorkersTyped
  BY DEF TypeOK, WorkersTyped
<1>2. ASSUME NEW w \in Workers, pc[w] \notin {"idle", "exited"}
      PROVE  Id(w) \in Ids /\ cur[w] \in Entries
  BY <1>2, IdOfAssumption DEF TypeOK, Id
<1>3. ASSUME NEW e \in Entries, Submit(e) \/ Expire(e) PROVE TypeOK'
  BY <1>3 DEF Submit, Expire, TypeOK
<1>4. ASSUME NEW e \in Entries, NEW a \in Attempts, HandlerReturns(e, a)
      PROVE TypeOK'
  BY <1>4 DEF HandlerReturns, TypeOK
<1>5. CASE Cancel \/ CloseQueue
  BY <1>5 DEF Cancel, CloseQueue, TypeOK
<1>6. ASSUME NEW w \in Workers, Take(w) PROVE TypeOK'
  <2>1. PICK e \in Entries :
          /\ queued[e] > 0
          /\ queued' = [queued EXCEPT ![e] = @ - 1]
          /\ IF cancelled
             THEN UNCHANGED <<pc, cur>>
             ELSE /\ pc' = [pc EXCEPT ![w] = "check"]
                  /\ cur' = [cur EXCEPT ![w] = e]
    BY <1>6 DEF Take
  <2>2. queued' \in [Entries -> Nat]
    BY <2>1 DEF TypeOK
  <2>3. WorkersTyped'
    BY <1>1, <2>1 DEF WorkersTyped, Places
  <2> QED BY <1>6, <2>2, <2>3 DEF Take, TypeOK, WorkersTyped
<1>7. ASSUME NEW w \in Workers, CheckCommitted(w) PROVE TypeOK'
  <2>1. WorkersTyped' /\ res' \in [Workers -> Outcomes \cup {"none"}]
    BY <1>1, <1>7, LeaveTyped, GotoTyped DEF CheckCommitted, TypeOK, Places
  <2> QED BY <1>7, <2>1 DEF CheckCommitted, TypeOK, WorkersTyped
<1>8. ASSUME NEW w \in Workers, TryClaim(w) PROVE TypeOK'
  <2>1. WorkersTyped' /\ res' \in [Workers -> Outcomes \cup {"none"}]
    BY <1>1, <1>8, LeaveTyped, GotoTyped DEF TryClaim, TypeOK, Places
  <2>2. claims' \in SUBSET Ids
    BY <1>2, <1>8 DEF TryClaim, TypeOK
  <2> QED BY <1>8, <2>1, <2>2 DEF TryClaim, TypeOK, WorkersTyped
<1>9. ASSUME NEW w \in Workers, PickInstance(w) PROVE TypeOK'
  <2>1. WorkersTyped'
    BY <1>1, <1>9, GotoTyped DEF PickInstance, Places
  <2> QED BY <1>9, <2>1 DEF PickInstance, TypeOK, WorkersTyped
<1>10. ASSUME NEW w \in Workers, PickFails(w) PROVE TypeOK'
  <2>1. WorkersTyped'
    BY <1>1, <1>10, GotoTyped DEF PickFails, Places
  <2>2. results' \in [Ids -> Outcomes \cup {"none"}]
    BY <1>10, CommitTyped DEF PickFails, Goto, Outcomes
  <2>3. res' \in [Workers -> Outcomes \cup {"none"}]
    BY <1>10 DEF PickFails, SetResult, Outcomes, TypeOK
  <2> QED BY <1>10, <2>1, <2>2, <2>3 DEF PickFails, TypeOK, WorkersTyped
<1>11. ASSUME NEW w \in Workers, AcquireHandle(w) PROVE TypeOK'
  <2>1. WorkersTyped'
    BY <1>1, <1>11, GotoTyped DEF AcquireHandle, Places
  <2>2. slots' \in Int /\ inflight' \in SUBSET Ids
    BY <1>2, <1>11 DEF AcquireHandle, Goto, TypeOK
  <2> QED BY <1>11, <2>1, <2>2 DEF AcquireHandle, TypeOK, WorkersTyped
<1>12. ASSUME NEW w \in Workers, StartHandler(w) PROVE TypeOK'
  <2>1. WorkersTyped'
    BY <1>1, <1>12, GotoTyped DEF StartHandler, Places
  <2>2. handler' \in [Entries -> [Attempts -> {"none", "running", "ok", "err"}]]
    BY <1>12 DEF StartHandler, TypeOK
  <2> QED BY <1>12, <2>1, <2>2 DEF StartHandler, TypeOK, WorkersTyped
<1>13. ASSUME NEW w \in Workers, AcquireFails(w) \/ InstanceStopped(w)
       PROVE TypeOK'
  <2>1. WorkersTyped'
    BY <1>1, <1>13, GotoTyped DEF AcquireFails, InstanceStopped, Places
  <2>2. res' \in [Workers -> Outcomes \cup {"none"}]
    BY <1>13 DEF AcquireFails, InstanceStopped, SetResult, Outcomes, TypeOK
  <2> QED BY <1>13, <2>1, <2>2
             DEF AcquireFails, InstanceStopped, ReleaseHandle, TypeOK, WorkersTyped
<1>14. ASSUME NEW w \in Workers, HandlerDone(w) \/ CommitTimeout(w) PROVE TypeOK'
  <2>1. WorkersTyped'
    BY <1>1, <1>14, GotoTyped DEF HandlerDone, CommitTimeout, Places
  <2>2. PICK o \in Outcomes : SetResult(w, o) /\ Commit(Id(w), o)
    BY <1>14 DEF HandlerDone, CommitTimeout, Outcomes
  <2>3. results' \in [Ids -> Outcomes \cup {"none"}]
    BY <1>14, <2>2, CommitTyped DEF HandlerDone, CommitTimeout, Goto
  <2>4. res' \in [Workers -> Outcomes \cup {"none"}]
    BY <2>2 DEF SetResult, TypeOK
  <2> QED BY <1>14, <2>1, <2>3, <2>4
             DEF HandlerDone, CommitTimeout, ReleaseHandle, TypeOK, WorkersTyped
<1>15. ASSUME NEW w \in Workers, CtxDone(w) PROVE TypeOK'
  <2>1. WorkersTyped'
    BY <1>1, <1>15, GotoTyped DEF CtxDone, Places
  <2>2. res' \in [Workers -> Outcomes \cup {"none"}]
    BY <1>15 DEF CtxDone, SetResult, Outcomes, TypeOK
  <2>3. slots' \in Int /\ inflight' \in SUBSET Ids
    BY <1>15 DEF CtxDone, ReleaseHandle, TypeOK
  <2> QED BY <1>15, <2>1, <2>2, <2>3 DEF CtxDone, TypeOK, WorkersTyped
<1>16. ASSUME NEW w \in Workers, CommitResult(w) PROVE TypeOK'
  <2>1. WorkersTyped'
    BY <1>1, <1>16, GotoTyped DEF CommitResult, Places
  <2>2. results' \in [Ids -> Outcomes \cup {"none"}]
    BY <1>16, CommitTyped DEF CommitResult, Goto, TypeOK
  <2> QED BY <1>16, <2>1, <2>2 DEF CommitResult, TypeOK, WorkersTyped
<1>17. ASSUME NEW w \in Workers, ReleaseClaim(w) PROVE TypeOK'
  <2>1. WorkersTyped' /\ res' \in [Workers -> Outcomes \cup {"none"}]
    BY <1>1, <1>17, LeaveTyped, GotoTyped DEF ReleaseClaim, TypeOK, Places
  <2>2. spent' \in SUBSET Ids
    BY <1>2, <1>17 DEF ReleaseClaim, TypeOK
  <2> QED BY <1>17, <2>1, <2>2 DEF ReleaseClaim, TypeOK, WorkersTyped
<1>18. ASSUME NEW w \in Workers, ScheduleRetry(w) PROVE TypeOK'
  <2>1. WorkersTyped' /\ res' \in [Workers -> Outcomes \cup {"none"}]
    BY <1>1, <1>18, LeaveTyped, GotoTyped DEF ScheduleRetry, TypeOK, Places
  <2>2. attempt' \in [Entries -> Attempts]
    <3>1. CASE CommittedSuccess(Id(w)) \/ ~MayRetry(cur[w])
      BY <1>18, <3>1 DEF ScheduleRetry, TypeOK
    <3>2. CASE ~(CommittedSuccess(Id(w)) \/ ~MayRetry(cur[w]))
      <4>1. cur[w] \in Entries /\ attempt[cur[w]] \in 1..MaxRetries + 1
        BY <1>2, <1>18 DEF ScheduleRetry, TypeOK, Attempts
      <4>2. attempt[cur[w]] + 1 \in Attempts
        BY <3>2, <4>1, MaxRetriesAssumption DEF MayRetry, Attempts
      <4>3. attempt' = [attempt EXCEPT ![cur[w]] = @ + 1]
        BY <1>18, <3>2 DEF ScheduleRetry
      <4> QED BY <4>1, <4>2, <4>3 DEF TypeOK
    <3> QED BY <3>1, <3>2
  <2> QED BY <1>18, <2>1, <2>2 DEF ScheduleRetry, TypeOK, WorkersTyped
<1>19. ASSUME NEW w \in Workers, Requeue(w) PROVE TypeOK'
  <2>1. WorkersTyped' /\ res' \in [Workers -> Outcomes \cup {"none"}]
    BY <1>19, LeaveTyped DEF Requeue
  <2>2. queued' \in [Entries -> Nat]
    BY <1>2, <1>19 DEF Requeue, TypeOK
  <2> QED BY <1>19, <2>1, <2>2 DEF Requeue, TypeOK, WorkersTyped
<1>20. ASSUME NEW w \in Workers, Exit(w) PROVE TypeOK'
  <2>1. WorkersTyped'
    BY <1>1, <1>20 DEF Exit, WorkersTyped, Places
  <2> QED BY <1>20, <2>1 DEF Exit, TypeOK, WorkersTyped
<1>21. CASE UNCHANGED vars
  BY <1>21 DEF vars, TypeOK
<1> QED BY <1>3, <1>4, <1>5, <1>6, <1>7, <1>8, <1>9, <1>10, <1>11, <1>12, <1>13,
           <1>14, <1>15, <1>16, <1>17, <1>18, <1>19, <1>20, <1>21
        DEF Next, Dispatch, Finished

\* The executor keeps to its types: in particular no call object is handed out
\* more often than it was enqueued, and none is attempted more than MaxRetries
\* + 1 times (retry.go:52-83, exec.go:90-111).
THEOREM TypeCorrect == Spec => []TypeOK
BY InitTypeOK, NextTypeOK, PTL DEF Spec

------------------------------------------------------------------------------
\* ClaimsExact without its set expression.
ClaimsOwned ==
    /\ \A w \in Workers : OwnsClaim(w) => Id(w) \in claims
    /\ \A i \in claims : \E w \in Workers : OwnsClaim(w) /\ Id(w) = i

OwnersUnchanged ==
    \A w \in Workers : /\ OwnsClaim(w)' <=> OwnsClaim(w)
                       /\ OwnsClaim(w) => Id(w)' = Id(w)

\* Only TryClaim and ReleaseClaim change who owns what.
LEMMA OwnershipSteps ==
    ASSUME TypeOK, [Next]_vars
    PROVE  \/ \E w \in Workers : TryClaim(w) \/ ReleaseClaim(w)
           \/ OwnersUnchanged /\ UNCHANGED claims
<1> USE DEF OwnersUnchanged, OwnsClaim, Id
<1>1. ASSUME NEW e \in Entries, Submit(e) \/ Expire(e)
      PROVE  OwnersUnchanged /\ UNCHANGED claims
  BY <1>1 DEF Submit, Expire
<1>2. ASSUME NEW e \in Entries, NEW a \in Attempts, HandlerReturns(e, a)
      PROVE  OwnersUnchanged /\ UNCHANGED claims
  BY <1>2 DEF HandlerReturns
<1>3. ASSUME Cancel \/ CloseQueue PROVE OwnersUnchanged /\ UNCHANGED claims
  BY <1>3 DEF Cancel, CloseQueue
<1>4. ASSUME NEW w \in Workers, Take(w) \/ Exit(w)
      PROVE  OwnersUnchanged /\ UNCHANGED claims
  BY <1>4 DEF Take, Exit, TypeOK
<1>5. ASSUME NEW w \in Workers,
             CheckCommitted(w) \/ ScheduleRetry(w) \/ Requeue(w)
      PROVE  OwnersUnchanged /\ UNCHANGED claims
  BY <1>5 DEF CheckCommitted, ScheduleRetry, Requeue, Leave, Goto, TypeOK
<1>6. ASSUME NEW w \in Workers, PickInstance(w) \/ PickFails(w) \/ AcquireHandle(w)
      PROVE  OwnersUnchanged /\ UNCHANGED claims
  BY <1>6 DEF PickInstance, PickFails, AcquireHandle, Goto, TypeOK
<1>7. ASSUME NEW w \in Workers,
             StartHandler(w) \/ AcquireFails(w) \/ InstanceStopped(w)
      PROVE  OwnersUnchanged /\ UNCHANGED claims
  BY <1>7 DEF StartHandler, AcquireFails, InstanceStopped, Goto, TypeOK
<1>8. ASSUME NEW w \in Workers, HandlerDone(w) PROVE OwnersUnchanged /\ UNCHANGED claims
  BY <1>8 DEF HandlerDone, Goto, TypeOK
<1>9. ASSUME NEW w \in Workers, CtxDone(w) PROVE OwnersUnchanged /\ UNCHANGED claims
  BY <1>9 DEF CtxDone, Goto, TypeOK
<1>10. ASSUME NEW w \in Workers, CommitTimeout(w) \/ CommitResult(w)
       PROVE  OwnersUnchanged /\ UNCHANGED claims
  BY <1>10 DEF CommitTimeout, CommitResult, Goto, TypeOK
<1>11. ASSUME UNCHANGED vars PROVE OwnersUnchanged /\ UNCHANGED claims
  BY <1>11 DEF vars
<1> QED BY <1>1, <1>2, <1>3, <1>4, <1>5, <1>6, <1>7, <1>8, <1>9, <1>10, <1>11
        DEF Next, Dispatch, Finished

\* Claims stay exact and exclusive.
LEMMA NextClaims ==
    ASSUME TypeOK, ClaimsOwned, OneOwner, [Next]_vars
    PROVE  ClaimsOwned' /\ OneOwner'
<1>1. CASE OwnersUnchanged /\ UNCHANGED claims
  BY <1>1 DEF OwnersUnchanged, ClaimsOwned, OneOwner
<1>2. ASSUME NEW w \in Workers, TryClaim(w) PROVE ClaimsOwned' /\ OneOwner'
  <2>1. \A v \in Workers \ {w} : pc'[v] = pc[v] /\ cur'[v] = cur[v]
    BY <1>2 DEF TryClaim, Leave, Goto, TypeOK
  <2>2. CASE Id(w) \in claims
    <3>1. pc'[w] = "idle" /\ pc[w] = "claim" /\ UNCHANGED claims
      BY <1>2, <2>2 DEF TryClaim, Leave, TypeOK
    <3> QED BY <2>1, <3>1 DEF ClaimsOwned, OneOwner, OwnsClaim, Id
  <2>3. CASE Id(w) \notin claims
    <3>1. /\ pc'[w] = "pick" /\ cur'[w] = cur[w] /\ pc[w] = "claim"
          /\ claims' = claims \cup {Id(w)}
      BY <1>2, <2>3 DEF TryClaim, Goto, TypeOK
    <3> QED BY <2>1, <2>3, <3>1 DEF ClaimsOwned, OneOwner, OwnsClaim, Id
  <2> QED BY <2>2, <2>3
<1>3. ASSUME NEW w \in Workers, ReleaseClaim(w) PROVE ClaimsOwned' /\ OneOwner'
  <2>1. \A v \in Workers \ {w} : pc'[v] = pc[v] /\ cur'[v] = cur[v]
    BY <1>3 DEF ReleaseClaim, Leave, Goto, TypeOK
  <2>2. /\ pc'[w] \in {"idle", "retry"} /\ pc[w] = "release"
        /\ claims' = claims \ {Id(w)}
    BY <1>3 DEF ReleaseClaim, Leave, Goto, TypeOK
  <2> QED BY <2>1, <2>2 DEF ClaimsOwned, OneOwner, OwnsClaim, Id
<1> QED BY <1>1, <1>2, <1>3, OwnershipSteps

------------------------------------------------------------------------------
(* Commits.                                                                *)

\* A dispatch that is about to give up its claim has an outcome, the stored
\* one; a dispatch that is about to commit a timeout hides no success.
CommitsStand ==
    /\ ResultStands
    /\ \A w \in Workers :
          /\ pc[w] \in {"commit", "release"} => res[w] # "none"
          /\ pc[w] = "timeout" => ~CommittedSuccess(Id(w))
          /\ pc[w] = "commit" /\ res[w] = "timeout" => results[Id(w)] = "timeout"

\* CommitsStand for one worker.
Stands(w) ==
    /\ pc[w] = "release" => results[Id(w)] = res[w]
    /\ pc[w] \in {"commit", "release"} => res[w] # "none"
    /\ pc[w] = "timeout" => results[Id(w)] # "success"
    /\ pc[w] = "commit" /\ res[w] = "timeout" => results[Id(w)] = "timeout"

LEMMA StandsAll == CommitsStand <=> \A w \in Workers : Stands(w)
BY DEF CommitsStand, ResultStands, Stands, CommittedSuccess

\* A step of one worker leaves the place, the call and the result of every
\* other worker alone, and writes no outcome but that of a call it owns.
LocalStep(w) ==
    /\ \A v \in Workers \ {w} :
          pc'[v] = pc[v] /\ cur'[v] = cur[v] /\ res'[v] = res[v]
    /\ \/ UNCHANGED results
       \/ OwnsClaim(w) /\ \E o \in Outcomes \cup {"none"} : Commit(Id(w), o)

LEMMA OthersStand ==
    ASSUME TypeOK, OneOwner, CommitsStand, NEW w \in Workers, LocalStep(w),
           NEW v \in Workers \ {w}
    PROVE  Stands(v)'
<1>1. Stands(v)
  BY StandsAll
<1>2. pc'[v] = pc[v] /\ cur'[v] = cur[v] /\ res'[v] = res[v] /\ Id(v)' = Id(v)
  BY DEF LocalStep, Id
<1>3. CASE pc[v] \notin {"commit", "release", "timeout"}
  BY <1>2, <1>3 DEF Stands
<1>4. CASE pc[v] \in {"commit", "release", "timeout"}
  <2>1. results'[Id(v)] = results[Id(v)]
    <3>1. OwnsClaim(v)
      BY <1>4 DEF OwnsClaim
    <3>2. CASE UNCHANGED results
      BY <3>2
    <3>3. ASSUME OwnsClaim(w), NEW o \in Outcomes \cup {"none"}, Commit(Id(w), o)
          PROVE  results'[Id(v)] = results[Id(v)]
      <4>1. Id(v) # Id(w)
        BY <3>1, <3>3 DEF OneOwner
      <4>2. Id(v) \in Ids
        BY <1>4, IdOfAssumption DEF TypeOK, Id
      <4> QED BY <3>3, <4>1, <4>2 DEF Commit, TypeOK
    <3> QED BY <3>2, <3>3 DEF LocalStep
  <2> QED BY <1>1, <1>2, <2>1 DEF Stands
<1> QED BY <1>3, <1>4

\* The commits of every dispatch keep standing.
LEMMA NextCommits ==
    ASSUME TypeOK, OneOwner, CommitsStand, [Next]_vars
    PROVE  CommitsStand'
<1> DEFINE Goal(w) == LocalStep(w) /\ Stands(w)'
<1> USE DEF Stands, LocalStep, Id
<1>a. \A w \in Workers : Stands(w)
  BY StandsAll DEF CommitsStand
<1>b. ASSUME NEW w \in Workers, pc[w] \notin {"idle", "exited"}
      PROVE  cur[w] \in Entries /\ Id(w) \in Ids
  BY <1>b, IdOfAssumption DEF TypeOK
<1>1. ASSUME NEW w \in Workers, Take(w) \/ Exit(w) PROVE Goal(w)
  BY <1>1, <1>a DEF Take, Exit, TypeOK
<1>2. ASSUME NEW w \in Workers, CheckCommitted(w) \/ TryClaim(w) PROVE Goal(w)
  BY <1>2 DEF CheckCommitted, TryClaim, Leave, Goto, TypeOK
<1>3. ASSUME NEW w \in Workers, PickInstance(w) \/ AcquireHandle(w) \/ StartHandler(w)
      PROVE  Goal(w)
  BY <1>3 DEF PickInstance, AcquireHandle, StartHandler, Goto, TypeOK
<1>4. ASSUME NEW w \in Workers, PickFails(w) PROVE Goal(w)
  BY <1>4, <1>b DEF PickFails, Goto, SetResult, Commit, TypeOK, OwnsClaim, Outcomes
<1>5. ASSUME NEW w \in Workers, AcquireFails(w) \/ InstanceStopped(w) PROVE Goal(w)
  BY <1>5 DEF AcquireFails, InstanceStopped, Goto, SetResult, TypeOK
<1>6. ASSUME NEW w \in Workers, HandlerDone(w) PROVE Goal(w)
  BY <1>6, <1>b DEF HandlerDone, Goto, SetResult, Commit, TypeOK, OwnsClaim, Outcomes
<1>7. ASSUME NEW w \in Workers, CtxDone(w) PROVE Goal(w)
  BY <1>7, <1>b DEF CtxDone, Goto, SetResult, CommittedSuccess, TypeOK
<1>8. ASSUME NEW w \in Workers, CommitTimeout(w) PROVE Goal(w)
  BY <1>8, <1>b DEF CommitTimeout, Goto, SetResult, Commit, TypeOK, OwnsClaim, Outcomes
<1>9. ASSUME NEW w \in Workers, CommitResult(w) PROVE Goal(w)
  BY <1>9, <1>a, <1>b DEF CommitResult, Goto, Commit, TypeOK, OwnsClaim
<1>10. ASSUME NEW w \in Workers, ReleaseClaim(w) PROVE Goal(w)
  BY <1>10 DEF ReleaseClaim, Leave, Goto, TypeOK
<1>11. ASSUME NEW w \in Workers, ScheduleRetry(w) \/ Requeue(w) PROVE Goal(w)
  BY <1>11 DEF ScheduleRetry, Requeue, Leave, Goto, TypeOK
<1>12. ASSUME NEW w \in Workers, Goal(w) PROVE CommitsStand'
  <2>1. \A v \in Workers : Stands(v)'
    BY <1>12, OthersStand
  <2> QED BY <2>1 DEF CommitsStand, ResultStands, CommittedSuccess
<1>13. ASSUME UNCHANGED <<pc, cur, res, results>> PROVE CommitsStand'
  BY <1>13 DEF CommitsStand, ResultStands, CommittedSuccess
<1>14. ASSUME NEW e \in Entries, Submit(e) \/ Expire(e)
       PROVE  UNCHANGED <<pc, cur, res, results>>
  BY <1>14 DEF Submit, Expire
<1>15. ASSUME NEW e \in Entries, NEW a \in Attempts, HandlerReturns(e, a)
       PROVE  UNCHANGED <<pc, cur, res, results>>
  BY <1>15 DEF HandlerReturns
<1>16. ASSUME Cancel \/ CloseQueue PROVE UNCHANGED <<pc, cur, res, results>>
  BY <1>16 DEF Cancel, CloseQueue
<1>17. ASSUME UNCHANGED vars PROVE UNCHANGED <<pc, cur, res, results>>
  BY <1>17 DEF vars
<1> HIDE DEF Goal
<1> QED BY <1>1, <1>2, <1>3, <1>4, <1>5, <1>6, <1>7, <1>8, <1>9, <1>10, <1>11,
           <1>12, <1>13, <1>14, <1>15, <1>16, <1>17 DEF Next, Dispatch, Finished

------------------------------------------------------------------------------
(* The inductive invariant and what follows from it.                       *)

\* Exclusive claims need the claim map to be exact (a claim may be granted only
\* while nobody owns the ID), and undisturbed commits need exclusive claims.
ClaimInv == TypeOK /\ ClaimsOwned /\ OneOwner /\ CommitsStand

LEMMA InitClaimInv == Init => ClaimInv
<1> SUFFICES ASSUME Init PROVE ClaimInv
  OBVIOUS
<1>1. \A w \in Workers : pc[w] = "idle"
  BY DEF Init
<1>2. ClaimsOwned /\ OneOwner
  BY <1>1 DEF Init, ClaimsOwned, OneOwner, OwnsClaim
<1>3. CommitsStand
  BY <1>1 DEF CommitsStand, ResultStands
<1> QED BY <1>2, <1>3, InitTypeOK DEF ClaimInv

THEOREM ClaimInvariance == Spec => []ClaimInv
<1>1. ClaimInv /\ [Next]_vars => ClaimInv'
  BY NextTypeOK, NextClaims, NextCommits DEF ClaimInv
<1> QED BY InitClaimInv, <1>1, PTL DEF Spec

\* No two dispatchers execute the same call ID at the same time (claim.go:5-6,
\* exec.go:96-106).
THEOREM ExclusiveClaims == Spec => []OneOwner
<1>1. ClaimInv => OneOwner
  BY DEF ClaimInv
<1> QED BY ClaimInvariance, <1>1, PTL

\* The claim map holds exactly the IDs being dispatched, on every path through
\* Dispatch (exec.go:96-135).
THEOREM ClaimsNeverLeak == Spec => []ClaimsExact
<1>1. ClaimInv => ClaimsExact
  BY DEF ClaimInv, ClaimsOwned, ClaimsExact
<1> QED BY ClaimInvariance, <1>1, PTL

\* What Dispatch returns is what the result store holds until the claim is given
\* up (exec.go:113-135).
THEOREM CommitsUndisturbed == Spec => []ResultStands
<1>1. ClaimInv => ResultStands
  BY DEF ClaimInv, CommitsStand
<1> QED BY ClaimInvariance, <1>1, PTL

\* The steps that write an outcome.
LEMMA WhoCommits ==
    ASSUME [Next]_vars
    PROVE  \/ UNCHANGED results
           \/ \E w \in Workers : \/ PickFails(w) \/ HandlerDone(w)
                                 \/ CommitTimeout(w) \/ CommitResult(w)
<1>1. ASSUME NEW e \in Entries, Submit(e) \/ Expire(e) PROVE UNCHANGED results
  BY <1>1 DEF Submit, Expire
<1>2. ASSUME NEW e \in Entries, NEW a \in Attempts, HandlerReturns(e, a)
      PROVE  UNCHANGED results
  BY <1>2 DEF HandlerReturns
<1>3. ASSUME Cancel \/ CloseQueue \/ UNCHANGED vars PROVE UNCHANGED results
  BY <1>3 DEF Cancel, CloseQueue, vars
<1>4. ASSUME NEW w \in Workers,
             \/ Take(w) \/ Exit(w) \/ CheckCommitted(w) \/ TryClaim(w) \/ PickInstance(w)
             \/ AcquireHandle(w) \/ StartHandler(w) \/ AcquireFails(w)
             \/ CtxDone(w) \/ InstanceStopped(w) \/ ReleaseClaim(w)
             \/ ScheduleRetry(w) \/ Requeue(w)
      PROVE  UNCHANGED results
  BY <1>4 DEF Take, Exit, CheckCommitted, TryClaim, PickInstance, AcquireHandle,
              StartHandler, AcquireFails, CtxDone, InstanceStopped, ReleaseClaim,
              ScheduleRetry, Requeue
<1> QED BY <1>1, <1>2, <1>3, <1>4 DEF Next, Dispatch, Finished

\* Who may write an outcome, and when: the commits of one step.
LEMMA CommitSteps ==
    ASSUME TypeOK, [Next]_vars
    PROVE  \/ UNCHANGED results
           \/ \E w \in Workers, o \in {"success", "failure"} :
                 Commit(Id(w), o) /\ OwnsClaim(w)
           \/ \E w \in Workers :
                 pc[w] = "timeout" /\ Commit(Id(w), "timeout")
           \/ \E w \in Workers : pc[w] = "commit" /\ Commit(Id(w), res[w])
<1>1. ASSUME NEW w \in Workers, PickFails(w) \/ HandlerDone(w)
      PROVE  \E o \in {"success", "failure"} : Commit(Id(w), o) /\ OwnsClaim(w)
  BY <1>1 DEF PickFails, HandlerDone, Goto, OwnsClaim
<1>2. ASSUME NEW w \in Workers, CommitTimeout(w)
      PROVE  pc[w] = "timeout" /\ Commit(Id(w), "timeout")
  BY <1>2 DEF CommitTimeout, Goto
<1>3. ASSUME NEW w \in Workers, CommitResult(w)
      PROVE  pc[w] = "commit" /\ Commit(Id(w), res[w])
  BY <1>3 DEF CommitResult, Goto
<1> QED BY <1>1, <1>2, <1>3, WhoCommits

\* A deadline that expires never replaces a stored success by a timeout
\* (timeout.go:21-38): the check before the commit is not stale when the commit
\* comes, because the claim is held throughout.
THEOREM TimeoutsHideNothing == Spec => TimeoutNeverHidesSuccess
<1> DEFINE Step == \A i \in Ids : results[i] = "success" => results'[i] # "timeout"
<1>1. ASSUME ClaimInv, [Next]_vars PROVE Step
  <2> SUFFICES ASSUME NEW i \in Ids, results[i] = "success"
               PROVE  results'[i] # "timeout"
    OBVIOUS
  <2>1. CASE UNCHANGED results
    BY <2>1
  <2>2. ASSUME NEW w \in Workers, NEW o \in {"success", "failure"},
               Commit(Id(w), o)
        PROVE  results'[i] # "timeout"
    BY <1>1, <2>2 DEF Commit, ClaimInv, TypeOK
  <2>3. ASSUME NEW w \in Workers, pc[w] = "timeout", Commit(Id(w), "timeout")
        PROVE  results'[i] # "timeout"
    <3>1. results[Id(w)] # "success"
      BY <1>1, <2>3 DEF ClaimInv, CommitsStand, CommittedSuccess
    <3> QED BY <1>1, <2>3, <3>1 DEF Commit, ClaimInv, TypeOK
  <2>4. ASSUME NEW w \in Workers, pc[w] = "commit", Commit(Id(w), res[w])
        PROVE  results'[i] # "timeout"
    <3>1. res[w] = "timeout" => results[Id(w)] = "timeout"
      BY <1>1, <2>4 DEF ClaimInv, CommitsStand
    <3> QED BY <1>1, <2>4, <3>1 DEF Commit, ClaimInv, TypeOK
  <2> QED BY <1>1, <2>1, <2>2, <2>3, <2>4, CommitSteps DEF ClaimInv
<1>2. ClaimInv /\ [Next]_vars => [Step]_vars
  BY <1>1
<1> HIDE DEF Step
<1>3. Spec => [][Step]_vars
  BY ClaimInvariance, <1>2, PTL DEF Spec
<1> QED BY <1>3 DEF Step, TimeoutNeverHidesSuccess
------------------------------------------------------------------------------
(* The executor implements ExecutionRegister: a claim is ownership of the    *)
(* call ID, a commit records an outcome, and everything else is a stutter.   *)

\* Owner(i) is the worker that owns the claim of i, and Nobody without one.
OwnerIs(i, w) == OwnsClaim(w) /\ Id(w) = i => Owner(i) = w
OwnerIsNobody(i) ==
    (\A w \in Workers : ~(OwnsClaim(w) /\ Id(w) = i)) => Owner(i) = Nobody

LEMMA OwnerMeaning ==
    OneOwner => \A i \in Ids : (\A w \in Workers : OwnerIs(i, w)) /\ OwnerIsNobody(i)
BY DEF OneOwner, OwnerIs, OwnerIsNobody, Owner

LEMMA OwnerMeaningNext ==
    OneOwner' => \A i \in Ids : /\ \A w \in Workers : OwnerIs(i, w)'
                                /\ OwnerIsNobody(i)'
<1>1. (OneOwner => \A i \in Ids : (\A w \in Workers : OwnerIs(i, w))
                                    /\ OwnerIsNobody(i))'
  BY OwnerMeaning, PTL
<1> QED BY <1>1

\* Without a change of claims no owner changes.
LEMMA OwnersStay ==
    ASSUME OneOwner, OneOwner', OwnersUnchanged
    PROVE  \A i \in Ids : Owner(i)' = Owner(i)
<1> SUFFICES ASSUME NEW i \in Ids PROVE Owner(i)' = Owner(i)
  OBVIOUS
<1>1. ASSUME NEW w \in Workers, OwnsClaim(w), Id(w) = i
      PROVE  Owner(i)' = Owner(i)
  <2>1. Owner(i) = w
    BY <1>1, OwnerMeaning DEF OwnerIs
  <2>2. OwnsClaim(w)' /\ Id(w)' = i
    BY <1>1 DEF OwnersUnchanged
  <2>3. Owner(i)' = w
    BY <2>2, OwnerMeaningNext DEF OwnerIs
  <2> QED BY <2>1, <2>3
<1>2. ASSUME \A w \in Workers : ~(OwnsClaim(w) /\ Id(w) = i)
      PROVE  Owner(i)' = Owner(i)
  <2>1. Owner(i) = Nobody
    BY <1>2, OwnerMeaning DEF OwnerIsNobody
  <2>2. \A w \in Workers : ~(OwnsClaim(w)' /\ Id(w)' = i)
    BY <1>2 DEF OwnersUnchanged
  <2>3. Owner(i)' = Nobody
    BY <2>2, OwnerMeaningNext DEF OwnerIsNobody
  <2> QED BY <2>1, <2>3
<1> QED BY <1>1, <1>2

owners == [i \in Ids |-> Owner(i)]

\* A step that changes no claim records an outcome for its owner, or nothing.
LEMMA RecordStep ==
    ASSUME ClaimInv, ClaimInv', [Next]_vars, OwnersUnchanged
    PROVE  [Register!Next]_<<owners, results>>
<1>1. owners' = owners
  BY OwnersStay DEF ClaimInv, owners
<1>2. ASSUME NEW w \in Workers, NEW o \in Outcomes, OwnsClaim(w), Commit(Id(w), o)
      PROVE  Register!Next
  <2>1. Id(w) \in Ids
    BY <1>2, IdOfAssumption DEF ClaimInv, TypeOK, OwnsClaim, Id
  <2>2. owners[Id(w)] = w
    BY <1>2, <2>1, OwnerMeaning DEF ClaimInv, OwnerIs, owners
  <2>3. Register!Record(Id(w), w, o)
    BY <1>1, <1>2, <2>2 DEF Register!Record, Commit, owners
  <2> QED BY <2>1, <2>3 DEF Register!Next
<1>3. CASE UNCHANGED results
  BY <1>1, <1>3
<1>4. ASSUME NEW w \in Workers, NEW o \in {"success", "failure"},
             Commit(Id(w), o), OwnsClaim(w)
      PROVE  Register!Next
  BY <1>2, <1>4 DEF Outcomes
<1>5. ASSUME NEW w \in Workers, pc[w] = "timeout", Commit(Id(w), "timeout")
      PROVE  Register!Next
  BY <1>2, <1>5 DEF OwnsClaim, Outcomes
<1>6. ASSUME NEW w \in Workers, pc[w] = "commit", Commit(Id(w), res[w])
      PROVE  Register!Next
  <2>1. res[w] \in Outcomes
    BY <1>6 DEF ClaimInv, TypeOK, CommitsStand
  <2> QED BY <1>2, <1>6, <2>1 DEF OwnsClaim
<1> QED BY <1>3, <1>4, <1>5, <1>6, CommitSteps DEF ClaimInv

\* TryClaim takes a free ID, or changes nothing.
LEMMA OwnStep ==
    ASSUME ClaimInv, ClaimInv', NEW w \in Workers, TryClaim(w)
    PROVE  [Register!Next]_<<owners, results>>
<1>1. \A v \in Workers \ {w} : pc'[v] = pc[v] /\ cur'[v] = cur[v]
  BY DEF TryClaim, Leave, Goto, ClaimInv, TypeOK
<1>2. UNCHANGED results /\ pc[w] = "claim"
  BY DEF TryClaim
<1>3. CASE Id(w) \in claims
  <2>1. pc'[w] = "idle"
    BY <1>3 DEF TryClaim, Leave, ClaimInv, TypeOK
  <2>2. OwnersUnchanged
    BY <1>1, <1>2, <2>1 DEF OwnersUnchanged, OwnsClaim, Id
  <2> QED BY <1>2, <2>2, OwnersStay DEF ClaimInv, owners
<1>4. CASE Id(w) \notin claims
  <2>1. pc'[w] = "pick" /\ cur'[w] = cur[w] /\ Id(w)' = Id(w)
    BY <1>4 DEF TryClaim, Goto, ClaimInv, TypeOK, Id
  <2>2. Id(w) \in Ids
    BY <1>2, IdOfAssumption DEF ClaimInv, TypeOK, Id
  <2>3. owners[Id(w)] = Nobody
    <3>1. \A v \in Workers : ~(OwnsClaim(v) /\ Id(v) = Id(w))
      BY <1>4 DEF ClaimInv, ClaimsOwned
    <3> QED BY <2>2, <3>1, OwnerMeaning DEF ClaimInv, OwnerIsNobody, owners
  <2>4. Owner(Id(w))' = w
    <3>1. OwnsClaim(w)'
      BY <2>1 DEF OwnsClaim
    <3> QED BY <2>1, <2>2, <3>1, OwnerMeaningNext DEF ClaimInv, OwnerIs
  <2>5. ASSUME NEW i \in Ids, i # Id(w) PROVE Owner(i)' = Owner(i)
    <3>1. \A v \in Workers : /\ (OwnsClaim(v)' /\ Id(v)' = i)
                                  <=> (OwnsClaim(v) /\ Id(v) = i)
      BY <1>1, <1>2, <2>1, <2>5 DEF OwnsClaim, Id
    <3>2. CASE \E v \in Workers : OwnsClaim(v) /\ Id(v) = i
      BY <3>1, <3>2, OwnerMeaning, OwnerMeaningNext DEF ClaimInv, OwnerIs
    <3>3. CASE ~\E v \in Workers : OwnsClaim(v) /\ Id(v) = i
      BY <3>1, <3>3, OwnerMeaning, OwnerMeaningNext DEF ClaimInv, OwnerIsNobody
    <3> QED BY <3>2, <3>3
  <2>6. owners' = [owners EXCEPT ![Id(w)] = w]
    BY <2>2, <2>1, <2>4, <2>5 DEF owners
  <2>7. Register!Own(Id(w), w)
    BY <1>2, <2>3, <2>6 DEF Register!Own, owners
  <2> QED BY <2>2, <2>7 DEF Register!Next
<1> QED BY <1>3, <1>4

\* ReleaseClaim lets go of an ID that has an outcome.
LEMMA LetGoStep ==
    ASSUME ClaimInv, ClaimInv', NEW w \in Workers, ReleaseClaim(w)
    PROVE  [Register!Next]_<<owners, results>>
<1>1. \A v \in Workers \ {w} : pc'[v] = pc[v] /\ cur'[v] = cur[v]
  BY DEF ReleaseClaim, Leave, Goto, ClaimInv, TypeOK
<1>2. UNCHANGED results /\ pc[w] = "release" /\ OwnsClaim(w)
  BY DEF ReleaseClaim, OwnsClaim
<1>3. pc'[w] \in {"idle", "retry"}
  BY DEF ReleaseClaim, Leave, Goto, ClaimInv, TypeOK
<1>4. PICK j \in Ids : j = Id(w)
  BY <1>2, IdOfAssumption DEF ClaimInv, TypeOK, Id
<1>5. owners[j] = w
  BY <1>2, <1>4, OwnerMeaning DEF ClaimInv, OwnerIs, owners
<1>6. results[j] # "none"
  BY <1>2, <1>4 DEF ClaimInv, CommitsStand, ResultStands
<1>7. Owner(j)' = Nobody
  <2>1. ASSUME NEW v \in Workers, OwnsClaim(v)' PROVE Id(v)' # j
    <3>1. v # w
      BY <1>3, <2>1 DEF OwnsClaim
    <3>2. OwnsClaim(v) /\ Id(v)' = Id(v)
      BY <1>1, <2>1, <3>1 DEF OwnsClaim, Id
    <3> QED BY <1>2, <1>4, <3>1, <3>2 DEF ClaimInv, OneOwner
  <2> QED BY <1>4, <2>1, OwnerMeaningNext DEF ClaimInv, OwnerIsNobody
<1>8. ASSUME NEW i \in Ids, i # j PROVE Owner(i)' = Owner(i)
  <2>1. \A v \in Workers : (OwnsClaim(v)' /\ Id(v)' = i)
                              <=> (OwnsClaim(v) /\ Id(v) = i)
    BY <1>1, <1>2, <1>3, <1>4, <1>8 DEF OwnsClaim, Id
  <2>2. CASE \E v \in Workers : OwnsClaim(v) /\ Id(v) = i
    BY <2>1, <2>2, OwnerMeaning, OwnerMeaningNext DEF ClaimInv, OwnerIs
  <2>3. CASE ~\E v \in Workers : OwnsClaim(v) /\ Id(v) = i
    BY <2>1, <2>3, OwnerMeaning, OwnerMeaningNext DEF ClaimInv, OwnerIsNobody
  <2> QED BY <2>2, <2>3
<1>9. owners' = [owners EXCEPT ![j] = Nobody]
  BY <1>4, <1>7, <1>8 DEF owners
<1>10. Register!LetGo(j, w)
  BY <1>2, <1>5, <1>6, <1>9 DEF Register!LetGo, owners
<1> QED BY <1>4, <1>10 DEF Register!Next

\* The claim map, the result store and the deferred releases of Execute together
\* amount to exclusive ownership of the call ID (exec.go:90-194).
THEOREM RegisterImplemented == Spec => ImplementsRegister
<1>1. Init => Register!Init
  <2> SUFFICES ASSUME Init PROVE Register!Init
    OBVIOUS
  <2>1. OneOwner /\ \A w \in Workers : ~OwnsClaim(w)
    BY DEF Init, OneOwner, OwnsClaim
  <2>2. \A i \in Ids : Owner(i) = Nobody
    BY <2>1, OwnerMeaning DEF OwnerIsNobody
  <2> QED BY <2>2 DEF Init, Register!Init
<1>2. ClaimInv /\ ClaimInv' /\ [Next]_vars => [Register!Next]_<<owners, results>>
  BY RecordStep, OwnStep, LetGoStep, OwnershipSteps DEF ClaimInv
<1>3. Spec => Register!Init /\ [][Register!Next]_<<owners, results>>
  BY <1>1, <1>2, ClaimInvariance, PTL DEF Spec
<1> QED BY <1>3, PTL DEF ImplementsRegister, Register!Spec, owners

------------------------------------------------------------------------------
(* Where a call object is.                                                  *)

\* EntryInOnePlace without cardinalities.
Placed ==
    /\ \A w \in Workers : pc[w] \in {"idle", "exited"} => cur[w] = NoEntry
    /\ \A e \in Entries : queued[e] <= 1
    /\ \A e \in Entries : queued[e] > 0 => e \in submitted
    /\ \A e \in Entries : queued[e] > 0 => \A w \in Workers : cur[w] # e
    /\ \A w \in Workers : cur[w] # NoEntry => cur[w] \in submitted
    /\ \A v, w \in Workers : cur[v] = cur[w] /\ cur[v] # NoEntry => v = w

\* No worker puts its call object down.
NobodyLeaves ==
    \A w \in Workers : pc'[w] \in {"idle", "exited"} => pc[w] \in {"idle", "exited"}

\* How a step moves call objects: only Submit, Take and Requeue touch the queue.
LEMMA PlaceSteps ==
    ASSUME TypeOK, [Next]_vars
    PROVE  \/ \E e \in Entries : Submit(e)
           \/ \E w \in Workers : Take(w) \/ Requeue(w)
           \/ \E w \in Workers : /\ Leave(w) /\ UNCHANGED <<queued, submitted>>
                                 /\ \/ CheckCommitted(w) \/ TryClaim(w)
                                    \/ ReleaseClaim(w) \/ ScheduleRetry(w)
           \/ UNCHANGED <<cur, queued, submitted>> /\ NobodyLeaves
<1> DEFINE Stay == UNCHANGED <<cur, queued, submitted>> /\ NobodyLeaves
           Left(w) == /\ Leave(w) /\ UNCHANGED <<queued, submitted>>
                      /\ \/ CheckCommitted(w) \/ TryClaim(w)
                         \/ ReleaseClaim(w) \/ ScheduleRetry(w)
<1> USE DEF queueVars, NobodyLeaves
<1>1. ASSUME NEW e \in Entries, Expire(e) PROVE Stay
  BY <1>1 DEF Expire
<1>2. ASSUME NEW e \in Entries, NEW a \in Attempts, HandlerReturns(e, a) PROVE Stay
  BY <1>2 DEF HandlerReturns
<1>3. ASSUME Cancel \/ CloseQueue \/ UNCHANGED vars PROVE Stay
  BY <1>3 DEF Cancel, CloseQueue, vars
<1>4. ASSUME NEW w \in Workers, CheckCommitted(w) PROVE Left(w) \/ Stay
  BY <1>4 DEF CheckCommitted, Goto, TypeOK
<1>5. ASSUME NEW w \in Workers, TryClaim(w) PROVE Left(w) \/ Stay
  BY <1>5 DEF TryClaim, Goto, TypeOK
<1>6. ASSUME NEW w \in Workers, ReleaseClaim(w) PROVE Left(w) \/ Stay
  BY <1>6 DEF ReleaseClaim, Goto, TypeOK
<1>7. ASSUME NEW w \in Workers, ScheduleRetry(w) PROVE Left(w) \/ Stay
  BY <1>7 DEF ScheduleRetry, Goto, TypeOK
<1>8. ASSUME NEW w \in Workers, PickInstance(w) \/ PickFails(w) \/ AcquireHandle(w)
      PROVE  Stay
  BY <1>8 DEF PickInstance, PickFails, AcquireHandle, Goto, TypeOK
<1>9. ASSUME NEW w \in Workers,
             StartHandler(w) \/ AcquireFails(w) \/ InstanceStopped(w)
      PROVE  Stay
  BY <1>9 DEF StartHandler, AcquireFails, InstanceStopped, Goto, TypeOK
<1>10. ASSUME NEW w \in Workers, HandlerDone(w) \/ CommitResult(w) PROVE Stay
  BY <1>10 DEF HandlerDone, CommitResult, Goto, TypeOK
<1>11. ASSUME NEW w \in Workers, CtxDone(w) \/ CommitTimeout(w) PROVE Stay
  BY <1>11 DEF CtxDone, CommitTimeout, Goto, TypeOK
<1>12. ASSUME NEW w \in Workers, Exit(w) PROVE Stay
  BY <1>12 DEF Exit, TypeOK
<1> HIDE DEF Stay, Left
<1>13. \/ \E e \in Entries : Submit(e)
       \/ \E w \in Workers : Take(w) \/ Requeue(w) \/ Left(w)
       \/ Stay
  BY <1>1, <1>2, <1>3, <1>4, <1>5, <1>6, <1>7, <1>8, <1>9, <1>10, <1>11,
     <1>12 DEF Next, Dispatch, Finished
<1> QED BY <1>13 DEF Stay, Left

LEMMA NextPlaced ==
    ASSUME TypeOK, Placed, [Next]_vars
    PROVE  Placed'
<1>1. ASSUME NEW e \in Entries, Submit(e) PROVE Placed'
  <2>1. queued[e] = 0 /\ \A w \in Workers : cur[w] # e
    BY <1>1, NoEntryAssumption DEF Submit, Placed, TypeOK
  <2> QED BY <1>1, <2>1 DEF Submit, Placed, TypeOK
<1>2. ASSUME NEW w \in Workers, Take(w) PROVE Placed'
  <2>1. PICK e \in Entries :
          /\ queued[e] > 0
          /\ queued' = [queued EXCEPT ![e] = @ - 1]
          /\ IF cancelled
             THEN UNCHANGED <<pc, cur>>
             ELSE /\ pc' = [pc EXCEPT ![w] = "check"]
                  /\ cur' = [cur EXCEPT ![w] = e]
    BY <1>2 DEF Take
  <2>2. queued'[e] = 0 /\ \A f \in Entries \ {e} : queued'[f] = queued[f]
    BY <2>1 DEF Placed, TypeOK
  <2>3. e \in submitted /\ (\A v \in Workers : cur[v] # e) /\ UNCHANGED submitted
    BY <1>2, <2>1 DEF Placed, Take
  <2>4. CASE cancelled
    BY <2>1, <2>2, <2>3, <2>4 DEF Placed, TypeOK
  <2>5. CASE ~cancelled
    <3>1. cur'[w] = e /\ pc'[w] \notin {"idle", "exited"}
      BY <2>1, <2>5 DEF TypeOK
    <3>2. \A v \in Workers \ {w} : cur'[v] = cur[v] /\ pc'[v] = pc[v]
      BY <2>1, <2>5 DEF TypeOK
    <3>3. \A v \in Workers : pc'[v] \in {"idle", "exited"} => cur'[v] = NoEntry
      BY <3>1, <3>2 DEF Placed
    <3>4. \A f \in Entries : /\ queued'[f] <= 1
                             /\ queued'[f] > 0 => f # e /\ queued[f] > 0
      <4> TAKE f \in Entries
      <4>1. CASE f = e
        BY <2>2, <4>1
      <4>2. CASE f # e
        BY <2>2, <4>2 DEF Placed
      <4> QED BY <4>1, <4>2
    <3>5. ASSUME NEW f \in Entries, queued'[f] > 0
          PROVE  f \in submitted' /\ \A v \in Workers : cur'[v] # f
      <4>1. f # e /\ queued[f] > 0
        BY <3>4, <3>5
      <4>2. f \in submitted /\ \A v \in Workers : cur[v] # f
        BY <4>1 DEF Placed
      <4> QED BY <2>3, <3>1, <3>2, <4>1, <4>2
    <3>6. \A v \in Workers : cur'[v] # NoEntry => cur'[v] \in submitted'
      BY <2>3, <3>1, <3>2 DEF Placed
    <3>7. ASSUME NEW u \in Workers, NEW v \in Workers,
                 cur'[u] = cur'[v], cur'[u] # NoEntry
          PROVE  u = v
      <4>1. CASE u # w /\ v # w
        BY <3>2, <3>7, <4>1 DEF Placed
      <4>2. CASE u = w \/ v = w
        BY <2>3, <3>1, <3>2, <3>7, <4>2
      <4> QED BY <4>1, <4>2
    <3>8. \A f \in Entries : queued'[f] <= 1
      BY <3>4
    <3>9. /\ \A f \in Entries : queued'[f] > 0 => f \in submitted'
          /\ \A f \in Entries : queued'[f] > 0 => \A v \in Workers : cur'[v] # f
      BY <3>5
    <3> QED BY <3>3, <3>6, <3>7, <3>8, <3>9 DEF Placed
  <2> QED BY <2>4, <2>5
<1>3. ASSUME NEW w \in Workers, Requeue(w) PROVE Placed'
  <2>1. /\ cur[w] \in Entries /\ cur[w] \in submitted /\ queued[cur[w]] = 0
        /\ \A v \in Workers \ {w} : cur[v] # cur[w]
    BY <1>3, NoEntryAssumption DEF Requeue, Placed, TypeOK
  <2>2. /\ cur' = [cur EXCEPT ![w] = NoEntry] /\ pc' = [pc EXCEPT ![w] = "idle"]
        /\ UNCHANGED submitted
    BY <1>3 DEF Requeue, Leave
  <2>3. UNCHANGED queued \/ queued' = [queued EXCEPT ![cur[w]] = @ + 1]
    BY <1>3 DEF Requeue
  <2>4. cur'[w] = NoEntry /\ pc'[w] = "idle"
    BY <2>2 DEF TypeOK
  <2>5. \A v \in Workers \ {w} : cur'[v] = cur[v] /\ pc'[v] = pc[v]
    BY <2>2 DEF TypeOK
  <2>6. /\ queued'[cur[w]] \in {0, 1}
        /\ \A f \in Entries \ {cur[w]} : queued'[f] = queued[f]
    BY <2>1, <2>3 DEF TypeOK
  <2> QED BY <2>1, <2>2, <2>4, <2>5, <2>6, NoEntryAssumption DEF Placed
<1>4. ASSUME NEW w \in Workers, Leave(w), UNCHANGED <<queued, submitted>>
      PROVE  Placed'
  BY <1>4, NoEntryAssumption DEF Leave, Placed, TypeOK
<1>5. ASSUME UNCHANGED <<cur, queued, submitted>>, NobodyLeaves PROVE Placed'
  BY <1>5 DEF Placed, NobodyLeaves
<1> QED BY <1>1, <1>2, <1>3, <1>4, <1>5, PlaceSteps

LEMMA PlacedCounts == TypeOK /\ Placed => EntryInOnePlace
<1> SUFFICES ASSUME TypeOK, Placed, NEW e \in Entries
             PROVE  queued[e] + Cardinality({w \in Workers : cur[w] = e}) <= 1
  BY DEF EntryInOnePlace
<1> DEFINE H == {w \in Workers : cur[w] = e}
<1>1. CASE H = {}
  <2>1. Cardinality(H) = 0
    BY <1>1, FS_EmptySet
  <2> QED BY <2>1 DEF Placed, TypeOK
<1>2. CASE H # {}
  <2>1. PICK w \in Workers : cur[w] = e
    BY <1>2
  <2>2. H = {w}
    BY <2>1, NoEntryAssumption DEF Placed
  <2>3. Cardinality(H) = 1
    BY <2>2, FS_Singleton
  <2>4. queued[e] = 0
    BY <2>1 DEF Placed, TypeOK
  <2> QED BY <2>3, <2>4
<1> QED BY <1>1, <1>2

------------------------------------------------------------------------------
(* No call is lost.                                                        *)

\* Some entry of the call waits or is being dispatched.
InPlay(i) ==
    \E e \in Entries : /\ IdOf[e] = i
                       /\ queued[e] > 0 \/ \E w \in Workers : cur[w] = e

\* As long as the engine runs, a submitted call has succeeded, has had its last
\* attempt, or is in play.
CallKept ==
    \A e \in submitted : \/ cancelled \/ CommittedSuccess(IdOf[e])
                         \/ IdOf[e] \in spent \/ InPlay(IdOf[e])

\* Between ShouldRetry and Schedule nobody else counts an attempt of the call.
RetryDue == \A w \in Workers : pc[w] = "retry" => MayRetry(cur[w])

ClosedLast == closed => cancelled

LEMMA NextRetryDue ==
    ASSUME TypeOK, Placed, RetryDue, [Next]_vars
    PROVE  RetryDue'
<1> USE DEF RetryDue, MayRetry
<1>1. ASSUME UNCHANGED attempt,
             \A w \in Workers : pc'[w] = "retry" => pc[w] = "retry" /\ cur'[w] = cur[w]
      PROVE  RetryDue'
  BY <1>1
<1>2. ASSUME NEW e \in Entries, Submit(e) \/ Expire(e) PROVE RetryDue'
  BY <1>1, <1>2 DEF Submit, Expire
<1>3. ASSUME NEW e \in Entries, NEW a \in Attempts, HandlerReturns(e, a)
      PROVE  RetryDue'
  BY <1>1, <1>3 DEF HandlerReturns
<1>4. ASSUME Cancel \/ CloseQueue \/ UNCHANGED vars PROVE RetryDue'
  BY <1>1, <1>4 DEF Cancel, CloseQueue, vars
<1>5. ASSUME NEW w \in Workers, Take(w) \/ Exit(w) PROVE RetryDue'
  BY <1>1, <1>5 DEF Take, Exit, TypeOK
<1>6. ASSUME NEW w \in Workers, CheckCommitted(w) \/ TryClaim(w) \/ Requeue(w)
      PROVE  RetryDue'
  BY <1>1, <1>6 DEF CheckCommitted, TryClaim, Requeue, Leave, Goto, TypeOK
<1>7. ASSUME NEW w \in Workers,
             \/ PickInstance(w) \/ PickFails(w) \/ AcquireHandle(w)
             \/ StartHandler(w) \/ AcquireFails(w) \/ InstanceStopped(w)
      PROVE  RetryDue'
  BY <1>1, <1>7 DEF PickInstance, PickFails, AcquireHandle, StartHandler,
                    AcquireFails, InstanceStopped, Goto, TypeOK
<1>8. ASSUME NEW w \in Workers,
             HandlerDone(w) \/ CtxDone(w) \/ CommitTimeout(w) \/ CommitResult(w)
      PROVE  RetryDue'
  BY <1>1, <1>8 DEF HandlerDone, CtxDone, CommitTimeout, CommitResult, Goto, TypeOK
<1>9. ASSUME NEW w \in Workers, ReleaseClaim(w) PROVE RetryDue'
  BY <1>9 DEF ReleaseClaim, ShouldRetry, Leave, Goto, TypeOK
<1>10. ASSUME NEW w \in Workers, ScheduleRetry(w) PROVE RetryDue'
  <2>1. \A v \in Workers : pc'[v] = "retry" =>
            v # w /\ pc[v] = "retry" /\ cur'[v] = cur[v]
    BY <1>10 DEF ScheduleRetry, Leave, Goto, TypeOK
  <2>2. \A v \in Workers : v # w /\ pc[v] = "retry" => attempt'[cur[v]] = attempt[cur[v]]
    <3>1. pc[w] = "retry"
      BY <1>10 DEF ScheduleRetry
    <3>2. \A v \in Workers : v # w /\ pc[v] = "retry" =>
              cur[v] # cur[w] /\ cur[v] \in Entries
      BY <3>1, NoEntryAssumption DEF Placed, TypeOK
    <3> QED BY <1>10, <3>2 DEF ScheduleRetry, TypeOK
  <2> QED BY <2>1, <2>2
<1> QED BY <1>2, <1>3, <1>4, <1>5, <1>6, <1>7, <1>8, <1>9, <1>10
        DEF Next, Dispatch, Finished

\* A dispatch ends without a retry only if the call has succeeded, has had its
\* last attempt, is being dispatched by another worker or the engine stops.
LEMMA LeavingIsHarmless ==
    ASSUME ClaimInv, Placed, RetryDue, NEW w \in Workers, Leave(w),
           UNCHANGED <<queued, submitted>>,
           \/ CheckCommitted(w) \/ TryClaim(w) \/ ReleaseClaim(w)
           \/ ScheduleRetry(w)
    PROVE  /\ UNCHANGED results
           /\ \/ CommittedSuccess(Id(w)) \/ Id(w) \in spent'
              \/ \E v \in Workers \ {w} : cur[v] \in Entries /\ Id(v) = Id(w)
<1>0. pc'[w] = "idle"
  BY DEF Leave, ClaimInv, TypeOK
<1>1. CASE CheckCommitted(w)
  BY <1>0, <1>1 DEF CheckCommitted, Goto, ClaimInv, TypeOK
<1>2. CASE TryClaim(w)
  <2>1. Id(w) \in claims /\ ~OwnsClaim(w)
    BY <1>0, <1>2 DEF TryClaim, Goto, ClaimInv, TypeOK, OwnsClaim
  <2>2. PICK v \in Workers : OwnsClaim(v) /\ Id(v) = Id(w)
    BY <2>1 DEF ClaimInv, ClaimsOwned
  <2>3. v # w /\ cur[v] \in Entries
    BY <2>1, <2>2 DEF OwnsClaim, ClaimInv, TypeOK
  <2> QED BY <1>2, <2>2, <2>3 DEF TryClaim
<1>3. CASE ReleaseClaim(w)
  <2>1. pc[w] = "release" /\ UNCHANGED results
    BY <1>3 DEF ReleaseClaim
  <2>2. ~ShouldRetry(w)
    BY <1>0, <1>3 DEF ReleaseClaim, Goto, ClaimInv, TypeOK
  <2>3. CASE res[w] = "success"
    BY <2>1, <2>3 DEF ClaimInv, CommitsStand, ResultStands, CommittedSuccess
  <2>4. CASE res[w] # "success"
    BY <1>3, <2>1, <2>2, <2>4 DEF ReleaseClaim
  <2> QED BY <2>1, <2>3, <2>4
<1>4. CASE ScheduleRetry(w)
  BY <1>0, <1>4 DEF ScheduleRetry, RetryDue, Goto, ClaimInv, TypeOK
<1> QED BY <1>1, <1>2, <1>3, <1>4

\* What is known of a call stays known: a success is overwritten only by a
\* worker that is dispatching the call.
LEMMA SuccessOrInPlay ==
    ASSUME ClaimInv, [Next]_vars, NEW i \in Ids, CommittedSuccess(i)
    PROVE  CommittedSuccess(i)' \/ InPlay(i)'
<1>1. CASE UNCHANGED results
  BY <1>1 DEF CommittedSuccess
<1>2. ASSUME NEW w \in Workers, NEW o, Commit(Id(w), o), OwnsClaim(w),
             results' # results
      PROVE  CommittedSuccess(i)' \/ InPlay(i)'
  <2>1. CASE Id(w) # i
    BY <1>2, <2>1 DEF Commit, CommittedSuccess, ClaimInv, TypeOK
  <2>2. CASE Id(w) = i
    <3>1. OwnersUnchanged
      BY <1>2, OwnershipSteps DEF ClaimInv, TryClaim, ReleaseClaim
    <3>2. OwnsClaim(w)' /\ Id(w)' = i
      BY <1>2, <2>2, <3>1 DEF OwnersUnchanged
    <3>3. TypeOK'
      BY NextTypeOK DEF ClaimInv
    <3>4. cur'[w] \in Entries /\ IdOf[cur'[w]] = i
      BY <3>2, <3>3 DEF OwnsClaim, TypeOK, Id
    <3> QED BY <3>4 DEF InPlay
  <2> QED BY <2>1, <2>2
<1>3. ASSUME results' # results
      PROVE  \E w \in Workers : OwnsClaim(w) /\ \E o : Commit(Id(w), o)
  BY <1>3, CommitSteps DEF ClaimInv, OwnsClaim
<1> QED BY <1>1, <1>2, <1>3

\* A call in play stays in play, unless it is settled or the engine stops.
LEMMA InPlayOrSettled ==
    ASSUME ClaimInv, Placed, RetryDue, ClosedLast, [Next]_vars,
           NEW i \in Ids, InPlay(i), ~cancelled
    PROVE  CommittedSuccess(i)' \/ i \in spent' \/ InPlay(i)'
<1>1. PICK e \in Entries : /\ IdOf[e] = i
                           /\ queued[e] > 0 \/ \E w \in Workers : cur[w] = e
  BY DEF InPlay
<1>2. ASSUME NEW f \in Entries, Submit(f) PROVE InPlay(i)'
  BY <1>1, <1>2 DEF Submit, InPlay, ClaimInv, TypeOK
<1>3. ASSUME NEW w \in Workers, Take(w) PROVE InPlay(i)'
  <2>1. PICK f \in Entries :
          /\ queued' = [queued EXCEPT ![f] = @ - 1]
          /\ cur' = [cur EXCEPT ![w] = f]
    BY <1>3 DEF Take
  <2>2. CASE f = e
    <3>1. cur'[w] = e
      BY <2>1, <2>2 DEF ClaimInv, TypeOK
    <3> QED BY <1>1, <3>1 DEF InPlay
  <2>3. CASE f # e
    <3>1. queued'[e] = queued[e]
      BY <2>1, <2>3 DEF ClaimInv, TypeOK
    <3>2. ASSUME NEW v \in Workers, cur[v] = e PROVE cur'[v] = e
      <4>1. pc[w] = "idle" /\ cur[w] = NoEntry
        BY <1>3 DEF Take, Placed
      <4> QED BY <2>1, <3>2, <4>1, NoEntryAssumption DEF ClaimInv, TypeOK
    <3> QED BY <1>1, <3>1, <3>2 DEF InPlay
  <2> QED BY <2>2, <2>3
<1>4. ASSUME NEW w \in Workers, Requeue(w) PROVE InPlay(i)'
  <2>1. queued' = [queued EXCEPT ![cur[w]] = @ + 1] /\ cur[w] \in Entries
    BY <1>4 DEF Requeue, ClosedLast, ClaimInv, TypeOK
  <2>2. CASE cur[w] = e
    <3>1. queued'[e] > 0
      BY <2>1, <2>2 DEF ClaimInv, TypeOK
    <3> QED BY <1>1, <3>1 DEF InPlay
  <2>3. CASE cur[w] # e
    <3>1. queued'[e] = queued[e]
      BY <2>1, <2>3 DEF ClaimInv, TypeOK
    <3>2. ASSUME NEW v \in Workers, cur[v] = e PROVE cur'[v] = e
      BY <1>4, <2>3, <3>2 DEF Requeue, Leave, ClaimInv, TypeOK
    <3> QED BY <1>1, <3>1, <3>2 DEF InPlay
  <2> QED BY <2>2, <2>3
<1>5. ASSUME NEW w \in Workers, Leave(w), UNCHANGED <<queued, submitted>>,
             \/ CheckCommitted(w) \/ TryClaim(w) \/ ReleaseClaim(w)
             \/ ScheduleRetry(w)
      PROVE  CommittedSuccess(i)' \/ i \in spent' \/ InPlay(i)'
  <2>1. \A v \in Workers \ {w} : cur'[v] = cur[v]
    BY <1>5 DEF Leave, ClaimInv, TypeOK
  <2>2. CASE cur[w] # e
    BY <1>1, <1>5, <2>1, <2>2 DEF InPlay
  <2>3. CASE cur[w] = e
    <3>1. Id(w) = i
      BY <1>1, <2>3 DEF Id
    <3>2. /\ UNCHANGED results
          /\ \/ CommittedSuccess(i) \/ i \in spent'
             \/ \E v \in Workers \ {w} : cur[v] \in Entries /\ Id(v) = i
      BY <1>5, <3>1, LeavingIsHarmless
    <3>3. CASE CommittedSuccess(i)
      BY <3>2, <3>3 DEF CommittedSuccess
    <3>4. ASSUME NEW v \in Workers \ {w}, cur[v] \in Entries, Id(v) = i
          PROVE  InPlay(i)'
      BY <2>1, <3>4 DEF InPlay, Id
    <3> QED BY <3>2, <3>3, <3>4
  <2> QED BY <2>2, <2>3
<1>6. ASSUME UNCHANGED <<cur, queued, submitted>> PROVE InPlay(i)'
  BY <1>1, <1>6 DEF InPlay
<1> QED BY <1>2, <1>3, <1>4, <1>5, <1>6, PlaceSteps DEF ClaimInv

LEMMA NextCallKept ==
    ASSUME ClaimInv, Placed, RetryDue, ClosedLast, CallKept, [Next]_vars
    PROVE  CallKept'
<1>1. /\ cancelled => cancelled'
      /\ spent \subseteq spent'
      /\ \A e \in submitted' \ submitted : queued'[e] > 0
  <2> USE DEF queueVars, envVars
  <2>1. cancelled => cancelled'
    BY DEF Next, vars, Submit, Expire, HandlerReturns, Cancel, CloseQueue, Take,
           Exit, Dispatch, CheckCommitted, TryClaim, PickInstance, PickFails,
           AcquireHandle, StartHandler, AcquireFails, HandlerDone, CtxDone,
           CommitTimeout, InstanceStopped, CommitResult, ReleaseClaim,
           ScheduleRetry, Requeue, Finished
  <2>2. spent \subseteq spent'
    BY DEF Next, vars, Submit, Expire, HandlerReturns, Cancel, CloseQueue, Take,
           Exit, Dispatch, CheckCommitted, TryClaim, PickInstance, PickFails,
           AcquireHandle, StartHandler, AcquireFails, HandlerDone, CtxDone,
           CommitTimeout, InstanceStopped, CommitResult, ReleaseClaim,
           ScheduleRetry, Requeue, Finished
  <2>3. ASSUME NEW e \in Entries, Submit(e)
        PROVE  \A f \in submitted' \ submitted : queued'[f] > 0
    BY <2>3 DEF Submit, ClaimInv, TypeOK
  <2>4. ASSUME NEW w \in Workers, Take(w) \/ Requeue(w) PROVE UNCHANGED submitted
    BY <2>4 DEF Take, Requeue
  <2> QED BY <2>1, <2>2, <2>3, <2>4, PlaceSteps DEF ClaimInv
<1>2. SUFFICES ASSUME NEW e \in submitted', ~cancelled'
               PROVE  \/ CommittedSuccess(IdOf[e])' \/ IdOf[e] \in spent'
                      \/ InPlay(IdOf[e])'
  BY DEF CallKept
<1>3. TypeOK' /\ e \in Entries /\ IdOf[e] \in Ids
  BY NextTypeOK, IdOfAssumption DEF ClaimInv, TypeOK
<1>4. CASE e \notin submitted
  BY <1>1, <1>3, <1>4 DEF InPlay
<1>5. CASE e \in submitted
  <2>1. ~cancelled
    BY <1>1, <1>2
  <2>2. CASE CommittedSuccess(IdOf[e])
    BY <1>3, <2>2, SuccessOrInPlay
  <2>3. CASE IdOf[e] \in spent
    BY <1>1, <2>3
  <2>4. CASE InPlay(IdOf[e])
    BY <1>3, <2>1, <2>4, InPlayOrSettled
  <2> QED BY <1>5, <2>1, <2>2, <2>3, <2>4 DEF CallKept
<1> QED BY <1>4, <1>5

LEMMA NextClosedLast ==
    ASSUME ClosedLast, [Next]_vars
    PROVE  ClosedLast'
BY DEF ClosedLast, queueVars, envVars, Next, vars, Submit, Expire, HandlerReturns,
       Cancel, CloseQueue, Take, Exit, Dispatch, CheckCommitted, TryClaim, PickInstance,
       PickFails, AcquireHandle, StartHandler, AcquireFails, HandlerDone, CtxDone,
       CommitTimeout, InstanceStopped, CommitResult, ReleaseClaim, ScheduleRetry,
       Requeue, Finished

------------------------------------------------------------------------------
(* The inductive invariant and what follows from it.                       *)

\* CallKept needs exact claims (a dropped duplicate leaves the call to the owner
\* of the claim), undisturbed commits (a dispatch that ends in success leaves a
\* success behind) and exclusive possession of the call object (RetryDue).
CallInv == ClaimInv /\ Placed /\ RetryDue /\ ClosedLast /\ CallKept

LEMMA InitCallInv == Init => CallInv
<1> SUFFICES ASSUME Init PROVE CallInv
  OBVIOUS
<1>1. Placed
  BY DEF Init, Placed
<1>2. RetryDue /\ ClosedLast /\ CallKept
  BY DEF Init, RetryDue, ClosedLast, CallKept
<1> QED BY <1>1, <1>2, InitClaimInv DEF CallInv

THEOREM CallInvariance == Spec => []CallInv
<1>1. ClaimInv /\ [Next]_vars => ClaimInv'
  BY NextTypeOK, NextClaims, NextCommits DEF ClaimInv
<1>2. CallInv /\ [Next]_vars => CallInv'
  BY <1>1, NextPlaced, NextRetryDue, NextClosedLast, NextCallKept
     DEF CallInv, ClaimInv
<1> QED BY InitCallInv, <1>2, PTL DEF Spec

\* A call object is in the queue once or in one dispatch, never in both: there is
\* a single authority that re-enqueues it (timeout.go:15-20, exec.go:102-109).
THEOREM OneEnqueuer == Spec => []EntryInOnePlace
<1>1. CallInv => EntryInOnePlace
  BY PlacedCounts DEF CallInv, ClaimInv
<1> QED BY CallInvariance, <1>1, PTL

\* Dropping duplicates and skipping retries never loses the last chance of a
\* call: at rest, every submitted call has succeeded or has had its last attempt
\* (exec.go:90-111, retry.go:52-72).
THEOREM NoCallLost == Spec => []NoRetryLost
<1>1. CallInv => NoRetryLost
  <2> SUFFICES ASSUME CallInv, Quiet, ~cancelled, NEW e \in submitted
               PROVE  CommittedSuccess(IdOf[e]) \/ IdOf[e] \in spent
    BY DEF NoRetryLost
  <2>1. ~InPlay(IdOf[e])
    BY NoEntryAssumption DEF CallInv, Placed, Quiet, InPlay, ClaimInv, TypeOK
  <2> QED BY <2>1 DEF CallInv, CallKept
<1> QED BY CallInvariance, <1>1, PTL

------------------------------------------------------------------------------
(* Handles of the runtime pool.                                            *)

Holders == {w \in Workers : HoldsHandle(w)}

\* What the steps do to the pool: a worker takes a handle, gives its own back, or
\* leaves the pool alone and keeps what it has.
PoolUntouched == /\ UNCHANGED <<slots, inflight>> /\ Holders' = Holders
                 /\ \A v \in Holders : Id(v)' = Id(v)

TakesHandle(w) ==
    /\ slots < HandleLimit /\ slots' = slots + 1 /\ inflight' = inflight \cup {Id(w)}
    /\ w \notin Holders /\ Holders' = Holders \cup {w}
    /\ \A v \in Holders \cup {w} : Id(v)' = Id(v)

ReturnsHandle(w) ==
    /\ ReleaseHandle(w)
    /\ w \in Holders /\ Holders' = Holders \ {w}
    /\ \A v \in Holders : Id(v)' = Id(v)

\* Every step of a dispatch that leaves the part of Execute that has a handle
\* returns it, the early returns and the two ends of a timeout included.
LEMMA HandleSteps ==
    ASSUME TypeOK, [Next]_vars
    PROVE  \/ PoolUntouched
           \/ \E w \in Workers : TakesHandle(w) \/ ReturnsHandle(w)
<1> USE DEF Holders, HoldsHandle, Id, poolVars
<1>1. ASSUME NEW e \in Entries, Submit(e) \/ Expire(e) PROVE PoolUntouched
  BY <1>1 DEF Submit, Expire, PoolUntouched
<1>2. ASSUME NEW e \in Entries, NEW a \in Attempts, HandlerReturns(e, a)
      PROVE  PoolUntouched
  BY <1>2 DEF HandlerReturns, PoolUntouched
<1>3. ASSUME Cancel \/ CloseQueue \/ UNCHANGED vars PROVE PoolUntouched
  BY <1>3 DEF Cancel, CloseQueue, vars, PoolUntouched
<1>4. ASSUME NEW w \in Workers, Take(w) \/ Exit(w) PROVE PoolUntouched
  BY <1>4 DEF Take, Exit, TypeOK, PoolUntouched
<1>5. ASSUME NEW w \in Workers, CheckCommitted(w) \/ TryClaim(w) PROVE PoolUntouched
  BY <1>5 DEF CheckCommitted, TryClaim, Leave, Goto, TypeOK, PoolUntouched
<1>6. ASSUME NEW w \in Workers,
             PickInstance(w) \/ PickFails(w) \/ StartHandler(w) \/ CommitResult(w)
      PROVE  PoolUntouched
  BY <1>6 DEF PickInstance, PickFails, StartHandler, CommitResult, Goto, TypeOK,
              PoolUntouched
<1>7. ASSUME NEW w \in Workers, ReleaseClaim(w) \/ ScheduleRetry(w) \/ Requeue(w)
      PROVE  PoolUntouched
  BY <1>7 DEF ReleaseClaim, ScheduleRetry, Requeue, Leave, Goto, TypeOK, PoolUntouched
<1>8. ASSUME NEW w \in Workers, AcquireHandle(w) PROVE TakesHandle(w)
  BY <1>8 DEF AcquireHandle, Goto, TypeOK, TakesHandle
<1>9. ASSUME NEW w \in Workers, AcquireFails(w) \/ InstanceStopped(w)
      PROVE  ReturnsHandle(w)
  BY <1>9 DEF AcquireFails, InstanceStopped, Goto, TypeOK, ReturnsHandle
<1>10. ASSUME NEW w \in Workers, HandlerDone(w) \/ CommitTimeout(w)
       PROVE  ReturnsHandle(w)
  BY <1>10 DEF HandlerDone, CommitTimeout, Goto, TypeOK, ReturnsHandle
<1>11. ASSUME NEW w \in Workers, CtxDone(w) PROVE ReturnsHandle(w) \/ PoolUntouched
  BY <1>11 DEF CtxDone, Goto, TypeOK, ReturnsHandle, PoolUntouched
<1> QED BY <1>1, <1>2, <1>3, <1>4, <1>5, <1>6, <1>7, <1>8, <1>9, <1>10, <1>11
        DEF Next, Dispatch, Finished

LEMMA HoldersOwn == ASSUME OneOwner, NEW v \in Holders, NEW w \in Holders, Id(v) = Id(w)
                    PROVE  v = w
BY DEF OneOwner, OwnsClaim, Holders, HoldsHandle

LEMMA HoldersFinite == IsFiniteSet(Holders) /\ Cardinality(Holders) \in Nat
BY WorkersAssumption, FS_Subset, FS_CardinalityType DEF Holders

\* HandlesExact in terms of Holders.
HandlesCounted ==
    /\ slots = Cardinality(Holders)
    /\ slots <= HandleLimit
    /\ inflight = {Id(w) : w \in Holders}

\* The in-flight mark of an ID goes with the only handle that is out for it, so
\* the marks need exclusive claims.
LEMMA NextHandles ==
    ASSUME ClaimInv, HandlesCounted, [Next]_vars
    PROVE  HandlesCounted'
<1>0. slots \in Nat /\ HandleLimit \in Nat
  BY HoldersFinite, HandleLimitAssumption DEF HandlesCounted
<1>1. CASE PoolUntouched
  BY <1>1 DEF PoolUntouched, HandlesCounted
<1>2. ASSUME NEW w \in Workers, TakesHandle(w) PROVE HandlesCounted'
  <2>1. Cardinality(Holders') = Cardinality(Holders) + 1
    BY <1>2, HoldersFinite, FS_AddElement DEF TakesHandle
  <2>2. inflight' = {Id(v)' : v \in Holders'}
    BY <1>2 DEF TakesHandle, HandlesCounted
  <2> QED BY <1>0, <1>2, <2>1, <2>2 DEF TakesHandle, HandlesCounted
<1>3. ASSUME NEW w \in Workers, ReturnsHandle(w) PROVE HandlesCounted'
  <2>1. Cardinality(Holders') = Cardinality(Holders) - 1
    BY <1>3, HoldersFinite, FS_RemoveElement DEF ReturnsHandle
  <2>2. \A v \in Holders \ {w} : Id(v) # Id(w)
    BY <1>3, HoldersOwn DEF ClaimInv, ReturnsHandle
  <2>3. inflight' = {Id(v)' : v \in Holders'}
    BY <1>3, <2>2 DEF ReturnsHandle, ReleaseHandle, HandlesCounted
  <2> QED BY <1>0, <1>3, <2>1, <2>3 DEF ReturnsHandle, ReleaseHandle, HandlesCounted
<1> QED BY <1>1, <1>2, <1>3, HandleSteps DEF ClaimInv

\* The runtime pool is never overdrawn, and no path through Execute loses a slot
\* or an in-flight mark (exec.go:162-225, runtime.go:27-42).
THEOREM HandlesNeverLeak == Spec => []HandlesExact
<1>1. Init => HandlesCounted
  <2> SUFFICES ASSUME Init PROVE HandlesCounted
    OBVIOUS
  <2>1. Holders = {}
    BY DEF Init, Holders, HoldsHandle
  <2> QED BY <2>1, FS_EmptySet, HandleLimitAssumption DEF Init, HandlesCounted
<1>2. HandlesCounted => HandlesExact
  BY DEF HandlesCounted, HandlesExact, Holders
<1>3. ClaimInv /\ HandlesCounted /\ [Next]_vars => HandlesCounted'
  BY NextHandles
<1> QED BY ClaimInvariance, <1>1, <1>2, <1>3, PTL DEF Spec
------------------------------------------------------------------------------
(* How often a handler is started.                                         *)

\* A call object that is on its way to its handler: to be submitted, waiting, or
\* in the hands of a worker that has not started the handler of this attempt.
Coming(e) ==
    \/ e \notin submitted \/ queued[e] > 0
    \/ \E w \in Workers :
          /\ cur[w] = e
          /\ pc[w] \in {"check", "claim", "pick", "handle", "acquire", "enqueue"}

\* The handler of the attempt to come, and of those after it, has not been started.
NotStarted ==
    \A e \in Entries :
       /\ \A a \in Attempts : a > attempt[e] => handler[e][a] = "none"
       /\ Coming(e) => handler[e][attempt[e]] = "none"

\* A step that starts no handler and counts no attempt.
StartsNothing ==
    /\ UNCHANGED attempt
    /\ \A e \in Entries, a \in Attempts :
          /\ handler[e][a] = "none" => handler'[e][a] = "none"
          /\ handler'[e][a] = "running" => handler[e][a] = "running"
    /\ \A e \in Entries : Coming(e)' => Coming(e)

LEMMA StartSteps ==
    ASSUME TypeOK, [Next]_vars
    PROVE  StartsNothing \/ \E w \in Workers : StartHandler(w) \/ ScheduleRetry(w)
<1> USE DEF StartsNothing, Coming, queueVars
<1>1. ASSUME NEW e \in Entries, Submit(e) PROVE StartsNothing
  BY <1>1 DEF Submit, TypeOK
<1>2. ASSUME NEW e \in Entries, Expire(e) PROVE StartsNothing
  BY <1>2 DEF Expire
<1>3. ASSUME NEW e \in Entries, NEW a \in Attempts, HandlerReturns(e, a)
      PROVE  StartsNothing
  BY <1>3 DEF HandlerReturns, TypeOK
<1>4. ASSUME Cancel \/ CloseQueue \/ UNCHANGED vars PROVE StartsNothing
  BY <1>4 DEF Cancel, CloseQueue, vars
<1>5. ASSUME NEW w \in Workers, Take(w) PROVE StartsNothing
  <2>1. PICK f \in Entries :
          /\ queued[f] > 0
          /\ queued' = [queued EXCEPT ![f] = @ - 1]
          /\ IF cancelled
             THEN UNCHANGED <<pc, cur>>
             ELSE /\ pc' = [pc EXCEPT ![w] = "check"]
                  /\ cur' = [cur EXCEPT ![w] = f]
    BY <1>5 DEF Take
  <2>2. UNCHANGED <<attempt, handler, submitted>>
    BY <1>5 DEF Take
  <2>3. ASSUME NEW e \in Entries, Coming(e)' PROVE Coming(e)
    <3>1. CASE e = f
      BY <2>1, <3>1
    <3>2. CASE e # f
      <4>1. queued'[e] = queued[e]
        BY <2>1, <3>2 DEF TypeOK
      <4>2. \A v \in Workers : cur'[v] = e => cur[v] = e /\ pc[v] = pc'[v]
        BY <2>1, <3>2 DEF TypeOK
      <4>3. \/ e \notin submitted \/ queued[e] > 0
            \/ \E v \in Workers :
                  /\ cur'[v] = e
                  /\ pc'[v] \in {"check", "claim", "pick", "handle", "acquire", "enqueue"}
        BY <2>2, <2>3, <4>1
      <4> QED BY <4>2, <4>3
    <3> QED BY <3>1, <3>2
  <2>4. handler' = handler /\ attempt' = attempt
    BY <2>2
  <2> HIDE DEF Coming
  <2> QED BY <2>3, <2>4
<1>6. ASSUME NEW w \in Workers, CheckCommitted(w) \/ TryClaim(w) \/ PickInstance(w)
      PROVE  StartsNothing
  BY <1>6 DEF CheckCommitted, TryClaim, PickInstance, Leave, Goto, TypeOK
<1>7. ASSUME NEW w \in Workers, PickFails(w) \/ AcquireHandle(w) \/ AcquireFails(w)
      PROVE  StartsNothing
  BY <1>7 DEF PickFails, AcquireHandle, AcquireFails, Goto, TypeOK
<1>8. ASSUME NEW w \in Workers, HandlerDone(w) \/ CtxDone(w) \/ CommitTimeout(w)
      PROVE  StartsNothing
  BY <1>8 DEF HandlerDone, CtxDone, CommitTimeout, Goto, TypeOK
<1>9. ASSUME NEW w \in Workers, InstanceStopped(w) \/ CommitResult(w) \/ ReleaseClaim(w)
      PROVE  StartsNothing
  BY <1>9 DEF InstanceStopped, CommitResult, ReleaseClaim, Leave, Goto, TypeOK
<1>10. ASSUME NEW w \in Workers, Requeue(w) PROVE StartsNothing
  <2>1. /\ UNCHANGED <<attempt, handler, submitted>> /\ pc[w] = "enqueue"
        /\ \A v \in Workers \ {w} : cur'[v] = cur[v] /\ pc'[v] = pc[v]
        /\ pc'[w] = "idle"
    BY <1>10 DEF Requeue, Leave, TypeOK
  <2>2. \A e \in Entries : e # cur[w] => queued'[e] = queued[e]
    BY <1>10 DEF Requeue, TypeOK
  <2>3. ASSUME NEW e \in Entries, Coming(e)' PROVE Coming(e)
    <3>1. CASE e = cur[w]
      BY <2>1, <3>1
    <3>2. CASE e # cur[w]
      BY <2>1, <2>2, <2>3, <3>2
    <3> QED BY <3>1, <3>2
  <2> QED BY <2>1, <2>3
<1>11. ASSUME NEW w \in Workers, Exit(w) PROVE StartsNothing
  BY <1>11 DEF Exit, TypeOK
<1> HIDE DEF StartsNothing
<1> QED BY <1>1, <1>2, <1>3, <1>4, <1>5, <1>6, <1>7, <1>8, <1>9, <1>10, <1>11
        DEF Next, Dispatch, Finished

LEMMA NextNotStarted ==
    ASSUME TypeOK, Placed, NotStarted, [Next]_vars
    PROVE  NotStarted'
<1>1. CASE StartsNothing
  BY <1>1 DEF StartsNothing, NotStarted, TypeOK
<1>2. ASSUME NEW w \in Workers, StartHandler(w) PROVE NotStarted'
  <2>0. PICK f \in Entries : f = cur[w]
    BY <1>2 DEF StartHandler, Goto, TypeOK
  <2>1. /\ pc[w] = "acquire" /\ pc'[w] = "wait"
        /\ \A v \in Workers \ {w} : pc'[v] = pc[v]
        /\ UNCHANGED <<cur, attempt, queued, submitted>>
    BY <1>2 DEF StartHandler, Goto, TypeOK, queueVars
  <2>2. /\ \A e \in Entries \ {f} : handler'[e] = handler[e]
        /\ \A a \in Attempts : a # attempt[f] => handler'[f][a] = handler[f][a]
    BY <1>2, <2>0 DEF StartHandler, TypeOK
  <2>3. ~Coming(f)'
    <3>1. f \in submitted /\ ~(queued[f] > 0) /\ \A v \in Workers \ {w} : cur[v] # f
      BY <2>0, <2>1, NoEntryAssumption DEF Placed
    <3> QED BY <2>1, <3>1 DEF Coming
  <2>4. \A e \in Entries \ {f} : Coming(e)' => Coming(e)
    BY <2>0, <2>1 DEF Coming
  <2>5. \A e \in Entries, a \in Attempts : a > attempt[e] => handler'[e][a] = "none"
    <3> SUFFICES ASSUME NEW e \in Entries, NEW a \in Attempts, a > attempt[e]
                 PROVE  handler'[e][a] = "none"
      OBVIOUS
    <3>1. a # attempt[e] /\ handler[e][a] = "none"
      BY MaxRetriesAssumption DEF TypeOK, Attempts, NotStarted
    <3>2. CASE e = f
      BY <2>2, <3>1, <3>2
    <3>3. CASE e # f
      BY <2>2, <3>1, <3>3
    <3> QED BY <3>2, <3>3
  <2>6. \A e \in Entries : (Coming(e) => handler[e][attempt[e]] = "none")'
    <3> SUFFICES ASSUME NEW e \in Entries, Coming(e)'
                 PROVE  handler'[e][attempt'[e]] = "none"
      OBVIOUS
    <3>1. e # f /\ Coming(e)
      BY <2>3, <2>4
    <3> QED BY <2>1, <2>2, <3>1 DEF NotStarted
  <2>7. \A e \in Entries : (\A a \in Attempts : a > attempt[e] => handler[e][a] = "none")'
    BY <2>1, <2>5
  <2> QED BY <2>6, <2>7 DEF NotStarted
<1>3. ASSUME NEW w \in Workers, ScheduleRetry(w) PROVE NotStarted'
  <2>1. CASE UNCHANGED attempt
    <3>1. UNCHANGED <<handler, queued, submitted>>
      BY <1>3 DEF ScheduleRetry, queueVars
    <3>2. cur[w] \in Entries /\ attempt[cur[w]] \in Nat
      <4>1. cur[w] \in Entries
        BY <1>3 DEF ScheduleRetry, TypeOK
      <4>2. attempt[cur[w]] \in Attempts
        BY <4>1 DEF TypeOK
      <4> QED BY <4>1, <4>2, MaxRetriesAssumption DEF Attempts
    <3>3. Leave(w)
      BY <1>3, <2>1, <3>2 DEF ScheduleRetry, TypeOK
    <3>4. \A e \in Entries : Coming(e)' => Coming(e)
      BY <3>1, <3>3 DEF Coming, Leave, TypeOK
    <3> QED BY <2>1, <3>1, <3>4 DEF NotStarted
  <2>2. CASE ~UNCHANGED attempt
    <3> DEFINE f == cur[w]
    <3>1. /\ f \in Entries /\ attempt' = [attempt EXCEPT ![f] = @ + 1]
          /\ MayRetry(f) /\ Goto(w, "retry", "enqueue")
          /\ UNCHANGED <<handler, queued, submitted>>
      BY <1>3, <2>2 DEF ScheduleRetry, TypeOK, queueVars
    <3>2. \A e \in Entries \ {f} : attempt'[e] = attempt[e] /\ (Coming(e)' => Coming(e))
      BY <3>1 DEF Goto, Coming, TypeOK
    <3>3. attempt'[f] = attempt[f] + 1 /\ attempt'[f] \in Attempts /\ attempt[f] \in Nat
      BY <3>1, MaxRetriesAssumption DEF MayRetry, Attempts, TypeOK
    <3>4. handler[f][attempt'[f]] = "none"
      BY <3>1, <3>3 DEF NotStarted
    <3>5. \A a \in Attempts : a > attempt'[f] => handler[f][a] = "none"
      BY <3>1, <3>3 DEF NotStarted, Attempts
    <3> HIDE DEF f
    <3> QED BY <3>1, <3>2, <3>4, <3>5 DEF NotStarted
  <2> QED BY <2>1, <2>2
<1> QED BY <1>1, <1>2, <1>3, StartSteps

\* Each attempt of a call object runs its handler at most once, so a handler is
\* called at most once more than the retry budget says, whatever is claimed, dropped,
\* timed out and queued again in between (exec.go:96-194, retry.go:52-72).
AttemptsRunOnce ==
    [][\A e \in Entries, a \in Attempts :
          handler'[e][a] = "running" => handler[e][a] \in {"none", "running"}]_vars

THEOREM HandlersStartOnce == Spec => AttemptsRunOnce
<1> DEFINE Once == \A e \in Entries, a \in Attempts :
                      handler'[e][a] = "running" => handler[e][a] \in {"none", "running"}
<1>1. Init => NotStarted
  BY MaxRetriesAssumption DEF Init, NotStarted, Attempts
<1>2. CallInv /\ NotStarted /\ [Next]_vars => NotStarted'
  BY NextNotStarted DEF CallInv, ClaimInv
<1>3. ASSUME CallInv, NotStarted, [Next]_vars PROVE Once
  <2>0. TypeOK
    BY <1>3 DEF CallInv, ClaimInv
  <2>1. CASE StartsNothing
    BY <2>1 DEF StartsNothing
  <2>2. ASSUME NEW w \in Workers, StartHandler(w) PROVE Once
    <3>1. cur[w] \in Entries /\ Coming(cur[w])
      BY <2>0, <2>2 DEF StartHandler, Goto, Coming, TypeOK
    <3>2. handler[cur[w]][attempt[cur[w]]] = "none"
      BY <1>3, <3>1 DEF NotStarted
    <3> QED BY <2>0, <2>2, <3>1, <3>2 DEF StartHandler, TypeOK
  <2>3. ASSUME NEW w \in Workers, ScheduleRetry(w) PROVE Once
    BY <2>3 DEF ScheduleRetry
  <2> HIDE DEF Once
  <2> QED BY <1>3, <2>0, <2>1, <2>2, <2>3, StartSteps
<1>4. CallInv /\ NotStarted /\ [Next]_vars => [Once]_vars
  BY <1>3
<1> HIDE DEF Once
<1>5. Spec => [][Once]_vars
  BY CallInvariance, <1>1, <1>2, <1>4, PTL DEF Spec
<1> QED BY <1>5 DEF Once, AttemptsRunOnce
------------------------------------------------------------------------------
(* What a replayed event changes: as long as no two call objects share an ID, *)
(* a success is final.  The run that refutes SuccessIsFinal needs a replay.   *)

\* No event is triggered twice: each call ID belongs to one call object.
NoReplays == \A e, f \in Entries : IdOf[e] = IdOf[f] => e = f

\* The call object is at the end of a dispatch that succeeds, or nowhere.
Over(e) ==
    /\ e \in submitted /\ queued[e] = 0
    /\ \A w \in Workers :
          cur[w] = e => pc[w] \in {"commit", "release"} /\ res[w] = "success"

\* Nothing of a call whose success is stored is left to do.
SuccessEnds == \A e \in Entries : CommittedSuccess(IdOf[e]) => Over(e)

\* A dispatch does not touch the call objects of other dispatches ...
LEMMA OtherDispatch ==
    ASSUME TypeOK, NEW w \in Workers, Dispatch(w), NEW e \in Entries, cur[w] # e
    PROVE  /\ UNCHANGED submitted /\ queued'[e] = queued[e]
           /\ \A v \in Workers : cur'[v] = e =>
                 cur[v] = e /\ pc'[v] = pc[v] /\ res'[v] = res[v]
<1> USE NoEntryAssumption DEF queueVars
<1>1. CASE CheckCommitted(w) \/ TryClaim(w) \/ PickInstance(w) \/ PickFails(w)
  BY <1>1 DEF CheckCommitted, TryClaim, PickInstance, PickFails, Leave, Goto,
              SetResult, TypeOK
<1>2. CASE AcquireHandle(w) \/ StartHandler(w) \/ AcquireFails(w) \/ HandlerDone(w)
  BY <1>2 DEF AcquireHandle, StartHandler, AcquireFails, HandlerDone, Goto,
              SetResult, TypeOK
<1>3. CASE CtxDone(w) \/ CommitTimeout(w) \/ InstanceStopped(w) \/ CommitResult(w)
  BY <1>3 DEF CtxDone, CommitTimeout, InstanceStopped, CommitResult, Goto,
              SetResult, TypeOK
<1>4. CASE ReleaseClaim(w) \/ ScheduleRetry(w) \/ Requeue(w)
  BY <1>4 DEF ReleaseClaim, ScheduleRetry, Requeue, Leave, Goto, TypeOK
<1> QED BY <1>1, <1>2, <1>3, <1>4 DEF Dispatch

\* ... and ends with the commit of its result and the release of its claim.
LEMMA EndOfDispatch ==
    ASSUME NEW w \in Workers, Dispatch(w), pc[w] \in {"commit", "release"}
    PROVE  CommitResult(w) \/ ReleaseClaim(w)
BY DEF Dispatch, CheckCommitted, TryClaim, PickInstance, PickFails, AcquireHandle,
       StartHandler, AcquireFails, HandlerDone, CtxDone, CommitTimeout,
       InstanceStopped, ScheduleRetry, Requeue, Goto

\* What is written, and where the writer is afterwards.
LEMMA CommitEnds ==
    ASSUME TypeOK, NEW w \in Workers,
           PickFails(w) \/ HandlerDone(w) \/ CommitTimeout(w) \/ CommitResult(w)
    PROVE  \E o \in Outcomes \cup {"none"} :
              /\ Commit(Id(w), o)
              /\ o = "success" => /\ pc'[w] \in {"commit", "release"}
                                  /\ res'[w] = "success"
<1>1. CASE PickFails(w)
  BY <1>1 DEF PickFails, Outcomes
<1>2. CASE HandlerDone(w)
  BY <1>2 DEF HandlerDone, Goto, SetResult, Outcomes, TypeOK
<1>3. CASE CommitTimeout(w)
  BY <1>3 DEF CommitTimeout, Outcomes
<1>4. CASE CommitResult(w)
  BY <1>4 DEF CommitResult, Goto, TypeOK
<1> QED BY <1>1, <1>2, <1>3, <1>4

\* A call object that is over is over for good: it is not retried.
LEMMA OverStays ==
    ASSUME TypeOK, [Next]_vars, NEW e \in Entries, Over(e)
    PROVE  Over(e)'
<1> USE DEF Over, queueVars
<1>1. ASSUME NEW f \in Entries, Submit(f) \/ Expire(f) PROVE Over(e)'
  BY <1>1 DEF Submit, Expire, TypeOK
<1>2. ASSUME NEW f \in Entries, NEW a \in Attempts, HandlerReturns(f, a) PROVE Over(e)'
  BY <1>2 DEF HandlerReturns
<1>3. ASSUME Cancel \/ CloseQueue \/ UNCHANGED vars PROVE Over(e)'
  BY <1>3 DEF Cancel, CloseQueue, vars
<1>4. ASSUME NEW w \in Workers, Take(w) PROVE Over(e)'
  <2>1. PICK f \in Entries :
          /\ queued[f] > 0
          /\ queued' = [queued EXCEPT ![f] = @ - 1]
          /\ IF cancelled
             THEN UNCHANGED <<pc, cur>>
             ELSE /\ pc' = [pc EXCEPT ![w] = "check"]
                  /\ cur' = [cur EXCEPT ![w] = f]
    BY <1>4 DEF Take
  <2>2. f # e /\ UNCHANGED <<res, submitted>>
    BY <1>4, <2>1 DEF Take
  <2>3. queued'[e] = 0
    BY <2>1, <2>2 DEF TypeOK
  <2>4. \A v \in Workers : cur'[v] = e => cur[v] = e /\ pc'[v] = pc[v]
    BY <2>1, <2>2 DEF TypeOK
  <2> QED BY <2>2, <2>3, <2>4
<1>5. ASSUME NEW w \in Workers, Dispatch(w) PROVE Over(e)'
  <2>1. CASE cur[w] # e
    <3>1. /\ UNCHANGED submitted
          /\ \A v \in Workers : cur'[v] = e =>
                cur[v] = e /\ pc'[v] = pc[v] /\ res'[v] = res[v]
      BY <1>5, <2>1, OtherDispatch
    <3>2. queued'[e] = queued[e]
      BY <1>5, <2>1, OtherDispatch
    <3> QED BY <3>1, <3>2
  <2>2. CASE cur[w] = e
    <3>1. pc[w] \in {"commit", "release"} /\ res[w] = "success"
      BY <2>2
    <3>2. CommitResult(w) \/ ReleaseClaim(w)
      BY <1>5, <3>1, EndOfDispatch
    <3>3. CASE CommitResult(w)
      BY <3>1, <3>3 DEF CommitResult, Goto, TypeOK
    <3>4. CASE ReleaseClaim(w)
      BY <3>1, <3>4, NoEntryAssumption DEF ReleaseClaim, ShouldRetry, Leave, TypeOK
    <3> QED BY <3>2, <3>3, <3>4
  <2> QED BY <2>1, <2>2
<1>6. ASSUME NEW w \in Workers, Exit(w) PROVE Over(e)'
  BY <1>6 DEF Exit, TypeOK
<1> HIDE DEF Over
<1> QED BY <1>1, <1>2, <1>3, <1>4, <1>5, <1>6 DEF Next, Finished

\* A success is stored by a dispatch that then ends.
LEMMA NextSuccessEnds ==
    ASSUME NoReplays, TypeOK, Placed, SuccessEnds, [Next]_vars
    PROVE  SuccessEnds'
<1> SUFFICES ASSUME NEW e \in Entries, CommittedSuccess(IdOf[e])' PROVE Over(e)'
  BY DEF SuccessEnds
<1>1. CASE CommittedSuccess(IdOf[e])
  BY <1>1, OverStays DEF SuccessEnds
<1>2. CASE ~CommittedSuccess(IdOf[e])
  <2>1. ~UNCHANGED results
    BY <1>2 DEF CommittedSuccess
  <2>2. PICK w \in Workers : \/ PickFails(w) \/ HandlerDone(w)
                             \/ CommitTimeout(w) \/ CommitResult(w)
    BY <2>1, WhoCommits
  <2>3. PICK o \in Outcomes \cup {"none"} :
           /\ Commit(Id(w), o)
           /\ o = "success" => /\ pc'[w] \in {"commit", "release"}
                               /\ res'[w] = "success"
    BY <2>2, CommitEnds
  <2>4. /\ UNCHANGED <<cur, queued, submitted>> /\ cur[w] \in Entries
    BY <2>2 DEF PickFails, HandlerDone, CommitTimeout, CommitResult, Goto, TypeOK,
                queueVars
  <2>5. IdOf[e] = Id(w) /\ o = "success"
    BY <1>2, <2>3 DEF Commit, CommittedSuccess, TypeOK
  <2>6. e = cur[w]
    BY <2>4, <2>5 DEF NoReplays, Id
  <2>7. \A v \in Workers : cur'[v] = e => v = w
    BY <2>4, <2>6, NoEntryAssumption DEF Placed
  <2>8. e \in submitted' /\ queued'[e] = 0
    BY <2>4, <2>6, NoEntryAssumption DEF Placed, TypeOK
  <2> QED BY <2>3, <2>5, <2>7, <2>8 DEF Over
<1> QED BY <1>1, <1>2

\* As long as no event is triggered twice, a success is final: no later attempt
\* overwrites it and no handler is started for it again (exec.go:90-125,
\* retry.go:52-72). A call object that is requeued is never one that has
\* succeeded, so only a second object with the same ID can break the promise.
THEOREM ReplaysAreTheCause == NoReplays /\ Spec => SuccessIsFinal
<1> SUFFICES ASSUME NoReplays PROVE Spec => SuccessIsFinal
  OBVIOUS
<1> DEFINE Step == /\ \A i \in Ids : results[i] = "success" => results'[i] = "success"
                   /\ \A e \in Entries, a \in Attempts :
                         handler[e][a] = "none" /\ handler'[e][a] = "running"
                             => ~CommittedSuccess(IdOf[e])
<1>1. Init => SuccessEnds
  BY IdOfAssumption DEF Init, SuccessEnds, CommittedSuccess
<1>2. CallInv /\ SuccessEnds /\ [Next]_vars => SuccessEnds'
  BY NextSuccessEnds DEF CallInv, ClaimInv
<1>3. ASSUME CallInv, SuccessEnds, [Next]_vars PROVE Step
  <2>0. TypeOK /\ Placed
    BY <1>3 DEF CallInv, ClaimInv
  <2>1. \A i \in Ids : results[i] = "success" => results'[i] = "success"
    <3> SUFFICES ASSUME NEW i \in Ids, results[i] = "success", results'[i] # "success"
                 PROVE  FALSE
      OBVIOUS
    <3>1. PICK w \in Workers : \/ PickFails(w) \/ HandlerDone(w)
                               \/ CommitTimeout(w) \/ CommitResult(w)
      BY <1>3, WhoCommits
    <3>2. cur[w] \in Entries /\ Id(w) = i
      BY <2>0, <3>1 DEF PickFails, HandlerDone, CommitTimeout, CommitResult, Goto,
                        Commit, TypeOK
    <3>3. pc[w] \in {"commit", "release"} /\ res[w] = "success"
      BY <1>3, <3>2 DEF SuccessEnds, Over, CommittedSuccess, Id
    <3>4. CommitResult(w)
      BY <3>1, <3>3 DEF PickFails, HandlerDone, CommitTimeout, Goto
    <3> QED BY <2>0, <3>2, <3>3, <3>4 DEF CommitResult, Commit, TypeOK
  <2>2. \A e \in Entries, a \in Attempts :
           handler[e][a] = "none" /\ handler'[e][a] = "running"
               => ~CommittedSuccess(IdOf[e])
    <3> SUFFICES ASSUME NEW e \in Entries, NEW a \in Attempts, handler[e][a] = "none",
                        handler'[e][a] = "running", CommittedSuccess(IdOf[e])
                 PROVE  FALSE
      OBVIOUS
    <3>1. PICK w \in Workers : StartHandler(w) \/ ScheduleRetry(w)
      BY <1>3, <2>0, StartSteps DEF StartsNothing
    <3>2. StartHandler(w)
      BY <3>1 DEF ScheduleRetry
    <3>3. cur[w] = e /\ pc[w] = "acquire"
      BY <2>0, <3>2 DEF StartHandler, Goto, TypeOK
    <3> QED BY <1>3, <3>3 DEF SuccessEnds, Over
  <2> QED BY <2>1, <2>2
<1>4. CallInv /\ SuccessEnds /\ [Next]_vars => [Step]_vars
  BY <1>3
<1> HIDE DEF Step
<1>5. Spec => [][Step]_vars
  BY CallInvariance, <1>1, <1>2, <1>4, PTL DEF Spec
<1> QED BY <1>5 DEF Step, SuccessIsFinal
------------------------------------------------------------------------------
(* What an abandoned handler changes: Execute leaves a handler behind when     *)
(* the context is done or the instance is stopped.                            *)

\* Every handler that runs has a dispatch that waits for it.
NoneAbandoned ==
    \A e \in Entries, a \in Attempts : handler[e][a] = "running" => Awaited(e, a)

\* Of two handlers of one call that run at the same time at most one is awaited.
OneAwaited ==
    \A e, f \in Entries, a, b \in Attempts :
        e # f /\ IdOf[e] = IdOf[f] => ~Awaited(e, a) \/ ~Awaited(f, b)

\* The claim keeps two handlers of one call apart for as long as Execute waits for
\* them: they run at the same time only if a dispatch has given one of them up
\* and released its claim (exec.go:96-106, exec.go:154-174).
THEOREM AbandonedIsTheCause ==
    Spec => [](OneAwaited /\ (NoneAbandoned => NoConcurrentHandlers))
<1>1. ClaimInv => OneAwaited
  <2> SUFFICES ASSUME ClaimInv, NEW e \in Entries, NEW f \in Entries,
                      NEW a \in Attempts, NEW b \in Attempts, e # f,
                      IdOf[e] = IdOf[f], Awaited(e, a), Awaited(f, b)
               PROVE  FALSE
    BY DEF OneAwaited
  <2>1. PICK v \in Workers : pc[v] = "wait" /\ cur[v] = e
    BY DEF Awaited
  <2>2. PICK w \in Workers : pc[w] = "wait" /\ cur[w] = f
    BY DEF Awaited
  <2> QED BY <2>1, <2>2 DEF ClaimInv, OneOwner, OwnsClaim, Id
<1>2. OneAwaited /\ NoneAbandoned => NoConcurrentHandlers
  BY DEF OneAwaited, NoneAbandoned, NoConcurrentHandlers
<1> QED BY ClaimInvariance, <1>1, <1>2, PTL
==============================================================================
