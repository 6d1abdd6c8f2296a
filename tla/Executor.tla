------------------------------- MODULE Executor -------------------------------
(***************************************************************************)
(* How one call is executed: Executor.Dispatch and Execute, with the claim *)
(* map, the result store, the runtime handles and the retry manager.       *)
(*                                                                         *)
(* An entry is one queued model.Call object; entries submitted for the     *)
(* same event share a call ID (trigger.go derives it from the event).      *)
(* Every mutex section is a step, so two dispatchers interleave between    *)
(* any two of them.  The handler of an execution is a goroutine of its     *)
(* own: it outlives the dispatch that gave up on it.  Where an instance    *)
(* comes from is the business of the scaler and the cold-start manager:    *)
(* here each request to them may succeed or fail at any time.              *)
(***************************************************************************)
EXTENDS Integers, FiniteSets

CONSTANTS Workers,      \* dispatcher goroutines
          Entries,      \* the call objects that may be submitted
          Ids,          \* call IDs
          IdOf,         \* the ID of each entry
          MaxRetries,   \* retry.Manager.maxRetries
          HandleLimit,  \* capacity of RuntimePool.slots
          NoEntry,      \* a worker without a call
          Nobody        \* a call ID without an owner

ASSUME WorkersAssumption == IsFiniteSet(Workers)
ASSUME IdOfAssumption == IdOf \in [Entries -> Ids]
ASSUME MaxRetriesAssumption == MaxRetries \in Nat
ASSUME HandleLimitAssumption == HandleLimit \in Nat \ {0}
ASSUME NoEntryAssumption == NoEntry \notin Entries
ASSUME NobodyAssumption == Nobody \notin Workers

VARIABLES
    queued,      \* how often each entry waits in the queue
    submitted,   \* entries the trigger has enqueued
    attempt,     \* call.Attempt
    expired,     \* entries whose call.Deadline has passed
    claims,      \* ClaimMap.claims
    results,     \* ResultStore.results: the outcome stored for each ID
    slots,       \* handles taken from the runtime pool
    inflight,    \* RuntimePool.inflight
    handler,     \* the handler goroutine of each attempt of each entry
    cancelled,   \* the executor's context is done
    closed,      \* the queue is closed
    pc, cur, res,\* each worker: its place, its call, its result
    spent        \* history: IDs one of whose entries used its last attempt in vain

queueVars == <<queued, submitted, closed>>
poolVars == <<slots, inflight>>
envVars == <<expired, cancelled>>
vars == <<queueVars, attempt, envVars, claims, results, poolVars, handler,
          pc, cur, res, spent>>

Outcomes == {"success", "failure", "timeout"}
Attempts == 1..(MaxRetries + 1)
Places == {"idle", "check", "claim", "pick", "handle", "acquire", "wait",
           "timeout", "commit", "release", "retry", "enqueue", "exited"}

TypeOK ==
    /\ queued \in [Entries -> Nat]
    /\ submitted \in SUBSET Entries
    /\ attempt \in [Entries -> Attempts]
    /\ expired \in SUBSET Entries
    /\ claims \in SUBSET Ids
    /\ results \in [Ids -> Outcomes \cup {"none"}]
    /\ slots \in Int
    /\ inflight \in SUBSET Ids
    /\ handler \in [Entries -> [Attempts -> {"none", "running", "ok", "err"}]]
    /\ cancelled \in BOOLEAN
    /\ closed \in BOOLEAN
    /\ pc \in [Workers -> Places]
    /\ cur \in [Workers -> Entries \cup {NoEntry}]
    /\ res \in [Workers -> Outcomes \cup {"none"}]
    /\ spent \in SUBSET Ids
    /\ \A w \in Workers : pc[w] \notin {"idle", "exited"} => cur[w] \in Entries

Init ==
    /\ queued = [e \in Entries |-> 0]
    /\ submitted = {}
    /\ attempt = [e \in Entries |-> 1]
    /\ expired = {}
    /\ claims = {}
    /\ results = [i \in Ids |-> "none"]
    /\ slots = 0
    /\ inflight = {}
    /\ handler = [e \in Entries |-> [a \in Attempts |-> "none"]]
    /\ cancelled = FALSE
    /\ closed = FALSE
    /\ pc = [w \in Workers |-> "idle"]
    /\ cur = [w \in Workers |-> NoEntry]
    /\ res = [w \in Workers |-> "none"]
    /\ spent = {}

Id(w) == IdOf[cur[w]]
Handler(w) == handler[cur[w]][attempt[cur[w]]]
CommittedSuccess(i) == results[i] = "success"

\* Moves of a worker: to the next step of its dispatch, or out of it.
Goto(w, from, to) ==
    /\ pc[w] = from
    /\ pc' = [pc EXCEPT ![w] = to]
    /\ UNCHANGED cur

Leave(w) ==
    /\ pc' = [pc EXCEPT ![w] = "idle"]
    /\ cur' = [cur EXCEPT ![w] = NoEntry]
    /\ res' = [res EXCEPT ![w] = "none"]

SetResult(w, o) == res' = [res EXCEPT ![w] = o]
Commit(i, o) == results' = [results EXCEPT ![i] = o]

------------------------------------------------------------------------------
(* The surroundings.                                                       *)

Submit(e) ==
    /\ e \notin submitted /\ ~closed
    /\ submitted' = submitted \cup {e}
    /\ queued' = [queued EXCEPT ![e] = @ + 1]
    /\ UNCHANGED <<closed, attempt, spent, envVars, claims, results, poolVars,
                   handler, pc, cur, res>>

\* The deadline is fixed when the call is created: no retry moves it.
Expire(e) ==
    /\ e \in submitted \ expired
    /\ expired' = expired \cup {e}
    /\ UNCHANGED <<queueVars, attempt, spent, cancelled, claims, results,
                   poolVars, handler, pc, cur, res>>

Awaited(e, a) == \E w \in Workers : pc[w] = "wait" /\ cur[w] = e /\ attempt[e] = a

\* A handler returns when it likes: nothing makes it look at its context. What
\* it returns is lost when Execute no longer waits for it.
HandlerReturns(e, a) ==
    /\ handler[e][a] = "running"
    /\ \E o \in IF Awaited(e, a) THEN {"ok", "err"} ELSE {"ok"} :
          handler' = [handler EXCEPT ![e][a] = o]
    /\ UNCHANGED <<queueVars, attempt, spent, envVars, claims, results,
                   poolVars, pc, cur, res>>

\* Engine.Stop cancels the context first and closes the queue last.
Cancel ==
    /\ ~cancelled /\ cancelled' = TRUE
    /\ UNCHANGED <<queueVars, attempt, spent, expired, claims, results,
                   poolVars, handler, pc, cur, res>>

CloseQueue ==
    /\ cancelled /\ ~closed /\ closed' = TRUE
    /\ UNCHANGED <<queued, submitted, attempt, spent, envVars, claims, results,
                   poolVars, handler, pc, cur, res>>

------------------------------------------------------------------------------
(* One worker.                                                             *)

\* drain hands an entry to Dispatch while the context is alive; afterwards it
\* drops what it has dequeued, and the worker goes back to its select.
Take(w) ==
    /\ pc[w] = "idle"
    /\ \E e \in Entries :
          /\ queued[e] > 0
          /\ queued' = [queued EXCEPT ![e] = @ - 1]
          /\ IF cancelled
             THEN UNCHANGED <<pc, cur>>
             ELSE /\ pc' = [pc EXCEPT ![w] = "check"]
                  /\ cur' = [cur EXCEPT ![w] = e]
    /\ UNCHANGED <<submitted, closed, attempt, spent, envVars, claims, results,
                   poolVars, handler, res>>

\* The select of worker: once the context is done it may return at any time, and
\* leave what waits in the queue there.
Exit(w) ==
    /\ pc[w] = "idle" /\ cancelled
    /\ pc' = [pc EXCEPT ![w] = "exited"]
    /\ UNCHANGED <<queueVars, attempt, spent, envVars, claims, results, poolVars,
                   handler, cur, res>>

\* Dispatch: a call that is known to have succeeded is dropped ...
CheckCommitted(w) ==
    /\ pc[w] = "check"
    /\ IF CommittedSuccess(Id(w))
       THEN Leave(w)
       ELSE Goto(w, "check", "claim") /\ UNCHANGED res
    /\ UNCHANGED <<queueVars, attempt, spent, envVars, claims, results,
                   poolVars, handler>>

\* Mutant: the claim is recorded but never consulted.
ClaimAnyway(w) ==
    /\ Goto(w, "claim", "pick") /\ UNCHANGED res
    /\ claims' = claims \cup {Id(w)}
    /\ UNCHANGED <<queueVars, attempt, spent, envVars, results, poolVars,
                   handler>>

\* ... and so is one that another worker has claimed.
TryClaim(w) ==
    /\ pc[w] = "claim"
    /\ IF Id(w) \in claims
       THEN Leave(w) /\ UNCHANGED claims
       ELSE /\ Goto(w, "claim", "pick") /\ UNCHANGED res
            /\ claims' = claims \cup {Id(w)}
    /\ UNCHANGED <<queueVars, attempt, spent, envVars, results, poolVars,
                   handler>>

\* pickInstance: a failure is committed at once and Execute is skipped.
PickInstance(w) ==
    /\ Goto(w, "pick", "handle")
    /\ UNCHANGED <<queueVars, attempt, spent, envVars, claims, results,
                   poolVars, handler, res>>

\* Mutant: the failure is returned but not committed.
PickFailsUnrecorded(w) ==
    /\ Goto(w, "pick", "release")
    /\ SetResult(w, "failure")
    /\ UNCHANGED <<queueVars, attempt, spent, envVars, claims, results, poolVars,
                   handler>>

PickFails(w) ==
    /\ Goto(w, "pick", "release")
    /\ SetResult(w, "failure") /\ Commit(Id(w), "failure")
    /\ UNCHANGED <<queueVars, attempt, spent, envVars, claims, poolVars,
                   handler>>

\* Execute waits for a free slot in the runtime pool.
AcquireHandle(w) ==
    /\ slots < HandleLimit
    /\ Goto(w, "handle", "acquire")
    /\ slots' = slots + 1
    /\ inflight' = inflight \cup {Id(w)}
    /\ UNCHANGED <<queueVars, attempt, spent, envVars, claims, results, handler,
                   res>>

\* The deferred releases when Execute returns.
ReleaseHandle(w) ==
    /\ slots' = slots - 1
    /\ inflight' = inflight \ {Id(w)}

\* The instance takes the call and the handler is started ...
StartHandler(w) ==
    /\ Goto(w, "acquire", "wait")
    /\ handler' = [handler EXCEPT ![cur[w]][attempt[cur[w]]] = "running"]
    /\ UNCHANGED <<queueVars, attempt, spent, envVars, claims, results,
                   poolVars, res>>

\* Mutant: the early return forgets the handle.
AcquireFailsLeaking(w) ==
    /\ Goto(w, "acquire", "commit")
    /\ SetResult(w, "failure")
    /\ UNCHANGED <<queueVars, attempt, spent, envVars, claims, results,
                   poolVars, handler>>

\* ... or the instance is no longer running (or the function is unknown).
AcquireFails(w) ==
    /\ Goto(w, "acquire", "commit")
    /\ SetResult(w, "failure") /\ ReleaseHandle(w)
    /\ UNCHANGED <<queueVars, attempt, spent, envVars, claims, results,
                   handler>>

\* The select of Execute.  An answer of the handler wins, also when the context
\* is done too (finalizeTimeout drains the channel first): finishResult commits
\* its outcome.
HandlerDone(w) ==
    /\ Goto(w, "wait", "commit")
    /\ Handler(w) \in {"ok", "err"}
    /\ LET o == IF Handler(w) = "ok" THEN "success" ELSE "failure"
       IN  SetResult(w, o) /\ Commit(Id(w), o)
    /\ ReleaseHandle(w)
    /\ UNCHANGED <<queueVars, attempt, spent, envVars, claims, handler>>

\* Mutant: finalizeTimeout without its look at the stored outcome.
CtxDoneBlind(w) ==
    /\ Goto(w, "wait", "timeout") /\ UNCHANGED <<res, poolVars>>
    /\ cur[w] \in expired \/ cancelled
    /\ Handler(w) = "running"
    /\ UNCHANGED <<queueVars, attempt, spent, envVars, claims, results, handler>>

\* finalizeTimeout without an answer: a stored success is returned as it is.
\* The handler goroutine goes on.
CtxDone(w) ==
    /\ pc[w] = "wait"
    /\ cur[w] \in expired \/ cancelled
    /\ Handler(w) = "running"
    /\ IF CommittedSuccess(Id(w))
       THEN /\ Goto(w, "wait", "commit")
            /\ SetResult(w, "success") /\ ReleaseHandle(w)
       ELSE Goto(w, "wait", "timeout") /\ UNCHANGED <<res, poolVars>>
    /\ UNCHANGED <<queueVars, attempt, spent, envVars, claims, results, handler>>

\* Mutant: the timeout path schedules the retry as well (timeout.go:15-20).
CommitTimeoutAndSchedule(w) ==
    /\ Goto(w, "timeout", "commit")
    /\ SetResult(w, "timeout") /\ Commit(Id(w), "timeout")
    /\ ReleaseHandle(w)
    /\ queued' = [queued EXCEPT ![cur[w]] = @ + 1]
    /\ UNCHANGED <<submitted, closed, attempt, spent, envVars, claims, handler>>

\* Otherwise the timeout is committed, in a mutex section of its own.
CommitTimeout(w) ==
    /\ Goto(w, "timeout", "commit")
    /\ SetResult(w, "timeout") /\ Commit(Id(w), "timeout")
    /\ ReleaseHandle(w)
    /\ UNCHANGED <<queueVars, attempt, spent, envVars, claims, handler>>

\* The instance is removed under the call: a failure, whatever the handler does.
InstanceStopped(w) ==
    /\ Goto(w, "wait", "commit")
    /\ SetResult(w, "failure") /\ ReleaseHandle(w)
    /\ UNCHANGED <<queueVars, attempt, spent, envVars, claims, results,
                   handler>>

\* dispatchClaimed commits what Execute returned, Dispatch gives up the claim.
CommitResult(w) ==
    /\ Goto(w, "commit", "release")
    /\ Commit(Id(w), res[w])
    /\ UNCHANGED <<queueVars, attempt, spent, envVars, claims, poolVars,
                   handler, res>>

\* Mutant: one attempt too many.
RetryOnceMore(e) == attempt[e] <= MaxRetries + 1

MayRetry(e) == attempt[e] <= MaxRetries

ShouldRetry(w) == res[w] # "success" /\ MayRetry(cur[w])

\* Mutant: the claim outlives the dispatch of a call that is retried.
KeepClaimForRetry(w) ==
    /\ pc[w] = "release"
    /\ IF ShouldRetry(w)
       THEN Goto(w, "release", "retry") /\ UNCHANGED <<claims, res, spent>>
       ELSE /\ Leave(w)
            /\ claims' = claims \ {Id(w)}
            /\ spent' = IF res[w] = "success" THEN spent ELSE spent \cup {Id(w)}
    /\ UNCHANGED <<queueVars, attempt, envVars, results, poolVars, handler>>

ReleaseClaim(w) ==
    /\ pc[w] = "release"
    /\ claims' = claims \ {Id(w)}
    /\ IF ShouldRetry(w)
       THEN Goto(w, "release", "retry") /\ UNCHANGED <<res, spent>>
       ELSE /\ Leave(w)
            /\ spent' = IF res[w] = "success" THEN spent ELSE spent \cup {Id(w)}
    /\ UNCHANGED <<queueVars, attempt, envVars, results, poolVars, handler>>

\* retry.Schedule: ask the result store, count the attempt, enqueue the same
\* call object; its error is ignored.
ScheduleRetry(w) ==
    /\ pc[w] = "retry"
    /\ IF CommittedSuccess(Id(w)) \/ ~MayRetry(cur[w])
       THEN Leave(w) /\ UNCHANGED attempt
       ELSE /\ Goto(w, "retry", "enqueue") /\ UNCHANGED res
            /\ attempt' = [attempt EXCEPT ![cur[w]] = @ + 1]
    /\ UNCHANGED <<queueVars, spent, envVars, claims, results, poolVars,
                   handler>>

Requeue(w) ==
    /\ pc[w] = "enqueue"
    /\ Leave(w)
    /\ IF closed THEN UNCHANGED queued
                 ELSE queued' = [queued EXCEPT ![cur[w]] = @ + 1]
    /\ UNCHANGED <<submitted, closed, attempt, spent, envVars, claims, results,
                   poolVars, handler>>

Dispatch(w) ==
    \/ CheckCommitted(w) \/ TryClaim(w)
    \/ PickInstance(w) \/ PickFails(w)
    \/ AcquireHandle(w) \/ StartHandler(w) \/ AcquireFails(w)
    \/ HandlerDone(w) \/ CtxDone(w) \/ CommitTimeout(w) \/ InstanceStopped(w)
    \/ CommitResult(w) \/ ReleaseClaim(w) \/ ScheduleRetry(w) \/ Requeue(w)

\* All workers are idle with nothing to take, or they have returned.
Quiet ==
    \/ ~cancelled /\ (\A w \in Workers : pc[w] = "idle") /\ \A e \in Entries : queued[e] = 0
    \/ cancelled /\ \A w \in Workers : pc[w] = "exited"

\* The model has run out of inputs.
Finished ==
    /\ Quiet
    /\ submitted = Entries \/ closed
    /\ UNCHANGED vars

Next ==
    \/ \E e \in Entries : Submit(e) \/ Expire(e)
    \/ \E e \in Entries, a \in Attempts : HandlerReturns(e, a)
    \/ Cancel \/ CloseQueue
    \/ \E w \in Workers : Take(w) \/ Exit(w) \/ Dispatch(w)
    \/ Finished

Spec == Init /\ [][Next]_vars

\* Goroutines run, so a dispatch goes on while it can and an idle worker takes
\* a waiting entry (Dispatcher: no wake-up is lost) or, once the context is done,
\* returns; time passes, so every deadline arrives.  Handlers, callers and Stop owe
\* nothing.
FairSpec ==
    /\ Spec
    /\ \A w \in Workers : WF_vars(Take(w) \/ Exit(w) \/ Dispatch(w))
    /\ \A e \in Entries : WF_vars(Expire(e))

------------------------------------------------------------------------------
OwnsClaim(w) ==
    pc[w] \in {"pick", "handle", "acquire", "wait", "timeout", "commit",
               "release"}

HoldsHandle(w) == pc[w] \in {"acquire", "wait", "timeout"}

\* No two dispatchers execute the same call ID at the same time (claim.go:5-6).
OneOwner ==
    \A v, w \in Workers : OwnsClaim(v) /\ OwnsClaim(w) /\ v # w => Id(v) # Id(w)

\* The claim map holds exactly the IDs being dispatched: no path through
\* Dispatch leaks a claim, which would block every retry of the call.
ClaimsExact == claims = {Id(w) : w \in {v \in Workers : OwnsClaim(v)}}

\* The runtime pool never exceeds its limit, and no early return of Execute
\* leaks a slot or an in-flight mark.
HandlesExact ==
    /\ slots = Cardinality({w \in Workers : HoldsHandle(w)})
    /\ slots <= HandleLimit
    /\ inflight = {Id(w) : w \in {v \in Workers : HoldsHandle(v)}}

\* A call object is in one place: once in the queue or in one dispatch, never
\* in both and never twice in the queue (timeout.go:15-20).
EntryInOnePlace ==
    \A e \in Entries : queued[e] + Cardinality({w \in Workers : cur[w] = e}) <= 1

\* What Dispatch is about to return is what the store says, up to the moment
\* the claim is given up: no other dispatch interferes with the commits.
ResultStands == \A w \in Workers : pc[w] = "release" => results[Id(w)] = res[w]

\* When the executor comes to rest, each submitted call has succeeded or one of
\* its entries has used up its attempts: dropping duplicates (Dispatch) and
\* skipping retries (Schedule) never loses the last chance of a call.
NoRetryLost ==
    Quiet /\ ~cancelled =>
        \A e \in submitted : CommittedSuccess(IdOf[e]) \/ IdOf[e] \in spent

\* A deadline that expires never replaces a success by a timeout
\* (finalizeTimeout), not even when the call was dispatched twice.
TimeoutNeverHidesSuccess ==
    [][\A i \in Ids : results[i] = "success" => results'[i] # "timeout"]_vars

Owner(i) ==
    IF \E w \in Workers : OwnsClaim(w) /\ Id(w) = i
    THEN CHOOSE w \in Workers : OwnsClaim(w) /\ Id(w) = i
    ELSE Nobody

Register == INSTANCE ExecutionRegister WITH
    owner <- [i \in Ids |-> Owner(i)], outcome <- results

\* Claims, commits and releases amount to exclusive ownership of the call ID,
\* with every outcome written by the owner and none let go without an outcome.
ImplementsRegister == Register!Spec

\* Every accepted call gets an outcome, unless the engine stops.
AcceptedSettles ==
    \A i \in Ids :
        (\E e \in submitted : IdOf[e] = i) ~> (results[i] # "none" \/ cancelled)

\* Retries die out, and no dispatch hangs: the executor comes to rest with an empty
\* queue or, after a cancel, with every worker gone (dispatch.go:22-31).
ComesToRest == <>[]Quiet

\* exec.go:92-93: once a call has finished successfully, "a replayed duplicate must
\* not run again or overwrite the committed outcome".
SuccessIsFinal ==
    [][/\ \A i \in Ids : results[i] = "success" => results'[i] = "success"
       /\ \A e \in Entries, a \in Attempts :
             handler[e][a] = "none" /\ handler'[e][a] = "running"
                 => ~CommittedSuccess(IdOf[e])]_vars

\* exec.go:87-89: "a duplicate arriving while the call is still running loses
\* the claim race and is dropped", so two entries of one call never have their
\* handlers running at the same time.
NoConcurrentHandlers ==
    \A e, f \in Entries, a, b \in Attempts :
        handler[e][a] = "running" /\ handler[f][b] = "running" /\ e # f
            => IdOf[e] # IdOf[f]
==============================================================================
