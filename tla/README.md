# A formal model of FnExec

FnExec (module `fnexec`) is a small serverless engine in Go: events become calls, calls wait in a
queue, workers dispatch them to instances that are booted on demand, scaled and reclaimed, and
outcomes are kept in a store. This directory models its concurrent core in TLA+, model-checks it
with TLC and proves the central invariants with TLAPS. `PROJECT.json` maps every definition to the
lines of the source it stands for and lists the runs, mutants, hazards, findings and theorems.

## 1. Inventory

| Part (source) | State | Operations | Correct when |
|---|---|---|---|
| Call queue (`queue/queue.go`, `batch.go`) | `items`, `head`, `notify` (one slot), `closed` | `Enqueue`, `Retry`, `DequeueBatch`, `Close`, `Len` | FIFO with put-back at the head; nothing skipped, repeated or retained; a signal follows every arrival |
| Dispatcher workers (`exec/dispatch.go`) | one goroutine each: `select`, batch in hand | `Run`, `worker`, `drain` | no wake-up is lost, every waiting call is dispatched, all workers return after a cancel |
| Executor (`exec/exec.go`, `claim.go`, `result.go`, `runtime.go`, `timeout.go`) | claim map, result store, runtime slots, one handler goroutine per execution | `Dispatch`, `Execute`, `finalizeTimeout` | a call ID is executed by one worker at a time; claims and handles never leak; outcomes are not lost or hidden |
| Retry manager (`retry/retry.go`) | success checker, `maxRetries` | `ShouldRetry`, `Schedule` | a failed call is queued once more, never twice, never beyond its budget |
| Cold-start manager (`cold/cold.go`, `boot.go`) | `mu`, `cache`, `booting` | `Ensure`, `Invalidate` | one boot per function at a time; no stale or forgotten entry; every caller gets an answer |
| Scaler (`scale/*.go`) | instance table, routes, instance states, running counts | `Register`, `Acquire`, `Release`, `Reclaim`, `Resize`, `RemoveAll` | an instance is removed once, after its calls; routes match the table |
| Scaling policy and loop (`scale/policy.go`, `engine/scale_loop.go`) | none | `Recommend`, `reconcile` | the recommendation respects the function's bounds and `Resize` accepts it |
| Trigger and throttle (`trigger/*.go`) | token bucket per function, counters | `Handle`, `Allow` | callers are told what became of their event; a burst is bounded and a refusal costs nothing; no bucket for an unknown name |
| Function registry (`func/*.go`) | functions by name | `Register`, `Lookup`, `Validate` | a map behind one mutex, filled before anything runs |
| Engine (`engine/engine.go`) | wiring, cancel function, HTTP server | `Start`, `Stop`, `Invoke` | a failed `Start` and a `Stop` leave no goroutine; `Stop` closes the queue after the last handler |
| Console, daemon, types (`web/`, `cmd/`, `model/`) | none of their own | HTTP, flags, hashing | input and output only |

How they interact. `Trigger.Handle` enqueues; `Enqueue` signals the notify channel, on which the
workers of `Executor.Run` sleep. A worker dequeues batches and calls `Dispatch` for each call.
`Dispatch` asks the result store, claims the call ID, picks an instance (routes of the scaler, or
`cold.Ensure` and then `scale.Register`), takes a runtime handle and the instance, starts the handler
goroutine and waits for its answer, the deadline or the instance's `Stop` channel. It commits the
outcome, gives up the claim and lets the retry manager enqueue the same call object again.
`Engine.reconcile` resizes the instance table from the queue's demand; a removal closes `Stop` and
calls back `cold.Invalidate`. `Engine.Stop` cancels the context, shuts HTTP down, removes all
instances and closes the queue.

What is hard about it: duplicates of a call in several workers, checks that are out of date when
they are used, early returns between an acquire and its release, a handler that outlives the dispatch
that gave up on it, answers racing deadlines, a notify channel with one slot for many calls, boots
shared by concurrent callers, and instances removed under the calls that use them. `PROJECT.json`
lists each of these under `hazards` at the line where it bites, with the property that covers it.

## 2. Modules

| Module | What it models |
|---|---|
| `CallQueue` | `queue.Queue`: state and methods as operators. Each method holds the mutex throughout, so each is one step. |
| `QueueClient` | the queue under any sequence of method calls |
| `FifoQueue` | the abstract queue: a sequence, append, put back, take a prefix |
| `Dispatcher` | `worker` and `drain` over `CallQueue`. `pc` is the place in the loop, `batch` what is left of `batch.Calls` and `batch.More`. One `Dispatch` is `Start` followed by `Finish` or `FinishAndRetry`. |
| `Executor` | one `Dispatch` in full: every critical section of the claim map, result store, runtime pool, retry manager and queue is a step of its own (`check`, `claim`, `pick`, `handle`, `acquire`, `wait`, `timeout`, `commit`, `release`, `retry`, `enqueue`) |
| `ExecutionRegister` | the abstract executor: each call ID has at most one owner, and only the owner writes its outcome |
| `ColdStart` | `Ensure` and `Invalidate` with an explicit mutex, since `Ensure` has a path that goes on without it; the executor's `Register` and the scaler's removal as surroundings |
| `Policy` | `Recommend` and the instance bounds that `Validate` lets in |
| `Scaler` | the scaler for one function: workers that pick, register, acquire and release instances, the scale loop's `reconcile` (over `Policy`) and `Resize`, and `Engine.Stop`'s `RemoveAll` with `Reclaim` step by step |
| `Throttle` | `Allow` on the token buckets, over a clock |
| `Engine` | `Start` and `Stop`, the goroutines between them, and every request through `Trigger.Handle`, over the call queue of `FifoQueue` |
| `CallQueueProofs` | lemmas about the queue's operators, for the two modules that use them |
| `QueueProofs`, `DispatcherProofs`, `ExecutorProofs`, `ColdStartProofs`, `ScalerProofs`, `ThrottleProofs`, `EngineProofs` | theorems and proofs |
| `MC*` | constants and symmetry sets for TLC |

Choices a reader should know:

- In `Executor` the queue is a bag (`queued` counts how often an entry waits). Its order matters to
  the workers and is modelled in `Dispatcher` and `QueueClient`; for claims and outcomes any order is
  allowed.
- An entry is one `model.Call` object. Two entries with one ID are the same event submitted twice
  (`trigger.go:54` derives the ID from the event). The hash is assumed to be free of collisions.
- Picking, acquiring and losing an instance may succeed or fail at any time in `Executor`: the scaler
  and the cold-start manager are its environment.
- `Acquire` and `Release` of a runtime handle have two critical sections each (the slot, the in-flight
  set). They are one step: the claim makes the in-flight key the worker's own, so nobody else can tell
  the halves apart.
- `finishResult` commits and `dispatchClaimed` commits the same result again; both commits are
  modelled. `call.Status` and the counters are not: nothing reads them to decide anything.
- A handler returns whenever it likes or never. Nothing makes it obey its context. Once its dispatch
  has stopped waiting for it, the answer goes into a channel nobody reads, and the model forgets it
  (`Awaited`).
- In `Scaler` an instance is a number, in the order of creation (`StartedAt`), and its `ID` is a field,
  because two instances can have one ID. `Get`, `Ready`, the look at the running count, the removal,
  the closing of `Stop` and the callback are separate steps, as they are separate critical sections.
  `waitDrained` looks at the count, pauses while it is not zero, and after a pause looks again or, at its
  time limit, gives up without a look. Cold starts are the three ways `Ensure` can end: the cached instance, a new one, an error. A second close of
  `Stop` is a panic, after which nothing happens any more. Locals are reset when they go out of scope.
- `NewManager` turns `MaxRetries` 0 into 2 and keeps a negative value, which allows no retry; the
  model's `MaxRetries = 0` stands for the latter.
- In `ColdStart` one number names a boot's done channel and its instance. `Finish` and `Follow` are
  single steps that include their deferred unlock. Where a caller has lost the mutex, another caller
  inside makes the access a data race on a Go map: the model lets the runtime stop the program
  (`crashed`) or go on. An instance that is registered after its removal is in the table but not live
  (its state stays `Removed`); `live` leaves it out. One way around this is outside `ColdStart`: a drain
  that times out after the scale loop has removed the instance sets the state back to running
  (`drain.go:35-39`, modelled in `Scaler`), and a caller that registers it after that makes it live although the
  cache has forgotten it. `LiveIsCached` holds up to that.
- `ColdStart.strayed` records that some caller's hit was on an instance that was not live, after which
  that caller goes on without the mutex. From there on the code itself gives the manager's promises up
  (`cold_unlock`), so `MutexHeld`, `OneBoot`, `BootTableExact` and `LiveIsCached` are stated up to that
  moment, and `EnsureReturns` with it as a way out. `InvalidatedStaysOut` needs no such exception.
- `Checked = FALSE` is a manager built with a nil liveness checker, as in `cold_test.go` (the code
  tests for nil at `cold.go:56`); `Checked = TRUE` is the engine's wiring. Without a
  checker nobody ever strays (theorem `UncheckedNeverStrays`).
- In `Scaler` the function's `MinInstances` and `MaxInstances` are a variable that never changes
  (`limits`), so that one run covers several functions. `Reconcile` is one pass of the loop, with or
  without pending calls, that finds a size to change; `Resize` then counts a second time, as the code does.
- In `Throttle` time runs in ticks, `Second` of them to a second, and a token has `Second` parts, so a tick
  earns `Rate` parts: exact fractions in place of floating-point numbers. `passed`, `before` and `lastPass`
  are history, for the properties.
- `Engine` takes the other modules at their word: the queue is `FifoQueue` (which `QueueClient` is shown
  to implement), a worker's dispatch is one step, the throttle says yes or no, `RemoveAll` ends. A handler's
  four steps (lookup, throttle, `Enqueue`, answer) interleave with the workers, with `Stop` and with
  each other. `Shutdown` returns when no handler is active or when its context is done (`gaveUp`).
  A signal may come while `Start` is still under way; `Stop` comes later, and also without a signal.

## 3. Runs

Every property below has a mutant in `PROJECT.json`, a definition changed the way a plausible bug
would change it, that breaks the property under the same configuration.

| Run | Bounds | Shows |
|---|---|---|
| `queue` | 2 calls, batch sizes 0 (which means 1) to 3, slice of 5 | `ImplementsFifo`: head index, retained prefix, compaction and put-back amount to a FIFO queue. `TypeOK` includes that nothing is retained once the queue runs empty. |
| `dispatcher` | 2 workers, 3 calls, batches of 2, 2 attempts | `NoLostWakeup`, `OnePlace`, `EveryCallDispatched`, `WorkersStop`, with retries and `Stop` |
| `executor` | 2 workers, 2 entries of one call, 1 retry | `OneOwner`, `ClaimsExact`, `EntryInOnePlace`, `ResultStands`, `NoRetryLost`, `HandlesExact` (one runtime slot for two workers), `TimeoutNeverHidesSuccess` and the refinement `ImplementsRegister` |
| `executor_live` | as `executor` | `AcceptedSettles`: dropping duplicates never leaves a call without an outcome. `ComesToRest`: retries die out and no worker hangs, so that all workers are idle before an empty queue or, after a cancel, have returned (calls may be left in the queue then) |
| `cold` | 3 callers, 2 functions, 2 boots, with checker | `MutexHeld`, `OneBoot`, `BootTableExact`, `LiveIsCached`, `EnsureReturns` up to the first stale hit, and `InvalidatedStaysOut` after it too |
| `scaler` | 2 workers, scale loop, `Stop`, 2 instances, functions of 0 to 2 and of 2 instances | `RunningExact`, `RemovalAnnounced`, `RoutesCatchUp`, `DrainHolds` |
| `throttle` | 2 functions, rate 2, a clock of 2 seconds in thirds | `RateBounded`: in any stretch of time at most a full bucket and what is earned meanwhile gets through. `RefusalsCostNothing`: being refused again and again puts nobody off |
| `engine` | 3 requests, one of them for an unknown name | `ToldTheTruth`, `TurnedAwayOnlyByTimeout`, `BucketsBounded`, `QuietAfterStop`, `WindsUp`, `AcceptedIsDispatched` |

Why the bounds are enough to be interesting. Two workers and two entries of one ID give every race
of a dispatch with its duplicate; a third contender only queues behind one of them. One retry lets
a retried attempt meet an abandoned handler of the first. A pool of one slot makes workers block
on each other. Batches of two with three calls produce a batch with `More` and one without, and with two
workers one can sleep while the other drains or is about to sleep. Two functions show that the cold
starts of different functions do not disturb each other; three callers are a leader, a follower and
one that arrives late; two boots let an instance be booted, cached, removed and replaced. In the scaler
two instances suffice for one that is removed and its successor, and two workers for one that runs a
call while the other registers an instance that is already gone; a function of 0 to 2 instances goes up
and down (what happens to one with a single size between is part of that), one of 2 makes both at once.
In the throttle two seconds are enough to empty a bucket, fill it and empty it again, and thirds make
fractions of a token. In the engine two requests for one function and one for no function meet each phase
of `Start` and `Stop`, and each other in the queue. Symmetry is used only in runs
without temporal properties. TLC also checks the assumptions on the constants in every run.

Deadlock is checked in every run. Where the model has simply run out of inputs it stutters
(`Quiet`, `Finished`, `Stopped`, `Ended`), and only in states in which nothing is left to do. `Scaler` stutters
when its bound on instances is used up (`Halted`) and after a panic.

### Disagreements between the comments and the code

Four runs are expected to be violated; each checks a sentence of the source.

- `executor_final`: `Dispatch` looks for a committed success before it claims. A duplicate that looked
  early and claims late runs a succeeded call again, or its outcome replaces the success.
  `exec.go:92` says it "must not run again or overwrite the committed outcome".
- `executor_handlers`: the claim ends with the dispatch, the handler does not. After a timeout a
  duplicate runs beside the abandoned handler; `exec.go:87-89` says it is dropped.
- `cold_unlock`: on a stale hit `Ensure` has unlocked the mutex and goes on as if it held it
  (`cold.go:62`: "while still holding the lock"), up to a second `Unlock`. It takes two callers and no
  removal: the first caches the instance before `pickInstance` registers it with the scaler.
- `scaler_drain`: `Reclaim` reads the running count without the mutex and removes the instance when it
  is zero; a call acquired after the look is stopped. `drain.go:13` says an instance is removed "after
  its in-flight calls have drained". It happens in one other way only (theorem `EarlyRemovalIsTheCause`).

Further things met while modelling, without a run of their own:

- `batch.go:12-13` says `More` covers calls enqueued after the batch was cut; it is computed at the
  cut. `drain` asks `Len` again, so nothing is lost (`EveryCallDispatched`).
- `instance.go:19` calls an instance a slot for one invocation at a time; `Scaler.Acquire` sets no
  limit and several workers run calls on one instance.
- A worker can register an instance after its removal (it came out of the cold-start cache before). It
  sits in the table as removed, and `RemoveAll` then closes its `Stop` channel a second time, which
  panics. `Scaler` reaches this state (`Panicked`) and stops there; there is no other way to it
  (theorem `PanicNeedsLateRegister`).
- A drain that times out sets its instance back to running even if the scale loop removed it meanwhile.
- `drain.go:10` calls `DrainTimeout` "how long a scale-down waits for in-flight calls to finish". The
  scale-down of the loop is `Resize` with `reclaimOldest`, which does not wait at all (`resize.go:28-52`); only
  `RemoveAll` drains. The built-in functions have no bounds, so their recommendation is always zero,
  and each pass of the loop removes their instances under the calls that run on them.
- `NewInstance` derives the ID from the table's size, so the ID of a removed instance comes back. A
  `Reclaim` that waited for the old one then removes the new one, and in a table with gaps a new
  instance can replace one that is in use.
- `throttle.go:20` says "up to rate events per second"; a bucket that starts full and refills while it is
  emptied lets nearly twice that through in one second. `RateBounded` is the bound that holds.
- `Stop` cancels the workers before it shuts the server down: a call let in between is told "queued" and
  stays in the queue for good.
- `Function.MaxRetries` is validated and never read (the retry manager has one budget for all), and
  `Queue.Retry` is called by tests only.

## 4. Fairness

- `Dispatcher`: weak fairness of each worker. Goroutines that can run do run, and every `Dispatch`
  returns, as `Execute` ends at the latest with the call's deadline. No caller has to submit anything
  and nobody has to stop the engine.
- `Executor`: weak fairness of each worker and of each deadline (time passes). A worker goes on with its
  dispatch; an idle one takes a waiting entry (that the real queue wakes one is `NoLostWakeup`) or, once the
  context is done, returns (`dispatch.go:24-26`). After a cancel the two compete, so the queue need not be
  emptied. Handlers owe nothing, so a call may depend on its deadline alone.
- `ColdStart`: weak fairness of each caller's steps, including the boot (`LocalBooter` waits a fixed
  delay), and strong fairness of taking the mutex, because a `sync.Mutex` in starvation mode hands
  itself to a waiter. A follower's own deadline is not assumed to arrive.
- `Engine`: weak fairness of `Start` and `Stop` once they are called (`Shutdown` waits no longer than its
  context, three seconds in `main.go`), of the call of `Stop` once the context is done (`main.go:47-50`), of the workers' taking of calls, of each goroutine's return after the
  cancel, and of each handler. Nobody has to send a request or a signal.

## 5. Proofs

All theorems hold for every value of the constants under the named assumptions (`IdOfAssumption`:
every entry has an ID; naturals for bounds; `Nobody`, `NoEntry`, `Free` outside the sets they stand beside, and
`"queue"`, which names a place beside the workers, not one of them).

**Queue.** What waits is `Pending`, the slice from the head on. `CallQueueProofs` says once what each operator does to it
(`EnqueueAppends`, `RetryPutsFirst`, `BatchIsPrefix`, `DequeueDrops`): a put-back drops the prefix that was
handed out and nothing else, and a compaction changes `head` and `items` only where nothing waits. `TypeCorrect` keeps the head within the slice; with it `FifoImplemented` maps each
method to one operation of `FifoQueue`, with the batch and its `More` as that operation's output.

**Dispatcher.** `WakeupsNotLost` needs `IInv == TypeOK /\ BusyHoldsCall /\ NoLostWakeup`:
`NoLostWakeup` alone says nothing about a worker that is busy, whose batch must be non-empty for its
tail to be a batch. The interesting step is `Dequeue`: an empty batch means an empty queue, so the
worker that goes to sleep leaves nothing behind; `EndBatch` sleeps only after `Len` was 0.
`CallsInOnePlace` is proved from `Apart`, `OnePlace` without positions: queue and batches repeat nothing and share
nothing. It is inductive only together with the fact that what is under way has been submitted, which
is why a new arrival is none of it. Every step is one of `Move`: a call arrives at the end, the front of the queue
becomes the batch of a worker that has none (`EmptyHanded`), a worker finishes its first call and
puts it back at the end or not, or it drops its batch because the context is cancelled. `CallsMoveInOrder` states
exactly this.

**Executor.** `TypeCorrect` bounds the attempts: the count is raised only behind `MayRetry`, and the
guard `attempt <= MaxRetries` is the budget. The invariant of the claims is
`ClaimInv`: the types, the claim map against its owners (`ClaimsOwned`), exclusive ownership
(`OneOwner`) and `CommitsStand`, which ties what a worker will return to the store. Exclusion is not
inductive without `ClaimsOwned`, since `TryClaim` looks at the map and not at the workers;
`CommitsStand` is not without exclusion, since another dispatch of the same ID could commit in
between. From it follow `ExclusiveClaims`, `ClaimsNeverLeak`, `CommitsUndisturbed` and
`TimeoutsHideNothing`: the look at the store and the commit of a timeout are separate critical sections,
and it is the claim that keeps a success from slipping in between. `RegisterImplemented` shows that every step is
a step of `ExecutionRegister` or leaves owners and outcomes alone. `CallInv` adds `Placed` (an entry is
in one place), `RetryDue`, `ClosedLast` (the queue is closed only after the cancel, so no `Enqueue`
of a retry fails in a running engine) and `CallKept` (a submitted call that has neither succeeded nor
used up its attempts still has an entry queued or in some worker's hands), from which come `OneEnqueuer` and `NoCallLost`.
`HandlesNeverLeak` counts: the slots in use are the workers that hold a handle, who are finitely many and
whose IDs differ because they own their claims, so each step adds or removes one of both.
`HandlersStartOnce` follows an entry on its way to its handler (`Coming`): the handler of the attempt to come has not
been started (`NotStarted`), which `Placed` keeps true when a worker starts one, since nobody else has the entry.

Two theorems say where the violated runs of section 3 come from. `ReplaysAreTheCause`: as long as no two
entries share an ID (`NoReplays`), a success is final. A stored success then means that its only entry is at the
end of a dispatch that will not retry, or nowhere (`Over`). `AbandonedIsTheCause`: two handlers of one call run
at the same time only if one of them is no longer awaited, because a worker that waits owns the claim.

**Cold start.** `OnCourse` says of the time before anybody strays: the mutex is held over the critical
sections (`Guarded`), leaders and boot table correspond (`Leaders`, `Led`), and a function boots only while
nothing is cached for it (`MissFirst`). `CachedOrGone` follows an instance from the cache to its
registration. `MutexHeld`, `OneBoot`, `BootTableExact` and `LiveIsCached` follow; `UncheckedNeverStrays`
makes them unconditional for a manager without a checker. `StraysAreTheCause` adds that the program does not crash
before: whoever unlocks or touches a map holds the mutex, and nobody else is inside. `RemovedStaysOut` has an invariant of its own (`Fresh`), which makes no use of the mutex: boots are numbered as
they start, and until its boot has ended nobody but its leader knows an instance (`Secret`), so what is put
into the cache has never been removed. `TypeCorrect` adds to `Fresh` that every caller that may still start a boot
has one reserved (`Reserved`, which counts them; the callers are assumed to be finitely many).

**Scaler.** `Inv` is the types and `Held`: a goroutine that is about to act on an instance has one.
`CountsExact` is inductive with it: only `Acquire` and `Release` touch a count, and each moves one worker
into or out of the set that is counted; the workers are assumed to be finitely many. The other facts of
`TypeOK` need that a close follows no panic and that the counter of `Resize` never passes the number of
instances made. `DrainsHold` needs the counts as well (a call that ended on the drained instance would
have to be in an empty set) and `TurnedAway`, that the instance is not running while it drains. That
part fails with two stoppers, one of which gives up, hence `StoppersAssumption`: `Engine.Stop` is the
only caller of `RemoveAll`, and `main` calls it once. `PanicNeedsLateRegister` is about the second close of `Stop`: an
instance in the table has nobody closing it, and two goroutines never close the same one (`ClosesOnce`), in every
behaviour in which no instance comes back into the table after its removal (`NoneComesBack`, the condition of the
theorem); only `Register` can bring one back. `EarlyRemovalIsTheCause` says where the violation of
`scaler_drain` comes from: a call is acquired after the look at the count and before the removal (`SlipsIn`), or
`finishReclaim` finds another instance under the ID than the one it drained (`FindsAnother`, since
`NewInstance` uses an ID again). TLC finds the violation when either of the two is excluded alone. Without both the
instance stays free of calls from the look on (`FreeToRemove`): draining turns new calls away, and so does its
removal. `RecommendationValid` is about the policy alone: whatever
`Validate` lets in, the recommendation lies within the function's bounds and `Resize` accepts it, which is also what keeps
the goal of a `Resize` in its type.

**Throttle.** `RateIsBounded` follows from `Budget`: what has passed since an instant and what the bucket holds now
(`Filled`, which counts what it would earn) add up to at most a full bucket and what was earned since. A tick
adds the same to both sides or is cut off, an `Allow` moves a token from the bucket to what has passed.
`RefusalsAreFree` is inductive as it stands: a refused `Allow` leaves `Filled` as it is.

**Engine.** `Phases` ties the queue to `Stop` (closed exactly when `Stop` is done; past `Shutdown` no handler is
active unless it gave up), `LookedUp` says that a handler past the lookup has a registered name, and `Refused` that only a
closed queue turns anyone away. `TurnedAwayOnlyByTimeout` is inductive with them, since a handler that
finds the queue closed is active after `Shutdown`. For `ToldTheTruth` the queue is shown to hold each call
once and exactly those that were accepted and not taken (`QueueExact`), which the count follows from.

Only model-checked: all liveness (`EveryCallDispatched`, `WorkersStop`, `AcceptedSettles`, `ComesToRest`,
`EnsureReturns`, `WindsUp`, `AcceptedIsDispatched`), which is out of the prover's reach, as is `ENABLED`. Every invariant
that a run checks, and both refinements, are proved. For
each of the four violated runs a theorem states what the violation takes.

## 6. Not modelled

Not modelled because there is nothing to interleave: the read-only routes of the console, flag parsing, the
startup probe, the counters and other read-only views, the vendored hash and its collisions, the built-in
handlers. `Scaler` looks at one function; the table is shared by all functions, which matters
only for the size that `NewInstance` hashes together with the function's name. The registry is a constant, as
nothing registers or removes a function once the engine runs.

Left for an extension:

1. `Engine` composed with `Executor` and `Scaler` in full: what the tables hold after `Stop`, and whether an
   accepted call can stay without an instance. Each is near the limit of a run already.
2. The size that a `Resize` reaches when instances come and go meanwhile. The source promises nothing
   about it beyond "adjusts the number of instances" (`resize.go:12`), which other goroutines may undo.
