------------------------------- MODULE ColdStart -------------------------------
(***************************************************************************)
(* The cold-start manager of internal/cold: Ensure, which collapses        *)
(* concurrent cold starts of a function onto one boot, and Invalidate.     *)
(* The mutex is explicit, because Ensure has a path that goes on without   *)
(* it: every stretch between two lock operations is a step.                *)
(*                                                                         *)
(* The k-th boot closes the k-th done channel and provisions the k-th      *)
(* instance, so one number stands for all three; 0 stands for none.        *)
(* The instance table the manager asks about liveness is the scaler's.     *)
(***************************************************************************)
EXTENDS Integers, FiniteSets

CONSTANTS Callers,     \* goroutines that call Ensure
          Funcs,       \* function names
          Checked,     \* whether the manager has a liveness checker
          MaxBoots,    \* bound: boots that may be started; no call starts beyond it
          Free         \* the mutex when nobody holds it

ASSUME CheckedAssumption == Checked \in BOOLEAN
ASSUME MaxBootsAssumption == MaxBoots \in Nat
ASSUME CallersAssumption == IsFiniteSet(Callers)
ASSUME FreeAssumption == Free \notin Callers

VARIABLES lock,      \* holder of Manager.mu
          cache,     \* Manager.cache: the cached instance of each function
          booting,   \* Manager.booting: the channel of each function's boot
          boots,     \* boots started so far
          closed,    \* closed done channels
          live,      \* instances in the scaler's table
          removed,   \* instances removed from it
          told,      \* removed instances whose removal has been reported
          pc, fn, inst, ticket, leader,   \* each caller's place and locals
          crashed,   \* the Go runtime has stopped the program
          strayed    \* history: a caller went on past its own Unlock

managerVars == <<lock, cache, booting, boots, closed, crashed, strayed>>
tableVars == <<live, removed, told>>
callerVars == <<pc, fn, inst, ticket, leader>>
vars == <<managerVars, tableVars, callerVars>>

Boots == 1..MaxBoots
Places == {"idle", "lock", "look", "alive", "stale", "recheck", "flight",
           "unlockhit", "unlock", "boot", "bootlock", "finish", "wait",
           "waitlock", "follow", "register"}

TypeOK ==
    /\ lock \in Callers \cup {Free}
    /\ cache \in [Funcs -> 0..MaxBoots]
    /\ booting \in [Funcs -> 0..MaxBoots]
    /\ boots \in 0..MaxBoots
    /\ closed \subseteq Boots /\ live \subseteq Boots
    /\ removed \subseteq Boots /\ told \subseteq removed
    /\ pc \in [Callers -> Places]
    /\ fn \in [Callers -> Funcs]
    /\ inst \in [Callers -> 0..MaxBoots]
    /\ ticket \in [Callers -> 0..MaxBoots]
    /\ leader \in [Callers -> BOOLEAN]
    /\ crashed \in BOOLEAN /\ strayed \in BOOLEAN

Init ==
    /\ lock = Free
    /\ cache = [f \in Funcs |-> 0] /\ booting = [f \in Funcs |-> 0]
    /\ boots = 0 /\ closed = {}
    /\ live = {} /\ removed = {} /\ told = {}
    /\ pc = [c \in Callers |-> "idle"]
    /\ fn \in [Callers -> Funcs]
    /\ inst = [c \in Callers |-> 0] /\ ticket = [c \in Callers |-> 0]
    /\ leader = [c \in Callers |-> FALSE]
    /\ crashed = FALSE /\ strayed = FALSE

Goto(c, from, to) == pc[c] = from /\ pc' = [pc EXCEPT ![c] = to]

\* The places where a caller touches the two maps.
Inside == {"look", "stale", "recheck", "flight", "finish", "follow"}
Races(c) == \E d \in Callers \ {c} : pc[d] \in Inside

\* Mutex.Lock waits for the mutex. Mutex.Unlock gives it up whoever holds it, and
\* stops the program when nobody does. So may an access to a map beside another.
Lock(c) == lock = Free /\ lock' = c /\ UNCHANGED <<crashed, strayed>>
Unlock(c) ==
    /\ lock' = Free /\ crashed' \in {lock = Free, lock = Free \/ Races(c)}
    /\ UNCHANGED strayed
Touch(c) == crashed' \in {FALSE, Races(c)} /\ UNCHANGED <<lock, strayed>>

------------------------------------------------------------------------------
(* Ensure.                                                                 *)

\* Callers that may still start a boot.
Undecided == {c \in Callers : pc[c] \in {"lock", "look", "alive", "stale", "recheck", "flight"}}

Call(c) ==
    /\ boots + Cardinality(Undecided) < MaxBoots
    /\ Goto(c, "idle", "lock")
    /\ \E f \in Funcs : fn' = [fn EXCEPT ![c] = f]
    /\ inst' = [inst EXCEPT ![c] = 0] /\ ticket' = [ticket EXCEPT ![c] = 0]
    /\ leader' = [leader EXCEPT ![c] = FALSE]
    /\ UNCHANGED <<managerVars, tableVars>>

\* The three places where Ensure takes the mutex.
LockFor(c) ==
    /\ \/ Goto(c, "lock", "look")
       \/ Goto(c, "bootlock", "finish")
       \/ Goto(c, "waitlock", "follow")
    /\ Lock(c)
    /\ UNCHANGED <<cache, booting, boots, closed, tableVars, fn, inst, ticket, leader>>

\* Mutant: the mutex is given up on a miss as well.
LookAndUnlock(c) ==
    /\ pc[c] = "look"
    /\ IF cache[fn[c]] # 0
       THEN /\ Goto(c, "look", IF Checked THEN "alive" ELSE "register")
            /\ inst' = [inst EXCEPT ![c] = cache[fn[c]]]
       ELSE Goto(c, "look", "recheck") /\ UNCHANGED inst
    /\ Unlock(c)
    /\ UNCHANGED <<cache, booting, boots, closed, tableVars, fn, ticket, leader>>

\* A cached instance is looked at without the mutex, a miss keeps it.
Look(c) ==
    /\ pc[c] = "look"
    /\ IF cache[fn[c]] # 0
       THEN /\ Goto(c, "look", IF Checked THEN "alive" ELSE "register")
            /\ inst' = [inst EXCEPT ![c] = cache[fn[c]]]
            /\ Unlock(c)
       ELSE Goto(c, "look", "recheck") /\ UNCHANGED inst /\ Touch(c)
    /\ UNCHANGED <<cache, booting, boots, closed, tableVars, fn, ticket, leader>>

\* An instance that is cached but not in the table yet counts as stale too.
CheckAlive(c) ==
    /\ Goto(c, "alive", IF inst[c] \in live THEN "register" ELSE "stale")
    /\ strayed' = (strayed \/ inst[c] \notin live)
    /\ UNCHANGED <<lock, cache, booting, boots, closed, crashed, tableVars, fn, inst,
                   ticket, leader>>

Uncached(k) == [f \in Funcs |-> IF cache[f] = k THEN 0 ELSE cache[f]]

\* The stale entry is dropped, and Ensure goes on as if it held the mutex.
DropStale(c) ==
    /\ Goto(c, "stale", "recheck")
    /\ cache' = Uncached(inst[c])
    /\ Touch(c)
    /\ UNCHANGED <<booting, boots, closed, tableVars, fn, inst, ticket, leader>>

Recheck(c) ==
    /\ pc[c] = "recheck"
    /\ IF cache[fn[c]] # 0
       THEN /\ Goto(c, "recheck", "unlockhit")
            /\ inst' = [inst EXCEPT ![c] = cache[fn[c]]]
       ELSE Goto(c, "recheck", "flight") /\ UNCHANGED inst
    /\ Touch(c)
    /\ UNCHANGED <<cache, booting, boots, closed, tableVars, fn, ticket, leader>>

UnlockHit(c) ==
    /\ Goto(c, "unlockhit", "register")
    /\ Unlock(c)
    /\ UNCHANGED <<cache, booting, boots, closed, tableVars, fn, inst, ticket, leader>>

\* Mutant: every caller boots.
FlightAlone(c) ==
    /\ Goto(c, "flight", "unlock")
    /\ boots' = boots + 1
    /\ booting' = [booting EXCEPT ![fn[c]] = boots + 1]
    /\ ticket' = [ticket EXCEPT ![c] = boots + 1]
    /\ leader' = [leader EXCEPT ![c] = TRUE]
    /\ Touch(c)
    /\ UNCHANGED <<cache, closed, tableVars, fn, inst>>

\* singleflightLocked: join the boot in flight, or lead a new one.
Flight(c) ==
    /\ Goto(c, "flight", "unlock")
    /\ IF booting[fn[c]] # 0
       THEN /\ ticket' = [ticket EXCEPT ![c] = booting[fn[c]]]
            /\ UNCHANGED <<booting, boots, leader>>
       ELSE /\ boots' = boots + 1
            /\ booting' = [booting EXCEPT ![fn[c]] = boots + 1]
            /\ ticket' = [ticket EXCEPT ![c] = boots + 1]
            /\ leader' = [leader EXCEPT ![c] = TRUE]
    /\ Touch(c)
    /\ UNCHANGED <<cache, closed, tableVars, fn, inst>>

UnlockFlight(c) ==
    /\ Goto(c, "unlock", IF leader[c] THEN "boot" ELSE "wait")
    /\ Unlock(c)
    /\ UNCHANGED <<cache, booting, boots, closed, tableVars, fn, inst, ticket, leader>>

\* Mutant: the booter puts the instance in the scaler's table itself.
BootAndRegister(c) ==
    /\ Goto(c, "boot", "bootlock")
    /\ inst' = [inst EXCEPT ![c] = ticket[c]]
    /\ live' = live \cup {ticket[c]}
    /\ UNCHANGED <<managerVars, removed, told, fn, ticket, leader>>

\* The leader boots, which may fail (an unknown function, a context that is done).
Boot(c) ==
    /\ Goto(c, "boot", "bootlock")
    /\ \E k \in {0, ticket[c]} : inst' = [inst EXCEPT ![c] = k]
    /\ UNCHANGED <<managerVars, tableVars, fn, ticket, leader>>

\* Mutant: a failed boot leaves its entry behind.
FinishKeepingEntry(c) ==
    /\ Goto(c, "finish", IF inst[c] = 0 THEN "idle" ELSE "register")
    /\ closed' = IF inst[c] = 0 THEN closed ELSE closed \cup {ticket[c]}
    /\ IF inst[c] = 0
       THEN UNCHANGED <<cache, booting>>
       ELSE /\ cache' = [cache EXCEPT ![fn[c]] = inst[c]]
            /\ booting' = [booting EXCEPT ![fn[c]] = 0]
    /\ Unlock(c)
    /\ UNCHANGED <<boots, tableVars, fn, inst, ticket, leader>>

\* The leader wakes the followers, clears the boot and caches the instance.
Finish(c) ==
    /\ Goto(c, "finish", IF inst[c] = 0 THEN "idle" ELSE "register")
    /\ closed' = closed \cup {ticket[c]}
    /\ booting' = [booting EXCEPT ![fn[c]] = 0]
    /\ cache' = IF inst[c] = 0 THEN cache ELSE [cache EXCEPT ![fn[c]] = inst[c]]
    /\ Unlock(c)
    /\ UNCHANGED <<boots, tableVars, fn, inst, ticket, leader>>

\* A follower waits for the leader, or gives up when its own context is done.
Wait(c) ==
    /\ \/ ticket[c] \in closed /\ Goto(c, "wait", "waitlock")
       \/ Goto(c, "wait", "idle")
    /\ UNCHANGED <<managerVars, tableVars, fn, inst, ticket, leader>>

\* Mutant: a follower that finds nothing starts over.
FollowAndStartOver(c) ==
    /\ Goto(c, "follow", IF cache[fn[c]] = 0 THEN "lock" ELSE "register")
    /\ inst' = [inst EXCEPT ![c] = cache[fn[c]]]
    /\ Unlock(c)
    /\ UNCHANGED <<cache, booting, boots, closed, tableVars, fn, ticket, leader>>

\* It returns what is cached by then, or ErrNoCapacity.
Follow(c) ==
    /\ Goto(c, "follow", IF cache[fn[c]] = 0 THEN "idle" ELSE "register")
    /\ inst' = [inst EXCEPT ![c] = cache[fn[c]]]
    /\ Unlock(c)
    /\ UNCHANGED <<cache, booting, boots, closed, tableVars, fn, ticket, leader>>

------------------------------------------------------------------------------
(* The surroundings: the executor and the scaler.                          *)

\* The executor registers what Ensure returned; only then is the instance live. An
\* instance that was removed stays so: the end of a timed-out drain, which sets the
\* state back whatever became of the instance (drain.go:37), is left out.
Register(c) ==
    /\ Goto(c, "register", "idle")
    /\ live' = IF inst[c] \in removed THEN live ELSE live \cup {inst[c]}
    /\ UNCHANGED <<managerVars, removed, told, fn, inst, ticket, leader>>

Remove(k) ==
    /\ k \in live
    /\ live' = live \ {k} /\ removed' = removed \cup {k}
    /\ UNCHANGED <<managerVars, told, callerVars>>

\* Invalidate, which the scaler calls after it has removed an instance.
Invalidate(k) ==
    /\ k \in removed \ told /\ lock = Free
    /\ told' = told \cup {k}
    /\ cache' = Uncached(k)
    /\ UNCHANGED <<lock, booting, boots, closed, crashed, strayed, live, removed,
                   callerVars>>

Steps(c) ==
    \/ Look(c) \/ CheckAlive(c) \/ DropStale(c) \/ Recheck(c) \/ UnlockHit(c)
    \/ Flight(c) \/ UnlockFlight(c) \/ Boot(c) \/ Finish(c) \/ Follow(c) \/ Register(c)

Ensure(c) == LockFor(c) \/ Steps(c) \/ Wait(c)

\* The program has stopped, or the model has run out of boots.
Stopped ==
    /\ crashed \/ (boots = MaxBoots /\ \A c \in Callers : pc[c] = "idle")
    /\ UNCHANGED vars

Next ==
    \/ /\ ~crashed
       /\ \/ \E c \in Callers : Call(c) \/ Ensure(c)
          \/ \E k \in Boots : Remove(k) \/ Invalidate(k)
    \/ Stopped

Spec == Init /\ [][Next]_vars

\* A sync.Mutex hands itself to a waiter that has starved for a millisecond, so that
\* a caller for which it is free again and again gets it. A boot ends: LocalBooter
\* waits a fixed delay. Neither a new call, a removal nor a done context is promised.
FairSpec ==
    /\ Spec
    /\ \A c \in Callers :
          /\ SF_vars(LockFor(c))
          /\ WF_vars(Steps(c))
          /\ WF_vars(ticket[c] \in closed /\ Wait(c))

------------------------------------------------------------------------------
(* What the manager promises.                                              *)

\* A caller that leads a boot.
Leads(c, f, k) ==
    /\ pc[c] \in {"unlock", "boot", "bootlock", "finish"}
    /\ leader[c] /\ fn[c] = f /\ ticket[c] = k

\* The caches and boots are touched with the mutex held, as the suffix Locked and the
\* comment "The mutex must be held" of singleflightLocked (cold.go:104) say: as long
\* as no caller has met a stale entry.
MutexHeld == ~strayed => \A c \in Callers : pc[c] \in Inside => lock = c

\* Ensure looks at the cache again, and at the boots, "while still holding the lock"
\* (cold.go:62).
RecheckHoldsLock == \A c \in Callers : pc[c] \in {"recheck", "flight"} => lock = c

\* Concurrent callers for a function collapse onto a single boot: no two callers are
\* leaders for it, however they came to the miss (cold.go:48).
OneBoot ==
    ~strayed =>
        \A f \in Funcs : \A c, d \in Callers :
            (\E j, k \in Boots : Leads(c, f, j) /\ Leads(d, f, k)) => c = d

\* A function is marked as booting exactly while a caller leads that very boot: a
\* boot, failed or not, never leaves a channel behind that nobody will close.
BootTableExact ==
    ~strayed =>
        \A f \in Funcs : \A k \in Boots :
            booting[f] = k <=> \E c \in Callers : Leads(c, f, k)

\* An instance in the scaler's table that a boot provided is cached, so that the
\* manager never boots a second one beside it (Register names what is left out).
LiveIsCached == ~strayed => \A k \in live : \E f \in Funcs : cache[f] = k

\* The scaler reports a removal once. The report never comes before the instance is
\* cached, where it would be missed and the instance stay cached for ever.
InvalidatedStaysOut == \A k \in told : \A f \in Funcs : cache[f] # k

\* Every Ensure returns, unless a caller strays: a leader that fails wakes its
\* followers too, and a follower needs no deadline of its own to get away.
EnsureReturns == \A c \in Callers : pc[c] = "lock" ~> (pc[c] = "idle" \/ strayed)
==============================================================================
