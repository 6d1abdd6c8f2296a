-------------------------------- MODULE Scaler --------------------------------
(***************************************************************************)
(* The scaler of internal/scale for one function: the instance table, the  *)
(* routes, and the goroutines that use them.  Workers of the executor pick *)
(* an instance and run a call on it; the scale loop resizes; Engine.Stop   *)
(* removes all instances.  Each critical section of Scaler.mu is a step.   *)
(*                                                                         *)
(* Instances are numbered in the order of their creation, which is the     *)
(* order of StartedAt.  Their IDs are another matter: one that NewInstance *)
(* makes is derived from the size of the table (a positive number), one    *)
(* that the booter makes is unique (a negative number).                    *)
(***************************************************************************)
EXTENDS Policy, FiniteSets

CONSTANTS Workers,       \* goroutines that dispatch calls
          Loops,         \* goroutines that resize: at most one, Engine.scaleLoop
          Stoppers,      \* goroutines that remove all, once: at most one, Engine.Stop
          Bounds,        \* instance bounds the function may be registered with
          MaxMade        \* bound: instances ever created

ASSUME BoundsAssumption == Bounds \subseteq Validated
ASSUME MaxMadeAssumption == MaxMade \in Nat
ASSUME RolesAssumption ==
    Workers \cap (Loops \cup Stoppers) = {} /\ Loops \cap Stoppers = {}
ASSUME WorkersAssumption == IsFiniteSet(Workers)
ASSUME StoppersAssumption == \A s, t \in Stoppers : s = t

VARIABLES limits,    \* MinInstances and MaxInstances of the function, which stay
          made,      \* instances created so far
          id, state, running, stops,   \* of each: ID, State, Running, times Stop was closed
          table,     \* Scaler.instances, as the set of its values
          routes,    \* Scaler.routes of the function, without their order
          cached,    \* what the cold-start manager has cached, 0 for nothing
          pc,        \* where each goroutine is
          inst,      \* the instance each goroutine deals with
          seen,      \* each worker: route IDs still to try; each stopper: IDs to reclaim
          at, desired   \* of Resize, in each loop: the counter and its goal

instVars == <<id, state, running, stops>>
tableVars == <<made, instVars, table, routes, cached>>
resizeVars == <<at, desired>>
vars == <<limits, tableVars, pc, inst, seen, resizeVars>>

Instances == 1..MaxMade
Ids == -MaxMade..MaxMade
Scalers == Loops \cup Stoppers
Actors == Workers \cup Scalers

States == {"none", "running", "draining", "removed"}
Places == {"idle", "try", "ready", "register", "acquire", "run",
           "get", "look", "mark", "wait", "pause", "unmark", "finish", "drained", "end",
           "close", "tell", "resize", "adjust"}

TypeOK ==
    /\ limits \in Bounds
    /\ made \in 0..MaxMade
    /\ id \in [Instances -> Ids]
    /\ state \in [Instances -> States]
    /\ running \in [Instances -> 0..Cardinality(Workers)]
    /\ stops \in [Instances -> 0..2]
    /\ table \subseteq 1..made /\ routes \subseteq Ids
    /\ cached \in 0..made
    /\ pc \in [Actors -> Places]
    /\ inst \in [Actors -> 0..made]
    /\ seen \in [Actors -> SUBSET Ids]
    /\ at \in [Loops -> 0..MaxMade] /\ desired \in [Loops -> ValidSizes]

Init ==
    /\ limits \in Bounds
    /\ made = 0 /\ table = {} /\ routes = {} /\ cached = 0
    /\ id = [k \in Instances |-> 0]
    /\ state = [k \in Instances |-> "none"]
    /\ running = [k \in Instances |-> 0]
    /\ stops = [k \in Instances |-> 0]
    /\ pc = [a \in Actors |-> "idle"]
    /\ inst = [a \in Actors |-> 0]
    /\ seen = [a \in Actors |-> {}]
    /\ at = [s \in Loops |-> 0] /\ desired = [s \in Loops |-> 0]

Goto(a, from, to) == pc[a] = from /\ pc' = [pc EXCEPT ![a] = to]
Use(a, k) == inst' = [inst EXCEPT ![a] = k]

\* The table is a map from IDs: at most one of its instances has a given ID.
Tracked(i) == \E k \in table : id[k] = i
Get(i) == CHOOSE k \in table : id[k] = i
Live == {k \in table : state[k] # "removed"}
RebuiltRoutes == {id[k] : k \in Live}

\* A new instance takes the place of one with the same ID.
Create(i, t) ==
    /\ made < MaxMade /\ made' = made + 1
    /\ id' = [id EXCEPT ![made + 1] = i]
    /\ state' = [state EXCEPT ![made + 1] = "running"]
    /\ table' = t
    /\ UNCHANGED <<running, stops>>

------------------------------------------------------------------------------
(* A worker: pickInstance, then one call on the instance.                  *)

PickInstance(w) ==
    /\ Goto(w, "idle", "try")
    /\ seen' = [seen EXCEPT ![w] = routes]
    /\ UNCHANGED <<tableVars, inst, resizeVars>>

\* Each routed ID is looked up, then asked whether it is ready, by its ID again.
TryRoute(w) ==
    /\ pc[w] = "try"
    /\ \E i \in seen[w] :
          /\ seen' = [seen EXCEPT ![w] = @ \ {i}]
          /\ IF Tracked(i)
             THEN Goto(w, "try", "ready") /\ Use(w, Get(i))
             ELSE UNCHANGED <<pc, inst>>
    /\ UNCHANGED <<tableVars, resizeVars>>

Ready(w) ==
    /\ LET i == id[inst[w]]
           ok == Tracked(i) /\ state[Get(i)] = "running"
       IN  /\ Goto(w, "ready", IF ok THEN "acquire" ELSE "try")
           /\ seen' = [seen EXCEPT ![w] = IF ok THEN {} ELSE @]
    /\ UNCHANGED <<tableVars, inst, resizeVars>>

\* Without a ready route the cold-start manager is asked (module ColdStart). It
\* returns its cached instance, which followers of a boot take without looking
\* whether it is live; boots one when that is missing or not live; or fails.
EnsureCached(w) ==
    /\ Goto(w, "try", "register") /\ seen[w] = {}
    /\ cached # 0 /\ Use(w, cached)
    /\ UNCHANGED <<tableVars, seen, resizeVars>>

EnsureBoots(w) ==
    /\ Goto(w, "try", "register") /\ seen[w] = {}
    /\ cached \notin Live
    /\ Create(-(made + 1), table)
    /\ cached' = made + 1 /\ Use(w, made + 1)
    /\ UNCHANGED <<routes, seen, resizeVars>>

EnsureFails(w) ==
    /\ Goto(w, "try", "idle") /\ seen[w] = {} /\ Use(w, 0)
    /\ UNCHANGED <<tableVars, seen, resizeVars>>

Register(w) ==
    /\ Goto(w, "register", "acquire")
    /\ IF Tracked(id[inst[w]])
       THEN UNCHANGED <<table, routes>>
       ELSE /\ table' = table \cup {inst[w]}
            /\ routes' = {id[k] : k \in {j \in table' : state[j] # "removed"}}
    /\ UNCHANGED <<made, instVars, cached, inst, seen, resizeVars>>

\* Mutant: a draining instance takes calls.
AcquireDraining(w) ==
    /\ LET ok == state[inst[w]] # "removed"
       IN  /\ Goto(w, "acquire", IF ok THEN "run" ELSE "idle")
           /\ running' = [running EXCEPT ![inst[w]] = IF ok THEN @ + 1 ELSE @]
           /\ Use(w, IF ok THEN inst[w] ELSE 0)
    /\ UNCHANGED <<made, id, state, stops, table, routes, cached, seen, resizeVars>>

\* Mutant: the call goes on although the instance is not to be had.
AcquireIgnored(w) ==
    /\ Goto(w, "acquire", "run")
    /\ running' = [running EXCEPT
                      ![inst[w]] = IF state[inst[w]] = "running" THEN @ + 1 ELSE @]
    /\ UNCHANGED <<made, id, state, stops, table, routes, cached, inst, seen, resizeVars>>

Acquire(w) ==
    /\ LET ok == state[inst[w]] = "running"
       IN  /\ Goto(w, "acquire", IF ok THEN "run" ELSE "idle")
           /\ running' = [running EXCEPT ![inst[w]] = IF ok THEN @ + 1 ELSE @]
           /\ Use(w, IF ok THEN inst[w] ELSE 0)
    /\ UNCHANGED <<made, id, state, stops, table, routes, cached, seen, resizeVars>>

\* Mutant: the count of a removed instance is not kept up.
ReleaseStopped(w) ==
    /\ Goto(w, "run", "idle") /\ Use(w, 0)
    /\ running' = [running EXCEPT
                      ![inst[w]] = IF state[inst[w]] = "removed" THEN @ ELSE @ - 1]
    /\ UNCHANGED <<made, id, state, stops, table, routes, cached, seen, resizeVars>>

\* The call has ended, by its handler, its deadline or the instance's Stop.
Release(w) ==
    /\ Goto(w, "run", "idle") /\ Use(w, 0)
    /\ running' = [running EXCEPT ![inst[w]] = @ - 1]
    /\ UNCHANGED <<made, id, state, stops, table, routes, cached, seen, resizeVars>>

------------------------------------------------------------------------------
(* The end of an instance, common to Resize and Reclaim.                   *)

\* After its removal from the table, Stop is closed (twice is a panic) ...
CloseStop(s) ==
    /\ Goto(s, "close", "tell")
    /\ stops' = [stops EXCEPT ![inst[s]] = @ + 1]
    /\ UNCHANGED <<made, id, state, running, table, routes, cached, inst, seen, resizeVars>>

\* ... and onReclaim lets the cold-start manager forget it.
Tell(s) ==
    /\ Goto(s, "tell", IF s \in Loops THEN "adjust" ELSE "get") /\ Use(s, 0)
    /\ cached' = IF cached # 0 /\ id[cached] = id[inst[s]] THEN 0 ELSE cached
    /\ UNCHANGED <<made, instVars, table, routes, seen, resizeVars>>

------------------------------------------------------------------------------
(* The scale loop: reconcile, which has Resize do the work.                *)

\* The calls that are pending make a recommendation, unless it is met already ...
Reconcile(s) ==
    /\ Goto(s, "idle", "resize")
    /\ \E pending \in {0, 1} :
          LET n == Recommend(pending, limits.min, limits.max)
          IN  /\ Cardinality(Live) # n
              /\ desired' = [desired EXCEPT ![s] = n]
    /\ UNCHANGED <<tableVars, inst, seen, at>>

\* ... and Resize, to which any size is given, counts the instances once more.
Resize(s) ==
    /\ desired[s] \in ValidSizes
    /\ Goto(s, "resize", "adjust")
    /\ at' = [at EXCEPT ![s] = Cardinality(Live)]
    /\ UNCHANGED <<tableVars, inst, seen, desired>>

NewInstance(s) ==
    /\ Goto(s, "adjust", "adjust") /\ at[s] < desired[s]
    /\ at' = [at EXCEPT ![s] = @ + 1]
    /\ LET i == Cardinality(table) + 1
       IN  Create(i, {k \in table : id[k] # i} \cup {made + 1})
    /\ UNCHANGED <<routes, cached, inst, seen, desired>>

\* Mutant: the removed instance's Stop channel stays open.
ReclaimOldestOpen(s) ==
    /\ pc[s] = "adjust" /\ at[s] > desired[s]
    /\ at' = [at EXCEPT ![s] = @ - 1]
    /\ \/ Live = {} /\ UNCHANGED <<pc, inst, table, state>>
       \/ \E k \in Live :
             /\ \A j \in Live : k <= j
             /\ Goto(s, "adjust", "tell") /\ Use(s, k)
             /\ table' = table \ {k}
             /\ state' = [state EXCEPT ![k] = "removed"]
    /\ UNCHANGED <<made, id, running, stops, routes, cached, seen, desired>>

\* The oldest instance goes at once, whatever runs on it; the routes keep its ID.
ReclaimOldest(s) ==
    /\ pc[s] = "adjust" /\ at[s] > desired[s]
    /\ at' = [at EXCEPT ![s] = @ - 1]
    /\ \/ Live = {} /\ UNCHANGED <<pc, inst, table, state>>
       \/ \E k \in Live :
             /\ \A j \in Live : k <= j
             /\ Goto(s, "adjust", "close") /\ Use(s, k)
             /\ table' = table \ {k}
             /\ state' = [state EXCEPT ![k] = "removed"]
    /\ UNCHANGED <<made, id, running, stops, routes, cached, seen, desired>>

\* Mutant: Resize ends without refreshing the routes.
KeepRoutes(s) ==
    /\ Goto(s, "adjust", "idle") /\ at[s] = desired[s]
    /\ at' = [at EXCEPT ![s] = 0] /\ desired' = [desired EXCEPT ![s] = 0]
    /\ UNCHANGED <<tableVars, inst, seen>>

RebuildRoutes(s) ==
    /\ Goto(s, "adjust", "idle") /\ at[s] = desired[s]
    /\ at' = [at EXCEPT ![s] = 0] /\ desired' = [desired EXCEPT ![s] = 0]
    /\ routes' = RebuiltRoutes
    /\ UNCHANGED <<made, instVars, table, cached, inst, seen>>

------------------------------------------------------------------------------
(* Engine.Stop: RemoveAll, which reclaims one instance after the other.    *)

RemoveAll(s) ==
    /\ Goto(s, "idle", "get")
    /\ seen' = [seen EXCEPT ![s] = {id[k] : k \in table}]
    /\ UNCHANGED <<tableVars, inst, resizeVars>>

\* Reclaim: the instance is looked up, and its running count read, without a
\* mutex held between the two or afterwards.
Reclaim(s) ==
    /\ pc[s] = "get"
    /\ IF seen[s] = {}
       THEN Goto(s, "get", "end") /\ UNCHANGED <<inst, seen>>
       ELSE \E i \in seen[s] :
               /\ seen' = [seen EXCEPT ![s] = @ \ {i}]
               /\ IF Tracked(i)
                  THEN Goto(s, "get", "look") /\ Use(s, Get(i))
                  ELSE UNCHANGED <<pc, inst>>
    /\ UNCHANGED <<tableVars, resizeVars>>

Look(s) ==
    /\ Goto(s, "look", IF running[inst[s]] > 0 THEN "mark" ELSE "finish")
    /\ UNCHANGED <<tableVars, inst, seen, resizeVars>>

SetState(s, st) ==
    /\ state' = [state EXCEPT ![inst[s]] = st]
    /\ UNCHANGED <<made, id, running, stops, table, routes, cached, inst, seen, resizeVars>>

MarkDraining(s) == Goto(s, "mark", "wait") /\ SetState(s, "draining")

\* waitDrained looks at the count, pauses while there are calls, and looks again; at
\* its time limit it gives up without a look.
Drained(s) ==
    /\ Goto(s, "wait", "drained") /\ running[inst[s]] = 0
    /\ UNCHANGED <<tableVars, inst, seen, resizeVars>>

Pause(s) ==
    /\ Goto(s, "wait", "pause") /\ running[inst[s]] > 0
    /\ UNCHANGED <<tableVars, inst, seen, resizeVars>>

LookAgain(s) ==
    /\ Goto(s, "pause", "wait")
    /\ UNCHANGED <<tableVars, inst, seen, resizeVars>>

GiveUp(s) ==
    /\ Goto(s, "pause", "unmark")
    /\ UNCHANGED <<tableVars, inst, seen, resizeVars>>

MarkRunning(s) == Goto(s, "unmark", "get") /\ SetState(s, "running")

\* finishReclaim looks the ID up again and removes what it finds there.
FinishReclaim(s) ==
    /\ pc[s] \in {"finish", "drained"}
    /\ LET i == id[inst[s]] IN
           IF Tracked(i)
           THEN /\ Goto(s, pc[s], "close") /\ Use(s, Get(i))
                /\ state' = [state EXCEPT ![Get(i)] = "removed"]
                /\ table' = table \ {Get(i)}
                /\ routes' = routes \ {i}
           ELSE Goto(s, pc[s], "get") /\ UNCHANGED <<inst, state, table, routes>>
    /\ UNCHANGED <<made, id, running, stops, cached, seen, resizeVars>>

------------------------------------------------------------------------------
Worker(w) ==
    \/ PickInstance(w) \/ TryRoute(w) \/ Ready(w)
    \/ EnsureCached(w) \/ EnsureBoots(w) \/ EnsureFails(w)
    \/ Register(w) \/ Acquire(w) \/ Release(w)

Loop(s) ==
    \/ Reconcile(s) \/ Resize(s) \/ NewInstance(s) \/ ReclaimOldest(s) \/ RebuildRoutes(s)
    \/ CloseStop(s) \/ Tell(s)

Stopper(s) ==
    \/ RemoveAll(s) \/ Reclaim(s) \/ Look(s) \/ MarkDraining(s) \/ Drained(s)
    \/ Pause(s) \/ LookAgain(s) \/ GiveUp(s) \/ MarkRunning(s) \/ FinishReclaim(s) \/ CloseStop(s) \/ Tell(s)

Panicked == \E k \in Instances : stops[k] = 2

\* The program has panicked, or the model has run out of instances.
Halted ==
    /\ Panicked \/ made = MaxMade
    /\ UNCHANGED vars

Next ==
    \/ /\ ~Panicked
       /\ \/ \E w \in Workers : Worker(w)
          \/ \E s \in Loops : Loop(s)
          \/ \E s \in Stoppers : Stopper(s)
       /\ UNCHANGED limits
    \/ Halted

Spec == Init /\ [][Next]_vars

------------------------------------------------------------------------------
\* An instance counts the calls that run on it, no matter what became of it: the
\* drain of Reclaim relies on the count (Acquire, Release, drain.go:19).
RunningExact ==
    \A k \in Instances :
        running[k] = Cardinality({w \in Workers : pc[w] = "run" /\ inst[w] = k})

\* A removed instance has its Stop channel closed, or a goroutine about to close
\* it: no call waits on an instance that is gone (drain.go:68, resize.go:48).
RemovalAnnounced ==
    \A k \in 1..made :
        state[k] = "removed" /\ stops[k] = 0
            => \E s \in Scalers : pc[s] = "close" /\ inst[s] = k

\* Routes point to instances that are gone only while a Resize is under way, which
\* rebuilds them at its end (resize.go:24), whoever registers or reclaims meanwhile.
RoutesCatchUp ==
    (\A s \in Loops : pc[s] = "idle") => \A i \in routes : Tracked(i)

\* An instance that has drained stays without calls until Reclaim removes it: the
\* draining state turns new calls away (Acquire), whatever the scale loop does.
DrainHolds == \A s \in Stoppers : pc[s] = "drained" => running[inst[s]] = 0

\* drain.go:13: "Reclaim removes an instance after its in-flight calls have drained."
DrainedBeforeRemoval ==
    \A s \in Stoppers : pc[s] = "close" => running[inst[s]] = 0
=============================================================================
