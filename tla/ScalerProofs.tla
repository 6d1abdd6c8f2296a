----------------------------- MODULE ScalerProofs -----------------------------
(***************************************************************************)
(* The scaler for any number of workers and scale loops, one stopper, any  *)
(* instance bounds that are valid and any number of instances: the types,  *)
(* the running counts, the closing of Stop channels, the routes, the drain *)
(* and the policy; when alone a Stop channel can be closed twice, and when *)
(* alone Reclaim can remove an instance with a call on it.                 *)
(***************************************************************************)
EXTENDS Scaler, FiniteSetTheorems, TLAPS

\* TypeOK without the bound on the running counts, which needs RunningExact, and
\* with the one on the counter of Resize that keeps it in its type.
Types ==
    /\ limits \in Bounds
    /\ made \in 0..MaxMade
    /\ id \in [Instances -> Ids]
    /\ state \in [Instances -> States]
    /\ running \in [Instances -> Int]
    /\ stops \in [Instances -> 0..2]
    /\ table \subseteq 1..made /\ routes \subseteq Ids
    /\ cached \in 0..made
    /\ pc \in [Actors -> Places]
    /\ inst \in [Actors -> 0..made]
    /\ seen \in [Actors -> SUBSET Ids]
    /\ at \in [Loops -> 0..made] /\ desired \in [Loops -> ValidSizes]

\* Where a goroutine is about to act on its instance, it has one.
Held ==
    \A a \in Actors :
        pc[a] \in {"ready", "register", "acquire", "run", "look", "mark", "wait",
                   "pause", "unmark", "finish", "drained", "close", "tell"}
            => inst[a] \in 1..made

\* From the mark to the removal no call can be acquired on the stopper's instance.
TurnedAway == \A s \in Stoppers : pc[s] \in {"wait", "pause", "drained"} => state[inst[s]] # "running"

Inv == Types /\ Held

Runs(k) == {w \in Workers : pc[w] = "run" /\ inst[w] = k}

------------------------------------------------------------------------------
\* What Get returns is in the table, under the ID that was asked for.
LEMMA GetFinds == \A i : Tracked(i) => Get(i) \in table /\ id[Get(i)] = i
BY DEF Tracked, Get

\* For any function that Validate accepts (validator.go:31) the policy recommends
\* a size that Resize accepts (resize.go:14), within the function's own bounds, and
\* at least one instance when a call is pending and one is allowed (policy.go:7-19).
THEOREM RecommendationValid ==
  ASSUME NEW b \in Validated, NEW pending \in Nat
  PROVE  LET n == Recommend(pending, b.min, b.max)
         IN  /\ n \in ValidSizes /\ n \in b.min..b.max
             /\ pending > 0 /\ b.max > 0 => n > 0
<1>1. b.min \in 0..16 /\ b.max \in 0..16 /\ b.min <= b.max BY DEF Validated
<1> QED BY <1>1 DEF Recommend, Lesser, MaxInstancesPerFunction, ValidSizes

\* The sizes of sets of instances.
LEMMA TableBound ==
  ASSUME Types, NEW S, S \subseteq 1..made
  PROVE  Cardinality(S) \in 0..made
<1>1. made \in Nat BY MaxMadeAssumption DEF Types
<1>2. IsFiniteSet(1..made) /\ Cardinality(1..made) = made
  BY <1>1, FS_Interval
<1>3. Cardinality(S) \in Nat /\ Cardinality(S) <= made
  BY <1>2, FS_Subset, FS_CardinalityType
<1> QED BY <1>1, <1>3

\* The initial states satisfy the invariant.
LEMMA InitInv == Init => Inv
<1> SUFFICES ASSUME Init PROVE Inv OBVIOUS
<1>1. Types
  BY MaxMadeAssumption DEF Init, Types, Ids, Instances, Places, States, ValidSizes
<1>2. Held BY DEF Init, Held
<1> QED BY <1>1, <1>2 DEF Inv

\* A worker's step preserves the invariant.
LEMMA WorkerInv ==
  ASSUME Inv, NEW w \in Workers, Worker(w), UNCHANGED limits
  PROVE  Inv'
<1> USE MaxMadeAssumption DEF Inv, Types, Held, Places, States, Goto, Use, tableVars, instVars, resizeVars
<1>0. w \in Actors BY DEF Actors
<1>1. CASE PickInstance(w) BY <1>0, <1>1 DEF PickInstance
<1>2. CASE TryRoute(w)
  <2>1. PICK i \in seen[w] :
          /\ seen' = [seen EXCEPT ![w] = @ \ {i}]
          /\ IF Tracked(i)
             THEN Goto(w, "try", "ready") /\ Use(w, Get(i))
             ELSE UNCHANGED <<pc, inst>>
    BY <1>2 DEF TryRoute
  <2>2. UNCHANGED <<made, id, state, running, stops, table, routes, cached, at, desired>>
    BY <1>2 DEF TryRoute
  <2>3. CASE Tracked(i)
    <3>1. Get(i) \in 1..made BY <2>3, GetFinds
    <3> QED BY <1>0, <2>1, <2>2, <2>3, <3>1
  <2>4. CASE ~Tracked(i) BY <1>0, <2>1, <2>2, <2>4
  <2> QED BY <2>3, <2>4
<1>3. CASE Ready(w) BY <1>0, <1>3 DEF Ready
<1>4. CASE EnsureCached(w) BY <1>0, <1>4 DEF EnsureCached
<1>5. CASE EnsureBoots(w)
  <2>1. /\ made + 1 \in Instances /\ -(made + 1) \in Ids /\ made' = made + 1
        /\ \A k \in 0..made : k \in 0..made'
        /\ \A k \in 1..made : k \in 1..made'
    BY <1>5 DEF EnsureBoots, Create, Instances, Ids
  <2>2. id' \in [Instances -> Ids] /\ state' \in [Instances -> States]
    BY <1>5, <2>1 DEF EnsureBoots, Create
  <2>3. inst' \in [Actors -> 0..made'] /\ cached' \in 0..made' /\ table' \subseteq 1..made'
    BY <1>0, <1>5, <2>1 DEF EnsureBoots, Create
  <2>4. at' \in [Loops -> 0..made'] BY <1>5, <2>1 DEF EnsureBoots
  <2>5. Types' BY <1>0, <1>5, <2>1, <2>2, <2>3, <2>4 DEF EnsureBoots, Create
  <2>6. Held' BY <1>0, <1>5, <2>1 DEF EnsureBoots
  <2> QED BY <2>5, <2>6
<1>6. CASE EnsureFails(w) BY <1>0, <1>6 DEF EnsureFails
<1>7. CASE Register(w)
  <2>1. inst[w] \in 1..made /\ \A k \in 1..made : k \in Instances
    BY <1>0, <1>7 DEF Register, Instances
  <2>2. table' \subseteq 1..made BY <1>7, <2>1 DEF Register
  <2>3. routes' \subseteq Ids BY <1>7, <2>1, <2>2 DEF Register
  <2>4. Types' BY <1>0, <1>7, <2>2, <2>3 DEF Register
  <2>5. Held' BY <1>0, <1>7 DEF Register
  <2> QED BY <2>4, <2>5
<1>8. CASE Acquire(w)
  <2>1. inst[w] \in Instances /\ running[inst[w]] \in Int
    BY <1>0, <1>8 DEF Acquire, Instances
  <2>2. running' \in [Instances -> Int] BY <1>8, <2>1 DEF Acquire
  <2>3. CASE state[inst[w]] = "running" BY <1>0, <1>8, <2>2, <2>3 DEF Acquire
  <2>4. CASE state[inst[w]] # "running" BY <1>0, <1>8, <2>2, <2>4 DEF Acquire
  <2> QED BY <2>3, <2>4
<1>9. CASE Release(w)
  <2>1. inst[w] \in Instances /\ running[inst[w]] \in Int
    BY <1>0, <1>9 DEF Release, Instances
  <2>2. running' \in [Instances -> Int] BY <1>9, <2>1 DEF Release
  <2> QED BY <1>0, <1>9, <2>2 DEF Release
<1> QED BY <1>1, <1>2, <1>3, <1>4, <1>5, <1>6, <1>7, <1>8, <1>9 DEF Worker

\* Every scaling goroutine is a goroutine.
LEMMA RolesSeparate == \A s \in Loops \cup Stoppers : s \in Scalers /\ s \in Actors
BY DEF Actors, Scalers

\* Closing the Stop channel preserves the invariant, as nobody has panicked yet.
LEMMA ClosingInv ==
  ASSUME Inv, NEW s \in Scalers, CloseStop(s), ~Panicked, UNCHANGED limits
  PROVE  Inv'
<1> USE DEF Inv, Types, Held, Places, States, Goto, tableVars, instVars, resizeVars
<1>1. s \in Actors BY DEF Actors
<1>2. inst[s] \in Instances BY <1>1, MaxMadeAssumption DEF CloseStop, Instances
<1>3. stops[inst[s]] \in 0..1 BY <1>2 DEF Panicked
<1>4. stops' \in [Instances -> 0..2] BY <1>2, <1>3 DEF CloseStop
<1> QED BY <1>1, <1>4 DEF CloseStop

\* A step of a scale loop preserves the invariant.
LEMMA LoopInv ==
  ASSUME Inv, NEW s \in Loops, Loop(s), ~Panicked, UNCHANGED limits
  PROVE  Inv'
<1> USE MaxMadeAssumption
    DEF Inv, Types, Held, Places, States, Goto, Use, tableVars, instVars, resizeVars
<1>0. s \in Actors BY DEF Actors, Scalers
<1>1. CASE Reconcile(s)
  <2>1. PICK pending \in {0, 1} :
          desired' = [desired EXCEPT ![s] = Recommend(pending, limits.min, limits.max)]
    BY <1>1 DEF Reconcile
  <2>2. limits \in Validated BY BoundsAssumption
  <2>3. Recommend(pending, limits.min, limits.max) \in ValidSizes
    BY <2>2, RecommendationValid
  <2>4. desired' \in [Loops -> ValidSizes] BY <2>1, <2>3
  <2> QED BY <1>0, <1>1, <2>4 DEF Reconcile
<1>7. CASE Resize(s)
  <2>1. Cardinality(Live) \in 0..made BY TableBound DEF Live
  <2> QED BY <1>0, <1>7, <2>1 DEF Resize
<1>2. CASE NewInstance(s)
  <2> DEFINE i == Cardinality(table) + 1
  <2>1. Cardinality(table) \in 0..made BY TableBound
  <2>2. made \in Nat /\ made + 1 \in Instances /\ i \in Ids
    BY <1>2, <2>1 DEF NewInstance, Create, Instances, Ids
  <2>3. made' = made + 1 /\ table' \subseteq 1..made'
    <3>1. made' = made + 1 /\ table' = {k \in table : id[k] # i} \cup {made + 1}
      BY <1>2 DEF NewInstance, Create
    <3>2. \A k \in table : k \in 1..made OBVIOUS
    <3>3. \A k \in 1..made : k \in 1..made + 1 BY <2>2
    <3>4. made + 1 \in 1..made + 1 BY <2>2
    <3> HIDE DEF i
    <3>5. \A k \in table' : k \in 1..made + 1 BY <3>1, <3>2, <3>3, <3>4
    <3> QED BY <3>1, <3>5
  <2> HIDE DEF i
  <2>4. id' \in [Instances -> Ids] /\ state' \in [Instances -> States]
    <3>1. Create(i, {k \in table : id[k] # i} \cup {made + 1}) BY <1>2 DEF NewInstance, i
    <3>2. id' = [id EXCEPT ![made + 1] = i] /\ state' = [state EXCEPT ![made + 1] = "running"]
      BY <3>1 DEF Create
    <3> QED BY <2>2, <3>2
  <2>5. at[s] \in Nat /\ at[s] <= made /\ at' = [at EXCEPT ![s] = @ + 1]
    BY <1>2 DEF NewInstance
  <2>6. at' \in [Loops -> 0..made'] BY <2>2, <2>3, <2>5
  <2>7. Types' BY <1>0, <1>2, <2>2, <2>3, <2>4, <2>6 DEF NewInstance, Create
  <2>8. Held' BY <1>0, <1>2, <2>2, <2>3 DEF NewInstance
  <2> QED BY <2>7, <2>8
<1>3. CASE ReclaimOldest(s)
  <2>0. desired[s] \in Nat /\ at[s] \in 0..made /\ made \in Nat
    <3>1. desired[s] \in ValidSizes OBVIOUS
    <3>3. desired[s] \in Nat BY ONLY <3>1 DEF ValidSizes
    <3>4. at[s] \in 0..made /\ made \in Nat OBVIOUS
    <3> QED BY <3>3, <3>4
  <2>1. at' = [at EXCEPT ![s] = @ - 1] /\ at[s] > desired[s]
    BY <1>3 DEF ReclaimOldest
  <2>2. at' \in [Loops -> 0..made] BY <2>0, <2>1
  <2>3. CASE Live = {} /\ UNCHANGED <<pc, inst, table, state>>
    BY <1>0, <1>3, <2>2, <2>3 DEF ReclaimOldest
  <2>4. ASSUME NEW k \in Live, Goto(s, "adjust", "close"), Use(s, k),
               table' = table \ {k}, state' = [state EXCEPT ![k] = "removed"]
        PROVE  Inv'
    <3>1. k \in 1..made /\ k \in Instances BY DEF Live, Instances
    <3>2. state' \in [Instances -> States] /\ table' \subseteq 1..made BY <2>4
    <3>3. inst' \in [Actors -> 0..made] /\ pc' \in [Actors -> Places]
      BY <1>0, <2>4, <3>1
    <3>4. UNCHANGED <<made, id, running, stops, routes, cached, seen, desired>>
      BY <1>3 DEF ReclaimOldest
    <3>5. Types' BY <2>2, <3>2, <3>3, <3>4
    <3>6. Held' BY <1>0, <2>4, <3>1, <3>4
    <3> QED BY <3>5, <3>6
  <2> QED BY <1>3, <2>3, <2>4 DEF ReclaimOldest
<1>4. CASE RebuildRoutes(s)
  <2>1. RebuiltRoutes \subseteq Ids BY DEF RebuiltRoutes, Live, Instances
  <2> QED BY <1>0, <1>4, <2>1 DEF RebuildRoutes, ValidSizes
<1>5. CASE CloseStop(s) BY <1>5, ClosingInv, RolesSeparate
<1>6. CASE Tell(s) BY <1>0, <1>6 DEF Tell
<1> QED BY <1>1, <1>2, <1>3, <1>4, <1>5, <1>6, <1>7 DEF Loop

\* A step of the stopper preserves the invariant.
LEMMA StopperInv ==
  ASSUME Inv, NEW s \in Stoppers, Stopper(s), ~Panicked, UNCHANGED limits
  PROVE  Inv'
<1> USE MaxMadeAssumption
    DEF Inv, Types, Held, Places, States, Goto, Use, tableVars, instVars, resizeVars
<1>0. s \in Actors BY DEF Actors, Scalers
<1>1. CASE RemoveAll(s)
  <2>1. {id[k] : k \in table} \subseteq Ids BY DEF Instances
  <2> QED BY <1>0, <1>1, <2>1 DEF RemoveAll
<1>2. CASE Reclaim(s)
  <2>1. CASE seen[s] = {} BY <1>0, <1>2, <2>1 DEF Reclaim
  <2>2. ASSUME NEW i \in seen[s], seen' = [seen EXCEPT ![s] = @ \ {i}],
               IF Tracked(i)
               THEN Goto(s, "get", "look") /\ Use(s, Get(i))
               ELSE UNCHANGED <<pc, inst>>
        PROVE  Inv'
    <3>1. UNCHANGED <<made, id, state, running, stops, table, routes, cached, at, desired>>
      BY <1>2 DEF Reclaim
    <3>2. CASE Tracked(i)
      <4>1. Get(i) \in 1..made BY <3>2, GetFinds
      <4> QED BY <1>0, <2>2, <3>1, <3>2, <4>1
    <3>3. CASE ~Tracked(i) BY <1>0, <2>2, <3>1, <3>3
    <3> QED BY <3>2, <3>3
  <2> QED BY <1>2, <2>1, <2>2 DEF Reclaim
<1>3. CASE Look(s) BY <1>0, <1>3 DEF Look
<1>4. CASE MarkDraining(s) BY <1>0, <1>4 DEF MarkDraining, SetState
<1>5. CASE Drained(s) BY <1>0, <1>5 DEF Drained
<1>6. CASE Pause(s) \/ LookAgain(s) \/ GiveUp(s) BY <1>0, <1>6 DEF Pause, LookAgain, GiveUp
<1>7. CASE MarkRunning(s) BY <1>0, <1>7 DEF MarkRunning, SetState
<1>8. CASE FinishReclaim(s)
  <2> DEFINE i == id[inst[s]]
  <2>1. CASE Tracked(i)
    <3>0. Get(i) \in table BY <2>1, GetFinds
    <3>1. Get(i) \in 1..made /\ Get(i) \in Instances
      <4> HIDE DEF i
      <4>1. \A k \in table : k \in 1..made OBVIOUS
      <4>2. \A k \in 1..made : k \in Instances BY DEF Instances
      <4> QED BY <3>0, <4>1, <4>2
    <3>2. /\ pc' = [pc EXCEPT ![s] = "close"] /\ inst' = [inst EXCEPT ![s] = Get(i)]
          /\ state' = [state EXCEPT ![Get(i)] = "removed"]
          /\ table' = table \ {Get(i)} /\ routes' = routes \ {i}
      BY <1>8, <2>1 DEF FinishReclaim
    <3>3. UNCHANGED <<made, id, running, stops, cached, seen, at, desired>>
      BY <1>8 DEF FinishReclaim
    <3> HIDE DEF i
    <3>6. state' \in [Instances -> States] BY <3>2
    <3>7. inst' \in [Actors -> 0..made] BY <1>0, <3>1, <3>2
    <3>4. Types' BY <1>0, <3>2, <3>3, <3>6, <3>7
    <3>5. Held' BY <1>0, <3>1, <3>2, <3>3
    <3> QED BY <3>4, <3>5
  <2>2. CASE ~Tracked(i) BY <1>0, <1>8, <2>2 DEF FinishReclaim
  <2> QED BY <2>1, <2>2
<1>9. CASE CloseStop(s) BY <1>9, ClosingInv, RolesSeparate
<1>10. CASE Tell(s) BY <1>0, <1>10 DEF Tell
<1> QED BY <1>1, <1>2, <1>3, <1>4, <1>5, <1>6, <1>7, <1>8, <1>9, <1>10 DEF Stopper

\* Every step preserves the invariant.
LEMMA NextInv == Inv /\ [Next]_vars => Inv'
<1> SUFFICES ASSUME Inv, [Next]_vars PROVE Inv' OBVIOUS
<1>1. CASE UNCHANGED vars
  BY <1>1 DEF vars, tableVars, instVars, resizeVars, Inv, Types, Held
<1>2. CASE Next
  BY <1>1, <1>2, WorkerInv, LoopInv, StopperInv DEF Next, Halted
<1> QED BY <1>1, <1>2

------------------------------------------------------------------------------
\* A goroutine's step leaves the others where they are.
LEMMA OthersStay ==
  ASSUME Inv, NEW a \in Actors,
         \/ a \in Workers /\ Worker(a)
         \/ a \in Loops /\ Loop(a)
         \/ a \in Stoppers /\ Stopper(a),
         NEW b \in Actors, b # a
  PROVE  pc'[b] = pc[b] /\ inst'[b] = inst[b]
<1> USE DEF Inv, Types, Goto, Use
<1>1. CASE Worker(a)
  BY <1>1 DEF Worker, PickInstance, TryRoute, Ready, EnsureCached, EnsureBoots,
              EnsureFails, Register, Acquire, Release
<1>2. CASE Loop(a)
  BY <1>2 DEF Loop, Reconcile, Resize, NewInstance, ReclaimOldest, RebuildRoutes, CloseStop, Tell
<1>3. CASE Stopper(a)
  BY <1>3 DEF Stopper, RemoveAll, Reclaim, Look, MarkDraining, Drained, Pause, LookAgain,
              GiveUp, MarkRunning,
              SetState, FinishReclaim, CloseStop, Tell
<1> QED BY <1>1, <1>2, <1>3

\* Counting one worker more, or one less, among those that run on an instance.
LEMMA CountRuns ==
  ASSUME NEW k
  PROVE  /\ IsFiniteSet(Runs(k)) /\ Cardinality(Runs(k)) \in 0..Cardinality(Workers)
         /\ \A w \in Runs(k) : Cardinality(Runs(k) \ {w}) = Cardinality(Runs(k)) - 1
         /\ \A w : w \notin Runs(k) => Cardinality(Runs(k) \cup {w}) = Cardinality(Runs(k)) + 1
<1>1. Runs(k) \subseteq Workers BY DEF Runs
<1>2. IsFiniteSet(Runs(k)) /\ Cardinality(Runs(k)) <= Cardinality(Workers)
  BY <1>1, WorkersAssumption, FS_Subset
<1>3. Cardinality(Runs(k)) \in Nat /\ Cardinality(Workers) \in Nat
  BY <1>2, WorkersAssumption, FS_CardinalityType
<1> QED BY <1>2, <1>3, FS_AddElement, FS_RemoveElement

\* No scaling goroutine touches a running count or a worker.
LEMMA ScalersDoNotRun ==
  ASSUME Inv, NEW s \in Scalers,
         \/ s \in Loops /\ Loop(s)
         \/ s \in Stoppers /\ Stopper(s)
  PROVE  running' = running /\ \A k : Runs(k)' = Runs(k)
<1>1. running' = running
  <2>1. CASE Loop(s)
    BY <2>1 DEF Loop, Reconcile, Resize, NewInstance, Create, ReclaimOldest, RebuildRoutes, CloseStop, Tell,
                tableVars, instVars
  <2>2. CASE Stopper(s)
    BY <2>2 DEF Stopper, RemoveAll, Reclaim, Look, MarkDraining, Drained, Pause, LookAgain,
                GiveUp, MarkRunning,
                SetState, FinishReclaim, CloseStop, Tell, tableVars, instVars
  <2> QED BY <2>1, <2>2
<1>2. \A w \in Workers : w \in Actors /\ w # s
  BY RolesAssumption DEF Actors, Scalers
<1>3. s \in Actors BY DEF Actors
<1>4. \A w \in Workers : pc'[w] = pc[w] /\ inst'[w] = inst[w]
  BY <1>2, <1>3, OthersStay
<1>5. \A k : Runs(k)' = Runs(k) BY <1>4 DEF Runs
<1> QED BY <1>1, <1>5

\* A worker's step keeps the counts: it enters with Acquire and leaves with Release.
LEMMA WorkerCounts ==
  ASSUME Inv, RunningExact, NEW w \in Workers, Worker(w)
  PROVE  RunningExact'
<1>0. w \in Actors BY DEF Actors
<1>1. \A v \in Workers \ {w} : pc'[v] = pc[v] /\ inst'[v] = inst[v]
  BY <1>0, OthersStay DEF Actors
<1>2. \A k \in Instances : running[k] = Cardinality(Runs(k)) BY DEF RunningExact, Runs
<1>3. SUFFICES ASSUME NEW k \in Instances PROVE running'[k] = Cardinality(Runs(k)')
  BY DEF RunningExact, Runs
<1> USE DEF Inv, Types, Goto, Use, tableVars, instVars
<1>4. ASSUME running' = running, pc[w] # "run", pc'[w] # "run"
      PROVE  running'[k] = Cardinality(Runs(k)')
  <2>1. Runs(k)' = Runs(k) BY <1>1, <1>4 DEF Runs
  <2> QED BY <1>2, <1>4, <2>1
<1>5. CASE Acquire(w)
  <2>1. CASE state[inst[w]] = "running" /\ inst[w] = k
    <3>1. running'[k] = running[k] + 1 /\ pc'[w] = "run" /\ inst'[w] = k
      BY <1>0, <1>5, <2>1 DEF Acquire
    <3>2. w \notin Runs(k) BY <1>5 DEF Runs, Acquire
    <3>3. Runs(k)' = Runs(k) \cup {w} BY <1>1, <3>1 DEF Runs
    <3> QED BY <1>2, <3>1, <3>2, <3>3, CountRuns
  <2>2. CASE state[inst[w]] = "running" /\ inst[w] # k
    <3>1. running'[k] = running[k] /\ pc[w] = "acquire" /\ inst'[w] # k
      BY <1>0, <1>5, <2>2 DEF Acquire
    <3>2. Runs(k)' = Runs(k) BY <1>1, <3>1 DEF Runs
    <3> QED BY <1>2, <3>1, <3>2
  <2>3. CASE state[inst[w]] # "running"
    <3>1. running'[k] = running[k] /\ pc[w] = "acquire" /\ pc'[w] = "idle"
      BY <1>0, <1>5, <2>3 DEF Acquire
    <3>2. Runs(k)' = Runs(k) BY <1>1, <3>1 DEF Runs
    <3> QED BY <1>2, <3>1, <3>2
  <2> QED BY <2>1, <2>2, <2>3
<1>6. CASE Release(w)
  <2>0. pc[w] = "run" /\ pc'[w] = "idle" BY <1>0, <1>6 DEF Release
  <2>1. CASE inst[w] = k
    <3>1. running'[k] = running[k] - 1 BY <1>6, <2>1 DEF Release
    <3>2. w \in Runs(k) /\ Runs(k)' = Runs(k) \ {w} BY <1>1, <2>0, <2>1 DEF Runs
    <3> QED BY <1>2, <3>1, <3>2, CountRuns
  <2>2. CASE inst[w] # k
    <3>1. running'[k] = running[k] BY <1>6, <2>2 DEF Release
    <3>2. Runs(k)' = Runs(k) BY <1>1, <2>0, <2>2 DEF Runs
    <3> QED BY <1>2, <3>1, <3>2
  <2> QED BY <2>1, <2>2
<1>7. ASSUME \/ PickInstance(w) \/ TryRoute(w) \/ Ready(w) \/ EnsureCached(w)
             \/ EnsureBoots(w) \/ EnsureFails(w) \/ Register(w)
      PROVE  running' = running /\ pc[w] # "run" /\ pc'[w] # "run"
  BY <1>0, <1>7 DEF PickInstance, TryRoute, Ready, EnsureCached, EnsureBoots, Create,
                    EnsureFails, Register
<1> QED BY <1>4, <1>5, <1>6, <1>7 DEF Worker

\* Every step keeps the counts.
LEMMA NextCounts == Inv /\ RunningExact /\ [Next]_vars => RunningExact'
<1> SUFFICES ASSUME Inv, RunningExact, [Next]_vars PROVE RunningExact' OBVIOUS
<1>1. CASE UNCHANGED vars
  BY <1>1 DEF vars, tableVars, instVars, RunningExact
<1>2. ASSUME NEW w \in Workers, Worker(w) PROVE RunningExact'
  BY <1>2, WorkerCounts
<1>3. ASSUME NEW s \in Loops, Loop(s) PROVE RunningExact'
  <2>1. s \in Scalers BY DEF Scalers
  <2>2. running' = running /\ \A k : Runs(k)' = Runs(k) BY <1>3, <2>1, ScalersDoNotRun
  <2> QED BY <2>2 DEF RunningExact, Runs
<1>4. ASSUME NEW s \in Stoppers, Stopper(s) PROVE RunningExact'
  <2>1. s \in Scalers BY DEF Scalers
  <2>2. running' = running /\ \A k : Runs(k)' = Runs(k) BY <1>4, <2>1, ScalersDoNotRun
  <2> QED BY <2>2 DEF RunningExact, Runs
<1> QED BY <1>1, <1>2, <1>3, <1>4 DEF Next, Halted

------------------------------------------------------------------------------
\* No worker touches a Stop channel, a state of an existing instance or a scaling
\* goroutine.
LEMMA WorkersDoNotScale ==
  ASSUME Inv, NEW w \in Workers, Worker(w)
  PROVE  /\ stops' = stops
         /\ made' \in Nat /\ made <= made'
         /\ \A k \in 1..made : state'[k] = state[k]
         /\ \A k \in 1..made' : k \notin 1..made => state'[k] = "running"
         /\ \A s \in Scalers : pc'[s] = pc[s] /\ inst'[s] = inst[s]
<1>0. w \in Actors BY DEF Actors
<1>1. \A s \in Scalers : pc'[s] = pc[s] /\ inst'[s] = inst[s]
  BY <1>0, OthersStay, RolesAssumption DEF Actors, Scalers
<1>2. made \in Nat BY MaxMadeAssumption DEF Inv, Types
<1> USE DEF Inv, Types, tableVars, instVars
<1>3. CASE EnsureBoots(w)
  <2>1. made + 1 \in Instances /\ made' = made + 1
    BY <1>2, <1>3, MaxMadeAssumption DEF EnsureBoots, Create, Instances
  <2>2. state' = [state EXCEPT ![made + 1] = "running"] /\ stops' = stops
    BY <1>3 DEF EnsureBoots, Create
  <2> QED BY <1>1, <1>2, <2>1, <2>2 DEF Instances
<1>4. CASE ~EnsureBoots(w)
  <2>1. stops' = stops /\ made' = made /\ state' = state
    BY <1>4 DEF Worker, PickInstance, TryRoute, Ready, EnsureCached, EnsureFails, Register,
                Acquire, Release
  <2> QED BY <1>1, <1>2, <2>1
<1> QED BY <1>3, <1>4

\* The two ways in which an instance ends announce it.
LEMMA RemovalMade ==
  ASSUME Inv, RemovalAnnounced, NEW s \in Scalers, pc[s] # "close", NEW k \in 1..made,
         pc' = [pc EXCEPT ![s] = "close"], inst' = [inst EXCEPT ![s] = k],
         state' = [state EXCEPT ![k] = "removed"], UNCHANGED <<made, stops>>
  PROVE  RemovalAnnounced'
<1> SUFFICES ASSUME NEW j \in 1..made, state'[j] = "removed", stops[j] = 0
             PROVE  \E t \in Scalers : pc'[t] = "close" /\ inst'[t] = j
  BY DEF RemovalAnnounced
<1> USE DEF Inv, Types
<1>0. s \in Actors /\ \A t \in Scalers : t \in Actors BY DEF Actors
<1>1. CASE j = k BY <1>0, <1>1
<1>2. CASE j # k
  <2>1. state[j] = "removed" BY <1>2
  <2>2. PICK t \in Scalers : pc[t] = "close" /\ inst[t] = j BY <2>1 DEF RemovalAnnounced
  <2> QED BY <1>0, <2>2
<1> QED BY <1>1, <1>2

\* Closing the channel settles the announcement.
LEMMA RemovalClosed ==
  ASSUME Inv, RemovalAnnounced, NEW s \in Scalers, CloseStop(s)
  PROVE  RemovalAnnounced'
<1> USE DEF CloseStop, Goto, Inv, Types
<1> SUFFICES ASSUME NEW j \in 1..made, state[j] = "removed", stops'[j] = 0
             PROVE  \E t \in Scalers : pc'[t] = "close" /\ inst'[t] = j
  BY DEF RemovalAnnounced
<1>0. s \in Actors /\ \A t \in Scalers : t \in Actors BY DEF Actors
<1>1. j \in Instances /\ stops[j] \in 0..2 BY MaxMadeAssumption DEF Instances
<1>2. inst[s] # j /\ stops[j] = 0 BY <1>1
<1>3. PICK t \in Scalers : pc[t] = "close" /\ inst[t] = j BY <1>2 DEF RemovalAnnounced
<1> QED BY <1>0, <1>2, <1>3

\* Steps that end no instance and close nothing keep what is announced.
LEMMA RemovalKept ==
  ASSUME Inv, RemovalAnnounced, NEW s \in Scalers, pc[s] # "close", stops' = stops,
         made' \in Nat, made <= made',
         \A k \in 1..made' : state'[k] = "removed" => k \in 1..made /\ state[k] = "removed",
         \A t \in Scalers : t # s => pc'[t] = pc[t] /\ inst'[t] = inst[t]
  PROVE  RemovalAnnounced'
BY DEF RemovalAnnounced

\* Every step keeps removals announced.
LEMMA NextAnnounced == Inv /\ RemovalAnnounced /\ [Next]_vars => RemovalAnnounced'
<1> SUFFICES ASSUME Inv, RemovalAnnounced, [Next]_vars PROVE RemovalAnnounced' OBVIOUS
<1>1. CASE UNCHANGED vars
  BY <1>1 DEF vars, tableVars, instVars, RemovalAnnounced
<1>2. ASSUME NEW w \in Workers, Worker(w) PROVE RemovalAnnounced'
  <2>1. \A k \in 1..made' : state'[k] = "removed" => k \in 1..made /\ state[k] = "removed"
    BY <1>2, WorkersDoNotScale
  <2> QED BY <1>2, <2>1, WorkersDoNotScale DEF RemovalAnnounced
<1>0. made \in Nat /\ \A s \in Scalers : s \in Actors
  BY MaxMadeAssumption DEF Inv, Types, Actors
<1>3. ASSUME NEW s \in Loops, Loop(s) PROVE RemovalAnnounced'
  <2> USE DEF Inv, Types, Goto, Use, tableVars, instVars
  <2>0. s \in Scalers /\ s \in Actors BY DEF Scalers, Actors
  <2>1. \A t \in Scalers : t # s => pc'[t] = pc[t] /\ inst'[t] = inst[t]
    BY <1>0, <1>3, <2>0, OthersStay
  <2>2. CASE NewInstance(s)
    <3>1. made' = made + 1 /\ state' = [state EXCEPT ![made + 1] = "running"] /\ stops' = stops
      BY <2>2 DEF NewInstance, Create
    <3>2. made + 1 \in Instances
      BY <1>0, <2>2, MaxMadeAssumption DEF NewInstance, Create, Instances
    <3>3. pc[s] # "close" BY <2>2 DEF NewInstance
    <3>4. \A k \in 1..made' : state'[k] = "removed" => k \in 1..made /\ state[k] = "removed"
      BY <1>0, <3>1, <3>2 DEF Instances
    <3> QED BY <1>0, <2>0, <2>1, <3>1, <3>3, <3>4, RemovalKept
  <2>3. CASE ReclaimOldest(s)
    <3>1. CASE Live = {} /\ UNCHANGED <<pc, inst, table, state>>
      BY <2>3, <3>1 DEF ReclaimOldest, RemovalAnnounced
    <3>2. ASSUME NEW k \in Live, Goto(s, "adjust", "close"), Use(s, k),
                 state' = [state EXCEPT ![k] = "removed"]
          PROVE  RemovalAnnounced'
      <4>1. k \in 1..made BY DEF Live
      <4> QED BY <2>0, <2>3, <3>2, <4>1, RemovalMade DEF ReclaimOldest
    <3> QED BY <2>3, <3>1, <3>2 DEF ReclaimOldest
  <2>4. CASE CloseStop(s) BY <2>0, <2>4, RemovalClosed
  <2>5. CASE Reconcile(s) \/ Resize(s) \/ RebuildRoutes(s) \/ Tell(s)
    <3>1. pc[s] # "close" /\ UNCHANGED <<made, state, stops>>
      BY <2>5 DEF Reconcile, Resize, RebuildRoutes, Tell
    <3> QED BY <1>0, <2>0, <2>1, <3>1, RemovalKept
  <2> QED BY <1>3, <2>2, <2>3, <2>4, <2>5 DEF Loop
<1>4. ASSUME NEW s \in Stoppers, Stopper(s) PROVE RemovalAnnounced'
  <2> USE DEF Inv, Types, Goto, Use, tableVars, instVars
  <2>0. s \in Scalers /\ s \in Actors BY DEF Scalers, Actors
  <2>1. \A t \in Scalers : t # s => pc'[t] = pc[t] /\ inst'[t] = inst[t]
    BY <1>0, <1>4, <2>0, OthersStay
  <2>2. CASE FinishReclaim(s)
    <3>1. CASE Tracked(id[inst[s]])
      <4> DEFINE k == Get(id[inst[s]])
      <4>1. k \in 1..made BY <3>1, GetFinds
      <4>2. /\ pc[s] # "close" /\ pc' = [pc EXCEPT ![s] = "close"]
            /\ inst' = [inst EXCEPT ![s] = k] /\ state' = [state EXCEPT ![k] = "removed"]
            /\ UNCHANGED <<made, stops>>
        BY <2>2, <3>1 DEF FinishReclaim
      <4> HIDE DEF k
      <4> QED BY <2>0, <4>1, <4>2, RemovalMade
    <3>2. CASE ~Tracked(id[inst[s]])
      <4>1. pc[s] # "close" /\ UNCHANGED <<made, state, stops>>
        BY <2>2, <3>2 DEF FinishReclaim
      <4> QED BY <1>0, <2>0, <2>1, <4>1, RemovalKept
    <3> QED BY <3>1, <3>2
  <2>3. CASE CloseStop(s) BY <2>0, <2>3, RemovalClosed
  <2>4. CASE MarkDraining(s) \/ MarkRunning(s)
    <3>1. pc[s] # "close" /\ UNCHANGED <<made, stops>>
          /\ \A k \in Instances : state'[k] = "removed" => state[k] = "removed"
      BY <2>4 DEF MarkDraining, MarkRunning, SetState
    <3>2. \A k \in 1..made : k \in Instances
      BY <1>0, MaxMadeAssumption DEF Instances
    <3> QED BY <1>0, <2>0, <2>1, <3>1, <3>2, RemovalKept
  <2>5. CASE RemoveAll(s) \/ Reclaim(s) \/ Look(s) \/ Drained(s)
             \/ Pause(s) \/ LookAgain(s) \/ GiveUp(s) \/ Tell(s)
    <3>1. pc[s] # "close" /\ UNCHANGED <<made, state, stops>>
      BY <2>5 DEF RemoveAll, Reclaim, Look, Drained, Pause, LookAgain, GiveUp, Tell
    <3> QED BY <1>0, <2>0, <2>1, <3>1, RemovalKept
  <2> QED BY <1>4, <2>2, <2>3, <2>4, <2>5 DEF Stopper
<1> QED BY <1>1, <1>2, <1>3, <1>4 DEF Next, Halted

------------------------------------------------------------------------------
\* Tables in which the same IDs can be found keep their routes good.
LEMMA RoutesKept ==
  ASSUME RoutesCatchUp, \A s \in Loops : pc'[s] = pc[s],
         \A i \in routes' : i \in routes /\ (Tracked(i) => Tracked(i)')
  PROVE  RoutesCatchUp'
BY DEF RoutesCatchUp

\* Every step keeps the routes of an idle scale loop good.
LEMMA NextRoutes == Inv /\ RoutesCatchUp /\ [Next]_vars => RoutesCatchUp'
<1> SUFFICES ASSUME Inv, RoutesCatchUp, [Next]_vars PROVE RoutesCatchUp' OBVIOUS
<1> USE DEF Inv, Types, tableVars, instVars
<1>0. made \in Nat BY MaxMadeAssumption
<1>1. CASE UNCHANGED vars
  BY <1>1 DEF vars, RoutesCatchUp, Tracked
<1>2. ASSUME NEW w \in Workers, Worker(w) PROVE RoutesCatchUp'
  <2>0. \A s \in Loops : pc'[s] = pc[s]
    BY <1>2, OthersStay, RolesAssumption DEF Actors, Scalers
  <2>1. CASE EnsureBoots(w)
    <3>1. /\ table' = table /\ routes' = routes
          /\ id' = [id EXCEPT ![made + 1] = -(made + 1)]
      BY <2>1 DEF EnsureBoots, Create
    <3>2. \A k \in table : id'[k] = id[k]
      <4>1. \A k \in table : k \in 1..made /\ k # made + 1 BY <1>0
      <4>2. \A k \in 1..made : k \in Instances BY MaxMadeAssumption DEF Instances
      <4> QED BY <3>1, <4>1, <4>2
    <3> QED BY <2>0, <3>1, <3>2, RoutesKept DEF Tracked
  <2>2. CASE Register(w)
    <3>1. id' = id BY <2>2 DEF Register
    <3>2. CASE Tracked(id[inst[w]])
      BY <2>0, <2>2, <3>1, <3>2, RoutesKept DEF Register, Tracked
    <3>3. CASE ~Tracked(id[inst[w]])
      <4>1. routes' = {id[k] : k \in {j \in table' : state[j] # "removed"}}
        BY <2>2, <3>3 DEF Register
      <4>2. \A i \in routes' : Tracked(i)' BY <3>1, <4>1 DEF Tracked
      <4> QED BY <4>2 DEF RoutesCatchUp
    <3> QED BY <3>2, <3>3
  <2>3. CASE ~EnsureBoots(w) /\ ~Register(w)
    <3>1. UNCHANGED <<table, routes, id>>
      BY <1>2, <2>3 DEF Worker, PickInstance, TryRoute, Ready, EnsureCached, EnsureFails,
                        Acquire, Release
    <3> QED BY <2>0, <3>1, RoutesKept DEF Tracked
  <2> QED BY <2>1, <2>2, <2>3
<1>3. ASSUME NEW s \in Loops, Loop(s) PROVE RoutesCatchUp'
  <2>0. s \in Actors BY DEF Actors, Scalers
  <2>1. CASE RebuildRoutes(s)
    <3>1. \A i \in routes' : Tracked(i)'
      BY <2>1 DEF RebuildRoutes, RebuiltRoutes, Live, Tracked
    <3> QED BY <3>1 DEF RoutesCatchUp
  <2>2. CASE ~RebuildRoutes(s)
    <3>1. pc'[s] # "idle"
      BY <1>3, <2>0, <2>2 DEF Loop, Reconcile, Resize, NewInstance, ReclaimOldest, CloseStop, Tell, Goto
    <3> QED BY <3>1 DEF RoutesCatchUp
  <2> QED BY <2>1, <2>2
<1>4. ASSUME NEW s \in Stoppers, Stopper(s) PROVE RoutesCatchUp'
  <2>0. \A t \in Loops : pc'[t] = pc[t]
    BY <1>4, OthersStay, RolesAssumption DEF Actors, Scalers
  <2>1. CASE FinishReclaim(s)
    <3> DEFINE i == id[inst[s]]
    <3>1. id' = id BY <2>1 DEF FinishReclaim
    <3>2. CASE Tracked(i)
      <4>1. table' = table \ {Get(i)} /\ routes' = routes \ {i}
        BY <2>1, <3>2 DEF FinishReclaim
      <4>2. id[Get(i)] = i BY <3>2, GetFinds
      <4> HIDE DEF i
      <4>3. \A j \in routes' : j \in routes /\ (Tracked(j) => Tracked(j)')
        BY <3>1, <4>1, <4>2 DEF Tracked
      <4> QED BY <2>0, <4>3, RoutesKept
    <3>3. CASE ~Tracked(i)
      <4>1. table' = table /\ routes' = routes BY <2>1, <3>3 DEF FinishReclaim
      <4> QED BY <2>0, <3>1, <4>1, RoutesKept DEF Tracked
    <3> QED BY <3>2, <3>3
  <2>2. CASE ~FinishReclaim(s)
    <3>1. UNCHANGED <<table, routes, id>>
      BY <1>4, <2>2 DEF Stopper, RemoveAll, Reclaim, Look, MarkDraining, Drained, Pause, LookAgain,
                        GiveUp,
                        MarkRunning, SetState, CloseStop, Tell
    <3> QED BY <2>0, <3>1, RoutesKept DEF Tracked
  <2> QED BY <2>1, <2>2
<1> QED BY <1>1, <1>2, <1>3, <1>4 DEF Next, Halted

------------------------------------------------------------------------------
Drains == TurnedAway /\ DrainHolds

\* Every step keeps calls away from the instance that drains.
LEMMA NextDrains == Inv /\ RunningExact /\ Drains /\ [Next]_vars => Drains'
<1> SUFFICES ASSUME Inv, RunningExact, Drains, [Next]_vars PROVE Drains' OBVIOUS
<1> USE DEF Inv, Types, tableVars, instVars
<1>0. /\ made \in Nat /\ \A k \in 1..made : k \in Instances
      /\ \A s \in Stoppers : s \in Scalers /\ s \in Actors
      /\ \A s \in Stoppers : pc[s] \in {"wait", "pause", "drained"} => inst[s] \in 1..made
  BY MaxMadeAssumption DEF Instances, Scalers, Actors, Held
<1>1. CASE UNCHANGED vars
  BY <1>1 DEF vars, Drains, TurnedAway, DrainHolds
<1>2. ASSUME NEW w \in Workers, Worker(w) PROVE Drains'
  <2>0. w \in Actors BY DEF Actors
  <2>1. \A s \in Stoppers : pc'[s] = pc[s] /\ inst'[s] = inst[s]
    BY <1>0, <1>2, WorkersDoNotScale
  <2>2. TurnedAway'
    BY <1>0, <1>2, <2>1, WorkersDoNotScale DEF Drains, TurnedAway
  <2>3. DrainHolds'
    <3> SUFFICES ASSUME NEW s \in Stoppers, pc[s] = "drained"
                 PROVE  running'[inst[s]] = 0
      BY <2>1 DEF DrainHolds
    <3>1. /\ running[inst[s]] = 0 /\ state[inst[s]] # "running" /\ inst[s] \in Instances
      BY <1>0 DEF Drains, TurnedAway, DrainHolds
    <3>2. CASE Acquire(w) BY <3>1, <3>2 DEF Acquire
    <3>3. CASE Release(w)
      <4>1. Runs(inst[s]) = {}
        <5>1. Cardinality(Runs(inst[s])) = 0 BY <3>1 DEF RunningExact, Runs
        <5> QED BY <5>1, CountRuns, FS_EmptySet
      <4>2. inst[w] # inst[s] BY <3>3, <4>1 DEF Runs, Release, Goto
      <4> QED BY <3>1, <3>3, <4>2 DEF Release
    <3>4. CASE ~Acquire(w) /\ ~Release(w)
      <4>1. running' = running
        BY <1>2, <3>4 DEF Worker, PickInstance, TryRoute, Ready, EnsureCached, EnsureBoots, Create,
                          EnsureFails, Register
      <4> QED BY <3>1, <4>1
    <3> QED BY <3>2, <3>3, <3>4
  <2> QED BY <2>2, <2>3 DEF Drains
<1>3. ASSUME NEW t \in Loops, Loop(t) PROVE Drains'
  <2>0. t \in Scalers /\ t \in Actors BY DEF Scalers, Actors
  <2>1. running' = running BY <1>3, <2>0, ScalersDoNotRun
  <2>2. \A s \in Stoppers : pc'[s] = pc[s] /\ inst'[s] = inst[s]
    BY <1>0, <1>3, <2>0, OthersStay, RolesAssumption
  <2>3. \A k \in 1..made : state[k] # "running" => state'[k] # "running"
    <3>1. CASE NewInstance(t)
      <4>1. state' = [state EXCEPT ![made + 1] = "running"] BY <3>1 DEF NewInstance, Create
      <4> QED BY <1>0, <4>1
    <3>2. CASE ReclaimOldest(t) BY <1>0, <3>2 DEF ReclaimOldest
    <3>3. CASE ~NewInstance(t) /\ ~ReclaimOldest(t)
      BY <1>3, <3>3 DEF Loop, Reconcile, Resize, RebuildRoutes, CloseStop, Tell
    <3> QED BY <3>1, <3>2, <3>3
  <2> QED BY <1>0, <2>1, <2>2, <2>3 DEF Drains, TurnedAway, DrainHolds
<1>4. ASSUME NEW s \in Stoppers, Stopper(s) PROVE Drains'
  <2>0. s \in Scalers /\ s \in Actors /\ \A t \in Stoppers : t = s
    BY <1>0, StoppersAssumption
  <2>1. running' = running BY <1>4, <2>0, ScalersDoNotRun
  <2> SUFFICES /\ pc'[s] \in {"wait", "pause", "drained"} => state'[inst'[s]] # "running"
               /\ pc'[s] = "drained" => running[inst'[s]] = 0
    BY <2>0, <2>1 DEF Drains, TurnedAway, DrainHolds
  <2> USE DEF Goto, Use
  <2>2. CASE MarkDraining(s)
    <3>1. inst[s] \in Instances BY <1>0, <2>0, <2>2 DEF MarkDraining, Held
    <3> QED BY <2>0, <2>2, <3>1 DEF MarkDraining, SetState
  <2>3. CASE Drained(s) BY <2>0, <2>3 DEF Drained, Drains, TurnedAway
  <2>4. CASE Pause(s) \/ LookAgain(s)
    BY <2>0, <2>4 DEF Pause, LookAgain, Drains, TurnedAway, tableVars, instVars
  <2>5. CASE ~MarkDraining(s) /\ ~Drained(s) /\ ~Pause(s) /\ ~LookAgain(s)
    <3>1. pc'[s] \notin {"wait", "pause", "drained"}
      BY <1>4, <2>0, <2>5 DEF Stopper, RemoveAll, Reclaim, Look, GiveUp, MarkRunning,
                              FinishReclaim, CloseStop, Tell
    <3> QED BY <3>1
  <2> QED BY <2>2, <2>3, <2>4, <2>5
<1> QED BY <1>1, <1>2, <1>3, <1>4 DEF Next, Halted

------------------------------------------------------------------------------
\* The initial states satisfy what is proved of all states.
LEMMA InitProperties == Init => RunningExact /\ RemovalAnnounced /\ RoutesCatchUp /\ Drains
<1> SUFFICES ASSUME Init PROVE RunningExact /\ RemovalAnnounced /\ RoutesCatchUp /\ Drains
  OBVIOUS
<1>1. RunningExact
  <2>1. \A k : {w \in Workers : pc[w] = "run" /\ inst[w] = k} = {} BY DEF Init, Actors
  <2> QED BY <2>1, FS_EmptySet DEF Init, RunningExact
<1>2. RemovalAnnounced BY DEF Init, RemovalAnnounced
<1>3. RoutesCatchUp BY DEF Init, RoutesCatchUp
<1>4. Drains BY DEF Init, Drains, TurnedAway, DrainHolds, Actors, Scalers
<1> QED BY <1>1, <1>2, <1>3, <1>4

\* The invariant holds in every reachable state.
LEMMA Invariance == Spec => []Inv
BY InitInv, NextInv, PTL DEF Spec

\* An instance counts exactly the calls that run on it, whatever has become of it
\* (Acquire and Release, scale.go:88-101).
THEOREM CountsExact == Spec => []RunningExact
BY Invariance, InitProperties, NextCounts, PTL DEF Spec

\* The scaler's state keeps its types: counts never go below zero, a Stop channel is
\* not closed a third time, Resize counts within the instances there are.
THEOREM TypeCorrect == Spec => []TypeOK
<1>1. Inv /\ RunningExact => TypeOK
  <2> SUFFICES ASSUME Inv, RunningExact PROVE TypeOK OBVIOUS
  <2>1. running \in [Instances -> 0..Cardinality(Workers)]
    <3>1. \A k \in Instances : running[k] = Cardinality(Runs(k)) BY DEF RunningExact, Runs
    <3>2. \A k \in Instances : running[k] \in 0..Cardinality(Workers) BY <3>1, CountRuns
    <3> QED BY <3>2 DEF Inv, Types
  <2>2. at \in [Loops -> 0..MaxMade]
    BY MaxMadeAssumption DEF Inv, Types
  <2> QED BY <2>1, <2>2 DEF Inv, Types, TypeOK
<1> QED BY <1>1, Invariance, CountsExact, PTL

\* Every removed instance has its Stop channel closed or about to be closed by the
\* goroutine that removed it (drain.go:56-73, resize.go:28-52).
THEOREM RemovalsAnnounced == Spec => []RemovalAnnounced
BY Invariance, InitProperties, NextAnnounced, PTL DEF Spec

\* While no Resize is under way every route leads to an instance in the table
\* (route.go:17-26, drain.go:75-89).
THEOREM RoutesGood == Spec => []RoutesCatchUp
BY Invariance, InitProperties, NextRoutes, PTL DEF Spec

\* An instance that has drained stays free of calls until Reclaim removes it
\* (drain.go:19-26 with Acquire, scale.go:88-96).
THEOREM DrainsHold == Spec => []DrainHolds
<1>1. Spec => []Drains
  BY Invariance, CountsExact, InitProperties, NextDrains, PTL DEF Spec
<1> QED BY <1>1, PTL DEF Drains
------------------------------------------------------------------------------
(* Why Stop may be closed twice: a caller that got an instance from the        *)
(* cold-start manager registers it after it was removed (exec.go:217-222).     *)

\* The instance has been removed: its Stop channel is closed or about to be.
Gone(k) == stops[k] > 0 \/ \E s \in Scalers : pc[s] = "close" /\ inst[s] = k

\* The step puts no instance back into the table that has been removed.
NoneComesBack == \A k \in (table' \ table) \cap 1..made : ~Gone(k)

\* What is in the table is not gone, and no Stop channel has two goroutines that
\* have closed it or are about to.
ClosesOnce ==
    /\ \A k \in table : ~Gone(k)
    /\ \A k \in Instances : stops[k] # 2 /\ (stops[k] > 0 => k <= made)
    /\ \A s \in Scalers : pc[s] = "close" => stops[inst[s]] = 0
    /\ \A s, t \in Scalers :
          pc[s] = "close" /\ pc[t] = "close" /\ inst[s] = inst[t] => s = t

\* Instance k leaves the table and is about to be closed by s.
Takes(s, k) ==
    /\ pc' = [pc EXCEPT ![s] = "close"] /\ inst' = [inst EXCEPT ![s] = k]
    /\ table' = table \ {k} /\ UNCHANGED <<made, stops>>

\* Nothing is closed and nobody is about to close more than before.
ClosesNothing ==
    /\ stops' = stops /\ made' \in {made, made + 1}
    /\ \A s \in Scalers : pc'[s] = "close" => pc[s] = "close" /\ inst'[s] = inst[s]

\* The steps of the scaler towards the Stop channels.
LEMMA CloseSteps ==
  ASSUME Inv, [Next]_vars
  PROVE  \/ ClosesNothing
         \/ \E s \in Scalers : CloseStop(s) \/ \E k \in table : Takes(s, k)
<1>1. CASE UNCHANGED vars
  BY <1>1 DEF vars, tableVars, ClosesNothing, instVars
<1>2. ASSUME NEW w \in Workers, Worker(w) PROVE ClosesNothing
  <2>1. made' \in {made, made + 1}
    BY <1>2 DEF Worker, PickInstance, TryRoute, Ready, EnsureCached, EnsureBoots, Create,
                EnsureFails, Register, Acquire, Release, tableVars
  <2> QED BY <1>2, <2>1, WorkersDoNotScale DEF ClosesNothing
<1>3. \A t \in Scalers : t \in Actors BY DEF Actors
<1>4. ASSUME NEW s \in Loops, Loop(s)
      PROVE  ClosesNothing \/ CloseStop(s) \/ \E k \in table : Takes(s, k)
  <2>0. s \in Scalers /\ s \in Actors BY DEF Scalers, Actors
  <2>1. CASE ReclaimOldest(s)
    BY <2>1 DEF ReclaimOldest, Goto, Use, Live, Takes, ClosesNothing
  <2>2. CASE Reconcile(s) \/ Resize(s) \/ NewInstance(s) \/ RebuildRoutes(s) \/ Tell(s)
    <3>1. stops' = stops /\ made' \in {made, made + 1}
      BY <2>2 DEF Reconcile, Resize, NewInstance, Create, RebuildRoutes, Tell, tableVars, instVars
    <3>2. pc'[s] # "close"
      BY <2>0, <2>2 DEF Reconcile, Resize, NewInstance, RebuildRoutes, Tell, Goto, Inv, Types
    <3>3. \A t \in Scalers \ {s} : pc'[t] = pc[t] /\ inst'[t] = inst[t]
      BY <1>3, <1>4, <2>0, OthersStay
    <3> QED BY <3>1, <3>2, <3>3 DEF ClosesNothing
  <2> QED BY <1>4, <2>1, <2>2 DEF Loop
<1>5. ASSUME NEW s \in Stoppers, Stopper(s)
      PROVE  ClosesNothing \/ CloseStop(s) \/ \E k \in table : Takes(s, k)
  <2>0. s \in Scalers /\ s \in Actors BY DEF Scalers, Actors
  <2>1. \A t \in Scalers \ {s} : pc'[t] = pc[t] /\ inst'[t] = inst[t]
    BY <1>3, <1>5, <2>0, OthersStay
  <2>2. CASE FinishReclaim(s)
    <3>1. CASE Tracked(id[inst[s]])
      <4>1. Get(id[inst[s]]) \in table BY <3>1, GetFinds
      <4> QED BY <2>2, <3>1, <4>1 DEF FinishReclaim, Goto, Use, Takes
    <3>2. CASE ~Tracked(id[inst[s]])
      <4>1. stops' = stops /\ made' = made /\ pc'[s] # "close"
        BY <2>0, <2>2, <3>2 DEF FinishReclaim, Goto, Inv, Types
      <4> QED BY <2>1, <4>1 DEF ClosesNothing
    <3> QED BY <3>1, <3>2
  <2>3. CASE RemoveAll(s) \/ Reclaim(s) \/ Look(s) \/ MarkDraining(s) \/ Drained(s)
             \/ Pause(s) \/ LookAgain(s) \/ GiveUp(s) \/ MarkRunning(s) \/ Tell(s)
    <3>1. stops' = stops /\ made' = made
      BY <2>3 DEF RemoveAll, Reclaim, Look, MarkDraining, Drained, Pause, LookAgain,
                  GiveUp, MarkRunning,
                  SetState, Tell, tableVars, instVars
    <3>2. pc'[s] # "close"
      BY <2>0, <2>3 DEF RemoveAll, Reclaim, Look, MarkDraining, Drained, Pause, LookAgain,
                        GiveUp, MarkRunning,
                        SetState, Tell, Goto, Inv, Types
    <3> QED BY <2>1, <3>1, <3>2 DEF ClosesNothing
  <2> QED BY <1>5, <2>2, <2>3 DEF Stopper
<1> QED BY <1>1, <1>2, <1>4, <1>5 DEF Next, Halted, Scalers

\* As long as no removed instance comes back every Stop channel is closed once.
LEMMA NextClosesOnce ==
  ASSUME Inv, ClosesOnce, [Next /\ NoneComesBack]_vars
  PROVE  ClosesOnce'
<1>0. /\ made \in Nat /\ [Next]_vars /\ table' \subseteq 1..made'
      /\ \A k \in 1..made : k \in Instances
      /\ \A s \in Scalers : s \in Actors /\ (pc[s] = "close" => inst[s] \in 1..made)
  <2>1. Inv' BY NextInv
  <2> QED BY <2>1, MaxMadeAssumption DEF Inv, Types, Held, Actors, Instances
<1>1. CASE ClosesNothing
  <2>1. \A k : Gone(k)' => Gone(k)
    BY <1>1 DEF ClosesNothing, Gone
  <2>2. \A k \in table' : ~Gone(k)
    <3> SUFFICES ASSUME NEW k \in table' PROVE ~Gone(k) OBVIOUS
    <3>1. CASE k \in table BY <3>1 DEF ClosesOnce
    <3>2. CASE k \notin table /\ k \in 1..made
      BY <3>2 DEF NoneComesBack, vars, tableVars
    <3>3. CASE k \notin 1..made
      <4>1. k = made + 1 /\ k \in Instances
        BY <1>0, <1>1, <3>3, NextInv, MaxMadeAssumption
           DEF ClosesNothing, Inv, Types, Instances
      <4>2. ~(stops[k] > 0)
        BY <1>0, <4>1 DEF ClosesOnce
      <4> QED BY <1>0, <3>3, <4>2 DEF Gone
    <3> QED BY <3>1, <3>2, <3>3
  <2>3. \A k \in Instances : stops'[k] # 2 /\ (stops'[k] > 0 => k <= made')
    BY <1>0, <1>1 DEF ClosesNothing, ClosesOnce, Instances
  <2> QED BY <1>1, <2>1, <2>2, <2>3 DEF ClosesNothing, ClosesOnce
<1>2. ASSUME NEW s \in Scalers, CloseStop(s) PROVE ClosesOnce'
  <2>1. /\ pc[s] = "close" /\ stops[inst[s]] = 0 /\ inst[s] \in 1..made
        /\ inst[s] \in Instances /\ inst[s] \notin table
    BY <1>0, <1>2 DEF CloseStop, Goto, ClosesOnce, Gone
  <2>2. /\ stops' = [stops EXCEPT ![inst[s]] = 1]
        /\ UNCHANGED <<made, table, inst>> /\ pc' = [pc EXCEPT ![s] = "tell"]
    BY <1>2, <2>1 DEF CloseStop, Goto
  <2>3. /\ \A t \in Scalers : pc'[t] = "close" => t # s /\ pc[t] = "close"
        /\ \A k \in Instances : stops'[k] = IF k = inst[s] THEN 1 ELSE stops[k]
    BY <1>0, <2>2 DEF Inv, Types
  <2>4. \A t \in Scalers : pc'[t] = "close" => inst[t] # inst[s]
    BY <2>1, <2>3 DEF ClosesOnce
  <2>5. \A k \in table' : ~Gone(k)'
    <3> SUFFICES ASSUME NEW k \in table' PROVE ~Gone(k)' OBVIOUS
    <3>1. k \in Instances /\ k # inst[s] /\ ~Gone(k)
      BY <1>0, <2>1, <2>2 DEF ClosesOnce
    <3> QED BY <2>2, <2>3, <3>1 DEF Gone
  <2>6. \A k \in Instances : stops'[k] # 2 /\ (stops'[k] > 0 => k <= made')
    BY <1>0, <2>1, <2>2, <2>3 DEF ClosesOnce
  <2>7. \A t \in Scalers : pc'[t] = "close" => stops'[inst'[t]] = 0
    BY <1>0, <2>2, <2>3, <2>4 DEF ClosesOnce
  <2>8. \A t, u \in Scalers :
           pc'[t] = "close" /\ pc'[u] = "close" /\ inst'[t] = inst'[u] => t = u
    BY <2>2, <2>3 DEF ClosesOnce
  <2> QED BY <2>5, <2>6, <2>7, <2>8 DEF ClosesOnce
<1>3. ASSUME NEW s \in Scalers, NEW k \in table, Takes(s, k) PROVE ClosesOnce'
  <2>1. k \in 1..made /\ ~Gone(k)
    BY DEF Inv, Types, ClosesOnce
  <2>2. /\ stops[k] = 0 /\ \A t \in Scalers : pc[t] = "close" => inst[t] # k
    BY <1>0, <2>1 DEF Gone, Inv, Types
  <2>3. /\ pc'[s] = "close" /\ inst'[s] = k
        /\ \A t \in Scalers \ {s} : pc'[t] = pc[t] /\ inst'[t] = inst[t]
        /\ table' = table \ {k} /\ UNCHANGED <<made, stops>>
    BY <1>0, <1>3 DEF Takes, Inv, Types
  <2>4. \A j \in table' : ~Gone(j)'
    BY <2>3 DEF ClosesOnce, Gone
  <2>5. \A t \in Scalers : pc'[t] = "close" => stops'[inst'[t]] = 0
    BY <2>2, <2>3 DEF ClosesOnce
  <2>6. \A t, u \in Scalers :
           pc'[t] = "close" /\ pc'[u] = "close" /\ inst'[t] = inst'[u] => t = u
    BY <2>2, <2>3 DEF ClosesOnce
  <2> QED BY <2>3, <2>4, <2>5, <2>6 DEF ClosesOnce
<1> QED BY <1>0, <1>1, <1>2, <1>3, CloseSteps

\* The program panics, by closing a Stop channel twice (drain.go:68, resize.go:48),
\* only after an instance that was removed has been registered again
\* (scale.go:52-61 with exec.go:217-222): whatever else the scale loop, Reclaim and
\* the workers do to one instance at the same time, only one of them removes it.
THEOREM PanicNeedsLateRegister == Spec /\ [][NoneComesBack]_vars => []~Panicked
<1>1. Init => ClosesOnce
  BY DEF Init, ClosesOnce, Gone, Scalers, Actors
<1>2. Inv /\ ClosesOnce /\ [Next /\ NoneComesBack]_vars => ClosesOnce'
  BY NextClosesOnce
<1>3. ClosesOnce => ~Panicked
  BY DEF ClosesOnce, Panicked
<1>4. [Next]_vars /\ [NoneComesBack]_vars => [Next /\ NoneComesBack]_vars
  OBVIOUS
<1> QED BY Invariance, <1>1, <1>2, <1>3, <1>4, PTL DEF Spec

------------------------------------------------------------------------------
(* Why Reclaim may remove an instance with a call on it.                       *)

\* The step acquires a call on the instance whose running count Reclaim has found to
\* be zero, and which it removes without marking it draining first (drain.go:19).
SlipsIn == \E s \in Stoppers : pc[s] = "finish" /\ running'[inst[s]] > running[inst[s]]

\* The step is a finishReclaim that finds, under the ID it looks up again, another
\* instance than the one that has drained (drain.go:57).
FindsAnother ==
    \E s \in Stoppers : pc[s] # "close" /\ pc'[s] = "close" /\ inst'[s] # inst[s]

\* The instance that Reclaim removes is free of calls from the moment it was found to
\* be, and takes none once it is removed.
FreeToRemove ==
    \A s \in Stoppers :
        /\ pc[s] \in {"finish", "drained", "close"} => running[inst[s]] = 0
        /\ pc[s] = "close" => state[inst[s]] # "running"

\* As long as no call slips in and no other instance is found, the instance that
\* Reclaim removes stays free of calls.
LEMMA NextFree ==
  ASSUME Inv, RunningExact, Drains, FreeToRemove, [Next /\ ~SlipsIn /\ ~FindsAnother]_vars
  PROVE  FreeToRemove'
<1> USE DEF Inv, Types, tableVars, instVars
<1>0. /\ made \in Nat /\ \A k \in 1..made : k \in Instances
      /\ \A s \in Stoppers : s \in Scalers /\ s \in Actors
      /\ \A s \in Stoppers : pc[s] \in {"look", "finish", "wait", "pause", "drained", "close"}
                                => inst[s] \in 1..made
  BY MaxMadeAssumption DEF Instances, Scalers, Actors, Held
<1>1. CASE UNCHANGED vars
  BY <1>1 DEF vars, FreeToRemove
<1>2. ASSUME NEW w \in Workers, Worker(w), ~SlipsIn PROVE FreeToRemove'
  <2>0. w \in Actors BY DEF Actors
  <2>1. \A s \in Stoppers : pc'[s] = pc[s] /\ inst'[s] = inst[s]
    BY <1>0, <1>2, WorkersDoNotScale
  <2> SUFFICES ASSUME NEW s \in Stoppers, pc[s] \in {"finish", "drained", "close"}
               PROVE  /\ running'[inst[s]] = 0
                      /\ pc[s] = "close" => state'[inst[s]] # "running"
    BY <2>1 DEF FreeToRemove
  <2>2. /\ running[inst[s]] = 0 /\ inst[s] \in 1..made /\ inst[s] \in Instances
        /\ pc[s] = "close" => state[inst[s]] # "running"
        /\ pc[s] = "drained" => state[inst[s]] # "running"
    BY <1>0 DEF FreeToRemove, Drains, TurnedAway
  <2>3. pc[s] = "close" => state'[inst[s]] # "running"
    BY <1>0, <1>2, <2>2, WorkersDoNotScale
  <2>4. running'[inst[s]] = 0
    <3>1. CASE Acquire(w)
      <4>1. running' = [running EXCEPT
                          ![inst[w]] = IF state[inst[w]] = "running" THEN @ + 1 ELSE @]
        BY <3>1 DEF Acquire
      <4>2. CASE inst[w] = inst[s] /\ state[inst[s]] = "running"
        <5>1. pc[s] = "finish" /\ running'[inst[s]] > running[inst[s]]
          BY <2>2, <4>1, <4>2
        <5> QED BY <1>2, <5>1 DEF SlipsIn
      <4>3. CASE ~(inst[w] = inst[s] /\ state[inst[s]] = "running")
        BY <2>2, <4>1, <4>3
      <4> QED BY <4>2, <4>3
    <3>2. CASE Release(w)
      <4>1. Runs(inst[s]) = {}
        <5>1. Cardinality(Runs(inst[s])) = 0 BY <2>2 DEF RunningExact, Runs
        <5> QED BY <5>1, CountRuns, FS_EmptySet
      <4>2. inst[w] # inst[s] BY <3>2, <4>1 DEF Runs, Release, Goto
      <4> QED BY <2>2, <3>2, <4>2 DEF Release
    <3>3. CASE ~Acquire(w) /\ ~Release(w)
      <4>1. running' = running
        BY <1>2, <3>3 DEF Worker, PickInstance, TryRoute, Ready, EnsureCached, EnsureBoots, Create,
                          EnsureFails, Register
      <4> QED BY <2>2, <4>1
    <3> QED BY <3>1, <3>2, <3>3
  <2> QED BY <2>3, <2>4
<1>3. ASSUME NEW t \in Loops, Loop(t) PROVE FreeToRemove'
  <2>0. t \in Scalers /\ t \in Actors BY DEF Scalers, Actors
  <2>1. running' = running BY <1>3, <2>0, ScalersDoNotRun
  <2>2. \A s \in Stoppers : pc'[s] = pc[s] /\ inst'[s] = inst[s]
    BY <1>0, <1>3, <2>0, OthersStay, RolesAssumption
  <2>3. \A k \in 1..made : state[k] # "running" => state'[k] # "running"
    <3>1. CASE NewInstance(t)
      <4>1. state' = [state EXCEPT ![made + 1] = "running"] BY <3>1 DEF NewInstance, Create
      <4> QED BY <1>0, <4>1
    <3>2. CASE ReclaimOldest(t) BY <1>0, <3>2 DEF ReclaimOldest
    <3>3. CASE ~NewInstance(t) /\ ~ReclaimOldest(t)
      BY <1>3, <3>3 DEF Loop, Reconcile, Resize, RebuildRoutes, CloseStop, Tell
    <3> QED BY <3>1, <3>2, <3>3
  <2> QED BY <1>0, <2>1, <2>2, <2>3 DEF FreeToRemove
<1>4. ASSUME NEW s \in Stoppers, Stopper(s), ~FindsAnother PROVE FreeToRemove'
  <2>0. s \in Scalers /\ s \in Actors /\ \A t \in Stoppers : t = s
    BY <1>0, StoppersAssumption
  <2>1. running' = running BY <1>4, <2>0, ScalersDoNotRun
  <2> SUFFICES /\ pc'[s] \in {"finish", "drained", "close"} => running[inst'[s]] = 0
               /\ pc'[s] = "close" => state'[inst'[s]] # "running"
    BY <2>0, <2>1 DEF FreeToRemove
  <2> USE DEF Goto, Use
  <2>2. CASE Look(s)
    <3>1. inst[s] \in 1..made /\ inst[s] \in Instances BY <1>0, <2>2 DEF Look
    <3>2. running[inst[s]] = Cardinality(Runs(inst[s])) BY <3>1 DEF RunningExact, Runs
    <3>3. running[inst[s]] \in 0..Cardinality(Workers) BY <3>2, CountRuns
    <3> QED BY <2>0, <2>2, <3>1, <3>3 DEF Look
  <2>3. CASE Drained(s) BY <2>0, <2>3 DEF Drained
  <2>4. CASE FinishReclaim(s)
    <3>1. CASE Tracked(id[inst[s]])
      <4>1. /\ pc[s] \in {"finish", "drained"} /\ pc'[s] = "close"
            /\ inst'[s] = Get(id[inst[s]])
            /\ state' = [state EXCEPT ![Get(id[inst[s]])] = "removed"]
        BY <2>0, <2>4, <3>1 DEF FinishReclaim
      <4>2. inst'[s] = inst[s] BY <1>4, <4>1 DEF FindsAnother
      <4>3. running[inst[s]] = 0 /\ inst[s] \in Instances
        BY <1>0, <4>1 DEF FreeToRemove
      <4> QED BY <4>1, <4>2, <4>3
    <3>2. CASE ~Tracked(id[inst[s]])
      <4>1. pc'[s] = "get" BY <2>0, <2>4, <3>2 DEF FinishReclaim
      <4> QED BY <4>1
    <3> QED BY <3>1, <3>2
  <2>5. CASE ~Look(s) /\ ~Drained(s) /\ ~FinishReclaim(s)
    <3>1. pc'[s] \notin {"finish", "drained", "close"}
      BY <1>4, <2>0, <2>5 DEF Stopper, RemoveAll, Reclaim, MarkDraining, Pause, LookAgain,
                              GiveUp, MarkRunning,
                              CloseStop, Tell
    <3> QED BY <3>1
  <2> QED BY <2>2, <2>3, <2>4, <2>5
<1> QED BY <1>1, <1>2, <1>3, <1>4 DEF Next, Halted

\* Reclaim removes an instance that has a call on it (what drain.go:13 rules out) only
\* when a worker acquires one after the look at the running count (drain.go:19), or
\* when the ID leads to another instance by then (drain.go:57, with the ID that
\* NewInstance uses again, scale.go:45).
THEOREM EarlyRemovalIsTheCause ==
  Spec /\ [][~SlipsIn /\ ~FindsAnother]_vars => []DrainedBeforeRemoval
<1>1. Init => FreeToRemove
  BY DEF Init, FreeToRemove, Scalers, Actors
<1>2. Inv /\ RunningExact /\ Drains /\ FreeToRemove /\ [Next /\ ~SlipsIn /\ ~FindsAnother]_vars
         => FreeToRemove'
  BY NextFree
<1>3. FreeToRemove => DrainedBeforeRemoval
  BY DEF FreeToRemove, DrainedBeforeRemoval
<1>4. [Next]_vars /\ [~SlipsIn /\ ~FindsAnother]_vars => [Next /\ ~SlipsIn /\ ~FindsAnother]_vars
  OBVIOUS
<1>5. Spec => []Drains
  BY Invariance, CountsExact, InitProperties, NextDrains, PTL DEF Spec
<1> QED BY Invariance, CountsExact, <1>1, <1>2, <1>3, <1>4, <1>5, PTL DEF Spec
==============================================================================
