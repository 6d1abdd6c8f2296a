---------------------------- MODULE ColdStartProofs ----------------------------
(***************************************************************************)
(* The cold-start manager, for any callers and functions.  Until a caller  *)
(* meets a stale entry, which never happens without a liveness checker,    *)
(* the mutex is held wherever the maps are touched, at most one caller     *)
(* boots a function, the boot table holds exactly the boots that are led,  *)
(* every instance in the scaler's table is cached, and the Go runtime does *)
(* not stop the program.  Whatever happens, an instance that was reported  *)
(* removed is never cached again.                                          *)
(***************************************************************************)
EXTENDS ColdStart, FiniteSetTheorems, TLAPS

\* What the proof needs of the types: the bound on boots plays no part in it.
Typed ==
    /\ cache \in [Funcs -> Nat] /\ booting \in [Funcs -> Nat]
    /\ boots \in Nat
    /\ pc \in [Callers -> Places] /\ fn \in [Callers -> Funcs]
    /\ inst \in [Callers -> Nat] /\ ticket \in [Callers -> Nat]
    /\ leader \in [Callers -> BOOLEAN]

\* The mutex is held over the two critical sections of Ensure, as long as the way
\* to the part without it is not taken.
Guarded ==
    \A c \in Callers :
        /\ pc[c] \in Inside \cup {"unlockhit", "unlock"} => lock = c
        /\ pc[c] # "stale"

Leading(c) == leader[c] /\ pc[c] \in {"unlock", "boot", "bootlock", "finish"}

\* A caller leads from its miss to the end of its boot, of a boot of its own.
Leaders ==
    \A c \in Callers :
        /\ pc[c] \in {"lock", "look", "recheck", "flight"} => ~leader[c]
        /\ pc[c] \in {"boot", "bootlock", "finish"} => leader[c]
        /\ Leading(c) => ticket[c] # 0 /\ booting[fn[c]] = ticket[c]

\* The converse: what is booting has its leader, and only one.
Led ==
    /\ \A f \in Funcs : booting[f] # 0 => \E c \in Callers : Leading(c) /\ fn[c] = f
    /\ \A c, d \in Callers : Leading(c) /\ Leading(d) /\ fn[c] = fn[d] => c = d

\* A function boots only while nothing is cached for it.
MissFirst ==
    /\ \A f \in Funcs : booting[f] # 0 => cache[f] = 0
    /\ \A c \in Callers : pc[c] = "flight" => cache[fn[c]] = 0

Cached(k) == \E f \in Funcs : cache[f] = k

\* An instance that a caller has got from Ensure is cached or already removed.
CachedOrGone ==
    /\ told \subseteq removed /\ live \cap removed = {}
    /\ \A k \in live : k # 0 /\ Cached(k)
    /\ \A c \in Callers : pc[c] \in {"alive", "register", "unlockhit"} =>
          inst[c] # 0 /\ (inst[c] \in removed \/ Cached(inst[c]))

Inv == Typed /\ Guarded /\ Leaders /\ Led /\ MissFirst

------------------------------------------------------------------------------
\* The initial states satisfy the invariant.
LEMMA InitInv == Init => Inv /\ CachedOrGone
<1> SUFFICES ASSUME Init PROVE Inv /\ CachedOrGone OBVIOUS
<1> USE DEF Init
<1>1. Typed BY DEF Typed, Places
<1>2. Guarded BY DEF Guarded, Inside
<1>3. Leaders /\ Led BY DEF Leaders, Led, Leading
<1>4. MissFirst /\ CachedOrGone BY DEF MissFirst, CachedOrGone, Cached
<1> QED BY <1>1, <1>2, <1>3, <1>4 DEF Inv

------------------------------------------------------------------------------
(* The steps, one lemma for each part of the invariant.                    *)

\* Every step keeps the types.
LEMMA TypedStep == Typed /\ [Next]_vars => Typed'
<1> SUFFICES ASSUME Typed, [Next]_vars PROVE Typed' OBVIOUS
<1> USE DEF Typed
<1> USE DEF callerVars, managerVars, tableVars
<1>1. ASSUME NEW c \in Callers, Call(c) PROVE Typed'
  BY <1>1 DEF Call, Goto, Places
<1>2. ASSUME NEW c \in Callers, LockFor(c) PROVE Typed'
  BY <1>2 DEF LockFor, Goto, Places
<1>3. ASSUME NEW c \in Callers, Look(c) PROVE Typed'
  BY <1>3 DEF Look, Goto, Places
<1>4. ASSUME NEW c \in Callers, CheckAlive(c) PROVE Typed'
  BY <1>4 DEF CheckAlive, Goto, Places
<1>5. ASSUME NEW c \in Callers, DropStale(c) PROVE Typed'
  BY <1>5 DEF DropStale, Goto, Places, Uncached, Touch
<1>6. ASSUME NEW c \in Callers, Recheck(c) PROVE Typed'
  BY <1>6 DEF Recheck, Goto, Places
<1>7. ASSUME NEW c \in Callers, UnlockHit(c) PROVE Typed'
  BY <1>7 DEF UnlockHit, Goto, Places
<1>8. ASSUME NEW c \in Callers, Flight(c) PROVE Typed'
  <2>1. booting' \in [Funcs -> Nat] /\ ticket' \in [Callers -> Nat] /\ boots' \in Nat
    BY <1>8 DEF Flight
  <2>2. pc' \in [Callers -> Places]
    BY <1>8 DEF Flight, Goto, Places
  <2> QED BY <1>8, <2>1, <2>2 DEF Flight
<1>9. ASSUME NEW c \in Callers, UnlockFlight(c) PROVE Typed'
  BY <1>9 DEF UnlockFlight, Goto, Places
<1>10. ASSUME NEW c \in Callers, Boot(c) PROVE Typed'
  BY <1>10 DEF Boot, Goto, Places
<1>11. ASSUME NEW c \in Callers, Finish(c) PROVE Typed'
  BY <1>11 DEF Finish, Goto, Places
<1>12. ASSUME NEW c \in Callers, Wait(c) PROVE Typed'
  BY <1>12 DEF Wait, Goto, Places
<1>13. ASSUME NEW c \in Callers, Follow(c) PROVE Typed'
  BY <1>13 DEF Follow, Goto, Places
<1>14. ASSUME NEW c \in Callers, Register(c) PROVE Typed'
  BY <1>14 DEF Register, Goto, Places
<1>15. ASSUME NEW k \in Boots, Remove(k) \/ Invalidate(k) PROVE Typed'
  BY <1>15 DEF Remove, Invalidate, Uncached
<1>16. CASE UNCHANGED vars
  BY <1>16 DEF vars
<1> QED BY <1>1, <1>2, <1>3, <1>4, <1>5, <1>6, <1>7, <1>8, <1>9, <1>10, <1>11, <1>12, <1>13, <1>14, <1>15, <1>16 DEF Next, Ensure, Steps, Stopped

\* The mutex is kept: only the path of a stale hit drops it.
LEMMA GuardedStep == ~strayed' /\ Typed /\ Guarded /\ [Next]_vars => Guarded'
<1> SUFFICES ASSUME ~strayed', Typed, Guarded, [Next]_vars PROVE Guarded' OBVIOUS
<1> USE FreeAssumption DEF Typed, Guarded, Inside
<1> USE DEF callerVars, managerVars, tableVars
<1>1. ASSUME NEW c \in Callers, Call(c) PROVE Guarded'
  BY <1>1 DEF Call, Goto, Lock, Unlock, Touch
<1>2. ASSUME NEW c \in Callers, LockFor(c) PROVE Guarded'
  BY <1>2 DEF LockFor, Goto, Lock, Unlock, Touch
<1>3. ASSUME NEW c \in Callers, Look(c) PROVE Guarded'
  BY <1>3 DEF Look, Goto, Lock, Unlock, Touch
<1>4. ASSUME NEW c \in Callers, CheckAlive(c) PROVE Guarded'
  BY <1>4 DEF CheckAlive, Goto, Lock, Unlock, Touch
<1>5. ASSUME NEW c \in Callers, DropStale(c) PROVE Guarded'
  BY <1>5 DEF DropStale, Goto, Lock, Unlock, Touch
<1>6. ASSUME NEW c \in Callers, Recheck(c) PROVE Guarded'
  BY <1>6 DEF Recheck, Goto, Lock, Unlock, Touch
<1>7. ASSUME NEW c \in Callers, UnlockHit(c) PROVE Guarded'
  BY <1>7 DEF UnlockHit, Goto, Lock, Unlock, Touch
<1>8. ASSUME NEW c \in Callers, Flight(c) PROVE Guarded'
  BY <1>8 DEF Flight, Goto, Lock, Unlock, Touch
<1>9. ASSUME NEW c \in Callers, UnlockFlight(c) PROVE Guarded'
  BY <1>9 DEF UnlockFlight, Goto, Lock, Unlock, Touch
<1>10. ASSUME NEW c \in Callers, Boot(c) PROVE Guarded'
  BY <1>10 DEF Boot, Goto, Lock, Unlock, Touch
<1>11. ASSUME NEW c \in Callers, Finish(c) PROVE Guarded'
  BY <1>11 DEF Finish, Goto, Lock, Unlock, Touch
<1>12. ASSUME NEW c \in Callers, Wait(c) PROVE Guarded'
  BY <1>12 DEF Wait, Goto, Lock, Unlock, Touch
<1>13. ASSUME NEW c \in Callers, Follow(c) PROVE Guarded'
  BY <1>13 DEF Follow, Goto, Lock, Unlock, Touch
<1>14. ASSUME NEW c \in Callers, Register(c) PROVE Guarded'
  BY <1>14 DEF Register, Goto, Lock, Unlock, Touch
<1>15. ASSUME NEW k \in Boots, Remove(k) \/ Invalidate(k) PROVE Guarded'
  BY <1>15 DEF Remove, Invalidate
<1>16. CASE UNCHANGED vars
  BY <1>16 DEF vars
<1> QED BY <1>1, <1>2, <1>3, <1>4, <1>5, <1>6, <1>7, <1>8, <1>9, <1>10, <1>11, <1>12, <1>13, <1>14, <1>15, <1>16 DEF Next, Ensure, Steps, Stopped

\* Leaders come from a miss and leave with the end of their boot.
LEMMA LeadersStep == Inv /\ [Next]_vars => Leaders' /\ Led'
<1> SUFFICES ASSUME Inv, [Next]_vars PROVE Leaders' /\ Led' OBVIOUS
<1> USE DEF Inv, Typed, Leaders, Led, Leading
<1> USE DEF callerVars, managerVars, tableVars
<1>1. ASSUME NEW c \in Callers, Call(c) PROVE Leaders' /\ Led'
  BY <1>1 DEF Call, Goto, Guarded, Inside
<1>2. ASSUME NEW c \in Callers, LockFor(c) PROVE Leaders' /\ Led'
  BY <1>2 DEF LockFor, Goto, Guarded, Inside
<1>3. ASSUME NEW c \in Callers, Look(c) PROVE Leaders' /\ Led'
  BY <1>3 DEF Look, Goto, Guarded, Inside
<1>4. ASSUME NEW c \in Callers, CheckAlive(c) PROVE Leaders' /\ Led'
  BY <1>4 DEF CheckAlive, Goto, Guarded, Inside
<1>5. ASSUME NEW c \in Callers, DropStale(c) PROVE Leaders' /\ Led'
  BY <1>5 DEF DropStale, Goto, Guarded, Inside
<1>6. ASSUME NEW c \in Callers, Recheck(c) PROVE Leaders' /\ Led'
  BY <1>6 DEF Recheck, Goto, Guarded, Inside
<1>7. ASSUME NEW c \in Callers, UnlockHit(c) PROVE Leaders' /\ Led'
  BY <1>7 DEF UnlockHit, Goto, Guarded, Inside
<1>8. ASSUME NEW c \in Callers, Flight(c) PROVE Leaders' /\ Led'
  BY <1>8 DEF Flight, Goto, Guarded, Inside
<1>9. ASSUME NEW c \in Callers, UnlockFlight(c) PROVE Leaders' /\ Led'
  BY <1>9 DEF UnlockFlight, Goto, Guarded, Inside
<1>10. ASSUME NEW c \in Callers, Boot(c) PROVE Leaders' /\ Led'
  BY <1>10 DEF Boot, Goto, Guarded, Inside
<1>11. ASSUME NEW c \in Callers, Finish(c) PROVE Leaders' /\ Led'
  BY <1>11 DEF Finish, Goto, Guarded, Inside
<1>12. ASSUME NEW c \in Callers, Wait(c) PROVE Leaders' /\ Led'
  BY <1>12 DEF Wait, Goto, Guarded, Inside
<1>13. ASSUME NEW c \in Callers, Follow(c) PROVE Leaders' /\ Led'
  BY <1>13 DEF Follow, Goto, Guarded, Inside
<1>14. ASSUME NEW c \in Callers, Register(c) PROVE Leaders' /\ Led'
  BY <1>14 DEF Register, Goto, Guarded, Inside
<1>15. ASSUME NEW k \in Boots, Remove(k) \/ Invalidate(k) PROVE Leaders' /\ Led'
  BY <1>15 DEF Remove, Invalidate
<1>16. CASE UNCHANGED vars
  BY <1>16 DEF vars
<1> QED BY <1>1, <1>2, <1>3, <1>4, <1>5, <1>6, <1>7, <1>8, <1>9, <1>10, <1>11, <1>12, <1>13, <1>14, <1>15, <1>16 DEF Next, Ensure, Steps, Stopped

\* A boot starts on a miss and what it caches ends it.
LEMMA MissFirstStep == Inv /\ [Next]_vars => MissFirst'
<1> SUFFICES ASSUME Inv, [Next]_vars PROVE MissFirst' OBVIOUS
<1> USE DEF Inv, Typed, MissFirst, Guarded, Inside
<1> USE DEF callerVars, managerVars, tableVars
<1>1. ASSUME NEW c \in Callers, Call(c) PROVE MissFirst'
  BY <1>1 DEF Call, Goto, Leaders, Led, Leading
<1>2. ASSUME NEW c \in Callers, LockFor(c) PROVE MissFirst'
  BY <1>2 DEF LockFor, Goto, Leaders, Led, Leading
<1>3. ASSUME NEW c \in Callers, Look(c) PROVE MissFirst'
  BY <1>3 DEF Look, Goto, Leaders, Led, Leading
<1>4. ASSUME NEW c \in Callers, CheckAlive(c) PROVE MissFirst'
  BY <1>4 DEF CheckAlive, Goto, Leaders, Led, Leading
<1>5. ASSUME NEW c \in Callers, DropStale(c) PROVE MissFirst'
  BY <1>5 DEF DropStale, Goto
<1>6. ASSUME NEW c \in Callers, Recheck(c) PROVE MissFirst'
  BY <1>6 DEF Recheck, Goto, Leaders, Led, Leading
<1>7. ASSUME NEW c \in Callers, UnlockHit(c) PROVE MissFirst'
  BY <1>7 DEF UnlockHit, Goto, Leaders, Led, Leading
<1>8. ASSUME NEW c \in Callers, Flight(c) PROVE MissFirst'
  BY <1>8 DEF Flight, Goto, Leaders, Led, Leading
<1>9. ASSUME NEW c \in Callers, UnlockFlight(c) PROVE MissFirst'
  BY <1>9 DEF UnlockFlight, Goto, Leaders, Led, Leading
<1>10. ASSUME NEW c \in Callers, Boot(c) PROVE MissFirst'
  BY <1>10 DEF Boot, Goto, Leaders, Led, Leading
<1>11. ASSUME NEW c \in Callers, Finish(c) PROVE MissFirst'
  BY <1>11 DEF Finish, Goto, Leaders, Led, Leading
<1>12. ASSUME NEW c \in Callers, Wait(c) PROVE MissFirst'
  BY <1>12 DEF Wait, Goto, Leaders, Led, Leading
<1>13. ASSUME NEW c \in Callers, Follow(c) PROVE MissFirst'
  BY <1>13 DEF Follow, Goto, Leaders, Led, Leading
<1>14. ASSUME NEW c \in Callers, Register(c) PROVE MissFirst'
  BY <1>14 DEF Register, Goto, Leaders, Led, Leading
<1>15. ASSUME NEW k \in Boots, Remove(k) \/ Invalidate(k) PROVE MissFirst'
  BY <1>15 DEF Remove, Invalidate, Uncached
<1>16. CASE UNCHANGED vars
  BY <1>16 DEF vars
<1> QED BY <1>1, <1>2, <1>3, <1>4, <1>5, <1>6, <1>7, <1>8, <1>9, <1>10, <1>11, <1>12, <1>13, <1>14, <1>15, <1>16 DEF Next, Ensure, Steps, Stopped

\* What is registered was cached, and only its removal takes it out.
LEMMA CachedStep == Inv /\ CachedOrGone /\ [Next]_vars => CachedOrGone'
<1> SUFFICES ASSUME Inv, CachedOrGone, [Next]_vars PROVE CachedOrGone' OBVIOUS
<1> USE DEF Inv, Typed, CachedOrGone, Cached, Guarded
<1> USE DEF callerVars, managerVars, tableVars
<1>1. ASSUME NEW c \in Callers, Call(c) PROVE CachedOrGone'
  BY <1>1 DEF Call, Goto
<1>2. ASSUME NEW c \in Callers, LockFor(c) PROVE CachedOrGone'
  BY <1>2 DEF LockFor, Goto
<1>3. ASSUME NEW c \in Callers, Look(c) PROVE CachedOrGone'
  BY <1>3 DEF Look, Goto
<1>4. ASSUME NEW c \in Callers, CheckAlive(c) PROVE CachedOrGone'
  BY <1>4 DEF CheckAlive, Goto
<1>5. ASSUME NEW c \in Callers, DropStale(c) PROVE CachedOrGone'
  BY <1>5 DEF DropStale, Goto
<1>6. ASSUME NEW c \in Callers, Recheck(c) PROVE CachedOrGone'
  BY <1>6 DEF Recheck, Goto
<1>7. ASSUME NEW c \in Callers, UnlockHit(c) PROVE CachedOrGone'
  BY <1>7 DEF UnlockHit, Goto
<1>8. ASSUME NEW c \in Callers, Flight(c) PROVE CachedOrGone'
  BY <1>8 DEF Flight, Goto
<1>9. ASSUME NEW c \in Callers, UnlockFlight(c) PROVE CachedOrGone'
  BY <1>9 DEF UnlockFlight, Goto
<1>10. ASSUME NEW c \in Callers, Boot(c) PROVE CachedOrGone'
  BY <1>10 DEF Boot, Goto
<1>11. ASSUME NEW c \in Callers, Finish(c) PROVE CachedOrGone'
  BY <1>11 DEF Finish, Goto, MissFirst, Leaders, Leading
<1>12. ASSUME NEW c \in Callers, Wait(c) PROVE CachedOrGone'
  BY <1>12 DEF Wait, Goto
<1>13. ASSUME NEW c \in Callers, Follow(c) PROVE CachedOrGone'
  BY <1>13 DEF Follow, Goto
<1>14. ASSUME NEW c \in Callers, Register(c) PROVE CachedOrGone'
  BY <1>14 DEF Register, Goto
<1>15. ASSUME NEW k \in Boots, Remove(k) \/ Invalidate(k) PROVE CachedOrGone'
  BY <1>15 DEF Remove, Invalidate, Uncached, Boots
<1>16. CASE UNCHANGED vars
  BY <1>16 DEF vars
<1> QED BY <1>1, <1>2, <1>3, <1>4, <1>5, <1>6, <1>7, <1>8, <1>9, <1>10, <1>11, <1>12, <1>13, <1>14, <1>15, <1>16 DEF Next, Ensure, Steps, Stopped

------------------------------------------------------------------------------
\* Who has strayed stays so.
LEMMA StrayedForGood == strayed /\ [Next]_vars => strayed'
<1> SUFFICES ASSUME strayed, [Next]_vars PROVE strayed' OBVIOUS
<1> USE DEF managerVars, Lock, Unlock, Touch
<1>1. ASSUME NEW c \in Callers, Call(c) \/ LockFor(c) \/ Look(c) \/ CheckAlive(c)
      PROVE  strayed'
  BY <1>1 DEF Call, LockFor, Look, CheckAlive
<1>2. ASSUME NEW c \in Callers, DropStale(c) \/ Recheck(c) \/ UnlockHit(c) \/ Flight(c)
      PROVE  strayed'
  BY <1>2 DEF DropStale, Recheck, UnlockHit, Flight
<1>3. ASSUME NEW c \in Callers,
             UnlockFlight(c) \/ Boot(c) \/ Finish(c) \/ Wait(c) \/ Follow(c) \/ Register(c)
      PROVE  strayed'
  BY <1>3 DEF UnlockFlight, Boot, Finish, Wait, Follow, Register
<1>4. ASSUME NEW k \in Boots, Remove(k) \/ Invalidate(k) PROVE strayed'
  BY <1>4 DEF Remove, Invalidate
<1>5. CASE UNCHANGED vars
  BY <1>5 DEF vars
<1> QED BY <1>1, <1>2, <1>3, <1>4, <1>5 DEF Next, Ensure, Steps, Stopped

OnCourse == Typed /\ (~strayed => Inv /\ CachedOrGone)

\* Until a caller strays the invariant holds in every behaviour.
THEOREM ColdInvariance == Spec => []OnCourse
<1>1. Init => OnCourse
  BY InitInv DEF OnCourse, Inv
<1>2. OnCourse /\ [Next]_vars => OnCourse'
  BY TypedStep, GuardedStep, LeadersStep, MissFirstStep, CachedStep, StrayedForGood
     DEF OnCourse, Inv
<1> QED BY <1>1, <1>2, PTL DEF Spec

\* The maps of the manager are only touched with its mutex held.
THEOREM MapsGuarded == Spec => []MutexHeld
<1>1. OnCourse => MutexHeld BY DEF OnCourse, Inv, Guarded, MutexHeld
<1> QED BY ColdInvariance, <1>1, PTL

\* Concurrent callers collapse onto a single boot: a function has one leader.
THEOREM BootsCollapse == Spec => []OneBoot
<1>1. OnCourse => OneBoot BY DEF OnCourse, Inv, Led, Leading, OneBoot, Leads
<1> QED BY ColdInvariance, <1>1, PTL

\* The boot table holds the boots that are led, no more and no less.
THEOREM BootsTracked == Spec => []BootTableExact
<1>1. OnCourse => BootTableExact
  BY DEF OnCourse, Inv, Typed, Leaders, Led, Leading, BootTableExact, Leads, Boots
<1> QED BY ColdInvariance, <1>1, PTL

\* What a boot provided and the scaler tracks is in the cache.
THEOREM TableCached == Spec => []LiveIsCached
<1>1. OnCourse => LiveIsCached BY DEF OnCourse, CachedOrGone, Cached, LiveIsCached
<1> QED BY ColdInvariance, <1>1, PTL

\* Without a liveness checker (NewManager with nil) nobody ever strays.
NeverStrays == ~strayed /\ \A c \in Callers : pc[c] # "alive"

THEOREM UncheckedNeverStrays == ~Checked /\ Spec => []~strayed
<1>1. Init => NeverStrays
  BY DEF Init, NeverStrays
<1>2. ASSUME ~Checked, Typed, NeverStrays, [Next]_vars PROVE NeverStrays'
  <2> USE DEF NeverStrays, Typed, managerVars, callerVars, Lock, Unlock, Touch, Goto
  <2>1. ASSUME NEW c \in Callers, Call(c) \/ LockFor(c) \/ CheckAlive(c) PROVE NeverStrays'
    BY <1>2, <2>1 DEF Call, LockFor, CheckAlive
  <2>2. ASSUME NEW c \in Callers, Look(c) PROVE NeverStrays'
    BY <1>2, <2>2 DEF Look
  <2>3. ASSUME NEW c \in Callers, DropStale(c) \/ Recheck(c) \/ UnlockHit(c) \/ Flight(c)
        PROVE  NeverStrays'
    <3>1. strayed' = strayed
      BY <2>3 DEF DropStale, Recheck, UnlockHit, Flight
    <3>2. \E to \in {"recheck", "unlockhit", "flight", "register", "unlock"} :
             pc' = [pc EXCEPT ![c] = to]
      <4>1. CASE DropStale(c) BY <4>1 DEF DropStale
      <4>2. CASE Recheck(c) BY <4>2 DEF Recheck
      <4>3. CASE UnlockHit(c) BY <4>3 DEF UnlockHit
      <4>4. CASE Flight(c) BY <4>4 DEF Flight
      <4> QED BY <2>3, <4>1, <4>2, <4>3, <4>4
    <3> QED BY <1>2, <3>1, <3>2
  <2>4. ASSUME NEW c \in Callers,
               UnlockFlight(c) \/ Boot(c) \/ Finish(c) \/ Wait(c) \/ Follow(c) \/ Register(c)
        PROVE  NeverStrays'
    BY <1>2, <2>4 DEF UnlockFlight, Boot, Finish, Wait, Follow, Register
  <2>5. ASSUME NEW k \in Boots, Remove(k) \/ Invalidate(k) PROVE NeverStrays'
    BY <1>2, <2>5 DEF Remove, Invalidate
  <2>6. CASE UNCHANGED vars
    BY <1>2, <2>6 DEF vars
  <2> QED BY <1>2, <2>1, <2>2, <2>3, <2>4, <2>5, <2>6 DEF Next, Ensure, Steps, Stopped
<1>3. OnCourse => Typed BY DEF OnCourse
<1>4. NeverStrays => ~strayed BY DEF NeverStrays
<1>5. CASE Checked BY <1>5
<1>6. CASE ~Checked
  <2>1. Typed /\ NeverStrays /\ [Next]_vars => NeverStrays' BY <1>2, <1>6
  <2> QED BY ColdInvariance, <1>1, <1>3, <1>4, <2>1, PTL DEF Spec
<1> QED BY <1>5, <1>6

\* The holder of the mutex unlocks what is locked, and meets nobody at the maps.
LEMMA HolderIsSafe ==
  ASSUME Guarded, NEW c \in Callers, lock = c
  PROVE  lock # Free /\ ~Races(c)
BY FreeAssumption DEF Guarded, Races

\* A step of a program on its course does not stop it.
LEMMA CrashStep ==
  ASSUME Guarded, ~crashed, [Next]_vars
  PROVE  ~crashed'
<1> USE DEF managerVars
<1>1. ASSUME NEW c \in Callers, Call(c) \/ LockFor(c) \/ CheckAlive(c) PROVE ~crashed'
  BY <1>1 DEF Call, LockFor, Lock, CheckAlive
<1>2. ASSUME NEW c \in Callers, Boot(c) \/ Wait(c) \/ Register(c) PROVE ~crashed'
  BY <1>2 DEF Boot, Wait, Register
<1>3. ASSUME NEW c \in Callers, Look(c) \/ UnlockHit(c) \/ UnlockFlight(c) \/ Finish(c) \/ Follow(c)
      PROVE  ~crashed'
  <2>1. lock = c
    BY <1>3 DEF Look, UnlockHit, UnlockFlight, Finish, Follow, Goto, Guarded, Inside
  <2>2. Unlock(c) \/ Touch(c)
    BY <1>3 DEF Look, UnlockHit, UnlockFlight, Finish, Follow
  <2> QED BY <2>1, <2>2, HolderIsSafe DEF Unlock, Touch
<1>4. ASSUME NEW c \in Callers, DropStale(c) \/ Recheck(c) \/ Flight(c) PROVE ~crashed'
  <2>1. pc[c] # "stale" BY DEF Guarded
  <2>2. lock = c /\ Touch(c)
    BY <1>4, <2>1 DEF DropStale, Recheck, Flight, Goto, Guarded, Inside
  <2> QED BY <2>2, HolderIsSafe DEF Touch
<1>5. ASSUME NEW k \in Boots, Remove(k) \/ Invalidate(k) PROVE ~crashed'
  BY <1>5 DEF Remove, Invalidate
<1>6. CASE UNCHANGED vars
  BY <1>6 DEF vars
<1> QED BY <1>1, <1>2, <1>3, <1>4, <1>5, <1>6 DEF Next, Ensure, Steps, Stopped

\* The one flaw of Ensure: the Go runtime stops the program, by an Unlock of a mutex
\* that is free or by two accesses to a map at a time, and the second look at the
\* cache does without the mutex (cold.go:62), only after a caller has met a cached
\* instance that is not live and has gone on past its own Unlock (cold.go:53-67).
THEOREM StraysAreTheCause ==
  Spec => []((crashed => strayed) /\ (~strayed => RecheckHoldsLock))
<1>1. Init => (crashed => strayed)
  BY DEF Init
<1>2. OnCourse /\ (crashed => strayed) /\ [Next]_vars => (crashed => strayed)'
  BY CrashStep, StrayedForGood DEF OnCourse, Inv
<1>3. OnCourse => (~strayed => RecheckHoldsLock)
  BY DEF OnCourse, Inv, Guarded, RecheckHoldsLock, Inside
<1> QED BY ColdInvariance, <1>1, <1>2, <1>3, PTL DEF Spec

------------------------------------------------------------------------------
(* An instance is cached once, by the leader that booted it: with a liveness *)
(* checker or without one, on the path that has lost the mutex as well.      *)

\* Boots are numbered in the order they start.
Numbered ==
    /\ told \subseteq removed /\ 0 \notin removed
    /\ \A k \in live \cup removed : k \in Nat /\ k <= boots
    /\ \A f \in Funcs : cache[f] <= boots /\ booting[f] <= boots
    /\ \A c \in Callers : inst[c] <= boots /\ ticket[c] <= boots

\* Only a caller that has missed becomes a leader, and it boots its own ticket.
Phases ==
    \A c \in Callers :
        /\ pc[c] \in {"lock", "look", "alive", "stale", "recheck", "flight"} => ~leader[c]
        /\ pc[c] \in {"boot", "bootlock", "finish"} => leader[c]
        /\ pc[c] \in {"bootlock", "finish"} => inst[c] \in {0, ticket[c]}

\* Nobody but its leader knows of an instance before the boot has ended.
Secret ==
    \A c \in Callers : Leading(c) =>
        /\ ticket[c] # 0
        /\ ticket[c] \notin live \cup removed
        /\ \A f \in Funcs : cache[f] # ticket[c]
        /\ \A d \in Callers \ {c} : /\ inst[d] # ticket[c]
                                    /\ Leading(d) => ticket[d] # ticket[c]

Fresh == Typed /\ Numbered /\ Phases /\ Secret /\ InvalidatedStaysOut

LEMMA FreshStep == Fresh /\ [Next]_vars => Numbered' /\ Phases' /\ Secret' /\ InvalidatedStaysOut'
<1> DEFINE Goal == Numbered' /\ Phases' /\ Secret' /\ InvalidatedStaysOut'
<1> SUFFICES ASSUME Fresh, [Next]_vars PROVE Goal OBVIOUS
<1> USE DEF Fresh, Typed, Numbered, Phases, Secret, Leading, InvalidatedStaysOut
<1> USE DEF callerVars, managerVars, tableVars
<1>1. ASSUME NEW c \in Callers, Call(c) PROVE Goal
  BY <1>1 DEF Call, Goto
<1>2. ASSUME NEW c \in Callers, LockFor(c) PROVE Goal
  BY <1>2 DEF LockFor, Goto
<1>3. ASSUME NEW c \in Callers, Look(c) PROVE Goal
  BY <1>3 DEF Look, Goto
<1>4. ASSUME NEW c \in Callers, CheckAlive(c) PROVE Goal
  BY <1>4 DEF CheckAlive, Goto
<1>5. ASSUME NEW c \in Callers, DropStale(c) PROVE Goal
  <2>1. \A f \in Funcs : cache'[f] \in {0, cache[f]}
    BY <1>5 DEF DropStale, Uncached
  <2>2. pc' = [pc EXCEPT ![c] = "recheck"] /\ pc[c] = "stale"
    BY <1>5 DEF DropStale, Goto
  <2>3. \A d \in Callers : /\ Leading(d)' => Leading(d)
                           /\ pc'[d] = pc[d] \/ d = c
    BY <1>5, <2>2 DEF DropStale
  <2>4. Phases' BY <1>5, <2>2 DEF DropStale
  <2>5. Numbered' BY <1>5, <2>1 DEF DropStale
  <2>6. Secret' BY <1>5, <2>1, <2>3 DEF DropStale
  <2>7. InvalidatedStaysOut' BY <1>5, <2>1 DEF DropStale
  <2> QED BY <2>4, <2>5, <2>6, <2>7
<1>6. ASSUME NEW c \in Callers, Recheck(c) PROVE Goal
  BY <1>6 DEF Recheck, Goto
<1>7. ASSUME NEW c \in Callers, UnlockHit(c) PROVE Goal
  BY <1>7 DEF UnlockHit, Goto
<1>8. ASSUME NEW c \in Callers, Flight(c) PROVE Goal
  <2>0. /\ pc' = [pc EXCEPT ![c] = "unlock"] /\ pc[c] = "flight" /\ ~leader[c]
        /\ UNCHANGED <<cache, live, removed, told, fn, inst>>
    BY <1>8 DEF Flight, Goto
  <2>1. CASE booting[fn[c]] # 0
    <3>1. /\ ticket' = [ticket EXCEPT ![c] = booting[fn[c]]]
          /\ UNCHANGED <<booting, boots, leader>>
      BY <1>8, <2>1 DEF Flight
    <3>2. \A d \in Callers : Leading(d)' => Leading(d) /\ d # c
      BY <2>0, <3>1
    <3> QED BY <2>0, <3>1, <3>2
  <2>2. CASE booting[fn[c]] = 0
    <3>1. /\ boots' = boots + 1
          /\ booting' = [booting EXCEPT ![fn[c]] = boots + 1]
          /\ ticket' = [ticket EXCEPT ![c] = boots + 1]
          /\ leader' = [leader EXCEPT ![c] = TRUE]
      BY <1>8, <2>2 DEF Flight
    <3>2. \A d \in Callers \ {c} : /\ Leading(d)' <=> Leading(d)
                                   /\ ticket'[d] = ticket[d] /\ ticket[d] < boots + 1
                                   /\ inst[d] < boots + 1
      BY <2>0, <3>1
    <3>3. Phases' BY <2>0, <3>1
    <3>8. Numbered' BY <2>0, <3>1
    <3>4. InvalidatedStaysOut' BY <2>0, <3>1
    <3>5. \A k \in live \cup removed : k # boots + 1
      BY <3>1
    <3>6. ticket'[c] = boots + 1 /\ \A f \in Funcs : cache[f] # boots + 1
      BY <3>1
    <3>7. Secret' BY <2>0, <3>1, <3>2, <3>5, <3>6
    <3> QED BY <3>3, <3>8, <3>4, <3>7
  <2> QED BY <2>1, <2>2
<1>9. ASSUME NEW c \in Callers, UnlockFlight(c) PROVE Goal
  BY <1>9 DEF UnlockFlight, Goto
<1>10. ASSUME NEW c \in Callers, Boot(c) PROVE Goal
  BY <1>10 DEF Boot, Goto
<1>11. ASSUME NEW c \in Callers, Finish(c) PROVE Goal
  BY <1>11 DEF Finish, Goto
<1>12. ASSUME NEW c \in Callers, Wait(c) PROVE Goal
  BY <1>12 DEF Wait, Goto
<1>13. ASSUME NEW c \in Callers, Follow(c) PROVE Goal
  BY <1>13 DEF Follow, Goto
<1>14. ASSUME NEW c \in Callers, Register(c) PROVE Goal
  BY <1>14 DEF Register, Goto
<1>15. ASSUME NEW k \in Boots, Remove(k) \/ Invalidate(k) PROVE Goal
  <2>1. CASE Remove(k)
    BY <2>1 DEF Remove, Boots
  <2>2. CASE Invalidate(k)
    <3>1. \A f \in Funcs : cache'[f] \in {0, cache[f]} /\ cache'[f] # k
      BY <2>2 DEF Invalidate, Uncached, Boots
    <3>2. told' = told \cup {k} /\ k \in removed
      BY <2>2 DEF Invalidate
    <3>3. InvalidatedStaysOut'
      <4> SUFFICES ASSUME NEW j \in told', NEW f \in Funcs PROVE cache'[f] # j
        OBVIOUS
      <4>1. j = k \/ (j \in told /\ cache[f] # j)
        BY <3>2
      <4>2. j # 0
        BY <3>2, <4>1
      <4> QED BY <3>1, <4>1, <4>2
    <3>4. Numbered' /\ Phases' /\ Secret'
      BY <2>2, <3>1, <3>2 DEF Invalidate
    <3> QED BY <3>3, <3>4
  <2> QED BY <1>15, <2>1, <2>2
<1>16. CASE UNCHANGED vars
  BY <1>16 DEF vars
<1> QED BY <1>1, <1>2, <1>3, <1>4, <1>5, <1>6, <1>7, <1>8, <1>9, <1>10, <1>11, <1>12, <1>13, <1>14, <1>15, <1>16 DEF Next, Ensure, Steps, Stopped

\* Before the first call no boot has a number.
LEMMA InitFresh == Init => Fresh
<1> SUFFICES ASSUME Init PROVE Fresh OBVIOUS
<1>1. Typed BY InitInv DEF Inv
<1>2. \A c \in Callers : pc[c] = "idle" BY DEF Init
<1>3. Numbered BY DEF Init, Numbered
<1>4. Phases /\ Secret BY <1>2 DEF Phases, Secret, Leading
<1>5. InvalidatedStaysOut BY DEF Init, InvalidatedStaysOut
<1> QED BY <1>1, <1>3, <1>4, <1>5 DEF Fresh

\* An instance whose removal has been reported never gets back into the cache, with
\* or without a liveness checker (cold.go:84-88, 126-139).
THEOREM RemovedStaysOut == Spec => []InvalidatedStaysOut
<1>1. Init => Fresh
  BY InitFresh
<1>2. Fresh /\ [Next]_vars => Fresh'
  BY TypedStep, FreshStep DEF Fresh
<1>3. Fresh => InvalidatedStaysOut BY DEF Fresh
<1> QED BY <1>1, <1>2, <1>3, PTL DEF Spec
------------------------------------------------------------------------------
(* The type invariant needs the bound on boots: a caller that may still      *)
(* start one has its place reserved.                                         *)

Reserved == boots + Cardinality(Undecided) <= MaxBoots

\* The parts of the type invariant that do not follow from the numbering of boots.
Shaped ==
    /\ lock \in Callers \cup {Free}
    /\ crashed \in BOOLEAN /\ strayed \in BOOLEAN
    /\ closed \subseteq 1..boots /\ 0 \notin live
    /\ \A c \in Callers : pc[c] \in {"alive", "unlockhit", "register"} => inst[c] # 0

LEMMA UndecidedFinite == IsFiniteSet(Undecided)
<1>1. Undecided \subseteq Callers BY DEF Undecided
<1> QED BY <1>1, CallersAssumption, FS_Subset

\* A call reserves a boot, a flight spends the reservation, nothing else takes one.
LEMMA ReservedStep == Typed /\ Reserved /\ [Next]_vars => Reserved'
<1> SUFFICES ASSUME Typed, Reserved, [Next]_vars PROVE Reserved' OBVIOUS
<1> USE DEF Typed, callerVars, managerVars, tableVars
<1> DEFINE Keeps == Undecided' \subseteq Undecided /\ boots' = boots
<1>1. ASSUME Keeps PROVE Reserved'
  <2>1. Cardinality(Undecided') <= Cardinality(Undecided)
    BY <1>1, UndecidedFinite, FS_Subset
  <2>2. Cardinality(Undecided) \in Nat /\ Cardinality(Undecided') \in Nat
    BY <1>1, UndecidedFinite, FS_Subset, FS_CardinalityType
  <2>3. Cardinality(Undecided)' = Cardinality(Undecided') OBVIOUS
  <2> QED BY <1>1, <2>1, <2>2, <2>3, MaxBootsAssumption DEF Reserved
<1>2. ASSUME NEW c \in Callers, Call(c) PROVE Reserved'
  <2>1. Undecided' = Undecided \cup {c} /\ c \notin Undecided /\ boots' = boots
    BY <1>2 DEF Call, Goto, Undecided
  <2>2. Cardinality(Undecided') = Cardinality(Undecided) + 1
    BY <2>1, UndecidedFinite, FS_AddElement
  <2>3. Cardinality(Undecided) \in Nat BY UndecidedFinite, FS_CardinalityType
  <2>4. boots + Cardinality(Undecided) < MaxBoots BY <1>2 DEF Call
  <2> QED BY <2>1, <2>2, <2>3, <2>4, MaxBootsAssumption DEF Reserved
<1>3. ASSUME NEW c \in Callers, Flight(c) PROVE Reserved'
  <2>1. /\ Undecided' = Undecided \ {c} /\ c \in Undecided
        /\ boots' \in {boots, boots + 1}
    BY <1>3 DEF Flight, Goto, Undecided
  <2>2. Cardinality(Undecided') = Cardinality(Undecided) - 1
    BY <2>1, UndecidedFinite, FS_RemoveElement
  <2>3. Cardinality(Undecided) \in Nat BY UndecidedFinite, FS_CardinalityType
  <2> QED BY <2>1, <2>2, <2>3, MaxBootsAssumption DEF Reserved
<1>4. ASSUME NEW c \in Callers, LockFor(c) PROVE Keeps
  BY <1>4 DEF LockFor, Goto, Undecided
<1>5. ASSUME NEW c \in Callers, Look(c) PROVE Keeps
  BY <1>5 DEF Look, Goto, Undecided
<1>6. ASSUME NEW c \in Callers, CheckAlive(c) PROVE Keeps
  BY <1>6 DEF CheckAlive, Goto, Undecided
<1>7. ASSUME NEW c \in Callers, DropStale(c) PROVE Keeps
  BY <1>7 DEF DropStale, Goto, Undecided
<1>8. ASSUME NEW c \in Callers, Recheck(c) PROVE Keeps
  BY <1>8 DEF Recheck, Goto, Undecided
<1>9. ASSUME NEW c \in Callers, UnlockHit(c) PROVE Keeps
  BY <1>9 DEF UnlockHit, Goto, Undecided
<1>10. ASSUME NEW c \in Callers, UnlockFlight(c) PROVE Keeps
  BY <1>10 DEF UnlockFlight, Goto, Undecided
<1>11. ASSUME NEW c \in Callers, Boot(c) PROVE Keeps
  BY <1>11 DEF Boot, Goto, Undecided
<1>12. ASSUME NEW c \in Callers, Finish(c) PROVE Keeps
  BY <1>12 DEF Finish, Goto, Undecided
<1>13. ASSUME NEW c \in Callers, Wait(c) PROVE Keeps
  BY <1>13 DEF Wait, Goto, Undecided
<1>14. ASSUME NEW c \in Callers, Follow(c) PROVE Keeps
  BY <1>14 DEF Follow, Goto, Undecided
<1>15. ASSUME NEW c \in Callers, Register(c) PROVE Keeps
  BY <1>15 DEF Register, Goto, Undecided
<1>16. ASSUME NEW k \in Boots, Remove(k) \/ Invalidate(k) PROVE Keeps
  BY <1>16 DEF Remove, Invalidate, Undecided
<1>17. CASE UNCHANGED vars
  <2>1. Keeps BY <1>17 DEF vars, Undecided
  <2> QED BY <2>1, <1>1
<1> HIDE DEF Keeps
<1> QED BY <1>1, <1>2, <1>3, <1>4, <1>5, <1>6, <1>7, <1>8, <1>9, <1>10, <1>11, <1>12, <1>13, <1>14, <1>15, <1>16, <1>17 DEF Next, Ensure, Steps, Stopped

\* What a caller registers and what a leader closes carries a number.
LEMMA ShapedStep == Fresh /\ Shaped /\ [Next]_vars => Shaped'
<1> SUFFICES ASSUME Fresh, Shaped, [Next]_vars PROVE Shaped' OBVIOUS
<1> USE DEF Shaped, Fresh, Typed, callerVars, managerVars, tableVars, Lock, Unlock, Touch
<1>0. \A c \in Callers : Races(c) \in BOOLEAN BY DEF Races
<1>1. ASSUME NEW c \in Callers, Call(c) PROVE Shaped'
  BY <1>1 DEF Call, Goto
<1>2. ASSUME NEW c \in Callers, LockFor(c) PROVE Shaped'
  BY <1>2 DEF LockFor, Goto
<1>3. ASSUME NEW c \in Callers, Look(c) PROVE Shaped'
  BY <1>0, <1>3 DEF Look, Goto
<1>4. ASSUME NEW c \in Callers, CheckAlive(c) PROVE Shaped'
  BY <1>4 DEF CheckAlive, Goto
<1>5. ASSUME NEW c \in Callers, DropStale(c) PROVE Shaped'
  BY <1>0, <1>5 DEF DropStale, Goto
<1>6. ASSUME NEW c \in Callers, Recheck(c) PROVE Shaped'
  BY <1>0, <1>6 DEF Recheck, Goto
<1>7. ASSUME NEW c \in Callers, UnlockHit(c) PROVE Shaped'
  BY <1>7 DEF UnlockHit, Goto
<1>8. ASSUME NEW c \in Callers, Flight(c) PROVE Shaped'
  <2>1. pc' = [pc EXCEPT ![c] = "unlock"] /\ UNCHANGED <<closed, inst, live>>
    BY <1>8 DEF Flight, Goto
  <2>2. boots' \in {boots, boots + 1}
    BY <1>8 DEF Flight
  <2>3. lock' = lock /\ strayed' = strayed /\ crashed' \in BOOLEAN
    BY <1>0, <1>8 DEF Flight
  <2> QED BY <2>1, <2>2, <2>3
<1>9. ASSUME NEW c \in Callers, UnlockFlight(c) PROVE Shaped'
  BY <1>9 DEF UnlockFlight, Goto
<1>10. ASSUME NEW c \in Callers, Boot(c) PROVE Shaped'
  BY <1>10 DEF Boot, Goto
<1>11. ASSUME NEW c \in Callers, Finish(c) PROVE Shaped'
  <2>1. /\ pc[c] = "finish" /\ closed' = closed \cup {ticket[c]}
        /\ pc' = [pc EXCEPT ![c] = IF inst[c] = 0 THEN "idle" ELSE "register"]
        /\ UNCHANGED <<boots, live, inst>>
    BY <1>11 DEF Finish, Goto
  <2>2. ticket[c] \in 1..boots
    <3>1. Leading(c) BY <2>1 DEF Phases, Leading
    <3>2. ticket[c] # 0 BY <3>1 DEF Secret
    <3>3. ticket[c] <= boots BY DEF Numbered
    <3> QED BY <3>2, <3>3
  <2>3. lock' = Free /\ strayed' = strayed /\ crashed' \in BOOLEAN
    BY <1>0, <1>11 DEF Finish
  <2> QED BY <2>1, <2>2, <2>3
<1>12. ASSUME NEW c \in Callers, Wait(c) PROVE Shaped'
  BY <1>12 DEF Wait, Goto
<1>13. ASSUME NEW c \in Callers, Follow(c) PROVE Shaped'
  BY <1>13 DEF Follow, Goto
<1>14. ASSUME NEW c \in Callers, Register(c) PROVE Shaped'
  BY <1>14 DEF Register, Goto
<1>15. ASSUME NEW k \in Boots, Remove(k) \/ Invalidate(k) PROVE Shaped'
  BY <1>15 DEF Remove, Invalidate
<1>16. CASE UNCHANGED vars
  BY <1>16 DEF vars
<1> QED BY <1>1, <1>2, <1>3, <1>4, <1>5, <1>6, <1>7, <1>8, <1>9, <1>10, <1>11, <1>12, <1>13, <1>14, <1>15, <1>16 DEF Next, Ensure, Steps, Stopped

\* No caller starts more boots than are left to it: the variables keep their types,
\* and a number stands for a boot, its channel and its instance throughout.
THEOREM TypeCorrect == Spec => []TypeOK
<1> DEFINE IInv == Fresh /\ Shaped /\ Reserved
<1>1. Init => IInv
  <2> SUFFICES ASSUME Init PROVE IInv OBVIOUS
  <2>1. Undecided = {} BY DEF Init, Undecided
  <2>2. Reserved BY <2>1, FS_EmptySet, MaxBootsAssumption DEF Init, Reserved
  <2>3. Shaped BY DEF Init, Shaped
  <2> QED BY <2>2, <2>3, InitFresh
<1>2. IInv /\ [Next]_vars => IInv'
  BY TypedStep, FreshStep, ShapedStep, ReservedStep DEF Fresh
<1>3. IInv => TypeOK
  <2> SUFFICES ASSUME IInv PROVE TypeOK OBVIOUS
  <2>1. boots \in 0..MaxBoots
    <3>1. Cardinality(Undecided) \in Nat BY UndecidedFinite, FS_CardinalityType
    <3> QED BY <3>1, MaxBootsAssumption DEF Reserved, Fresh, Typed
  <2> USE <2>1, MaxBootsAssumption DEF Fresh, Typed, Numbered
  <2>2. cache \in [Funcs -> 0..MaxBoots] /\ booting \in [Funcs -> 0..MaxBoots] OBVIOUS
  <2>3. inst \in [Callers -> 0..MaxBoots] /\ ticket \in [Callers -> 0..MaxBoots] OBVIOUS
  <2>4. closed \subseteq Boots BY DEF Shaped, Boots
  <2>5. live \subseteq Boots /\ removed \subseteq Boots BY DEF Shaped, Boots
  <2> QED BY <2>1, <2>2, <2>3, <2>4, <2>5 DEF Shaped, TypeOK
<1> QED BY <1>1, <1>2, <1>3, PTL DEF Spec
==============================================================================
