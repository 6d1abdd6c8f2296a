-------------------------------- MODULE Engine --------------------------------
(***************************************************************************)
(* The life of the daemon: Start and Stop of internal/engine, the HTTP     *)
(* server between them, and Trigger.Handle, which every request runs.      *)
(*                                                                         *)
(* The call queue is taken at its word: FifoQueue, which CallQueue is      *)
(* shown to implement.  The throttle says yes or no (Throttle), a worker   *)
(* hands on one call at a time (Dispatcher, Executor), and RemoveAll of a  *)
(* function ends (Scaler).  Requests are known by their event.             *)
(***************************************************************************)
EXTENDS Integers, Sequences, FiniteSets

CONSTANTS Requests,    \* HTTP requests to /api/invoke, each with its event
          Names,       \* function names a request may ask for
          NameOf,      \* the name each request asks for
          Registered   \* the names RegisterBuiltins has registered

ASSUME NameOfAssumption == NameOf \in [Requests -> Names]
ASSUME RegisteredAssumption == Registered \subseteq Names

VARIABLES main,         \* where Start and Stop are
          goroutines,   \* what Start has launched and has not returned
          cancelled,    \* the context of Run and scaleLoop is done
          gaveUp,       \* Shutdown returned because its own context was done
          pc,           \* where the handler of each request is
          answer,       \* what each request was told
          buckets,      \* Throttle.buckets: names that have one
          waiting, closed, batch,   \* the call queue, as in FifoQueue
          fate          \* of each request's call: what the workers made of it

stopVars == <<main, goroutines, cancelled, gaveUp>>
queueVars == <<waiting, closed, batch>>
requestVars == <<pc, answer, buckets>>
vars == <<stopVars, queueVars, requestVars, fate>>

Queue == INSTANCE FifoQueue
    WITH Calls <- Requests, BatchSizes <- {1}, pending <- waiting, shut <- closed

TypeOK ==
    /\ main \in {"start", "listen", "failed", "serving", "shutdown", "waiting",
                 "remove", "close", "stopped"}
    /\ goroutines \subseteq {"run", "scale", "serve"}
    /\ cancelled \in BOOLEAN /\ gaveUp \in BOOLEAN
    /\ pc \in [Requests -> {"out", "lookup", "allow", "enqueue", "reply", "done"}]
    /\ answer \in [Requests -> {"none", "gone", "unknown", "throttled", "closed", "queued"}]
    /\ buckets \subseteq Names
    /\ waiting \in Seq(Requests) /\ closed \in BOOLEAN
    /\ fate \in [Requests -> {"none", "dispatched", "dropped"}]
    /\ \A r \in Requests : answer[r] # "none" <=> pc[r] = "done"

Init ==
    /\ main = "start" /\ goroutines = {}
    /\ cancelled = FALSE /\ gaveUp = FALSE
    /\ pc = [r \in Requests |-> "out"] /\ answer = [r \in Requests |-> "none"]
    /\ buckets = {}
    /\ Queue!Init
    /\ fate = [r \in Requests |-> "none"]

------------------------------------------------------------------------------
(* Start and Stop.                                                         *)

At(from, to) == main = from /\ main' = to

\* The executor and the scale loop run before it is known whether there is a port.
Launch ==
    /\ At("start", "listen") /\ goroutines' = {"run", "scale"}
    /\ UNCHANGED <<cancelled, gaveUp, queueVars, requestVars, fate>>

\* Mutant: the error is returned and nothing else.
ListenFailsQuietly ==
    /\ At("listen", "failed")
    /\ UNCHANGED <<goroutines, cancelled, gaveUp, queueVars, requestVars, fate>>

ListenFails ==
    /\ At("listen", "failed") /\ cancelled' = TRUE
    /\ UNCHANGED <<goroutines, gaveUp, queueVars, requestVars, fate>>

Listen ==
    /\ At("listen", "serving") /\ goroutines' = goroutines \cup {"serve"}
    /\ UNCHANGED <<cancelled, gaveUp, queueVars, requestVars, fate>>

\* A signal ends the context of main, and with it the one of the goroutines, also
\* while Start is under way.
Signal ==
    /\ main \in {"start", "listen", "serving"} /\ ~cancelled
    /\ cancelled' = TRUE
    /\ UNCHANGED <<main, goroutines, gaveUp, queueVars, requestVars, fate>>

\* Stop, which main calls after a signal and others when they like, cancels first.
Stop ==
    /\ At("serving", "shutdown") /\ cancelled' = TRUE
    /\ UNCHANGED <<goroutines, gaveUp, queueVars, requestVars, fate>>

\* Mutant: the queue is closed before the server is shut down.
ShutdownAfterClose ==
    /\ At("shutdown", "waiting") /\ goroutines' = goroutines \ {"serve"}
    /\ Queue!Shut
    /\ UNCHANGED <<cancelled, gaveUp, requestVars, fate>>

\* Shutdown closes the listener and Serve returns. Active handlers go on.
Shutdown ==
    /\ At("shutdown", "waiting") /\ goroutines' = goroutines \ {"serve"}
    /\ UNCHANGED <<cancelled, gaveUp, queueVars, requestVars, fate>>

Active == {r \in Requests : pc[r] \notin {"out", "done"}}

\* It returns when no handler is active, or when the context of Stop is done.
ShutdownReturns ==
    /\ At("waiting", "remove")
    /\ gaveUp' = (Active # {})
    /\ UNCHANGED <<goroutines, cancelled, queueVars, requestVars, fate>>

RemoveAll ==
    /\ At("remove", "close")
    /\ UNCHANGED <<goroutines, cancelled, gaveUp, queueVars, requestVars, fate>>

\* Mutant: Stop leaves the queue open.
StopWithoutClose ==
    /\ At("close", "stopped")
    /\ UNCHANGED <<goroutines, cancelled, gaveUp, queueVars, requestVars, fate>>

CloseQueue ==
    /\ At("close", "stopped") /\ Queue!Shut
    /\ UNCHANGED <<goroutines, cancelled, gaveUp, requestVars, fate>>

------------------------------------------------------------------------------
(* What Start has launched.                                                *)

\* Mutant: a second call is taken out with the first and forgotten.
TakeTwoCalls ==
    /\ "run" \in goroutines /\ waiting # <<>>
    /\ Queue!Take(2)
    /\ fate' = [fate EXCEPT ![Head(waiting)] = IF cancelled THEN "dropped" ELSE "dispatched"]
    /\ UNCHANGED <<stopVars, requestVars>>

\* A worker takes the next call; what it takes after the cancellation it drops.
TakeCall ==
    /\ "run" \in goroutines /\ waiting # <<>>
    /\ Queue!Take(1)
    /\ fate' = [fate EXCEPT ![Head(waiting)] = IF cancelled THEN "dropped" ELSE "dispatched"]
    /\ UNCHANGED <<stopVars, requestVars>>

\* Run and scaleLoop return once the context is done.
GoroutineEnds(g) ==
    /\ g \in {"run", "scale"} /\ g \in goroutines /\ cancelled
    /\ goroutines' = goroutines \ {g}
    /\ UNCHANGED <<main, cancelled, gaveUp, queueVars, requestVars, fate>>

------------------------------------------------------------------------------
(* Trigger.Handle, step by step.                                           *)

Goto(r, from, to) ==
    /\ pc[r] = from /\ pc' = [pc EXCEPT ![r] = to]
    /\ UNCHANGED answer

Reply(r, from, what) ==
    /\ pc[r] = from /\ pc' = [pc EXCEPT ![r] = "done"]
    /\ answer' = [answer EXCEPT ![r] = what]

\* Requests come in while the listener is open, and over connections that were
\* kept alive until Shutdown has closed them.
Arrive(r) ==
    /\ "serve" \in goroutines \/ main = "waiting"
    /\ Goto(r, "out", "lookup")
    /\ UNCHANGED <<stopVars, queueVars, buckets, fate>>

\* Mutant: the throttle is asked about any name.
LookupAfterThrottle(r) ==
    /\ \/ Reply(r, "lookup", "gone") /\ UNCHANGED buckets
       \/ /\ buckets' = buckets \cup {NameOf[r]}
          /\ IF NameOf[r] \in Registered THEN Goto(r, "lookup", "allow")
                                         ELSE Reply(r, "lookup", "unknown")
    /\ UNCHANGED <<stopVars, queueVars, fate>>

\* The caller may have gone; then the name is looked up.
Lookup(r) ==
    /\ \/ Reply(r, "lookup", "gone")
       \/ IF NameOf[r] \in Registered THEN Goto(r, "lookup", "allow")
                                      ELSE Reply(r, "lookup", "unknown")
    /\ UNCHANGED <<stopVars, queueVars, buckets, fate>>

Allow(r) ==
    /\ Goto(r, "allow", "enqueue") \/ Reply(r, "allow", "throttled")
    /\ buckets' = buckets \cup {NameOf[r]}
    /\ UNCHANGED <<stopVars, queueVars, fate>>

\* Mutant: the error of the queue is ignored.
EnqueueUnchecked(r) ==
    /\ Goto(r, "enqueue", "reply")
    /\ IF closed THEN UNCHANGED queueVars ELSE Queue!Put(r)
    /\ UNCHANGED <<stopVars, buckets, fate>>

Enqueue(r) ==
    /\ IF closed THEN Reply(r, "enqueue", "closed") /\ UNCHANGED queueVars
                 ELSE Goto(r, "enqueue", "reply") /\ Queue!Put(r)
    /\ UNCHANGED <<stopVars, buckets, fate>>

\* Mutant: the handler returns without an answer.
AcceptedSilently(r) ==
    /\ pc[r] = "reply" /\ pc' = [pc EXCEPT ![r] = "done"]
    /\ UNCHANGED <<stopVars, queueVars, answer, buckets, fate>>

\* The call is with the workers before its caller is told so.
Accepted(r) ==
    /\ Reply(r, "reply", "queued")
    /\ UNCHANGED <<stopVars, queueVars, buckets, fate>>

Handle(r) == Lookup(r) \/ Allow(r) \/ Enqueue(r) \/ Accepted(r)

------------------------------------------------------------------------------
\* What Start and Stop do by themselves, once called.
Main ==
    \/ Launch \/ ListenFails \/ Listen
    \/ Shutdown \/ ShutdownReturns \/ RemoveAll \/ CloseQueue

\* The daemon has ended and no request is under way.
Ended ==
    /\ main \in {"failed", "stopped"} /\ goroutines = {} /\ Active = {}
    /\ UNCHANGED vars

Next ==
    \/ Main \/ Signal \/ Stop
    \/ TakeCall \/ \E g \in goroutines : GoroutineEnds(g)
    \/ \E r \in Requests : Arrive(r) \/ Handle(r)
    \/ Ended

Spec == Init /\ [][Next]_vars

\* Goroutines run, Shutdown waits no longer than its context lets it, and main calls
\* Stop once its context is done. Nobody is obliged to send a request or a signal.
FairSpec ==
    /\ Spec
    /\ WF_vars(Main) /\ WF_vars(cancelled /\ Stop) /\ WF_vars(TakeCall)
    /\ \A g \in {"run", "scale"} : WF_vars(GoroutineEnds(g))
    /\ \A r \in Requests : WF_vars(Handle(r))

------------------------------------------------------------------------------
HowOften(r) == Cardinality({i \in DOMAIN waiting : waiting[i] = r})

\* A caller that is told "queued" has its call in the queue or handed out, once;
\* a caller that is told anything else has none (trigger.go:60-65).
ToldTheTruth ==
    \A r \in Requests :
        HowOften(r) + (IF fate[r] = "none" THEN 0 ELSE 1)
            = IF pc[r] = "reply" \/ answer[r] = "queued" THEN 1 ELSE 0

\* Stop turns no request away that the server has let in, unless it ran out of time:
\* the queue is closed only after the last handler (engine.go:141-148).
TurnedAwayOnlyByTimeout == (\E r \in Requests : answer[r] = "closed") => gaveUp

\* The throttle keeps a bucket for ever, so there must be none for the names that
\* callers make up (trigger.go:38-50, throttle.go:33-37).
BucketsBounded == buckets \subseteq Registered

\* After Stop has returned nothing gets into the queue any more, although handlers
\* that Shutdown did not wait for may be under way (engine.go:141-149).
QuietAfterStop == [][main = "stopped" => Len(waiting') <= Len(waiting)]_vars

\* A failed Start, a Stop and a signal, whenever it comes, wind everything up: no
\* goroutine is left behind (engine.go:101-111, 134-149, main.go:40-53).
WindsUp ==
    main = "failed" \/ cancelled ~>
        (main \in {"failed", "stopped"} /\ goroutines = {})

\* A call that was accepted is dispatched, unless the daemon is told to stop.
AcceptedIsDispatched ==
    \A r \in Requests : answer[r] = "queued" ~> (fate[r] = "dispatched" \/ cancelled)
==============================================================================
