----------------------------- MODULE FinalWait -----------------------------
(***************************************************************************)
(* The end of a run: the finalwait.Waiter, the /metrics handler that       *)
(* counts responses for it, the HTTP server that is drained or closed, and *)
(* the part of cli.Run that drives them once the workload has exited.      *)
(*                                                                         *)
(* Three kinds of goroutine interleave.  The runtime goroutine (main)      *)
(* freezes the snapshot, waits and shuts the server down.  Each scrape r   *)
(* in Requests is one handler goroutine.  The environment sends a          *)
(* termination signal and lets timers elapse.  A step is what happens      *)
(* under one lock or between two of them.                                  *)
(***************************************************************************)
EXTENDS Integers, FiniteSets

CONSTANTS
  Requests,          \* the scrapes that may arrive
  Concurrent,        \* limits.concurrent_scrapes, the Limiter's capacity
  RequiredScrapes    \* final_wait.required_scrapes

ASSUME FinalWaitAssumption ==
  /\ IsFiniteSet(Requests)
  /\ Concurrent \in Nat \ {0}
  /\ RequiredScrapes \in Nat \ {0}

VARIABLES
  mode,          \* Config.Mode
  active,        \* the generation SnapshotSource.Active returns
  terminating,   \* terminationContext is cancelled
  elapsed,       \* the timer of WaitTransition has fired
  main,          \* where cli.Run stands
  state,         \* lifecycle.Machine
  generation,    \* Waiter.generation, 0 before finalwait.New
  started, waiting, completed, threshold,  \* Waiter; waiting is its active flag
  reason,        \* the Reason, "none" until decided
  attached,      \* Handler.waiter # nil
  limiter,       \* the requests that hold a Limiter slot
  inflight,      \* Handler.inflight
  draining,      \* Handler.draining
  drained,       \* Handler.drained is closed
  listening,     \* the listener accepts connections
  pc,            \* where each request stands
  seen,          \* the generation its response carries
  outcome,       \* of Prepare and Write: "failure" is any Outcome but Success
  final,         \* its FinalResponse: Completed and Counted
  cut,           \* requests whose connection the server closed on them
  gauge          \* metricshell_final_wait_completed_scrapes

waiterVars == <<generation, started, waiting, completed, threshold>>
handlerVars == <<attached, limiter, inflight, draining, drained>>
requestVars == <<pc, seen, outcome, final>>
vars == <<mode, active, terminating, elapsed, main, state, waiterVars, reason, handlerVars,
          listening, requestVars, cut, gauge>>

Modes == {"immediate", "duration", "scrapes"}
Reasons ==
  {"none", "immediate", "duration_elapsed", "required_scrapes", "timeout", "external_termination"}
NotCounted == [completed |-> 0, counted |-> FALSE]

\* Handlers that were accepted and have not run their deferred finishMetric.
InHandler == {"accepted", "writing", "written", "observing", "finishing"}

\* Requests the HTTP server still owes an answer: from the accepted
\* connection to the flush after the handler returned.
Unanswered == InHandler \cup {"acquired", "releasing", "flushing"}

Init ==
  /\ mode \in Modes
  /\ active = 1
  /\ terminating = FALSE
  /\ elapsed = FALSE
  /\ main = "finalizing"
  /\ state = "finalizing"
  /\ generation = 0
  /\ started = FALSE
  /\ waiting = FALSE
  /\ completed = 0
  /\ threshold = FALSE
  /\ reason = "none"
  /\ attached = FALSE
  /\ limiter = {}
  /\ inflight = 0
  /\ draining = FALSE
  /\ drained = FALSE
  /\ listening = TRUE
  /\ pc = [r \in Requests |-> "idle"]
  /\ seen = [r \in Requests |-> 0]
  /\ outcome = [r \in Requests |-> "none"]
  /\ final = [r \in Requests |-> NotCounted]
  /\ cut = {}
  /\ gauge = 0

----------------------------------------------------------------------------
(* The environment *)

\* A candidate that was admitted in time is accepted before the freeze.
LastInstall ==
  /\ main = "finalizing"
  /\ active = 1
  /\ active' = 2
  /\ UNCHANGED <<mode, terminating, elapsed, main, state, waiterVars, reason, handlerVars,
                 listening, requestVars, cut, gauge>>

Terminate ==
  /\ ~terminating
  /\ main # "exited"
  /\ terminating' = TRUE
  /\ UNCHANGED <<mode, active, elapsed, main, state, waiterVars, reason, handlerVars,
                 listening, requestVars, cut, gauge>>

\* Variant: only the duration mode arms a timer.
ElapseDurationOnly ==
  /\ main = "waiting"
  /\ mode = "duration"
  /\ ~elapsed
  /\ elapsed' = TRUE
  /\ UNCHANGED <<mode, active, terminating, main, state, waiterVars, reason, handlerVars,
                 listening, requestVars, cut, gauge>>

\* The timer is armed when the select of WaitTransition is reached.
Elapse ==
  /\ main = "waiting"
  /\ mode # "immediate"
  /\ ~elapsed
  /\ elapsed' = TRUE
  /\ UNCHANGED <<mode, active, terminating, main, state, waiterVars, reason, handlerVars,
                 listening, requestVars, cut, gauge>>

----------------------------------------------------------------------------
(* Handler.serveMetrics *)

\* net/http accepts the connection; Limiter.Acquire never waits.
Arrive(r) ==
  /\ pc[r] = "idle"
  /\ listening
  /\ main # "exited"
  /\ IF Cardinality(limiter) < Concurrent
       THEN /\ limiter' = limiter \cup {r}
            /\ pc' = [pc EXCEPT ![r] = "acquired"]
       ELSE /\ pc' = [pc EXCEPT ![r] = "flushing"]
            /\ UNCHANGED limiter
  /\ UNCHANGED <<mode, active, terminating, elapsed, main, state, waiterVars, reason, attached,
                 inflight, draining, drained, listening, seen, outcome, final, cut, gauge>>

AcceptMetric(r) ==
  /\ pc[r] = "acquired"
  /\ inflight' = IF draining THEN inflight ELSE inflight + 1
  /\ pc' = [pc EXCEPT ![r] = IF draining THEN "releasing" ELSE "accepted"]
  /\ UNCHANGED <<mode, active, terminating, elapsed, main, state, waiterVars, reason, attached,
                 limiter, draining, drained, listening, seen, outcome, final, cut, gauge>>

\* SnapshotSource.Active and Prepare: the response is built from one
\* generation, and fails when it cannot be encoded within response_bytes.
PrepareResponse(r) ==
  /\ pc[r] = "accepted"
  /\ seen' = [seen EXCEPT ![r] = active]
  /\ \E o \in {"none", "failure"} :
       /\ outcome' = [outcome EXCEPT ![r] = o]
       /\ pc' = [pc EXCEPT ![r] = IF o = "none" THEN "writing" ELSE "written"]
  /\ UNCHANGED <<mode, active, terminating, elapsed, main, state, waiterVars, reason, handlerVars,
                 listening, final, cut, gauge>>

\* Write: a disconnected or slow client makes it fail.  Success says that
\* the body was handed to net/http, which may still buffer its tail.
WriteResponse(r) ==
  /\ pc[r] = "writing"
  /\ \E o \in {"success", "failure"} : outcome' = [outcome EXCEPT ![r] = o]
  /\ pc' = [pc EXCEPT ![r] = "written"]
  /\ UNCHANGED <<mode, active, terminating, elapsed, main, state, waiterVars, reason, handlerVars,
                 listening, seen, final, cut, gauge>>

\* Variant: Waiter.Complete does not saturate.
CountsBeyondRequired(r) ==
  waiting /\ mode = "scrapes" /\ seen[r] = generation

\* The condition under which Waiter.Complete counts the response.
Counts(r) ==
  waiting /\ mode = "scrapes" /\ seen[r] = generation /\ completed < RequiredScrapes

\* Handler.completeFinal and, inside its lock, Waiter.Complete or State.
CompleteFinal(r) ==
  /\ pc[r] = "written"
  /\ LET counted == attached /\ outcome[r] = "success" /\ Counts(r)
         total   == IF counted THEN completed + 1 ELSE completed
         last    == counted /\ total = RequiredScrapes
     IN /\ completed' = total
        /\ threshold' = (threshold \/ last)
        /\ draining' = (draining \/ last)
        /\ final' = [final EXCEPT ![r] = [completed |-> total, counted |-> counted]]
        /\ pc' = [pc EXCEPT ![r] = IF attached /\ started THEN "observing" ELSE "finishing"]
  /\ UNCHANGED <<mode, active, terminating, elapsed, main, state, generation, started, waiting,
                 reason, attached, limiter, inflight, drained, listening, seen, outcome, cut, gauge>>

\* observeFinalResponse runs after the lock was released.
ObserveFinal(r) ==
  /\ pc[r] = "observing"
  /\ gauge' = IF final[r].counted THEN final[r].completed ELSE gauge
  /\ pc' = [pc EXCEPT ![r] = "finishing"]
  /\ UNCHANGED <<mode, active, terminating, elapsed, main, state, waiterVars, reason, handlerVars,
                 listening, seen, outcome, final, cut>>

FinishMetric(r) ==
  /\ pc[r] = "finishing"
  /\ inflight' = inflight - 1
  /\ drained' = (drained \/ (draining /\ inflight' = 0))
  /\ pc' = [pc EXCEPT ![r] = "releasing"]
  /\ UNCHANGED <<mode, active, terminating, elapsed, main, state, waiterVars, reason, attached,
                 limiter, draining, listening, seen, outcome, final, cut, gauge>>

ReleaseLimiter(r) ==
  /\ pc[r] = "releasing"
  /\ limiter' = limiter \ {r}
  /\ pc' = [pc EXCEPT ![r] = "flushing"]
  /\ UNCHANGED <<mode, active, terminating, elapsed, main, state, waiterVars, reason, attached,
                 inflight, draining, drained, listening, seen, outcome, final, cut, gauge>>

\* net/http flushes what it buffered once the handler has returned.
Flush(r) ==
  /\ pc[r] = "flushing"
  /\ pc' = [pc EXCEPT ![r] = "answered"]
  /\ UNCHANGED <<mode, active, terminating, elapsed, main, state, waiterVars, reason, handlerVars,
                 listening, seen, outcome, final, cut, gauge>>

----------------------------------------------------------------------------
(* cli.Run after workload.Run returned, and Waiter.WaitTransition *)

\* Core.CloseAndFreeze, then finalwait.New with the frozen generation.
FreezeSnapshot ==
  /\ main = "finalizing"
  /\ generation' = active
  /\ main' = IF mode = "immediate" THEN "attached" ELSE "frozen"
  /\ UNCHANGED <<mode, active, terminating, elapsed, state, started, waiting, completed, threshold,
                 reason, handlerVars, listening, requestVars, cut, gauge>>

SetFinalWait ==
  /\ main = "frozen"
  /\ attached' = TRUE
  /\ main' = "attached"
  /\ UNCHANGED <<mode, active, terminating, elapsed, state, waiterVars, reason, limiter, inflight,
                 draining, drained, listening, requestVars, cut, gauge>>

\* The locked prefix of WaitTransition with the transition callback.  The
\* immediate mode calls Wait, which has no transition.
Activate ==
  /\ main = "attached"
  /\ started' = TRUE
  /\ waiting' = TRUE
  /\ state' = IF mode = "immediate" THEN state ELSE "final_wait"
  /\ gauge' = 0
  /\ main' = "entered"
  /\ UNCHANGED <<mode, active, terminating, elapsed, generation, completed, threshold, reason,
                 handlerVars, listening, requestVars, cut>>

mainOnly == <<mode, active, terminating, elapsed, state, waiterVars, handlerVars, listening,
              requestVars, cut, gauge>>

\* ctx.Err before the select.
EnterSelect ==
  /\ main = "entered"
  /\ reason' = IF terminating THEN "external_termination"
               ELSE IF mode = "immediate" THEN "immediate"
               ELSE "none"
  /\ main' = IF reason' = "none" THEN "waiting" ELSE "decided"
  /\ UNCHANGED mainOnly

\* The select takes any channel that is ready.
WakeTerminated ==
  /\ main = "waiting"
  /\ terminating
  /\ reason' = "external_termination"
  /\ main' = "decided"
  /\ UNCHANGED mainOnly

WakeThreshold ==
  /\ main = "waiting"
  /\ mode = "scrapes"
  /\ threshold
  /\ main' = "threshold"
  /\ UNCHANGED <<reason, mainOnly>>

WakeTimer ==
  /\ main = "waiting"
  /\ elapsed
  /\ main' = "timer"
  /\ UNCHANGED <<reason, mainOnly>>

\* Variant: the context is not looked at again.
CheckThresholdOnly ==
  /\ main = "threshold"
  /\ reason' = "required_scrapes"
  /\ main' = "decided"
  /\ UNCHANGED mainOnly

CheckThreshold ==
  /\ main = "threshold"
  /\ reason' = IF terminating THEN "external_termination" ELSE "required_scrapes"
  /\ main' = "decided"
  /\ UNCHANGED mainOnly

CheckTimer ==
  /\ main = "timer"
  /\ reason' = IF terminating THEN "external_termination"
               ELSE IF mode = "duration" THEN "duration_elapsed"
               ELSE "none"
  /\ main' = IF reason' = "none" THEN "polling" ELSE "decided"
  /\ UNCHANGED mainOnly

PollThreshold ==
  /\ main = "polling"
  /\ reason' = IF threshold THEN "required_scrapes" ELSE "timeout"
  /\ main' = "decided"
  /\ UNCHANGED mainOnly

\* The locked suffix of WaitTransition.
Deactivate ==
  /\ main = "decided"
  /\ waiting' = FALSE
  /\ main' = "inactive"
  /\ UNCHANGED <<mode, active, terminating, elapsed, state, generation, started, completed,
                 threshold, reason, handlerVars, listening, requestVars, cut, gauge>>

\* completeFinalWaitObservability; no response is counted any more.
CompleteObservability ==
  /\ main = "inactive"
  /\ gauge' = completed
  /\ main' = IF mode = "immediate" THEN "leaving"
             ELSE IF reason = "required_scrapes" THEN "drain"
             ELSE IF reason = "external_termination" THEN "closing"
             ELSE "leaving"
  /\ UNCHANGED <<mode, active, terminating, elapsed, state, waiterVars, reason, handlerVars,
                 listening, requestVars, cut>>

StartDrain ==
  /\ main = "drain"
  /\ draining' = TRUE
  /\ drained' = (drained \/ inflight = 0)
  /\ main' = "draining"
  /\ UNCHANGED <<mode, active, terminating, elapsed, state, waiterVars, reason, attached, limiter,
                 inflight, listening, requestVars, cut, gauge>>

\* Drain returns true and Server.Shutdown closes the listener.
DrainCompleted ==
  /\ main = "draining"
  /\ drained
  /\ listening' = FALSE
  /\ main' = "shutdown"
  /\ UNCHANGED <<mode, active, terminating, elapsed, state, waiterVars, reason, handlerVars,
                 requestVars, cut, gauge>>

\* The completion grace ends during the drain or during the shutdown.
GraceOver ==
  /\ main \in {"draining", "shutdown"}
  /\ main' = "closing"
  /\ UNCHANGED <<reason, mainOnly>>

NothingUnanswered == \A r \in Requests : pc[r] \notin Unanswered

ShutdownCompleted ==
  /\ main = "shutdown"
  /\ NothingUnanswered
  /\ main' = "leaving"
  /\ UNCHANGED <<reason, mainOnly>>

\* Server.Close drops every connection that is still in use.
CloseServer ==
  /\ main = "closing"
  /\ listening' = FALSE
  /\ cut' = cut \cup {r \in Requests : pc[r] \in Unanswered}
  /\ main' = "leaving"
  /\ UNCHANGED <<mode, active, terminating, elapsed, state, waiterVars, reason, handlerVars,
                 requestVars, gauge>>

\* FinalizationImmediate or FinalWaitCompleted.
EnterTerminated ==
  /\ main = "leaving"
  /\ state' = "terminated"
  /\ main' = "returning"
  /\ UNCHANGED <<mode, active, terminating, elapsed, waiterVars, reason, handlerVars, listening,
                 requestVars, cut, gauge>>

\* The deferred Server.Shutdown, bounded by the write timeout.
DeferredShutdown ==
  /\ main = "returning"
  /\ listening' = FALSE
  /\ main' = "stopping"
  /\ UNCHANGED <<mode, active, terminating, elapsed, state, waiterVars, reason, handlerVars,
                 requestVars, cut, gauge>>

Exit ==
  /\ main = "stopping"
  /\ cut' = cut \cup {r \in Requests : pc[r] \in Unanswered}
  /\ main' = "exited"
  /\ UNCHANGED <<mode, active, terminating, elapsed, state, waiterVars, reason, handlerVars,
                 listening, requestVars, gauge>>

----------------------------------------------------------------------------
(* The specification *)

ServeMetrics(r) ==
  /\ main # "exited"
  /\ \/ AcceptMetric(r) \/ PrepareResponse(r) \/ WriteResponse(r) \/ CompleteFinal(r)
     \/ ObserveFinal(r) \/ FinishMetric(r) \/ ReleaseLimiter(r) \/ Flush(r)

WaitTransition ==
  \/ Activate \/ EnterSelect \/ WakeTerminated \/ WakeThreshold \/ WakeTimer
  \/ CheckThreshold \/ CheckTimer \/ PollThreshold \/ Deactivate

Leave ==
  \/ CompleteObservability \/ StartDrain \/ DrainCompleted \/ ShutdownCompleted
  \/ CloseServer \/ EnterTerminated \/ DeferredShutdown \/ Exit

Run == FreezeSnapshot \/ SetFinalWait \/ WaitTransition \/ Leave

\* The process has exited.
Exited == main = "exited" /\ UNCHANGED vars

Next ==
  \/ \E r \in Requests : Arrive(r) \/ ServeMetrics(r)
  \/ Run
  \/ LastInstall \/ Terminate \/ Elapse \/ GraceOver
  \/ Exited

\* Goroutines run, the finite timers fire.  Nobody has to scrape, and no
\* signal has to come.
Fairness ==
  /\ \A r \in Requests : WF_vars(ServeMetrics(r))
  /\ WF_vars(Run)
  /\ WF_vars(Elapse)

Spec == Init /\ [][Next]_vars
FairSpec == Spec /\ Fairness

----------------------------------------------------------------------------
(* Properties *)

\* Every variable of the waiter, the handler and the server keeps its type.
TypeOK ==
  /\ mode \in Modes
  /\ active \in {1, 2} /\ generation \in {0, 1, 2}
  /\ terminating \in BOOLEAN /\ elapsed \in BOOLEAN
  /\ main \in {"finalizing", "frozen", "attached", "entered", "waiting", "threshold", "timer",
               "polling", "decided", "inactive", "drain", "draining", "shutdown", "closing",
               "leaving", "returning", "stopping", "exited"}
  /\ state \in {"finalizing", "final_wait", "terminated"}
  /\ started \in BOOLEAN /\ waiting \in BOOLEAN /\ threshold \in BOOLEAN
  /\ completed \in Nat
  /\ reason \in Reasons
  /\ attached \in BOOLEAN /\ draining \in BOOLEAN /\ drained \in BOOLEAN /\ listening \in BOOLEAN
  /\ limiter \in SUBSET Requests
  /\ inflight \in Nat
  /\ pc \in [Requests -> Unanswered \cup {"idle", "answered"}]
  /\ seen \in [Requests -> {0, 1, 2}]
  /\ outcome \in [Requests -> {"none", "success", "failure"}]
  /\ final \in [Requests -> [completed : Nat, counted : BOOLEAN]]
  /\ cut \in SUBSET Requests
  /\ gauge \in Nat

CountedResponses == {r \in Requests : final[r].counted}

\* Waiter.Complete counts each eligible response once and saturates: the
\* count is the number of counted responses, never more than required, and
\* each of them was written in full for the frozen generation.
CountIsHonest ==
  /\ completed = Cardinality(CountedResponses)
  /\ completed <= RequiredScrapes
  /\ \A r \in CountedResponses : outcome[r] = "success" /\ seen[r] = generation

\* The reason WaitTransition reports is what ended the wait, whichever
\* channels were ready together: the required count only when that many
\* responses were counted, a timer only when it fired, the external
\* termination only when the signal came.
ReasonIsEarned ==
  /\ reason = "required_scrapes" => mode = "scrapes" /\ completed = RequiredScrapes
  /\ reason = "timeout" => mode = "scrapes" /\ elapsed
  /\ reason = "duration_elapsed" => mode = "duration" /\ elapsed
  /\ reason = "external_termination" => terminating

\* Handler.inflight counts the handlers between acceptMetric and
\* finishMetric within the limiter, and once drained is closed none is left:
\* Drain never returns true over a handler that was accepted.
DrainedMeansIdle ==
  /\ inflight = Cardinality({r \in Requests : pc[r] \in InHandler})
  /\ inflight <= Concurrent
  /\ drained => inflight = 0

\* While the lifecycle is in final_wait the exposed generation is the frozen
\* one the waiter counts for.
FinalViewIsFrozen == state = "final_wait" => active = generation

\* Once the required count is reached no further handler is accepted and the
\* count stays where it is: the completion grace only drains.
ThresholdClosesAdmission ==
  [][completed = RequiredScrapes => inflight' <= inflight /\ completed' = completed]_vars

\* A termination signal that is there while the runtime waits is the reason
\* of its end, also when the threshold or the timer is ready too.
TerminationHasPrecedence ==
  [](main = "waiting" /\ terminating => [](reason \in {"none", "external_termination"}))

\* The final wait is bounded: the process exits whether or not anybody
\* scrapes or signals.
RunExits == <>(main = "exited")

=============================================================================
