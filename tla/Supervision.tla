---------------------------- MODULE Supervision ----------------------------
(***************************************************************************)
(* cli.Run around one workload: workload.run with its select loop, the     *)
(* reaper goroutine, the escalation from a termination signal to SIGKILL,  *)
(* the observers that move the lifecycle machine, and the finalization     *)
(* that follows.                                                           *)
(*                                                                         *)
(* The runtime goroutine (main), the reaper goroutine, the processes of    *)
(* the workload and the sender of signals interleave.  One step of main is *)
(* one case of its select with every call that case makes.  SIGTERM and    *)
(* SIGINT are "TERM", SIGHUP and SIGQUIT are "HUP": the code treats the    *)
(* members of each pair alike.                                             *)
(***************************************************************************)
EXTENDS Integers, Sequences, FiniteSets, Lifecycle

CONSTANTS
  Descendants,      \* processes the workload may fork
  MayEscape,        \* whether a descendant may leave the process group
  Faults,           \* bound: the sets of faults that may occur together
  SignalCapacity,   \* signalQueueCapacity
  ReapCapacity,     \* reapQueueCapacity
  MaxSignals        \* bound: signals sent to the runtime

(* The diagnostic stream breaks for good; the kernel refuses to signal the *)
(* process group, or any process; no subreaper; managed finalization does  *)
(* not end in an accepted snapshot.                                        *)
AllFaults == {"diagnostics", "group", "all", "subreaper", "finalizer"}

ASSUME SupervisionAssumption ==
  /\ "primary" \notin Descendants
  /\ "done" \notin Descendants
  /\ MayEscape \in BOOLEAN
  /\ Faults \subseteq SUBSET AllFaults
  /\ SignalCapacity \in Nat \ {0}
  /\ ReapCapacity \in Nat \ {0}
  /\ MaxSignals \in Nat

VARIABLES
  mode,           \* "snapshot" or "managed", the configured ingestion
  state,          \* lifecycle.Machine
  main,           \* where cli.Run and workload.run stand
  proc,           \* the processes of the workload
  escaped,        \* descendants outside the workload's process group
  status,         \* how the primary ended: "none", "exited" or "killed"
  signals,        \* the channel of signal.Notify in workload.Run
  interrupted,    \* terminationContext of cli.Run is cancelled
  sent,           \* signals sent so far
  pending,        \* signals drainPreStartSignals kept, none of them "TERM"
  reaped,         \* the channel of the reaper
  reaper,         \* the reaper goroutine: "off", "on" or "done"
  plan,           \* escalation.plan: "none", or its budget "zero" or "some"
  timer,          \* escalation.timer: "none", "armed" or "fired"
  forceAttempted, \* escalation.forceAttempted
  primary,        \* primaryResult: "none" or the status that was reaped
  result,         \* Result of workload.run
  admission,      \* whether ingestion admits new work
  frozen,         \* whether the final snapshot is frozen
  exit,           \* exit code of cli.Run
  faults          \* the faults that have occurred

processVars == <<proc, escaped, status>>
signalVars == <<signals, interrupted, sent, pending>>
reaperVars == <<reaped, reaper>>
escalationVars == <<plan, timer, forceAttempted>>
resultVars == <<primary, result>>
ingestionVars == <<admission, frozen>>
vars == <<mode, state, main, processVars, signalVars, reaperVars, escalationVars, resultVars,
          ingestionVars, exit, faults>>

Processes == {"primary"} \cup Descendants
Live(p) == proc[p] \in {"running", "zombie"}
NoChildren == \A p \in Processes : ~Live(p)
Broken == "diagnostics" \in faults

\* Where the workload has been started and workload.run has not returned.
Supervising == {"started", "pending", "loop", "cleanup", "reaping"}

Init ==
  /\ mode \in {"snapshot", "managed"}
  /\ state = "initializing"
  /\ main = "initializing"
  /\ proc = [p \in Processes |-> "absent"]
  /\ escaped = {}
  /\ status = "none"
  /\ signals = <<>>
  /\ interrupted = FALSE
  /\ sent = 0
  /\ pending = 0
  /\ reaped = <<>>
  /\ reaper = "off"
  /\ plan = "none"
  /\ timer = "none"
  /\ forceAttempted = FALSE
  /\ primary = "none"
  /\ result = "none"
  /\ admission = "open"
  /\ frozen = FALSE
  /\ exit = "none"
  /\ faults = {}

----------------------------------------------------------------------------
(* The environment *)

(* A termination signal cancels terminationContext once NotifyContext is   *)
(* registered, and enters the channel of workload.Run once Notify is, if   *)
(* there is room.  Signals with no handler registered take their default   *)
(* action, which ends the process: they are left out.                      *)
Notified == main \in {"prestart", "starting"} \cup Supervising

SendSignal(s) ==
  /\ exit = "none"
  /\ main # "initializing"
  /\ s = "TERM" \/ Notified
  /\ sent < MaxSignals
  /\ sent' = sent + 1
  /\ interrupted' = (interrupted \/ s = "TERM")
  /\ signals' = IF Notified /\ Len(signals) < SignalCapacity THEN Append(signals, s) ELSE signals
  /\ UNCHANGED <<mode, state, main, processVars, pending, reaperVars, escalationVars, resultVars,
                 ingestionVars, exit, faults>>

\* The workload forks; a daemon may leave the process group.
Fork(d) ==
  /\ proc["primary"] = "running"
  /\ proc[d] = "absent"
  /\ proc' = [proc EXCEPT ![d] = "running"]
  /\ escaped' \in {escaped, IF MayEscape THEN escaped \cup {d} ELSE escaped}
  /\ UNCHANGED <<mode, state, main, status, signalVars, reaperVars, escalationVars, resultVars,
                 ingestionVars, exit, faults>>

(* A process ends by itself or of a forwarded signal.  A descendant whose  *)
(* parent runs is reaped by it; an orphan is left to the subreaper.        *)
ProcessExit(p) ==
  /\ proc[p] = "running"
  /\ proc' = [proc EXCEPT ![p] = IF p # "primary" /\ proc["primary"] = "running"
                                   THEN "reaped" ELSE "zombie"]
  /\ status' = IF p = "primary" THEN "exited" ELSE status
  /\ UNCHANGED <<mode, state, main, escaped, signalVars, reaperVars, escalationVars, resultVars,
                 ingestionVars, exit, faults>>

Fault(f) ==
  /\ exit = "none"
  /\ f \notin faults
  /\ \E together \in Faults : faults \cup {f} \subseteq together
  /\ faults' = faults \cup {f}
  /\ UNCHANGED <<mode, state, main, processVars, signalVars, reaperVars, escalationVars, resultVars,
                 ingestionVars, exit>>

\* The timer that escalation.handle armed fires.
TimerFires ==
  /\ timer = "armed"
  /\ timer' = "fired"
  /\ UNCHANGED <<mode, state, main, processVars, signalVars, reaperVars, plan, forceAttempted,
                 resultVars, ingestionVars, exit, faults>>

----------------------------------------------------------------------------
(* The reaper goroutine *)

\* wait4 returns a child that has ended; the send waits for room.
Reap(p) ==
  /\ reaper = "on"
  /\ proc[p] = "zombie"
  /\ Len(reaped) < ReapCapacity
  /\ proc' = [proc EXCEPT ![p] = "reaped"]
  /\ reaped' = Append(reaped, p)
  /\ UNCHANGED <<mode, state, main, escaped, status, signalVars, reaper, escalationVars, resultVars,
                 ingestionVars, exit, faults>>

\* ECHILD: no child is left, neither running nor unreaped.
ReaperDone ==
  /\ reaper = "on"
  /\ NoChildren
  /\ Len(reaped) < ReapCapacity
  /\ reaped' = Append(reaped, "done")
  /\ reaper' = "done"
  /\ UNCHANGED <<mode, state, main, processVars, signalVars, escalationVars, resultVars,
                 ingestionVars, exit, faults>>

----------------------------------------------------------------------------
(* Calls that main's steps make *)

\* configuredIngestion.closeAdmission does nothing in snapshot mode.
CloseAdmission == admission' = IF mode = "managed" THEN "closed" ELSE admission

\* The target of a signal to the process group.
Group == {p \in Processes \ escaped : Live(p)}

Refused == faults \cap {"group", "all"} # {}

\* SIGKILL to a set of processes.
Kill(targets) ==
  /\ proc' = [p \in Processes |->
                IF p \in targets /\ proc[p] = "running" THEN "zombie" ELSE proc[p]]
  /\ status' = IF "primary" \in targets /\ proc["primary"] = "running" THEN "killed" ELSE status

\* failLifecycle
FailLifecycle(s) ==
  /\ state' = AfterFailure(s)
  /\ exit' = "internal"
  /\ main' = "exited"

----------------------------------------------------------------------------
(* cli.Run up to the workload *)

(* Configuration, binding and starting ingestion, to the registration of   *)
(* NotifyContext.  Without a diagnostic stream the run ends before there   *)
(* is a machine, or through failLifecycle.                                 *)
Initialize ==
  /\ main = "initializing"
  /\ IF Broken
       THEN \/ FailLifecycle(After(state, "configuration_validated"))
            \/ exit' = "internal" /\ main' = "exited" /\ UNCHANGED state
       ELSE /\ state' = After(state, "configuration_validated")
            /\ main' = "registering"
            /\ UNCHANGED exit
  /\ UNCHANGED <<mode, processVars, signalVars, reaperVars, escalationVars, resultVars,
                 ingestionVars, faults>>

(* A rejected configuration or an endpoint that cannot be bound.  When the *)
(* rejection cannot be written either, the machine may be left as it is.   *)
RejectStart ==
  /\ main = "initializing"
  /\ \E event \in {"initialization_failed", "runtime_failed"} :
       /\ \/ state' = After(After(state, event), "cleanup_completed")
          \/ Broken /\ event = "initialization_failed" /\ UNCHANGED state
       /\ exit' = IF event = "runtime_failed" THEN "bind_failed" ELSE "configuration"
  /\ main' = "exited"
  /\ UNCHANGED <<mode, processVars, signalVars, reaperVars, escalationVars, resultVars,
                 ingestionVars, faults>>

\* workload.Run registers its own channel.
Register ==
  /\ main = "registering"
  /\ main' = "prestart"
  /\ UNCHANGED <<mode, state, processVars, signalVars, reaperVars, escalationVars, resultVars,
                 ingestionVars, exit, faults>>

SubreaperFails ==
  /\ main = "prestart"
  /\ "subreaper" \in faults
  /\ state' = After(state, "runtime_failed")
  /\ result' = "internal"
  /\ main' = "returned"
  /\ UNCHANGED <<mode, processVars, signalVars, reaperVars, escalationVars, primary, ingestionVars,
                 exit, faults>>

(* drainPreStartSignals takes everything queued, or stops at the first     *)
(* termination signal.                                                     *)
DrainPreStartSignals ==
  /\ main = "prestart"
  /\ "subreaper" \notin faults
  /\ IF \E i \in DOMAIN signals : signals[i] = "TERM"
       THEN /\ result' = "signal"
            /\ main' = "returned"
            /\ UNCHANGED pending
       ELSE /\ pending' = Len(signals)
            /\ main' = "starting"
            /\ UNCHANGED result
  /\ signals' = <<>>
  /\ UNCHANGED <<mode, state, processVars, interrupted, sent, reaperVars, escalationVars, primary,
                 ingestionVars, exit, faults>>

StartFails ==
  /\ main = "starting"
  /\ result' = "start_failed"
  /\ main' = "returned"
  /\ UNCHANGED <<mode, state, processVars, signalVars, reaperVars, escalationVars, primary,
                 ingestionVars, exit, faults>>

\* command.Start and startReaper
Start ==
  /\ main = "starting"
  /\ proc' = [proc EXCEPT !["primary"] = "running"]
  /\ reaper' = "on"
  /\ main' = "started"
  /\ UNCHANGED <<mode, state, escaped, status, signalVars, reaped, escalationVars, resultVars,
                 ingestionVars, exit, faults>>

\* The Started observer; a state that has moved stays moved when it fails.
Started ==
  /\ main = "started"
  /\ state' = After(state, "workload_started")
  /\ main' = IF Broken THEN "cleanup" ELSE IF pending > 0 THEN "pending" ELSE "loop"
  /\ UNCHANGED <<mode, processVars, signalVars, reaperVars, escalationVars, resultVars,
                 ingestionVars, exit, faults>>

\* The signals kept from before the start are only forwarded.
ForwardPending ==
  /\ main = "pending"
  /\ pending' = pending - 1
  /\ main' = IF Broken \/ (Refused /\ Group # {}) THEN "cleanup"
             ELSE IF pending > 1 THEN "pending" ELSE "loop"
  /\ UNCHANGED <<mode, state, processVars, signals, interrupted, sent, reaperVars, escalationVars,
                 resultVars, ingestionVars, exit, faults>>

----------------------------------------------------------------------------
(* The select loop of workload.run *)

\* A termination signal that escalation.handle sees for the first time.
First(s) == s = "TERM" /\ plan = "none"

(* The first part of escalation.handle: the plan is resolved and the       *)
(* Shutdown observer moves the machine and closes admission.               *)
BeginShutdown(s) ==
  IF First(s)
    THEN /\ plan' \in {"zero", "some"}
         /\ state' = After(state, "termination_after_spawn")
         /\ IF Broken THEN UNCHANGED admission ELSE CloseAdmission
    ELSE UNCHANGED <<plan, state, admission>>

TakeSignal ==
  /\ main = "loop"
  /\ signals # <<>>
  /\ signals' = Tail(signals)
  /\ BeginShutdown(Head(signals))

\* An observer fails or the signal cannot be forwarded.
HandleFails ==
  /\ TakeSignal
  /\ Broken \/ (Refused /\ Group # {})
  /\ main' = "cleanup"
  /\ UNCHANGED <<mode, processVars, interrupted, sent, pending, reaperVars, timer, forceAttempted,
                 resultVars, frozen, exit, faults>>

\* Variant: no timer is armed.
HandleForwardsOnly ==
  /\ TakeSignal
  /\ ~Broken
  /\ ~Refused \/ Group = {}
  /\ Head(signals) = "TERM" /\ ~forceAttempted => First(Head(signals)) /\ plan' = "some"
  /\ UNCHANGED timer
  /\ UNCHANGED <<mode, main, processVars, interrupted, sent, pending, reaperVars, forceAttempted,
                 resultVars, frozen, exit, faults>>

(* The signal is forwarded, or ignored because no process is left; the     *)
(* first termination signal with a budget arms the timer.                  *)
HandleForwards ==
  /\ TakeSignal
  /\ ~Broken
  /\ ~Refused \/ Group = {}
  /\ IF Head(signals) = "TERM" /\ ~forceAttempted
       THEN First(Head(signals)) /\ plan' = "some" /\ timer' = "armed"
       ELSE UNCHANGED timer
  /\ UNCHANGED <<mode, main, processVars, interrupted, sent, pending, reaperVars, forceAttempted,
                 resultVars, frozen, exit, faults>>

\* Variant: the first termination signal kills whatever the budget is.
HandleForcesAtOnce ==
  /\ TakeSignal
  /\ ~Broken
  /\ ~Refused \/ Group = {}
  /\ Head(signals) = "TERM"
  /\ ~forceAttempted
  /\ forceAttempted' = TRUE
  /\ timer' = "none"
  /\ Kill(Group)
  /\ UNCHANGED <<mode, main, escaped, interrupted, sent, pending, reaperVars, resultVars, frozen,
                 exit, faults>>

\* A repeated termination signal, or a first one without budget.
HandleForces ==
  /\ TakeSignal
  /\ ~Broken
  /\ ~Refused \/ Group = {}
  /\ Head(signals) = "TERM"
  /\ ~forceAttempted
  /\ First(Head(signals)) => plan' = "zero"
  /\ forceAttempted' = TRUE
  /\ timer' = "none"
  /\ Kill(Group)
  /\ UNCHANGED <<mode, main, escaped, interrupted, sent, pending, reaperVars, resultVars, frozen,
                 exit, faults>>

(* The grace of the workload is over: escalation.force.  A kill that is    *)
(* refused, or a Forced observer that fails, is reported to Failed.        *)
TimerForces ==
  /\ main = "loop"
  /\ timer = "fired"
  /\ timer' = "none"
  /\ forceAttempted' = TRUE
  /\ Kill(IF Refused THEN {} ELSE Group)
  /\ IF Group # {} /\ (Refused \/ Broken)
       THEN state' = After(state, "runtime_failed") /\ main' = "cleanup"
       ELSE UNCHANGED <<state, main>>
  /\ UNCHANGED <<mode, escaped, signalVars, reaperVars, plan, resultVars, ingestionVars, exit,
                 faults>>

\* Variant: the result is returned as soon as the primary is reaped.
TakeReapedReturnsEarly ==
  /\ main = "loop"
  /\ reaped # <<>>
  /\ Head(reaped) # "done"
  /\ reaped' = Tail(reaped)
  /\ IF Head(reaped) = "primary"
       THEN /\ primary' = status
            /\ state' = After(state, "workload_exited")
            /\ IF Broken THEN UNCHANGED admission ELSE CloseAdmission
            /\ result' = status
       ELSE UNCHANGED <<primary, state, admission, result>>
  /\ main' = IF Broken THEN "cleanup" ELSE IF Head(reaped) = "primary" THEN "returned" ELSE "loop"
  /\ UNCHANGED <<mode, processVars, signalVars, reaper, escalationVars, frozen, exit,
                 faults>>

(* processReapEvent: the first event of the primary resolves the result,   *)
(* moves the machine and closes admission.                                 *)
TakeReaped ==
  /\ main = "loop"
  /\ reaped # <<>>
  /\ Head(reaped) # "done"
  /\ reaped' = Tail(reaped)
  /\ IF Head(reaped) = "primary"
       THEN /\ primary' = status
            /\ state' = After(state, "workload_exited")
            /\ IF Broken THEN UNCHANGED admission ELSE CloseAdmission
       ELSE UNCHANGED <<primary, state, admission>>
  /\ main' = IF Broken THEN "cleanup" ELSE "loop"
  /\ UNCHANGED <<mode, processVars, signalVars, reaper, escalationVars, result, frozen, exit,
                 faults>>

\* Signals still queued are only reported, then the result is returned.
TakeDone ==
  /\ main = "loop"
  /\ reaped # <<>>
  /\ Head(reaped) = "done"
  /\ reaped' = Tail(reaped)
  /\ signals' = <<>>
  /\ result' = IF Broken /\ signals # <<>> THEN "internal" ELSE primary
  /\ main' = "returned"
  /\ UNCHANGED <<mode, state, processVars, interrupted, sent, pending, reaper, escalationVars,
                 primary, ingestionVars, exit, faults>>

----------------------------------------------------------------------------
(* cleanupAndReap *)

KillGroup ==
  /\ main = "cleanup"
  /\ Kill(IF Refused THEN {} ELSE Group)
  /\ main' = "reaping"
  /\ UNCHANGED <<mode, state, escaped, signalVars, reaperVars, escalationVars, resultVars,
                 ingestionVars, exit, faults>>

\* The fallback after groupKillFallbackDelay: the primary alone.
KillPrimary ==
  /\ main = "reaping"
  /\ proc["primary"] = "running"
  /\ "all" \notin faults
  /\ Kill({"primary"})
  /\ UNCHANGED <<mode, state, main, escaped, signalVars, reaperVars, escalationVars, resultVars,
                 ingestionVars, exit, faults>>

\* Variant: the cleanup stops at the primary.
ReapPrimaryOnly ==
  /\ main = "reaping"
  /\ reaped # <<>>
  /\ reaped' = Tail(reaped)
  /\ IF Head(reaped) \in {"done", "primary"}
       THEN main' = "returned" /\ result' = "internal"
       ELSE UNCHANGED <<main, result>>
  /\ UNCHANGED <<mode, state, processVars, signalVars, reaper, escalationVars, primary,
                 ingestionVars, exit, faults>>

ReapAfterFailure ==
  /\ main = "reaping"
  /\ reaped # <<>>
  /\ reaped' = Tail(reaped)
  /\ IF Head(reaped) = "done"
       THEN main' = "returned" /\ result' = "internal"
       ELSE UNCHANGED <<main, result>>
  /\ UNCHANGED <<mode, state, processVars, signalVars, reaper, escalationVars, primary,
                 ingestionVars, exit, faults>>

----------------------------------------------------------------------------
(* cli.Run after workload.Run *)

WasStarted == proc["primary"] # "absent"
Finalizes == WasStarted /\ state = "finalizing"

\* workload_start_failed, then cleanup.
FinishStartFailed ==
  /\ main = "returned"
  /\ result = "start_failed"
  /\ LET failed == After(state, "workload_start_failed") IN
       IF Broken
         THEN FailLifecycle(failed)
         ELSE /\ state' = After(failed, "cleanup_completed")
              /\ exit' = result
              /\ main' = "exited"
  /\ UNCHANGED <<mode, processVars, signalVars, reaperVars, escalationVars, resultVars,
                 ingestionVars, faults>>

\* A termination signal came before the start.
FinishBeforeSpawn ==
  /\ main = "returned"
  /\ result = "signal"
  /\ LET terminated == After(state, "termination_before_spawn") IN
       IF Broken
         THEN FailLifecycle(terminated)
         ELSE /\ state' = terminated
              /\ exit' = result
              /\ main' = "exited"
  /\ UNCHANGED <<mode, processVars, signalVars, reaperVars, escalationVars, resultVars,
                 ingestionVars, faults>>

(* Admission is closed, managed work is drained and installed, and the     *)
(* core is frozen.  The shutdown-completed record comes first.             *)
Finalize ==
  /\ main = "returned"
  /\ Finalizes
  /\ IF plan # "none" /\ Broken
       THEN FailLifecycle(state) /\ UNCHANGED ingestionVars
       ELSE \/ /\ mode = "managed"
               /\ "finalizer" \in faults
               /\ admission' = "closed"
               /\ FailLifecycle(state)
               /\ UNCHANGED frozen
            \/ /\ admission' = "closed"
               /\ frozen' = TRUE
               /\ main' = "frozen"
               /\ UNCHANGED <<state, exit>>
  /\ UNCHANGED <<mode, processVars, signalVars, reaperVars, escalationVars, resultVars, faults>>

\* Finalization does not apply: only a failed machine is cleaned up.
FinishOtherwise ==
  /\ main = "returned"
  /\ result \notin {"start_failed", "signal"}
  /\ ~Finalizes
  /\ state' = After(state, "cleanup_completed")
  /\ exit' = result
  /\ main' = "exited"
  /\ UNCHANGED <<mode, processVars, signalVars, reaperVars, escalationVars, resultVars,
                 ingestionVars, faults>>

\* Variant: a shutdown reports the signal instead of the workload.
FinishWithSignal ==
  /\ main = "frozen"
  /\ LET terminated == After(state, "finalization_immediate") IN
       IF Broken
         THEN FailLifecycle(IF plan = "none" THEN state ELSE terminated)
         ELSE /\ state' = terminated
              /\ exit' = IF plan = "none" THEN result ELSE "signal"
              /\ main' = "exited"
  /\ UNCHANGED <<mode, processVars, signalVars, reaperVars, escalationVars, resultVars,
                 ingestionVars, faults>>

(* After a shutdown, or with the immediate policy, the machine terminates. *)
FinishImmediately ==
  /\ main = "frozen"
  /\ LET terminated == After(state, "finalization_immediate") IN
       IF Broken
         THEN FailLifecycle(IF plan = "none" THEN state ELSE terminated)
         ELSE /\ state' = terminated
              /\ exit' = result
              /\ main' = "exited"
  /\ UNCHANGED <<mode, processVars, signalVars, reaperVars, escalationVars, resultVars,
                 ingestionVars, faults>>

\* The other policies enter final_wait; FinalWait models what happens there.
EnterFinalWait ==
  /\ main = "frozen"
  /\ plan = "none"
  /\ LET waiting == After(state, "finalization_wait") IN
       IF Broken
         THEN FailLifecycle(waiting)
         ELSE state' = waiting /\ main' = "waiting" /\ UNCHANGED exit
  /\ UNCHANGED <<mode, processVars, signalVars, reaperVars, escalationVars, resultVars,
                 ingestionVars, faults>>

LeaveFinalWait ==
  /\ main = "waiting"
  /\ LET terminated == After(state, "final_wait_completed") IN
       IF Broken
         THEN FailLifecycle(state)
         ELSE /\ state' = terminated
              /\ exit' = result
              /\ main' = "exited"
  /\ UNCHANGED <<mode, processVars, signalVars, reaperVars, escalationVars, resultVars,
                 ingestionVars, faults>>

----------------------------------------------------------------------------

Environment ==
  \/ \E s \in {"TERM", "HUP"} : SendSignal(s)
  \/ \E d \in Descendants : Fork(d)
  \/ \E p \in Processes : ProcessExit(p)
  \/ \E f \in AllFaults : Fault(f)

Reaper == ReaperDone \/ \E p \in Processes : Reap(p)

Launch ==
  \/ Initialize \/ RejectStart \/ Register
  \/ SubreaperFails \/ DrainPreStartSignals \/ StartFails \/ Start
  \/ Started \/ ForwardPending

TakeAnySignal == HandleFails \/ HandleForwards \/ HandleForces

Cleanup == KillGroup \/ KillPrimary \/ ReapAfterFailure

Finish ==
  \/ FinishStartFailed \/ FinishBeforeSpawn \/ Finalize \/ FinishOtherwise
  \/ FinishImmediately \/ EnterFinalWait \/ LeaveFinalWait

Main == Launch \/ TakeAnySignal \/ TimerForces \/ TakeReaped \/ TakeDone \/ Cleanup \/ Finish

\* The process is gone; its exit code stays.
Exited == exit # "none" /\ UNCHANGED vars

Next == Environment \/ TimerFires \/ Reaper \/ Main \/ Exited

Spec == Init /\ [][Next]_vars

(* Goroutines and timers of the runtime run; select serves each ready case *)
(* in the end.  Nothing obliges the workload to exit.                      *)
FairSpec ==
  /\ Spec
  /\ WF_vars(TimerFires)
  /\ WF_vars(Reaper)
  /\ WF_vars(Launch)
  /\ WF_vars(Cleanup)
  /\ WF_vars(Finish)
  /\ SF_vars(TakeAnySignal)
  /\ SF_vars(TimerForces)
  /\ SF_vars(TakeReaped \/ TakeDone)

----------------------------------------------------------------------------

(* The exit code is the workload's own.  Once the workload was started,    *)
(* cli.Run returns how the primary ended, whatever signals, descendants    *)
(* and timers interleaved; only a fault turns it into an internal failure, *)
(* never into another workload result.                                     *)
ExitIsTheWorkloads ==
  exit # "none" /\ WasStarted =>
    \/ exit = status
    \/ exit = "internal" /\ faults # {}

(* Reaping: when cli.Run returns, no process of the workload is left, not  *)
(* even unreaped, on the failure paths through cleanupAndReap too.         *)
NoChildLeftBehind == exit # "none" => NoChildren

(* The final snapshot is frozen only after admission is closed and every   *)
(* process of the workload is reaped: no writer is left to miss it.        *)
FrozenAfterTheLastWriter == frozen => NoChildren /\ admission = "closed" /\ primary # "none"

(* Graceful shutdown: while supervising, the runtime kills the workload    *)
(* only after its grace, on a repeated termination signal, with a zero     *)
(* budget, or in the cleanup after a failure.                              *)
GraceIsRespected ==
  [][status' = "killed" /\ status # "killed" =>
       \/ timer = "fired" \/ plan' = "zero"
       \/ plan # "none" /\ signals # <<>> /\ Head(signals) = "TERM"
       \/ faults # {}]_vars

(* A shutdown is bounded: once escalation.handle has a plan, cli.Run       *)
(* returns, however unresponsive the processes are, unless one has left    *)
(* the group or the kernel refuses to signal or to adopt them.             *)
Unreachable == escaped # {} \/ faults \cap {"group", "all", "subreaper"} # {}

ShutdownEnds == plan # "none" ~> (exit # "none" \/ Unreachable)

(* What the acceptance criteria say of forwarding: a termination signal    *)
(* the runtime has received starts the shutdown of the workload.           *)
TerminationIsForwarded == interrupted ~> (plan # "none" \/ exit # "none")

=============================================================================
