--------------------------- MODULE ShutdownBudget ---------------------------
(***************************************************************************)
(* How external termination spends its time: internal/shutdown/budget.go,  *)
(* with the escalation of internal/workload/run.go that uses the workload  *)
(* part of the plan and the tail of cli/run.go that uses the rest.         *)
(*                                                                         *)
(* Time is a natural number of units of 250 ms, the smallest duration the  *)
(* code validates; the process starts at 0, and a configured deadline of 0 *)
(* stands for time.Time's zero.  A wait that ends at a time ends before    *)
(* the clock passes it (the guard of Tick): timers are punctual, and what  *)
(* is shown is how the code arranges them.  A killed process group is      *)
(* reaped at most ReapTime later.                                          *)
(***************************************************************************)
EXTENDS Integers

CONSTANTS
  Configs,   \* the configurations tried
  ReapTime,  \* how long a killed process group can take to disappear
  LastSignal \* the first signal comes by then

ASSUME ConfigsAssumption ==
  Configs \subseteq [totalGrace : Int, workloadTimeout : Int, reserve : Int, deadline : Nat,
                     expositionWrite : Nat, ingestionClose : Nat]
ASSUME TimesAssumption == ReapTime \in Nat /\ LastSignal \in Nat

VARIABLES
  config,    \* the validated configuration
  now,       \* the clock
  phase,     \* what the process is doing
  plan,      \* the plan resolved at the first signal
  until,     \* when the current wait ends at the latest
  repeated,  \* a second signal arrived
  finalAt    \* when finalization started

vars == <<config, now, phase, plan, until, repeated, finalAt>>

Phases == {"running", "grace", "killed", "finalizing", "draining", "closing", "exited"}

min(a, b) == IF a < b THEN a ELSE b
max(a, b) == IF a > b THEN a ELSE b

-----------------------------------------------------------------------------
(* budget.go *)

Validate(c) ==
  /\ c.totalGrace >= 4 /\ c.totalGrace <= 14400
  /\ c.workloadTimeout >= 0 /\ c.workloadTimeout <= 14400
  /\ c.reserve >= 1 /\ c.reserve <= 240
  /\ c.workloadTimeout <= c.totalGrace - c.reserve

EffectiveDeadline(c, t) == IF c.deadline = 0 THEN t + c.totalGrace ELSE c.deadline

(* A plausible slip: the reserve decides whether there is a budget, and is *)
(* not taken from it.                                                      *)
WorkloadBudgetWhole(c, remaining) ==
  IF remaining > c.reserve THEN min(c.workloadTimeout, remaining) ELSE 0

WorkloadBudget(c, remaining) ==
  IF remaining > c.reserve THEN min(c.workloadTimeout, remaining - c.reserve) ELSE 0

Resolve(c, t) ==
  LET deadline  == EffectiveDeadline(c, t)
      remaining == max(deadline - t, 0)
      budget    == WorkloadBudget(c, remaining)
  IN  [startedAt |-> t, deadline |-> deadline, workloadDeadline |-> t + budget,
       workloadBudget |-> budget, reserve |-> min(c.reserve, remaining)]

PhaseDeadline(p, workloadPhase, requested, t) ==
  min(IF workloadPhase THEN min(p.deadline, p.workloadDeadline) ELSE p.deadline, t + requested)

-----------------------------------------------------------------------------
NoPlan == [startedAt |-> 0, deadline |-> 0, workloadDeadline |-> 0, workloadBudget |-> 0, reserve |-> 0]

Init ==
  /\ config \in {c \in Configs : Validate(c)}
  /\ now = 0 /\ phase = "running" /\ plan = NoPlan /\ until = 0
  /\ repeated = FALSE /\ finalAt = 0

Tick ==
  /\ phase # "exited"
  /\ now < IF phase = "running" THEN LastSignal ELSE until
  /\ now' = now + 1
  /\ UNCHANGED <<config, phase, plan, until, repeated, finalAt>>

(* escalation.handle, first TERM or INT: without a budget force() follows  *)
(* in the same call, otherwise the timer of the budget is armed.           *)
Terminate ==
  /\ phase = "running"
  /\ LET p == Resolve(config, now)
     IN  /\ plan' = p
         /\ IF p.workloadBudget = 0
              THEN phase' = "killed" /\ until' = now + ReapTime
              ELSE phase' = "grace" /\ until' = now + p.workloadBudget
  /\ UNCHANGED <<config, now, repeated, finalAt>>

(* escalation.handle, a repeated TERM or INT. *)
Repeat ==
  /\ phase = "grace"
  /\ repeated' = TRUE
  /\ phase' = "killed" /\ until' = now + ReapTime
  /\ UNCHANGED <<config, now, plan, finalAt>>

(* The supervise loop takes the timer. *)
ForceKill ==
  /\ phase = "grace" /\ now >= until
  /\ phase' = "killed" /\ until' = now + ReapTime
  /\ UNCHANGED <<config, now, plan, repeated, finalAt>>

(* The workload is gone, by itself or killed: the run ends and cli/run.go  *)
(* opens the finalization context.  A context whose deadline has passed is *)
(* done at once, which is why until is never in the past.                  *)
Reaped ==
  /\ phase \in {"grace", "killed"}
  /\ phase' = "finalizing" /\ finalAt' = now
  /\ until' = max(now, PhaseDeadline(plan, FALSE, plan.reserve, now))
  /\ UNCHANGED <<config, now, plan, repeated>>

(* Drain, freeze and install finish or their context ends; the deferred    *)
(* calls follow: the exposition server is shut down under WriteTimeout.    *)
Finalized ==
  /\ phase = "finalizing"
  /\ phase' = "draining" /\ until' = now + config.expositionWrite
  /\ UNCHANGED <<config, now, plan, repeated, finalAt>>

(* A plausible slip: the close of the ingestion gets a grace period anew. *)
DrainedAnew ==
  /\ phase = "draining"
  /\ phase' = "closing" /\ until' = now + config.totalGrace
  /\ UNCHANGED <<config, now, plan, repeated, finalAt>>

(* ... and then the ingestion server, under its own timeout. *)
Drained ==
  /\ phase = "draining"
  /\ phase' = "closing" /\ until' = now + config.ingestionClose
  /\ UNCHANGED <<config, now, plan, repeated, finalAt>>

Exit ==
  /\ phase = "closing"
  /\ phase' = "exited"
  /\ UNCHANGED <<config, now, plan, until, repeated, finalAt>>

Next == Tick \/ Terminate \/ Repeat \/ ForceKill \/ Reaped \/ Finalized \/ Drained \/ Exit

Spec == Init /\ [][Next]_vars

-----------------------------------------------------------------------------
(* Every wait is over some time; a plan is made of times. *)
TypeOK ==
  /\ config \in Configs /\ Validate(config)
  /\ now \in Nat
  /\ phase \in Phases
  /\ plan \in [startedAt : Nat, deadline : Nat, workloadDeadline : Nat, workloadBudget : Nat, reserve : Nat]
  /\ until \in Nat
  /\ repeated \in BOOLEAN
  /\ finalAt \in Nat

Signalled == phase # "running"
AfterWorkload == phase \in {"finalizing", "draining", "closing", "exited"}

(* "The reserve belongs to MetricShell, not the workload": whatever the    *)
(* workload does with its grace, finalization begins with the whole        *)
(* reserve of the plan ahead of it, but for the time a kill takes to be    *)
(* reaped.  A deadline already past when the signal came leaves none.      *)
ReserveIsKept ==
  AfterWorkload => finalAt + plan.reserve <= max(plan.deadline, plan.startedAt) + ReapTime

(* The grace promised to the workload is given: it is killed before its    *)
(* budget is spent only after a second signal.                             *)
GraceIsGiven ==
  phase = "killed" => repeated \/ now >= plan.startedAt + plan.workloadBudget

(* Finalization never spends more than the reserve and ends by the         *)
(* deadline of the plan, unless that had passed when it began.             *)
FinalizationInsideDeadline ==
  phase = "finalizing" => /\ now <= finalAt + plan.reserve
                          /\ now <= max(plan.deadline, finalAt)

(* The latest time at which the workload can be gone: the deadline, or the *)
(* signal if that came after it, and the time a kill takes to be reaped.   *)
WorkloadGone == max(plan.deadline, plan.startedAt) + ReapTime

(* How far the shutdown outlives its plan: the two deferred closes take    *)
(* their timeouts from Background, not from the plan, so the process may   *)
(* still be there after the deadline, but by no more than these two        *)
(* timeouts and the reaping, whatever the workload and a second signal do  *)
(* (cli/run.go, the deferred server.Shutdown and ingestionControl.Close).  *)
ExitIsBounded ==
  Signalled => now <= WorkloadGone + config.expositionWrite + config.ingestionClose
=============================================================================
