------------------------ MODULE ShutdownBudgetProofs ------------------------
(***************************************************************************)
(* The safety properties of ShutdownBudget, for every set of              *)
(* configurations, every reaping time and every time of the signal.        *)
(***************************************************************************)
EXTENDS ShutdownBudget, TLAPS

(* What Resolve promises, kept by the plan for the rest of the shutdown. *)
PlanOK ==
  /\ plan.workloadDeadline = plan.startedAt + plan.workloadBudget
  /\ plan.workloadDeadline + plan.reserve <= max(plan.deadline, plan.startedAt)

(* How far the clock can be in each phase. *)
ClockOK ==
  /\ phase = "grace" => now <= until /\ until = plan.workloadDeadline
  /\ phase = "killed" => now <= until /\ until <= plan.workloadDeadline + ReapTime
  /\ phase = "finalizing" => now <= until /\ until = max(finalAt, min(plan.deadline, finalAt + plan.reserve))
  /\ AfterWorkload => finalAt <= plan.workloadDeadline + ReapTime

(* How far it can be behind the plan: each deferred close adds its own     *)
(* timeout to what its predecessor left.                                   *)
TailOK ==
  /\ phase = "draining" => now <= until /\ until <= WorkloadGone + config.expositionWrite
  /\ phase = "closing" => /\ now <= until
                          /\ until <= WorkloadGone + config.expositionWrite + config.ingestionClose
  /\ phase = "exited" => now <= WorkloadGone + config.expositionWrite + config.ingestionClose

IInv == TypeOK /\ (Signalled => PlanOK) /\ ClockOK /\ GraceIsGiven

-----------------------------------------------------------------------------
(* The plan of budget.go's Resolve, for any validated configuration and    *)
(* any time of the signal: its times are not negative, the workload's      *)
(* deadline is its start plus its budget, and the reserve fits between it  *)
(* and the deadline, or the deadline had passed and there is no reserve.   *)
LEMMA ResolvePlan ==
  ASSUME NEW c \in Configs, Validate(c), NEW t \in Nat
  PROVE  LET p == Resolve(c, t)
         IN  /\ p \in [startedAt : Nat, deadline : Nat, workloadDeadline : Nat, workloadBudget : Nat, reserve : Nat]
             /\ p.startedAt = t
             /\ p.workloadDeadline = p.startedAt + p.workloadBudget
             /\ p.workloadDeadline + p.reserve <= max(p.deadline, p.startedAt)
<1> DEFINE d == EffectiveDeadline(c, t)
           r == max(d - t, 0)
           b == WorkloadBudget(c, r)
           s == min(c.reserve, r)
<1>0. /\ c.totalGrace \in Nat /\ c.workloadTimeout \in Nat /\ c.reserve \in Nat /\ c.deadline \in Nat
  BY ConfigsAssumption DEF Validate
<1>1. d \in Nat
  <2>1. CASE c.deadline = 0
    BY <1>0, <2>1 DEF EffectiveDeadline
  <2>2. CASE c.deadline # 0
    BY <1>0, <2>2 DEF EffectiveDeadline
  <2> QED
    BY <2>1, <2>2
<1>2. r \in Nat /\ (d > t => r = d - t) /\ (d <= t => r = 0)
  BY <1>1 DEF max
<1>3. b \in Nat /\ s \in Nat /\ b + s <= r
  BY <1>0, <1>2 DEF WorkloadBudget, min
<1>4. Resolve(c, t) = [startedAt |-> t, deadline |-> d, workloadDeadline |-> t + b,
                       workloadBudget |-> b, reserve |-> s]
  BY DEF Resolve
<1> HIDE DEF d, r, b, s
<1>5. t + b + s <= max(d, t)
  BY <1>1, <1>2, <1>3 DEF max
<1> QED
  BY <1>1, <1>3, <1>4, <1>5

(* A validated configuration of Configs has integer fields. *)
LEMMA ConfigFields ==
  ASSUME TypeOK
  PROVE  /\ Validate(config)
         /\ config.deadline \in Nat /\ config.totalGrace \in Int /\ config.workloadTimeout \in Int
         /\ config.reserve \in Int /\ config.expositionWrite \in Nat /\ config.ingestionClose \in Nat
BY ConfigsAssumption DEF TypeOK

-----------------------------------------------------------------------------
(* The invariant holds when the process starts. *)
LEMMA InitIInv == Init => IInv
<1> SUFFICES ASSUME Init PROVE IInv
  OBVIOUS
<1>1. config \in Configs /\ Validate(config)
  BY DEF Init
<1>2. repeated \in BOOLEAN
  BY Zenon DEF Init
<1>3. TypeOK
  BY <1>1, <1>2 DEF Init, TypeOK, Phases, NoPlan
<1> QED
  BY <1>3 DEF Init, IInv, Signalled, ClockOK, AfterWorkload, GraceIsGiven

(* Every step keeps it: the clock stops at the end of each wait, and each  *)
(* wait begins with a bound the plan allows.                               *)
LEMMA NextIInv == IInv /\ [Next]_vars => IInv'
<1> SUFFICES ASSUME IInv, [Next]_vars PROVE IInv'
  OBVIOUS
<1> USE TimesAssumption DEF IInv
<1>c. /\ Validate(config)
      /\ config.deadline \in Nat /\ config.totalGrace \in Int /\ config.workloadTimeout \in Int
      /\ config.reserve \in Int /\ config.expositionWrite \in Nat /\ config.ingestionClose \in Nat
  BY ConfigFields
<1>1. CASE Tick
  BY <1>1 DEF Tick, TypeOK, Phases, Signalled, PlanOK, ClockOK, AfterWorkload, GraceIsGiven, min, max
<1>2. CASE Terminate
  <2> DEFINE p == Resolve(config, now)
  <2>1. /\ p \in [startedAt : Nat, deadline : Nat, workloadDeadline : Nat, workloadBudget : Nat, reserve : Nat]
        /\ p.startedAt = now
        /\ p.workloadDeadline = p.startedAt + p.workloadBudget
        /\ p.workloadDeadline + p.reserve <= max(p.deadline, p.startedAt)
    BY ResolvePlan DEF TypeOK
  <2>2. /\ plan' = p
        /\ \/ p.workloadBudget = 0 /\ phase' = "killed" /\ until' = now + ReapTime
           \/ p.workloadBudget # 0 /\ phase' = "grace" /\ until' = now + p.workloadBudget
        /\ UNCHANGED <<config, now, repeated, finalAt>>
    BY <1>2 DEF Terminate
  <2> HIDE DEF p
  <2>3. TypeOK'
    BY <2>1, <2>2 DEF TypeOK, Phases
  <2>4. PlanOK'
    BY <2>1, <2>2 DEF PlanOK
  <2>5. ClockOK' /\ GraceIsGiven'
    BY <2>1, <2>2 DEF ClockOK, GraceIsGiven, AfterWorkload, TypeOK
  <2> QED
    BY <2>3, <2>4, <2>5
<1>3. CASE Repeat
  <2>1. repeated' \in BOOLEAN /\ repeated'
    BY <1>3, Zenon DEF Repeat
  <2>2. TypeOK'
    BY <1>3, <2>1 DEF Repeat, TypeOK, Phases
  <2> QED
    BY <1>3, <2>1, <2>2 DEF Repeat, TypeOK, Signalled, PlanOK, ClockOK, AfterWorkload, GraceIsGiven
<1>4. CASE ForceKill
  <2>1. now = plan.workloadDeadline /\ now = plan.startedAt + plan.workloadBudget
    BY <1>4 DEF ForceKill, TypeOK, ClockOK, Signalled, PlanOK
  <2>2. TypeOK' /\ PlanOK'
    BY <1>4 DEF ForceKill, TypeOK, Phases, Signalled, PlanOK
  <2>3. ClockOK' /\ GraceIsGiven'
    BY <1>4, <2>1 DEF ForceKill, TypeOK, ClockOK, AfterWorkload, GraceIsGiven
  <2> QED
    BY <2>2, <2>3
<1>5. CASE Reaped
  BY <1>5 DEF Reaped, PhaseDeadline, min, max, TypeOK, Phases, Signalled, PlanOK, ClockOK, AfterWorkload, GraceIsGiven
<1>6. CASE Finalized
  BY <1>6, <1>c DEF Finalized, TypeOK, Phases, Signalled, PlanOK, ClockOK, AfterWorkload, GraceIsGiven
<1>7. CASE Drained
  BY <1>7, <1>c DEF Drained, TypeOK, Phases, Signalled, PlanOK, ClockOK, AfterWorkload, GraceIsGiven
<1>8. CASE Exit
  BY <1>8 DEF Exit, TypeOK, Phases, Signalled, PlanOK, ClockOK, AfterWorkload, GraceIsGiven
<1>9. CASE UNCHANGED vars
  BY <1>9 DEF vars, TypeOK, Phases, Signalled, PlanOK, ClockOK, AfterWorkload, GraceIsGiven
<1> QED
  BY <1>1, <1>2, <1>3, <1>4, <1>5, <1>6, <1>7, <1>8, <1>9 DEF Next

(* The inductive invariant holds throughout. *)
THEOREM InvariantHolds == Spec => []IInv
BY InitIInv, NextIInv, PTL DEF Spec

(* Type correctness: in particular no plan holds a negative time, even     *)
(* when the configured deadline had passed before the signal came.         *)
THEOREM TypeCorrect == Spec => []TypeOK
<1>1. IInv => TypeOK
  BY DEF IInv
<1> QED
  BY <1>1, InvariantHolds, PTL

(* The reserve is kept for finalization whatever the workload does. *)
THEOREM ReserveKept == Spec => []ReserveIsKept
<1>1. IInv => ReserveIsKept
  BY TimesAssumption DEF IInv, TypeOK, Signalled, PlanOK, ClockOK, AfterWorkload, ReserveIsKept, max
<1> QED
  BY <1>1, InvariantHolds, PTL

(* The workload is killed early only after a second signal. *)
THEOREM GraceGiven == Spec => []GraceIsGiven
<1>1. IInv => GraceIsGiven
  BY DEF IInv
<1> QED
  BY <1>1, InvariantHolds, PTL

(* Finalization keeps inside the reserve and the deadline. *)
THEOREM FinalizationBounded == Spec => []FinalizationInsideDeadline
<1>1. IInv => FinalizationInsideDeadline
  BY DEF IInv, TypeOK, ClockOK, FinalizationInsideDeadline, min, max
<1> QED
  BY <1>1, InvariantHolds, PTL

-----------------------------------------------------------------------------
(* Until the deferred calls the clock is not past WorkloadGone. *)
LEMMA BeforeTail ==
  ASSUME IInv
  PROVE  /\ WorkloadGone \in Nat
         /\ phase \in {"grace", "killed", "finalizing"} => now <= WorkloadGone
<1> USE TimesAssumption
<1>1. /\ plan.deadline \in Nat /\ plan.startedAt \in Nat /\ plan.workloadDeadline \in Nat
      /\ plan.reserve \in Nat /\ now \in Nat /\ until \in Nat /\ finalAt \in Nat
  BY DEF IInv, TypeOK
<1>2. WorkloadGone \in Nat
  BY <1>1 DEF WorkloadGone, max
<1>3. Signalled => plan.workloadDeadline + plan.reserve + ReapTime <= WorkloadGone
  BY <1>1 DEF IInv, PlanOK, WorkloadGone, max
<1>4. plan.deadline <= WorkloadGone
  BY <1>1 DEF WorkloadGone, max
<1>5. CASE phase = "grace"
  BY <1>1, <1>2, <1>3, <1>5 DEF IInv, ClockOK, Signalled
<1>6. CASE phase = "killed"
  BY <1>1, <1>2, <1>3, <1>6 DEF IInv, ClockOK, Signalled
<1>7. CASE phase = "finalizing"
  BY <1>1, <1>2, <1>3, <1>4, <1>7 DEF IInv, ClockOK, Signalled, AfterWorkload, min, max
<1> QED
  BY <1>2, <1>5, <1>6, <1>7

(* Every step keeps the bounds of the two deferred closes. *)
LEMMA NextTail == IInv /\ TailOK /\ [Next]_vars => TailOK'
<1> SUFFICES ASSUME IInv, TailOK, [Next]_vars PROVE TailOK'
  OBVIOUS
<1>0. /\ config.expositionWrite \in Nat /\ config.ingestionClose \in Nat
      /\ now \in Nat /\ until \in Nat
  BY ConfigFields DEF IInv, TypeOK
<1>b. /\ WorkloadGone \in Nat
      /\ phase \in {"grace", "killed", "finalizing"} => now <= WorkloadGone
  BY BeforeTail
<1>w. UNCHANGED plan => WorkloadGone' = WorkloadGone
  BY DEF WorkloadGone
<1>1. CASE Tick
  BY <1>0, <1>b, <1>w, <1>1 DEF Tick, TailOK
<1>2. CASE Terminate
  <2>1. phase' \in {"grace", "killed"}
    BY <1>2 DEF Terminate
  <2> QED
    BY <2>1 DEF TailOK
<1>3. CASE Repeat
  BY <1>3 DEF Repeat, TailOK
<1>4. CASE ForceKill
  BY <1>4 DEF ForceKill, TailOK
<1>5. CASE Reaped
  BY <1>5 DEF Reaped, TailOK
<1>6. CASE Finalized
  BY <1>0, <1>b, <1>w, <1>6 DEF Finalized, TailOK
<1>7. CASE Drained
  BY <1>0, <1>b, <1>w, <1>7 DEF Drained, TailOK
<1>8. CASE Exit
  BY <1>0, <1>b, <1>w, <1>8 DEF Exit, TailOK
<1>9. CASE UNCHANGED vars
  BY <1>w, <1>9 DEF vars, TailOK
<1> QED
  BY <1>1, <1>2, <1>3, <1>4, <1>5, <1>6, <1>7, <1>8, <1>9 DEF Next

(* The process is gone no later than the deadline, or the signal, and the  *)
(* reaping and the timeouts of the two deferred closes after it            *)
(* (cli/run.go, the deferred calls).                                       *)
THEOREM BoundedExit == Spec => []ExitIsBounded
<1>1. Init => TailOK
  BY DEF Init, TailOK
<1>2. IInv /\ TailOK => ExitIsBounded
  <2> SUFFICES ASSUME IInv, TailOK, Signalled
               PROVE  now <= WorkloadGone + config.expositionWrite + config.ingestionClose
    BY DEF ExitIsBounded
  <2>0. config.expositionWrite \in Nat /\ config.ingestionClose \in Nat /\ now \in Nat /\ until \in Nat
    BY ConfigFields DEF IInv, TypeOK
  <2>b. /\ WorkloadGone \in Nat
        /\ phase \in {"grace", "killed", "finalizing"} => now <= WorkloadGone
    BY BeforeTail
  <2>1. \/ phase \in {"grace", "killed", "finalizing"}
        \/ phase \in {"draining", "closing", "exited"}
    BY DEF IInv, TypeOK, Phases, Signalled
  <2> QED
    BY <2>0, <2>b, <2>1 DEF TailOK
<1> QED
  BY <1>1, <1>2, NextTail, InvariantHolds, PTL DEF Spec
=============================================================================
