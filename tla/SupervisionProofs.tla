------------------------- MODULE SupervisionProofs --------------------------
(***************************************************************************)
(* The safety properties of Supervision for every set of descendants, any  *)
(* number of signals, any capacity of the two channels and any faults.     *)
(***************************************************************************)
EXTENDS Supervision, TLAPS

(* The processes and the reaper: nothing runs before Start; the reaper is  *)
(* done only when no child is left.                                        *)
ProcInv ==
  /\ proc \in [Processes -> {"absent", "running", "zombie", "reaped"}]
  /\ status \in {"none", "exited", "killed"}
  /\ status = "none" <=> proc["primary"] \in {"absent", "running"}
  /\ ~WasStarted => reaper = "off" /\ \A p \in Processes : proc[p] = "absent"
  /\ reaper = "done" => NoChildren

(* The channel of the reaper: "done" is the last event, an event of the    *)
(* primary comes after its reaping and is not lost while the loop runs.    *)
ReapInv ==
  /\ reaped \in Seq(Processes \cup {"done"})
  /\ \A i \in 1..Len(reaped) : reaped[i] = "done" => i = Len(reaped) /\ reaper = "done"
  /\ \A i \in 1..Len(reaped) : reaped[i] = "primary" => proc["primary"] = "reaped"
  /\ primary # "none" => primary = status
  /\ main \in {"started", "pending", "loop"} /\ proc["primary"] = "reaped" /\ primary = "none" =>
       \E i \in 1..Len(reaped) : reaped[i] = "primary"

(* A result of workload.run, or an exit code, after the workload started. *)
Honest(r) == r = status \/ (r = "internal" /\ faults # {})

MainInv ==
  /\ main \in {"initializing", "registering", "prestart", "starting"} => ~WasStarted
  /\ main \in Supervising => WasStarted
  /\ main \in {"cleanup", "reaping"} => faults # {}
  /\ main \in {"returned", "frozen", "waiting", "exited"} => NoChildren
  /\ main \in {"returned", "frozen", "waiting"} /\ WasStarted => Honest(result)
  /\ exit # "none" => main = "exited"
  /\ exit # "none" /\ WasStarted => Honest(exit)

SnapshotInv ==
  /\ state = "finalizing" => primary # "none"
  /\ main \in {"frozen", "waiting"} => frozen
  /\ frozen => main \in {"frozen", "waiting", "exited"} /\ admission = "closed" /\ primary # "none"

IInv == ProcInv /\ ReapInv /\ MainInv /\ SnapshotInv

----------------------------------------------------------------------------
(* Lemmas *)

\* Only the exit of the workload leads to "finalizing".
LEMMA FinalizingAfterExit ==
  ASSUME NEW s, NEW event, event # "workload_exited", After(s, event) = "finalizing"
  PROVE  s = "finalizing"
  <1> SUFFICES ASSUME CanTransition(s, event) PROVE FALSE
    BY DEF After
  <1>1. PICK t \in States : Targets(s, event) = {t}
    BY DEF CanTransition
  <1>2. Targets(s, event) = {After(s, event)}
    BY <1>1 DEF After
  <1>3. <<s, event, "finalizing">> \in Transitions
    BY <1>2 DEF Targets
  <1> QED
    BY <1>3 DEF Transitions

\* Nor does a failure lead there.
LEMMA FailureIsNotFinalizing ==
  ASSUME NEW s PROVE AfterFailure(s) # "finalizing" \/ s = "finalizing"
  BY FinalizingAfterExit DEF AfterFailure

LEMMA TailOf ==
  ASSUME NEW S, NEW q \in Seq(S), q # <<>>
  PROVE  /\ Tail(q) \in Seq(S) /\ Len(Tail(q)) = Len(q) - 1 /\ Len(q) \in Nat /\ Len(q) >= 1
         /\ Head(q) = q[1]
         /\ \A i \in 1..Len(Tail(q)) : Tail(q)[i] = q[i + 1] /\ i + 1 \in 1..Len(q)
  OBVIOUS

\* What a kill leaves of ProcInv: nothing is started and nothing is reaped.
LEMMA KillStep ==
  ASSUME ProcInv, NEW targets, Kill(targets), reaper' = reaper
  PROVE  /\ ProcInv'
         /\ WasStarted' = WasStarted
         /\ (proc["primary"] = "reaped") <=> (proc'["primary"] = "reaped")
         /\ (status # "none" => status' = status)
         /\ NoChildren' <=> NoChildren
  BY DEF ProcInv, Kill, Processes, WasStarted, NoChildren, Live

----------------------------------------------------------------------------
LEMMA InitInv == Init => IInv
  BY DEF Init, IInv, ProcInv, ReapInv, MainInv, SnapshotInv, Honest, WasStarted, NoChildren, Live,
         Processes, Supervising

(* The variables of the invariant, grouped as the actions leave them alone. *)
LEMMA QuietSteps ==
  ASSUME IInv,
         UNCHANGED <<state, main, proc, status, reaped, reaper, primary, result, admission, frozen, exit>>,
         faults \subseteq faults'
  PROVE  IInv'
  BY DEF IInv, ProcInv, ReapInv, MainInv, SnapshotInv, Honest, WasStarted, NoChildren, Live

LEMMA ForkStep ==
  ASSUME IInv, NEW d \in Descendants, Fork(d)
  PROVE  IInv'
  <1> USE DEF Fork, signalVars, reaperVars, resultVars, ingestionVars
  <1>0. d \in Processes /\ "primary" \in Processes /\ d # "primary"
    BY SupervisionAssumption DEF Processes
  <1>1. WasStarted /\ ~NoChildren
    BY <1>0 DEF WasStarted, NoChildren, Live
  <1>2. ProcInv' /\ proc'["primary"] = proc["primary"] /\ ~NoChildren'
    BY <1>0, <1>1 DEF IInv, ProcInv, WasStarted, NoChildren, Live
  <1>3. ReapInv'
    BY <1>2 DEF IInv, ReapInv
  <1>4. MainInv' /\ SnapshotInv'
    BY <1>1, <1>2 DEF IInv, MainInv, SnapshotInv, WasStarted, Honest
  <1> QED
    BY <1>2, <1>3, <1>4 DEF IInv

LEMMA ExitStep ==
  ASSUME IInv, NEW p \in Processes, ProcessExit(p)
  PROVE  IInv'
  <1> USE DEF ProcessExit, signalVars, reaperVars, resultVars, ingestionVars
  <1>0. "primary" \in Processes
    BY DEF Processes
  <1>1. WasStarted /\ ~NoChildren
    BY <1>0 DEF IInv, ProcInv, WasStarted, NoChildren, Live
  <1>2. ProcInv' /\ WasStarted' /\ (proc'["primary"] = "reaped" <=> proc["primary"] = "reaped")
    BY <1>0, <1>1 DEF IInv, ProcInv, WasStarted, NoChildren, Live
  <1>3. ReapInv'
    BY <1>0, <1>2 DEF IInv, ReapInv, ProcInv
  <1>4. MainInv' /\ SnapshotInv'
    BY <1>1, <1>2 DEF IInv, MainInv, SnapshotInv, WasStarted
  <1> QED
    BY <1>2, <1>3, <1>4 DEF IInv

LEMMA ReapStep ==
  ASSUME IInv, NEW p \in Processes, Reap(p)
  PROVE  IInv'
  <1> USE DEF Reap, signalVars, escalationVars, resultVars, ingestionVars
  <1>0. "primary" \in Processes /\ p # "done" /\ Len(reaped) \in Nat
    BY SupervisionAssumption DEF Processes, IInv, ReapInv
  <1>1. WasStarted /\ ~NoChildren
    BY <1>0 DEF IInv, ProcInv, WasStarted, NoChildren, Live
  <1>2. ProcInv' /\ WasStarted' /\ (proc["primary"] = "reaped" => proc'["primary"] = "reaped")
        /\ (proc'["primary"] = "reaped" /\ proc["primary"] # "reaped" <=> p = "primary")
    BY <1>0, <1>1 DEF IInv, ProcInv, WasStarted, NoChildren, Live
  <1>3. reaper # "done"
    BY DEF Reap
  <1>4. /\ reaped' \in Seq(Processes \cup {"done"})
        /\ Len(reaped') = Len(reaped) + 1 /\ reaped'[Len(reaped) + 1] = p
        /\ \A i \in 1..Len(reaped) : reaped'[i] = reaped[i] /\ i \in 1..Len(reaped')
    BY DEF IInv, ReapInv
  <1>5. ReapInv'
    <2>1. \A i \in 1..Len(reaped') : reaped'[i] # "done"
      BY <1>0, <1>3, <1>4 DEF IInv, ReapInv
    <2>2. \A i \in 1..Len(reaped') : reaped'[i] = "primary" => proc'["primary"] = "reaped"
      BY <1>0, <1>2, <1>4 DEF IInv, ReapInv
    <2>3. (primary # "none" => primary = status)'
      BY DEF IInv, ReapInv
    <2>4. p = "primary" => \E i \in 1..Len(reaped') : reaped'[i] = "primary"
      BY <1>0, <1>4
    <2>5. p # "primary" =>
            (main \in {"started", "pending", "loop"} /\ proc["primary"] = "reaped" /\ primary = "none" =>
               \E i \in 1..Len(reaped) : reaped[i] = "primary")'
      BY <1>0, <1>2, <1>4 DEF IInv, ReapInv
    <2> QED
      BY <1>4, <2>1, <2>2, <2>3, <2>4, <2>5 DEF ReapInv
  <1>6. MainInv' /\ SnapshotInv'
    BY <1>1, <1>2 DEF IInv, MainInv, SnapshotInv, WasStarted, Honest
  <1> QED
    BY <1>2, <1>5, <1>6 DEF IInv

LEMMA ReaperDoneStep ==
  ASSUME IInv, ReaperDone
  PROVE  IInv'
  <1> USE DEF ReaperDone, processVars, signalVars, escalationVars, resultVars, ingestionVars
  <1>0. Len(reaped) \in Nat /\ reaper # "done"
    BY DEF IInv, ReapInv
  <1>1. ProcInv'
    BY DEF IInv, ProcInv, WasStarted, NoChildren, Live
  <1>2. /\ reaped' \in Seq(Processes \cup {"done"})
        /\ Len(reaped') = Len(reaped) + 1 /\ reaped'[Len(reaped) + 1] = "done"
        /\ \A i \in 1..Len(reaped) : reaped'[i] = reaped[i] /\ i \in 1..Len(reaped')
    BY DEF IInv, ReapInv
  <1>3. ReapInv'
    BY <1>0, <1>2 DEF IInv, ReapInv
  <1>4. MainInv' /\ SnapshotInv'
    BY DEF IInv, MainInv, SnapshotInv, WasStarted, Honest, NoChildren, Live
  <1> QED
    BY <1>1, <1>3, <1>4 DEF IInv

LEMMA EnvironmentSteps ==
  ASSUME IInv, Environment \/ TimerFires \/ Reaper
  PROVE  IInv'
  <1> USE DEF processVars, signalVars, reaperVars, escalationVars, resultVars, ingestionVars
  <1>1. ASSUME NEW s \in {"TERM", "HUP"}, SendSignal(s) PROVE IInv'
    BY <1>1, QuietSteps DEF SendSignal
  <1>2. ASSUME NEW f \in AllFaults, Fault(f) PROVE IInv'
    BY <1>2, QuietSteps DEF Fault
  <1>3. CASE TimerFires
    BY <1>3, QuietSteps DEF TimerFires
  <1> QED
    BY <1>1, <1>2, <1>3, ForkStep, ExitStep, ReapStep, ReaperDoneStep DEF Environment, Reaper

----------------------------------------------------------------------------
(* Steps of main *)

\* A step of main that touches neither the processes nor the reaper.
LEMMA StepKeepsProcInv ==
  ASSUME ProcInv, UNCHANGED <<proc, status, reaper>>
  PROVE  /\ ProcInv' /\ WasStarted' = WasStarted /\ NoChildren' = NoChildren
  BY DEF ProcInv, WasStarted, NoChildren, Live

\* Before Start there is no child, and nothing the invariant says of a
\* started workload applies.
LEMMA NotStarted ==
  ASSUME ProcInv, ~WasStarted
  PROVE  NoChildren /\ proc["primary"] = "absent"
  BY DEF ProcInv, WasStarted, NoChildren, Live

LEMMA LaunchSteps ==
  ASSUME IInv, Launch
  PROVE  IInv'
  <1> USE DEF processVars, signalVars, reaperVars, escalationVars, resultVars, ingestionVars
  <1>1. CASE Initialize \/ RejectStart \/ Register \/ SubreaperFails \/ DrainPreStartSignals \/ StartFails
    <2>0. UNCHANGED <<proc, status, reaper, reaped, primary, admission, frozen, faults>>
      BY <1>1, Zenon DEF Initialize, RejectStart, Register, SubreaperFails, DrainPreStartSignals, StartFails
    <2>1. main \in {"initializing", "registering", "prestart", "starting"}
      BY <1>1 DEF Initialize, RejectStart, Register, SubreaperFails, DrainPreStartSignals, StartFails
    <2>2. ~WasStarted /\ ~frozen /\ exit = "none"
      BY <2>1, Zenon DEF IInv, MainInv, SnapshotInv
    <2>3. /\ main' \in {"registering", "prestart", "starting", "returned", "exited"}
          /\ exit' # "none" => main' = "exited"
      BY <1>1, <2>2, Zenon DEF Initialize, RejectStart, Register, SubreaperFails, DrainPreStartSignals, StartFails,
                        FailLifecycle
    <2>4. state' = "finalizing" => state = "finalizing"
      BY <1>1, FinalizingAfterExit, FailureIsNotFinalizing
         DEF Initialize, RejectStart, Register, SubreaperFails, DrainPreStartSignals, StartFails, FailLifecycle
    <2>5. ProcInv' /\ ~WasStarted' /\ NoChildren'
      BY <2>0, <2>2, StepKeepsProcInv, NotStarted DEF IInv
    <2>6. ReapInv'
      BY <2>0, <2>3 DEF IInv, ReapInv
    <2>7. MainInv'
      BY <2>3, <2>5 DEF MainInv, Supervising
    <2>8. SnapshotInv'
      BY <2>0, <2>2, <2>3, <2>4 DEF IInv, SnapshotInv
    <2> QED
      BY <2>5, <2>6, <2>7, <2>8, Zenon DEF IInv
  <1>2. CASE Start
    <2> USE <1>2 DEF Start
    <2>1. ~WasStarted /\ "primary" \in Processes
      BY DEF IInv, MainInv, Processes
    <2>2. ProcInv' /\ WasStarted' /\ proc'["primary"] = "running"
      BY <2>1 DEF IInv, ProcInv, WasStarted, NoChildren, Live
    <2>3. ReapInv'
      BY <2>1, <2>2 DEF IInv, ReapInv, ProcInv, WasStarted
    <2>4. MainInv' /\ SnapshotInv'
      BY <2>2 DEF IInv, MainInv, SnapshotInv, Supervising
    <2> QED
      BY <2>2, <2>3, <2>4 DEF IInv
  <1>3. CASE Started \/ ForwardPending
    <2>0. UNCHANGED <<proc, status, reaper, reaped, primary, result, admission, frozen, exit, faults>>
      BY <1>3 DEF Started, ForwardPending
    <2>1. main \in {"started", "pending"} /\ main' \in {"cleanup", "pending", "loop"}
      BY <1>3 DEF Started, ForwardPending
    <2>2. main' = "cleanup" => faults # {}
      BY <1>3 DEF Started, ForwardPending, Broken, Refused
    <2>3. state' = "finalizing" => state = "finalizing"
      BY <1>3, FinalizingAfterExit DEF Started, ForwardPending
    <2>4. ProcInv' /\ WasStarted' = WasStarted
      BY <2>0, StepKeepsProcInv DEF IInv
    <2>5. ReapInv'
      BY <2>0, <2>1 DEF IInv, ReapInv
    <2>6. MainInv' /\ SnapshotInv'
      BY <2>0, <2>1, <2>2, <2>3, <2>4 DEF IInv, MainInv, SnapshotInv, Supervising
    <2> QED
      BY <2>4, <2>5, <2>6 DEF IInv
  <1> QED
    BY <1>1, <1>2, <1>3 DEF Launch

\* While the loop runs: a step that kills some processes, or none, takes no
\* event of the reaper, and fails only with a fault.
LEMMA LoopStep ==
  ASSUME IInv, main \in {"loop", "cleanup", "reaping"},
         NEW targets, Kill(targets) \/ UNCHANGED <<proc, status>>,
         UNCHANGED <<reaped, reaper, primary, result, frozen, exit, faults>>,
         main' \in {main, "cleanup", "reaping"}, main' # main => faults # {},
         state' = "finalizing" => state = "finalizing"
  PROVE  IInv'
  <1>1. /\ ProcInv' /\ WasStarted' = WasStarted
        /\ proc["primary"] = "reaped" <=> proc'["primary"] = "reaped"
        /\ status # "none" => status' = status
    BY KillStep, StepKeepsProcInv DEF IInv
  <1>2. ReapInv'
    <2>1. (primary # "none" => primary = status)'
      BY <1>1 DEF IInv, ReapInv
    <2> QED
      BY <1>1, <2>1 DEF IInv, ReapInv
  <1>3. main \in Supervising /\ ~frozen /\ exit = "none"
    BY DEF IInv, MainInv, SnapshotInv, Supervising
  <1>4. MainInv' /\ SnapshotInv'
    BY <1>1, <1>3 DEF IInv, MainInv, SnapshotInv, Supervising
  <1> QED
    BY <1>1, <1>2, <1>4 DEF IInv

LEMMA SignalSteps ==
  ASSUME IInv, TakeAnySignal \/ TimerForces \/ KillGroup \/ KillPrimary
  PROVE  IInv'
  <1> USE DEF processVars, signalVars, reaperVars, escalationVars, resultVars, ingestionVars
  <1>0. TakeSignal => main = "loop" /\ (state' = "finalizing" => state = "finalizing")
    BY FinalizingAfterExit DEF TakeSignal, BeginShutdown
  <1>1. CASE HandleFails
    <2>1. faults # {}
      BY <1>1 DEF HandleFails, Broken, Refused
    <2> QED
      BY <1>0, <1>1, <2>1, LoopStep DEF HandleFails
  <1>2. CASE HandleForwards
    BY <1>0, <1>2, LoopStep DEF HandleForwards
  <1>3. CASE HandleForces
    BY <1>0, <1>3, LoopStep DEF HandleForces
  <1>4. CASE TimerForces
    <2>1. main' # main => faults # {}
      BY <1>4 DEF TimerForces, Broken, Refused
    <2>2. state' = "finalizing" => state = "finalizing"
      BY <1>4, FinalizingAfterExit DEF TimerForces
    <2> QED
      BY <1>4, <2>1, <2>2, LoopStep DEF TimerForces
  <1>5. CASE KillGroup
    <2>1. faults # {}
      BY <1>5 DEF KillGroup, IInv, MainInv
    <2> QED
      BY <1>5, <2>1, LoopStep DEF KillGroup
  <1>6. CASE KillPrimary
    BY <1>6, LoopStep DEF KillPrimary
  <1> QED
    BY <1>1, <1>2, <1>3, <1>4, <1>5, <1>6 DEF TakeAnySignal

\* What is left of the channel when its first event is taken.
LEMMA TakenEvent ==
  ASSUME IInv, reaped # <<>>, reaped' = Tail(reaped), UNCHANGED <<proc, reaper>>
  PROVE  /\ reaped' \in Seq(Processes \cup {"done"})
         /\ \A i \in 1..Len(reaped') : reaped'[i] = "done" => i = Len(reaped') /\ reaper' = "done"
         /\ \A i \in 1..Len(reaped') : reaped'[i] = "primary" => proc'["primary"] = "reaped"
         /\ (\E i \in 1..Len(reaped) : reaped[i] = "primary") /\ Head(reaped) # "primary" =>
              \E i \in 1..Len(reaped') : reaped'[i] = "primary"
         /\ Head(reaped) = "primary" => proc["primary"] = "reaped"
         /\ Head(reaped) = "done" => reaper = "done" /\ \A i \in 1..Len(reaped) : reaped[i] # "primary"
  <1>1. /\ reaped' \in Seq(Processes \cup {"done"}) /\ Len(reaped') = Len(reaped) - 1
        /\ Len(reaped) \in Nat /\ Len(reaped) >= 1 /\ Head(reaped) = reaped[1]
        /\ \A i \in 1..Len(reaped') : reaped'[i] = reaped[i + 1] /\ i + 1 \in 1..Len(reaped)
    BY TailOf DEF IInv, ReapInv
  <1>2. (\E i \in 1..Len(reaped) : reaped[i] = "primary") /\ Head(reaped) # "primary" =>
          \E i \in 1..Len(reaped') : reaped'[i] = "primary"
    <2> SUFFICES ASSUME NEW i \in 1..Len(reaped), reaped[i] = "primary", Head(reaped) # "primary"
                 PROVE  \E j \in 1..Len(reaped') : reaped'[j] = "primary"
      OBVIOUS
    <2>1. i - 1 \in 1..Len(reaped') /\ (i - 1) + 1 = i
      BY <1>1
    <2> QED
      BY <1>1, <2>1
  <1>3. 1 \in 1..Len(reaped)
    BY <1>1
  <1>d. \A i \in 1..Len(reaped) : reaped[i] = "done" => i = Len(reaped) /\ reaper = "done"
    BY DEF IInv, ReapInv
  <1>4. Head(reaped) = "done" => reaper = "done" /\ \A i \in 1..Len(reaped) : reaped[i] # "primary"
    <2> SUFFICES ASSUME Head(reaped) = "done"
                 PROVE  reaper = "done" /\ \A i \in 1..Len(reaped) : reaped[i] # "primary"
      OBVIOUS
    <2>1. reaper = "done" /\ Len(reaped) = 1
      BY <1>1, <1>3, <1>d, Zenon
    <2>2. \A i \in 1..Len(reaped) : i = 1
      BY <2>1
    <2> QED
      BY <1>1, <2>1, <2>2
  <1>5. Head(reaped) = "primary" => proc["primary"] = "reaped"
    BY <1>1, <1>3, Zenon DEF IInv, ReapInv
  <1>6. \A i \in 1..Len(reaped') : reaped'[i] = "done" => i = Len(reaped') /\ reaper' = "done"
    <2> SUFFICES ASSUME NEW i \in 1..Len(reaped'), reaped'[i] = "done"
                 PROVE  i = Len(reaped') /\ reaper' = "done"
      OBVIOUS
    <2>1. i + 1 \in 1..Len(reaped) /\ reaped[i + 1] = "done"
      BY <1>1
    <2>2. i + 1 = Len(reaped) /\ reaper = "done"
      BY <1>d, <2>1
    <2>3. Len(reaped') = Len(reaped) - 1 /\ i \in Int /\ reaper' = reaper
      BY <1>1
    <2> QED
      BY <2>2, <2>3
  <1>7. \A i \in 1..Len(reaped') : reaped'[i] = "primary" => proc'["primary"] = "reaped"
    BY <1>1, Zenon DEF IInv, ReapInv
  <1> QED
    BY <1>1, <1>2, <1>4, <1>5, <1>6, <1>7, Zenon

LEMMA TakeSteps ==
  ASSUME IInv, TakeReaped \/ TakeDone \/ ReapAfterFailure
  PROVE  IInv'
  <1> USE DEF processVars, signalVars, reaperVars, escalationVars, resultVars, ingestionVars
  <1>0. /\ main \in {"loop", "reaping"} /\ reaped # <<>> /\ reaped' = Tail(reaped)
        /\ UNCHANGED <<proc, status, reaper, frozen, exit, faults>>
    BY DEF TakeReaped, TakeDone, ReapAfterFailure
  <1>1. ProcInv' /\ WasStarted' /\ NoChildren' = NoChildren /\ WasStarted
    BY <1>0, StepKeepsProcInv DEF IInv, MainInv, Supervising
  <1>2. ~frozen /\ exit = "none"
    BY <1>0, Zenon DEF IInv, MainInv, SnapshotInv
  <1>3. Head(reaped) = "done" => NoChildren /\ (main = "loop" => primary # "none")
    BY <1>0, <1>1, TakenEvent DEF IInv, ProcInv, ReapInv, WasStarted, NoChildren, Live, Processes
  <1>4. CASE TakeReaped
    <2> USE <1>4 DEF TakeReaped
    <2>1. main' = "cleanup" => faults # {}
      BY Zenon DEF Broken
    <2>2. Head(reaped) = "primary" => primary' = status /\ status # "none"
      BY <1>0, TakenEvent DEF IInv, ProcInv
    <2>3. primary # "none" => primary' # "none"
      BY <2>2
    <2>4. (primary # "none" => primary = status)'
      BY <2>2 DEF IInv, ReapInv
    <2>5. main \in {"started", "pending", "loop"}
      BY Zenon
    <2>6. proc["primary"] = "reaped" /\ primary' = "none" => \E i \in 1..Len(reaped') : reaped'[i] = "primary"
      BY <1>0, <2>2, <2>5, TakenEvent, Zenon DEF IInv, ReapInv
    <2>7. ReapInv'
      BY <1>0, <2>4, <2>6, TakenEvent DEF ReapInv
    <2>8. state' = "finalizing" => primary' # "none"
      BY <2>2, <2>3, Zenon DEF IInv, SnapshotInv
    <2>9. MainInv' /\ SnapshotInv'
      BY <1>0, <1>1, <1>2, <2>1, <2>8 DEF MainInv, SnapshotInv, Supervising
    <2> QED
      BY <1>1, <2>7, <2>9 DEF IInv
  <1>5. CASE TakeDone
    <2> USE <1>5 DEF TakeDone
    <2>1. NoChildren /\ primary # "none" /\ primary = status
      BY <1>3 DEF IInv, ReapInv
    <2>2. Honest(result)'
      BY <2>1, Zenon DEF Honest, Broken
    <2>3. ReapInv'
      BY <1>0, TakenEvent, Zenon DEF IInv, ReapInv
    <2>4. MainInv' /\ SnapshotInv'
      BY <1>0, <1>1, <1>2, <2>1, <2>2 DEF IInv, MainInv, SnapshotInv, Supervising
    <2> QED
      BY <1>1, <2>3, <2>4 DEF IInv
  <1>6. CASE ReapAfterFailure
    <2> USE <1>6 DEF ReapAfterFailure
    <2>1. faults # {}
      BY DEF IInv, MainInv
    <2>2. main' = "returned" => Honest(result)' /\ NoChildren
      BY <1>3, <2>1, Zenon DEF Honest
    <2>3. ReapInv'
      BY <1>0, TakenEvent DEF IInv, ReapInv
    <2>4. main' \in {"reaping", "returned"}
      BY Zenon
    <2>5. MainInv' /\ SnapshotInv'
      BY <1>0, <1>1, <1>2, <2>1, <2>2, <2>4 DEF IInv, MainInv, SnapshotInv, Supervising
    <2> QED
      BY <1>1, <2>3, <2>5 DEF IInv
  <1> QED
    BY <1>4, <1>5, <1>6

LEMMA FinishSteps ==
  ASSUME IInv, Finish
  PROVE  IInv'
  <1> USE DEF processVars, signalVars, reaperVars, escalationVars, resultVars, ingestionVars
  <1>0. /\ UNCHANGED <<proc, status, reaper, reaped, primary, result, faults>>
        /\ main \in {"returned", "frozen", "waiting"}
        /\ main' \in {"frozen", "waiting", "exited"}
    BY Zenon DEF Finish, FinishStartFailed, FinishBeforeSpawn, Finalize, FinishOtherwise, FinishImmediately,
           EnterFinalWait, LeaveFinalWait, FailLifecycle
  <1>1. ProcInv' /\ WasStarted' = WasStarted /\ NoChildren' /\ NoChildren
    BY <1>0, StepKeepsProcInv DEF IInv, MainInv
  <1>2. ReapInv'
    BY <1>0 DEF IInv, ReapInv
  <1>3. exit = "none" /\ (WasStarted => Honest(result)) /\ (main = "returned" => ~frozen)
        /\ (main # "returned" => frozen)
    BY <1>0 DEF IInv, MainInv, SnapshotInv
  <1>4. /\ exit' \in {"none", result, "internal"}
        /\ exit' # "none" => main' = "exited"
        /\ exit' = "internal" => faults # {} \/ result = "internal"
    BY <1>3, Zenon DEF Finish, FinishStartFailed, FinishBeforeSpawn, Finalize, FinishOtherwise, FinishImmediately,
                EnterFinalWait, LeaveFinalWait, FailLifecycle, Broken
  <1>5. exit' # "none" /\ WasStarted => Honest(exit)'
    BY <1>0, <1>3, <1>4 DEF Honest
  <1>6. MainInv'
    BY <1>0, <1>1, <1>3, <1>4, <1>5 DEF MainInv, Supervising, Honest
  <1>7. state' = "finalizing" => state = "finalizing"
    BY FinalizingAfterExit, FailureIsNotFinalizing, Zenon
       DEF Finish, FinishStartFailed, FinishBeforeSpawn, Finalize, FinishOtherwise, FinishImmediately,
           EnterFinalWait, LeaveFinalWait, FailLifecycle
  <1>8. SnapshotInv'
    <2>1. CASE Finalize
      <3>1. primary # "none"
        BY <2>1 DEF Finalize, Finalizes, IInv, SnapshotInv
      <3> QED
        BY <1>0, <1>3, <1>7, <2>1, <3>1 DEF Finalize, SnapshotInv, FailLifecycle
    <2>2. CASE ~Finalize
      <3>1. UNCHANGED <<frozen, admission>>
        BY <2>2, Zenon DEF Finish, FinishStartFailed, FinishBeforeSpawn, FinishOtherwise, FinishImmediately,
                    EnterFinalWait, LeaveFinalWait
      <3>2. main = "returned" => main' = "exited"
        BY <2>2, Zenon DEF Finish, FinishStartFailed, FinishBeforeSpawn, FinishOtherwise, FinishImmediately,
                    EnterFinalWait, LeaveFinalWait, FailLifecycle
      <3> QED
        BY <1>0, <1>3, <1>7, <3>1, <3>2 DEF IInv, SnapshotInv
    <2> QED
      BY <2>1, <2>2
  <1> QED
    BY <1>1, <1>2, <1>6, <1>8 DEF IInv

----------------------------------------------------------------------------
(* Theorems *)

\* The inductive invariant: what the reaper reports and what main has done
\* agree with the state of the processes.
THEOREM Invariant == Spec => []IInv
  <1>1. IInv /\ [Next]_vars => IInv'
    <2> SUFFICES ASSUME IInv, [Next]_vars PROVE IInv'
      OBVIOUS
    <2>1. CASE UNCHANGED vars
      BY <2>1, QuietSteps DEF vars, processVars, reaperVars, resultVars, ingestionVars
    <2>2. CASE Exited
      BY <2>2, QuietSteps DEF Exited, vars, processVars, reaperVars, resultVars, ingestionVars
    <2> QED
      BY <2>1, <2>2, EnvironmentSteps, LaunchSteps, SignalSteps, TakeSteps, FinishSteps
         DEF Next, Main, Cleanup
  <1> QED
    BY <1>1, InitInv, PTL DEF Spec

\* The exit code of cli.Run is how the primary ended, and only a fault makes
\* it an internal failure.
THEOREM HonestExit == Spec => []ExitIsTheWorkloads
  <1>1. IInv => ExitIsTheWorkloads
    BY DEF IInv, MainInv, Honest, ExitIsTheWorkloads
  <1> QED
    BY <1>1, Invariant, PTL

\* cli.Run never returns with a process of the workload left, reaped or not.
THEOREM AllReaped == Spec => []NoChildLeftBehind
  <1>1. IInv => NoChildLeftBehind
    BY DEF IInv, MainInv, NoChildLeftBehind
  <1> QED
    BY <1>1, Invariant, PTL

\* The snapshot is frozen after the last writer is gone and admission closed.
THEOREM FrozenLast == Spec => []FrozenAfterTheLastWriter
  <1>1. IInv => FrozenAfterTheLastWriter
    BY DEF IInv, MainInv, SnapshotInv, FrozenAfterTheLastWriter
  <1> QED
    BY <1>1, Invariant, PTL

\* The workload is killed only after its grace, on a repeated signal, without
\* a budget, or after a fault.
THEOREM GraceGiven == Spec => GraceIsRespected
  <1> DEFINE Respects ==
        status' = "killed" /\ status # "killed" =>
          \/ timer = "fired" \/ plan' = "zero"
          \/ plan # "none" /\ signals # <<>> /\ Head(signals) = "TERM"
          \/ faults # {}
  <1>1. IInv /\ [Next]_vars => [Respects]_vars
    <2> SUFFICES ASSUME IInv, Next, status' = "killed", status # "killed" PROVE Respects
      OBVIOUS
    <2>0. ~(UNCHANGED status)
      OBVIOUS
    <2> USE DEF processVars, vars
    <2>1. CASE Environment \/ TimerFires \/ Reaper \/ Exited
      BY <2>0, <2>1, Zenon DEF Environment, SendSignal, Fork, ProcessExit, Fault, TimerFires, Reaper, ReaperDone, Reap,
                        Exited
    <2>2. CASE Launch \/ Finish
      BY <2>0, <2>2, Zenon DEF Launch, Initialize, RejectStart, Register, SubreaperFails, DrainPreStartSignals, StartFails,
                   Start, Started, ForwardPending, Finish, FinishStartFailed, FinishBeforeSpawn, Finalize,
                   FinishOtherwise, FinishImmediately, EnterFinalWait, LeaveFinalWait
    <2>3. CASE TakeAnySignal
      BY <2>0, <2>3 DEF TakeAnySignal, HandleFails, HandleForwards, HandleForces, TakeSignal, First
    <2>4. CASE TimerForces
      BY <2>4 DEF TimerForces
    <2>5. CASE TakeReaped \/ TakeDone
      BY <2>0, <2>5 DEF TakeReaped, TakeDone
    <2>6. CASE Cleanup
      <3>1. main \in {"cleanup", "reaping"}
        BY <2>6 DEF Cleanup, KillGroup, KillPrimary, ReapAfterFailure
      <3> QED
        BY <3>1 DEF IInv, MainInv
    <2> QED
      BY <2>1, <2>2, <2>3, <2>4, <2>5, <2>6 DEF Next, Main
  <1> QED
    BY <1>1, Invariant, PTL DEF Spec, GraceIsRespected
=============================================================================
