----------------------------- MODULE Lifecycle -----------------------------
(***************************************************************************)
(* The lifecycle machine: the table of lifecycle.transitions and the       *)
(* lookup of Machine.TransitionEvent.                                      *)
(***************************************************************************)

States ==
  {"initializing", "starting_workload", "running", "stopping", "finalizing", "final_wait",
   "failed", "terminated"}

\* From a state, on an event, to a state.
Transitions == {
  <<"initializing", "configuration_validated", "starting_workload">>,
  <<"initializing", "initialization_failed", "failed">>,
  <<"initializing", "termination_before_spawn", "terminated">>,
  <<"initializing", "runtime_failed", "failed">>,
  <<"starting_workload", "workload_started", "running">>,
  <<"starting_workload", "workload_start_failed", "failed">>,
  <<"starting_workload", "termination_before_spawn", "terminated">>,
  <<"starting_workload", "termination_after_spawn", "stopping">>,
  <<"starting_workload", "runtime_failed", "failed">>,
  <<"running", "workload_exited", "finalizing">>,
  <<"running", "termination_after_spawn", "stopping">>,
  <<"running", "runtime_failed", "failed">>,
  <<"stopping", "workload_exited", "finalizing">>,
  <<"stopping", "runtime_failed", "failed">>,
  <<"finalizing", "finalization_wait", "final_wait">>,
  <<"finalizing", "finalization_immediate", "terminated">>,
  <<"finalizing", "termination_after_spawn", "terminated">>,
  <<"finalizing", "runtime_failed", "failed">>,
  <<"final_wait", "final_wait_completed", "terminated">>,
  <<"final_wait", "termination_after_spawn", "terminated">>,
  <<"final_wait", "runtime_failed", "failed">>,
  <<"failed", "cleanup_completed", "terminated">>}

Targets(s, event) == {t \in States : <<s, event, t>> \in Transitions}

\* TransitionEvent moves only when the table has exactly one target, and
\* reports an error otherwise.
CanTransition(s, event) == \E t \in States : Targets(s, event) = {t}

After(s, event) ==
  IF CanTransition(s, event) THEN CHOOSE t \in States : Targets(s, event) = {t} ELSE s

\* failLifecycle: runtime_failed unless already failed, then cleanup_completed.
AfterFailure(s) ==
  After(IF s = "failed" THEN s ELSE After(s, "runtime_failed"), "cleanup_completed")

=============================================================================
