---------------------------- MODULE SelfMetrics ----------------------------
(***************************************************************************)
(* The registry of the program's own metrics, and every call the program   *)
(* makes to it:                                                            *)
(*   implementation/internal/selfmetric/registry.go                        *)
(*   callers in cli, ingestion, exposition and managedobserve              *)
(*                                                                         *)
(* A family is known by the constant that names it.  A label set is a set  *)
(* of pairs <<name, value>>.  A gauge or an observation is a number of     *)
(* thousandths; none of the callers computes a NaN or an infinity.  Most   *)
(* callers drop the error a call returns.                                  *)
(***************************************************************************)
EXTENDS Integers, Sequences, FiniteSets, SequencesExt, Lifecycle

CONSTANTS
  MaxCounter,  \* ^uint64(0)
  MaxUpdates,  \* bound on the number of calls
  Counts,      \* the whole numbers a caller reports
  Instants,    \* the times a caller reports
  Durations    \* how long a shutdown took

One == 1000

\* The values of the labels the registry knows.
FinalWaitModes        == {"immediate", "duration", "scrapes"}
RuntimeFailureReasons == {"configuration", "bind", "workload_start", "protocol", "resource", "internal"}
Signals               == {"TERM", "INT", "HUP", "QUIT", "KILL"}
PublicationOutcomes   == {"accepted", "rejected", "busy", "timeout", "internal_error"}
RejectionReasons ==
  {"malformed", "numeric_invalid", "schema_version", "empty_payload", "payload_limit",
   "series_limit", "label_limit", "name_limit", "policy", "duplicate_series", "type_conflict",
   "metadata_conflict", "histogram_invalid", "reserved_name", "frozen", "internal"}
FileTriggers       == {"startup", "event", "periodic", "overflow", "watch_reinstall"}
FileOutcomes       == {"accepted", "unchanged", "absent", "invalid", "error"}
SocketFrameReasons ==
  {"malformed", "protocol_version", "frame_limit", "part_limit", "duplicate_part", "missing_part",
   "transaction_invalid", "transaction_expired"}
ExpositionOutcomes  == {"success", "write_error", "response_limit", "encoding_error", "timeout"}
FinalScrapeOutcomes == {"completed", "ineligible", "write_error", "cancelled"}
FinalWaitReasons ==
  {"immediate", "duration_elapsed", "required_scrapes", "timeout", "external_termination",
   "runtime_failure"}
ShutdownPhases == {"workload_wait", "forced_termination", "finalization", "http_drain", "total"}
ShutdownBuckets ==
  <<1, 5, 10, 50, 100, 250, 500, 1000, 2000, 5000, 10000, 30000, 60000>>
ManagedOutcomes      == {"committed", "rejected", "overloaded", "cancelled", "closed", "unknown"}
ManagedRejectClasses == {"semantic", "resource", "overload", "late", "protocol"}
ManagedProtocolCodes ==
  {"empty_frame", "partial_frame", "frame_too_large", "multiple_frames", "malformed_json",
   "missing_version", "invalid_version", "unsupported_version", "invalid_request"}

\* Variant: the managed transport was not added to the others.
TransportsOfSnapshots == {"file", "unix", "http"}

Transports == {"file", "unix", "http", "managed"}

----------------------------------------------------------------------------
(* The families *)

Family0(suffix, type, labels, allowed, managed) ==
  [suffix |-> suffix, type |-> type, labels |-> labels, allowed |-> allowed, managed |-> managed,
   buckets |-> IF type = "histogram" THEN ShutdownBuckets ELSE <<>>]

Gauge == Family0(<<>>, "gauge", <<>>, <<>>, FALSE)
Total == Family0(<<"_total">>, "counter", <<>>, <<>>, FALSE)
\* A family that is only written together with the rest of its domain.
DomainGauge == Family0(<<>>, "gauge", <<>>, <<>>, TRUE)

OneHot(label, values)      == Family0(<<>>, "gauge", <<label>>, <<values>>, TRUE)
GaugeBy(label, values)     == Family0(<<>>, "gauge", <<label>>, <<values>>, FALSE)
TotalBy(label, values)     == Family0(<<"_total">>, "counter", <<label>>, <<values>>, FALSE)
TotalByTwo(l, values, m, others) ==
  Family0(<<"_total">>, "counter", <<l, m>>, <<values, others>>, FALSE)

definitions == [
  BuildInfo                  |-> Family0(<<>>, "gauge", <<"version", "revision">>, <<>>, TRUE),
  UptimeSeconds              |-> DomainGauge,
  RuntimeState               |-> OneHot("state", States),
  RuntimeFailuresTotal       |-> TotalBy("reason", RuntimeFailureReasons),
  WorkloadRunning            |-> DomainGauge,
  WorkloadProcessID          |-> DomainGauge,
  WorkloadStartsTotal        |-> TotalBy("outcome", {"started", "start_failed"}),
  WorkloadExitCode           |-> DomainGauge,
  WorkloadSignalsTotal       |-> TotalByTwo("signal", Signals, "target", {"process", "process_group"}),
  WorkloadForcedTotal        |-> Total,
  ChildrenReapedTotal        |-> TotalBy("kind", {"direct", "adopted"}),
  SnapshotGeneration         |-> DomainGauge,
  SnapshotSeries             |-> DomainGauge,
  SnapshotBytes              |-> DomainGauge,
  SnapshotPublicationsTotal  |-> TotalByTwo("transport", Transports, "outcome", PublicationOutcomes),
  SnapshotRejectionsTotal    |-> TotalByTwo("transport", Transports, "reason", RejectionReasons),
  IngestionInflight          |-> GaugeBy("transport", Transports),
  IngestionConnections       |-> GaugeBy("transport", Transports),
  IngestionLastSuccess       |-> GaugeBy("transport", Transports),
  FileReconciliationsTotal   |-> TotalByTwo("trigger", FileTriggers, "outcome", FileOutcomes),
  FileWatchEventsTotal       |-> TotalBy("event", {"overflow", "invalidated", "reinstalled"}),
  SocketTransactionsInflight |-> Gauge,
  SocketFramesRejectedTotal  |-> TotalBy("reason", SocketFrameReasons),
  FilterRules                |-> GaugeBy("kind", {"include", "exclude"}),
  FilterFamilies             |-> GaugeBy("outcome", {"included", "excluded"}),
  ExpositionRequestsTotal    |-> TotalByTwo("format", {"prometheus", "openmetrics"}, "outcome", ExpositionOutcomes),
  ExpositionInflight         |-> Gauge,
  ExpositionResponseBytes    |-> GaugeBy("format", {"prometheus", "openmetrics"}),
  FinalWaitActive            |-> Gauge,
  FinalWaitModeInfo          |-> OneHot("mode", FinalWaitModes),
  FinalWaitRequiredScrapes   |-> Gauge,
  FinalWaitCompletedScrapes  |-> Gauge,
  FinalScrapeAttemptsTotal   |-> TotalBy("outcome", FinalScrapeOutcomes),
  FinalWaitCompletionsTotal  |-> TotalBy("reason", FinalWaitReasons),
  FinalWaitDeadline          |-> Gauge,
  ShutdownActive             |-> Gauge,
  ShutdownDeadline           |-> Gauge,
  ShutdownPhaseDuration      |-> Family0(<<>>, "histogram", <<"phase">>, <<ShutdownPhases>>, FALSE),
  ManagedOperationsTotal     |-> TotalBy("outcome", ManagedOutcomes),
  ManagedRejectionsTotal     |-> TotalBy("class", ManagedRejectClasses),
  ManagedProtocolTotal       |-> TotalBy("code", ManagedProtocolCodes),
  ManagedQueueDepth          |-> Gauge,
  ManagedQueueCapacity       |-> Gauge,
  ManagedFamilies            |-> Gauge,
  ManagedSeries              |-> Gauge,
  ManagedGeneration          |-> Gauge,
  ManagedMaterializations    |-> TotalBy("outcome", {"built", "cache_hit", "error"}),
  ManagedFreezes             |-> TotalBy("outcome", {"winner", "duplicate"}),
  ManagedFinalInstalls       |-> TotalBy("outcome", {"accepted", "rejected", "error"})]

Ids == DOMAIN definitions

\* The name of a family in parts, as in SnapshotFormat; its constant stands for the middle one.
FamilyName(id) == <<"metricshell_", id>> \o definitions[id].suffix

isBinaryGauge(id) == id \in {"FinalWaitActive", "ShutdownActive"}

isIntegralGauge(id) ==
  \/ id \in {"IngestionInflight", "IngestionConnections", "SocketTransactionsInflight",
             "FilterRules", "FilterFamilies", "ExpositionInflight", "ExpositionResponseBytes",
             "FinalWaitRequiredScrapes", "FinalWaitCompletedScrapes"}
  \/ isBinaryGauge(id)

validateDefinition(id) ==
  LET item == definitions[id] IN
    /\ item.type \in {"gauge", "counter", "histogram"}
    /\ item.type = "counter" <=> item.suffix = <<"_total">>
    /\ IF id = "BuildInfo"
       THEN item.managed /\ item.labels = <<"version", "revision">> /\ item.allowed = <<>>
       ELSE /\ Len(item.labels) = Len(item.allowed)
            /\ IsInjective(item.labels)
            /\ {} \notin ToSet(item.allowed)
            /\ IF item.type = "histogram"
               THEN item.buckets # <<>>
                    /\ \A i \in 1..Len(item.buckets) :
                         item.buckets[i] > IF i = 1 THEN 0 ELSE item.buckets[i - 1]
               ELSE item.buckets = <<>>

\* The identity that New is given.
Identity == {<<"version", "v">>, <<"revision", "r">>}

\* One series for every combination of allowed values.
labelCombinations(id) ==
  LET item == definitions[id] IN
    CASE id = "BuildInfo"       -> {Identity}
      [] Len(item.labels) = 0   -> {{}}
      [] Len(item.labels) = 1   -> {{<<item.labels[1], v>>} : v \in item.allowed[1]}
      [] Len(item.labels) = 2   ->
           {{<<item.labels[1], v>>, <<item.labels[2], w>>} : v \in item.allowed[1], w \in item.allowed[2]}

----------------------------------------------------------------------------
(* The registry *)

VARIABLES
  samples,  \* Registry.families: of each family, the value of each series
  lost,    \* the call whose error nobody handles, if any
  updates  \* number of calls

metricsVars == <<samples, lost, updates>>

NoHistogram == [count |-> 0, sum |-> 0, buckets |-> [i \in 1..Len(ShutdownBuckets) |-> 0]]

newRegistry ==
  [id \in Ids |-> [labels \in labelCombinations(id) |->
     IF definitions[id].type = "histogram" THEN NoHistogram ELSE 0]]

setOneHot(s, id, label, selected) ==
  [s EXCEPT ![id] = [labels \in DOMAIN @ |-> IF labels = {<<label, selected>>} THEN One ELSE 0]]

\* Also mustSetManagedGauge, for a family without labels.
SetTo(s, id, labels, value) == [s EXCEPT ![id][labels] = value]

activeSnapshot(s, active) ==
  SetTo(SetTo(SetTo(s, "SnapshotGeneration", {}, active.generation),
              "SnapshotSeries", {}, active.series),
        "SnapshotBytes", {}, active.bytes)

New ==
  LET built == SetTo(newRegistry, "BuildInfo", Identity, One)
      exit  == SetTo(built, "WorkloadExitCode", {}, -One)
      state == setOneHot(exit, "RuntimeState", "state", "initializing")
      mode  == setOneHot(state, "FinalWaitModeInfo", "mode", "immediate")
  IN activeSnapshot(mode, [generation |-> 0, series |-> 0, bytes |-> 0])

MetricsInit ==
  /\ samples = New
  /\ lost = IF \A id \in Ids : validateDefinition(id) THEN "none" ELSE "definition"
  /\ updates = 0

\* The error of resolve: the family, its type and its labels must all fit.
resolve(id, labels, type) ==
  CASE id \notin Ids -> "unknown_metric"
    [] definitions[id].type # type -> "metric_type"
    [] labels \notin DOMAIN samples[id] -> "labels"
    [] OTHER -> "nil"

\* One call: it changes the registry, or returns an error and changes nothing.
Return(error, call, next) ==
  /\ updates < MaxUpdates
  /\ updates' = updates + 1
  /\ samples' = IF error = "nil" THEN next ELSE samples
  /\ lost' = IF error \in {"nil", "counter_full"} THEN lost ELSE call

SetGauge(id, labels, value) ==
  LET error == resolve(id, labels, "gauge") IN
    Return(CASE value < 0 -> "value"
             [] error # "nil" -> error
             [] definitions[id].managed -> "managed"
             [] isBinaryGauge(id) /\ value \notin {0, One} -> "value"
             [] isIntegralGauge(id) /\ value % One # 0 -> "value"
             [] OTHER -> "nil",
           id, SetTo(samples, id, labels, value))

\* A counter at its limit keeps its value.
AddCounter(id, labels) ==
  LET error == resolve(id, labels, "counter") IN
    Return(CASE error # "nil" -> error
             [] samples[id][labels] = MaxCounter -> "counter_full"
             [] OTHER -> "nil",
           id, SetTo(samples, id, labels, samples[id][labels] + 1))

withObservation(h, value) ==
  [count |-> h.count + 1, sum |-> h.sum + value,
   buckets |-> [i \in 1..Len(h.buckets) |->
      h.buckets[i] + IF value <= ShutdownBuckets[i] THEN 1 ELSE 0]]

Observe(id, labels, value) ==
  LET error == resolve(id, labels, "histogram") IN
    Return(CASE value < 0 -> "value"
             [] error # "nil" -> error
             [] samples[id][labels].count = MaxCounter -> "counter_full"
             [] OTHER -> "nil",
           id, SetTo(samples, id, labels, withObservation(samples[id][labels], value)))

SetRuntimeState(state) ==
  Return(IF state \in States THEN "nil" ELSE "value", "RuntimeState",
         setOneHot(samples, "RuntimeState", "state", state))

SetFinalWaitMode(mode) ==
  Return(IF mode \in FinalWaitModes THEN "nil" ELSE "value", "FinalWaitModeInfo",
         setOneHot(samples, "FinalWaitModeInfo", "mode", mode))

SetWorkload(pid, running) ==
  Return(IF pid < 0 \/ (running <=> pid = 0) THEN "value" ELSE "nil", "WorkloadRunning",
         SetTo(SetTo(samples, "WorkloadRunning", {}, IF running THEN One ELSE 0),
               "WorkloadProcessID", {}, pid * One))

SetWorkloadExitCode(code) ==
  Return(IF code \in 0..255 THEN "nil" ELSE "value", "WorkloadExitCode",
         SetTo(samples, "WorkloadExitCode", {}, code * One))

SetActiveSnapshot(active) == Return("nil", "SnapshotGeneration", activeSnapshot(samples, active))

----------------------------------------------------------------------------
(* The calls.  A handler that makes several calls makes them one by one:   *)
(* a scrape may read the registry between any two of them.                 *)

By(label, value) == {<<label, value>>}

\* cli/run.go, Run: the observers of the machine, the workload and the final wait.
RunCalls ==
  \/ \E state \in States : SetRuntimeState(state)
  \/ \E mode \in {"immediate", "duration", "scrapes"} : SetFinalWaitMode(mode)
  \/ \E reason \in {"configuration", "bind", "resource", "workload_start", "internal"} :
       AddCounter("RuntimeFailuresTotal", By("reason", reason))
  \/ \E pid \in {1, 2} : SetWorkload(pid, TRUE)
  \/ SetWorkload(0, FALSE)
  \/ \E outcome \in {"started", "start_failed"} : AddCounter("WorkloadStartsTotal", By("outcome", outcome))
  \/ \E code \in {0, 255} : SetWorkloadExitCode(code)
  \/ \E kind \in {"direct", "adopted"} : AddCounter("ChildrenReapedTotal", By("kind", kind))
  \/ AddCounter("WorkloadForcedTotal", {})
  \/ \E signal \in {"TERM", "INT", "HUP", "QUIT"} :
       AddCounter("WorkloadSignalsTotal", {<<"signal", signal>>, <<"target", "process_group">>})
  \/ SetGauge("ShutdownActive", {}, One)
  \/ \E t \in Instants : SetGauge("ShutdownDeadline", {}, t)
  \/ \E d \in Durations : Observe("ShutdownPhaseDuration", By("phase", "total"), d)

FinalWaitCalls ==
  \/ \E n \in Counts : \/ SetGauge("FinalWaitRequiredScrapes", {}, n)
                       \/ SetGauge("FinalWaitCompletedScrapes", {}, n)
  \/ \E n \in {0, One} : SetGauge("FinalWaitActive", {}, n)
  \/ \E t \in Instants \cup {0} : SetGauge("FinalWaitDeadline", {}, t)
  \/ \E outcome \in {"completed", "ineligible", "write_error", "cancelled"} :
       AddCounter("FinalScrapeAttemptsTotal", By("outcome", outcome))
  \/ \E reason \in {"immediate", "duration_elapsed", "required_scrapes", "timeout",
                    "external_termination", "runtime_failure"} :
       AddCounter("FinalWaitCompletionsTotal", By("reason", reason))

\* The transports, outcomes and reasons of ingestion and snapshot.
CoreTransports == {"file", "unix", "http", "managed"}
CoreOutcomes   == {"accepted", "rejected", "busy", "timeout", "internal_error"}
CoreReasons ==
  {"malformed", "numeric_invalid", "schema_version", "empty_payload", "payload_limit",
   "series_limit", "label_limit", "name_limit", "policy", "duplicate_series", "type_conflict",
   "metadata_conflict", "histogram_invalid", "reserved_name", "frozen", "internal"}

\* ingestion/core.go, MetricsObserver: Started, Completed and Declined.
CoreCalls ==
  \E transport \in CoreTransports :
    LET from == By("transport", transport) IN
      \/ \E n \in Counts : SetGauge("IngestionInflight", from, n)
      \/ \E outcome \in CoreOutcomes :
           AddCounter("SnapshotPublicationsTotal", from \cup By("outcome", outcome))
      \/ \E reason \in CoreReasons :
           AddCounter("SnapshotRejectionsTotal", from \cup By("reason", reason))
      \/ \E t \in Instants : SetGauge("IngestionLastSuccess", from, t)

ActiveCalls == \E n \in Counts : SetActiveSnapshot([generation |-> n, series |-> n, bytes |-> n])

\* exposition/handler.go: NewHandler, serveMetrics, acceptMetric, finishMetric and observe.
HandlerCalls ==
  \/ \E n \in Counts :
       \/ \E kind \in {"include", "exclude"} : SetGauge("FilterRules", By("kind", kind), n)
       \/ \E outcome \in {"included", "excluded"} : SetGauge("FilterFamilies", By("outcome", outcome), n)
       \/ SetGauge("ExpositionInflight", {}, n)
       \/ \E format \in {"prometheus", "openmetrics"} :
            SetGauge("ExpositionResponseBytes", By("format", format), n)
  \/ \E format \in {"prometheus", "openmetrics"},
        outcome \in {"success", "write_error", "response_limit", "encoding_error", "timeout"} :
       AddCounter("ExpositionRequestsTotal", {<<"format", format>>, <<"outcome", outcome>>})

\* managedobserve/observer.go: the outcomes of managed/owner.go, the classes
\* of rejectionClass and the codes of managedprotocol.
ManagedCalls ==
  \/ \E outcome \in {"committed", "rejected", "overloaded", "cancelled", "unknown", "closed"} :
       AddCounter("ManagedOperationsTotal", By("outcome", outcome))
  \/ \E class \in {"resource", "late", "semantic", "overload", "protocol"} :
       AddCounter("ManagedRejectionsTotal", By("class", class))
  \/ \E code \in {"empty_frame", "partial_frame", "frame_too_large", "multiple_frames",
                  "malformed_json", "missing_version", "invalid_version", "unsupported_version",
                  "invalid_request"} :
       AddCounter("ManagedProtocolTotal", By("code", code))
  \/ \E n \in Counts :
       \/ SetGauge("IngestionConnections", By("transport", "managed"), n)
       \/ \E id \in {"ManagedQueueCapacity", "ManagedQueueDepth", "ManagedGeneration",
                     "ManagedFamilies", "ManagedSeries"} : SetGauge(id, {}, n)
  \/ \E outcome \in {"built", "error", "cache_hit"} :
       AddCounter("ManagedMaterializations", By("outcome", outcome))
  \/ \E outcome \in {"duplicate", "winner"} : AddCounter("ManagedFreezes", By("outcome", outcome))
  \/ \E outcome \in {"error", "accepted", "rejected"} :
       AddCounter("ManagedFinalInstalls", By("outcome", outcome))

MetricsNext ==
  RunCalls \/ FinalWaitCalls \/ CoreCalls \/ ActiveCalls \/ HandlerCalls \/ ManagedCalls

----------------------------------------------------------------------------
(* Properties *)

\* Every call the program makes names a family, a label set and a value that
\* the registry takes, so that no count is dropped with the error that the
\* callers ignore and no observer fails the run because of one; a counter at
\* its limit stays there.  And a scrape sees, between any two calls, one
\* runtime state and one mode, a process exactly when the workload runs, no
\* counter that wrapped, and a histogram whose buckets never fall (registry.go
\* resolve, SetRuntimeState, SetFinalWaitMode, SetWorkload, AddCounter and
\* Observe, against all their callers).
ViewIsConsistent ==
  /\ lost = "none"
  /\ \A id \in {"RuntimeState", "FinalWaitModeInfo"} :
       Cardinality({labels \in DOMAIN samples[id] : samples[id][labels] # 0}) = 1
  /\ samples["WorkloadRunning"][{}] = One <=> samples["WorkloadProcessID"][{}] # 0
  /\ \A id \in Ids : \A labels \in DOMAIN samples[id] :
       LET value == samples[id][labels] IN
         CASE definitions[id].type = "counter" -> value \in 0..MaxCounter
           [] definitions[id].type = "gauge" -> value >= 0 \/ (id = "WorkloadExitCode" /\ value = -One)
           [] definitions[id].type = "histogram" ->
                \A i \in 1..Len(value.buckets) :
                  /\ value.buckets[i] <= value.count
                  /\ i > 1 => value.buckets[i - 1] <= value.buckets[i]
=============================================================================
