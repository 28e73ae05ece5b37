# A TLA+ model of MetricShell

MetricShell runs as the first process of a container. It starts one workload,
takes complete metric snapshots from it (a file, a Unix socket or HTTP) or
aggregates single operations itself (managed mode), serves the result on
`/metrics`, forwards signals, reaps every descendant and, after the workload has
ended, keeps the last snapshot exposed until a final-wait policy is satisfied.

The modules here model what is concurrent or bounded in that program: who may
change the active snapshot and when it freezes, what a client may conclude from
an answer, when the process may end and what must have happened before. Paths
below are relative to `implementation/internal/`; `PROJECT.json` maps every
definition to its lines.

## The parts of the system and the modules

| Part of the program | Code | Module |
|---|---|---|
| Ingestion core and holder | `ingestion/core.go`, `snapshot/holder.go` | `IngestionCore`; abstract: `SnapshotRegister` |
| Snapshot validation | `snapshot/parser.go`, `snapshot/model.go` | `SnapshotFormat`; reference: `SnapshotReference` |
| Lifecycle machine | `lifecycle/machine.go` | `Lifecycle` (used by the next two) |
| Workload supervision and the body of `cli.Run` | `workload/run.go`, `cli/run.go` | `Supervision` |
| Final wait and metric handler | `finalwait/wait.go`, `exposition/handler.go`, `cli/run.go` | `FinalWait` |
| Configuration and start of the process | `config/bootstrap.go`, the `Validate` of each component, `cli/run.go` | `Configuration`; `Startup` composes it with the next |
| Shutdown budget | `shutdown/budget.go` and its users | `ShutdownBudget` |
| Managed server, owner, registry, cache, bridge, publisher, finalizer | `managedserver/`, `managed/`, `managedmaterialize/`, `managedbridge/`, `managedpublish/`, `managedfinalize/` | `Managed`; abstract: `ManagedLog` |
| Managed semantic model | `managed/model.go`, `managedmaterialize/cache.go` | `ManagedModel`; `SnapshotModes` composes it with the validation |
| Managed protocol, client and observer | `managedprotocol/`, `managedclient/`, `managedserver/`, `managedobserve/` | `ManagedExchange` |
| File ingestion | `fileingest/` | `FileIngest` |
| Unix snapshot protocol and its Go client | `socketingest/`, `../client/writer.go` | `SocketProtocol`, `SocketWriter` (composes both) |
| HTTP ingestion | `httpingest/handler.go` | `HTTPIngest` |
| Scrapes: limiter, filter, negotiation, view | `exposition/handler.go`, `filter.go`, `response.go` | `Scrape`; `HTTPEndpoints` composes it with `HTTPIngest` over one holder |
| The program's own metrics and everything that reports to them | `selfmetric/registry.go` and its callers | `SelfMetrics` |
| What a response contains, in both formats | `exposition/encode.go`, `exposition/filter.go`, `selfmetric/encode.go` | `Exposition` (composes `SnapshotModes` and `SelfMetrics`) |
| Release tool | `supplychain/` | `Release`; `Programs` is either this tool or `Startup` |

How they meet: every transport ends in `Core.Publish`; `cli.Run` owns the order
workload exit, admission closed, managed drain and final install,
`CloseAndFreeze`, final wait, server close. `Supervision` and `FinalWait` split
that sequence at the freeze: the first keeps processes and signals and treats
the wait as one bounded stage, the second starts in finalizing and keeps
scrapes, timer and drain. `Startup` follows a process from its command line
through the shutdown plan that its configuration gives it.

### State and actions

* `IngestionCore`: one program counter per `Publish` call, the two semaphores as
  the set of calls that hold a slot, the `WaitGroup` as the set `admitted`, the
  holder (`active`, `bindings`, `holderFrozen`) and the goroutines of
  `CloseAndFreeze`. A step ends where the code unlocks, sends on a channel or
  calls an observer. A candidate is its family types and the parser's verdict.
* `FinalWait`: each scrape between limiter, `acceptMetric`, write,
  `completeFinal`, observers, `finishMetric` and release; the main goroutine
  with the select of `WaitTransition` as separate wake-up and decision steps, so
  that several channels can be ready at once.
* `Supervision`: processes, the signal channel and `NotifyContext`, the reaper
  goroutine with its channel, the loop of `workload.run`, escalation, fallback
  cleanup, and the observers of `cli.Run` that can fail (`Faults`).
* `Configuration`: `Parse` as a function of environment and arguments: one table
  row per option (kind of value, bounds, default), the parse functions in their
  order, each with what it collects, skips and refuses. `Startup` runs it, binds
  the endpoints or fails to, and hands the accepted shutdown configuration to
  `ShutdownBudget`.
* `ShutdownBudget`: `Resolve` and the phase deadlines on a clock of 250 ms units.
* `Managed`: connections with their slot and deadline, the owner's bounded queue
  and its single writer, the generation cache, the bridge and the two goroutines
  that install through it, and `cli.Run`'s finalization.
* `ManagedExchange`: a byte stream per client that arrives in pieces, the bounded
  reader, the parser's checks in order, what `Send` and `RunCLI` conclude, and the
  observer's counter, read of the state and gauge as separate steps between the
  owner's decision and the response.
* `FileIngest`: the producer's file system changes, the kernel's bounded event
  queue, and the watcher loop.
* `SocketProtocol`: the server's connections, each in its read loop or in a
  publication, and one pool of transaction slots. `SocketWriter` adds the
  clients: a peer that sends any frames, and the official client with its gate
  and with deadlines that leave answers behind in the connection.
* `HTTPIngest`, `Scrape`: one program counter per request over shared state.
  `HTTPEndpoints` lets both run on the same holder.
* `ManagedModel`, `SnapshotFormat`: sequential algorithms with the code's order of
  checks and early returns. `SnapshotModes` offers to `Validate` either a document
  of a producer or the encoding of a managed registry that a sequence of mutations
  has reached, and compares the verdict with `SnapshotReference`, a declarative
  definition of a valid document.
* `SelfMetrics`: one map from family and label set to a sample. Every update method
  is an action with its errors; the calls of `cli`, the core, the handler and the
  managed observer are listed with all their arguments. `Exposition` writes
  whatever snapshot, registry state and self-metrics there are, under every filter.
* `Release`: a directory of files. `Generate` and `Finalize` write file by file and
  can be killed between and inside two writes; the build and the delivery job are
  external; `Verify` and `VerifyComplete` are functions of the directory.

### Abstractions

Names are short sequences of symbolic parts, so that prefixes, reserved names and
derived names (`_total`, `_bucket`, `_sum`, `_count`) exist without characters;
sizes are a table `Bytes`. Numbers are small integers with NaN and the two
infinities and a largest finite value. Digests are the contents they digest.
A configuration text is what the value grammar tells apart: form, number, unit.
An exposition is the blocks and sample lines, without escaping and order.
A `CASE` whose arms overlap is a chain of early returns: its arms are tried in the
order written, as TLC evaluates it; modules with theorems use `IF` chains there.
Log records and help texts are left out. Each module's
header says what is external to it (kernel, `net/http`, `os/exec`).

## Runs

| Run | Instance | What it shows |
|---|---|---|
| `core_safety` | 3 calls, 2 slots, 1 closer, 2 types, 3 generations | accepted generations are consecutive and belong to their snapshot; a finished drain left nothing behind; refinement of `SnapshotRegister`, so that no step installs after the freeze |
| `core_liveness` | 2 calls, 1 slot and 1 place to wait, 1 generation | `CloseAndFreeze` returns, so no slot is ever lost; generations end at their maximum |
| `final_wait` | 2 scrapes, 1 required, 2 slots | the count is exact; a pending termination is the reason; the process exits |
| `supervision` | 1 descendant that may leave the group, 3 signals, 5 kinds of fault alone and in the pairs that meet | exit code, reaping, freeze after the last writer, grace; once a plan exists the runtime returns |
| `supervision_forward` | the same | see below |
| `programs` | every option at and outside its bounds and in every malformed spelling, from each source and from both, in every mode and transport; shutdown budgets of up to 6 units with a signal at any time; 3 runs of the release tool with 1 fault | every option counts and the stronger source wins; what is accepted is usable by the components; the reserve is kept and the process exits a bounded time after the plan; what verifies is genuine; what was signed verifies |
| `managed` | 2 requests, 1 or 2 connections, queue of 1, core limit 1 or 2 | answers are honest, the final snapshot is complete, reuse of cached results is sound, a finalization that has begun ends; refinement of `ManagedLog` |
| `managed_exchange` | 2 clients, frames up to 2 bytes | exit codes are honest, only valid frames commit, every decision is counted before it is answered |
| `snapshot_modes` | some thousand documents; 11 declarations, 13 operations, batches of 2; any 2 calls to the self-metrics | verdict equals the reference; exact series count, atomic mutations; a committed registry is refused for its size or a derived name only; no update of a self-metric is refused and every view is consistent; whatever is accepted is exposed legally in both formats under every filter |
| `file` | 4 changes, queue of 2 events | digest belongs to the active snapshot; a stable valid file becomes active |
| `socket` | 2 calls of two parts with one id, a peer that can use that id and another, 2 slots | slots exact, every accepted part is published once and in order; no false generation after timeouts between and inside frames, and what is installed is the whole candidate of one call |
| `http` | 2 posts, 2 scrapes, limits of 1 byte, 1 scrape slot | nothing truncated, statuses are honest, no scrape goes back behind an answer |

The bounds are the smallest at which the conflicts exist: two actors that race,
with a third that is refused where refusal matters, one slot fewer than actors, a
limit with one value on each side, a queue shorter than the number of events.
Bounds (`MaxGeneration`, `MaxSignals`, `Faults`, `MaxChanges`, `LastSignal`,
`MaxUpdates`, `MaxFaults`, `MaxRuns`) limit the environment's actions only, never
a step of the program that is under way; a process whose configured waits exceed
`FollowedUnits` is looked at until it has bound its endpoints; `MaxGeneration` of
`IngestionCore` and `MaxCount` of `ManagedModel` are the code's own ends of a
range. In `SocketProtocol` the core takes `MaxGeneration` publications and
declines the rest. In `socket` the peer takes
the second slot, so that a `BEGIN` is refused as busy, and its frames include part
numbers and sizes on both sides of what it declared. The limits of the core in
`snapshot_modes` are such that some registries fit them, some are one unit too
large and some have a derived name one unit too long. Two calls are enough for the self-metrics, since no update
depends on more than the sample before it and its arguments. Symmetry is used for
the calls and types of `core_safety`, which no definition names, and in no run
with a liveness property. Deadlock is checked except where every actor
legitimately finishes.

Each property has a variant of a modelled definition that breaks it, with a bug
the code could have had (a dropped check, a swapped order, a leaked slot). The
variants stand before the definitions they change and are used nowhere else.

### Where code and documents differ

One difference is kept as a run. `supervision_forward` checks a sentence of the
acceptance criteria, and TLC shows a behaviour of the code that breaks it under
the scheduler's fairness: a termination signal between `NotifyContext`
(`cli/run.go:237`) and the `Notify` of `workload.Run` (`workload/run.go:86`) only
cancels `terminationContext`; the workload is started and never told.

The following differences were met while modelling. The models contain the
behaviour, except the connection gauge and the filter gauges, which `SelfMetrics`
sets to any value, and the passing properties say what the code does keep. Documents
are under `docs/`; `self-metrics.md`, `runtime-state-machine.md`, `configuration.md`,
`metrics-filtering.md`, `application-snapshot-protocol.md`,
`managed-aggregation.md`, `numeric-semantics.md` and `structured-logging.md` are in `docs/04-specification/`, ADRs in
`docs/06-architecture/adr/`.

| Code | What the code does | What a document says |
|---|---|---|
| `ingestion/core.go:299` | two accepted calls report after the holder's lock was released; in the opposite order the generation gauge stays on the older one | self-metrics.md:86: "Internal accepted-generation number" |
| `exposition/handler.go:279` | observers run after `handler.mu` is released; the count of completed scrapes can settle too low | self-metrics.md:206: "Saturating eligible completed response count." |
| `cli/run.go:416` | `FinalWaitCompleted` enters terminated while the exposition server is open; it is shut down by a deferred call | runtime-state-machine.md:41: "No endpoint or child owned by MetricShell remains" |
| `cli/run.go:409` | `server.Close` can cut off a counted response that is still in the server's buffer | ADR-011.md:47: "The guarantee is a complete successful server write." |
| `cli/run.go:288` | a termination in finalizing enters terminated while descendants live, and skips the freeze at `cli/run.go:343` | runtime-state-machine.md:41, as above |
| `workload/run.go:141` | a descendant that outlives the primary holds the loop with no timer armed | 03-requirements/non-functional-requirements.md:22: "child-process waits MUST be bounded" |
| `workload/run.go:144` | an error of `escalation.handle` exits with the internal code without entering failed | runtime-state-machine.md:40: "An unrecoverable MetricShell-owned failure is recorded" |
| `cli/run.go:626` | `closeAdmission` of the snapshot transports does nothing: admission is open in finalizing until `CloseAndFreeze` | runtime-state-machine.md:117: "The transition to finalizing closes admission first." |
| `managedobserve/observer.go:95` | the generation is read and the gauge set in two steps; a slower caller overwrites a newer value | self-metrics.md:161: "Committed managed registry generation." |
| `managedobserve/observer.go:65` | the connection counter is changed and the gauge set in two steps | self-metrics.md:92: "Accepted active connections where applicable" |
| `managed/model.go:306` | only the base name is bounded, and the size of the encoding is not bounded at all (`snapshot/parser.go:15`, `snapshot/model.go:282`): a committed registry can be refused with payload_limit, and a committed name whose derived sample name is too long makes the core refuse every later snapshot with name_limit | application-snapshot-protocol.md:106: "Both base and derived names must satisfy `limits.metric_name_bytes`" |
| `fileingest/watcher_linux.go:64` | an overflow that swallowed `IN_IGNORED` leaves the old watch; the new directory is not watched (the periodic pass still finds the file) | ADR-006.md:94-95: "immediately reconciles complete state and reinstalls watches where necessary" |
| `fileingest/watcher_linux.go:18` | when `InotifyInit1` fails `Run` returns after the startup pass, and nothing reconciles again; so does a read of its descriptor that fails with another error than EAGAIN or EINTR (`watcher_linux.go:58`) | ADR-006.md:54: "Disabling periodic reconciliation is not a supported correctness mode." |
| `fileingest/watcher_linux.go:69` | `IN_IGNORED` drops the watch and does not reconcile until the next tick | ADR-006.md:48: "immediately after `IN_Q_OVERFLOW`, watch invalidation or watch reinstallation" |
| `socketingest/protocol.go:233` | an expired transaction keeps its slot until a frame names it or its connection ends | 07-delivery/03-issues/ISSUE-018.md:41: "finite expiry; disconnect releases every reservation." |
| `cli/run.go:224` | the deferred server shutdown takes `WriteTimeout` from Background, not the rest of the plan, and so does closing the ingestion (`cli/run.go:577`); `ExitIsBounded` says how late the process can be | ADR-003.md:88: "bounded by both an HTTP phase timeout and the absolute remaining deadline" |
| `managedprotocol/protocol.go:158` | a second frame is rejected only if its bytes are already buffered | managed-aggregation.md:50-52: "one bounded newline-terminated JSON operation and one JSON response per Unix stream connection" |
| `exposition/handler.go:189` | the filter gauges are set and the self-metric view taken in separate steps on a registry that all scrapes share | self-metrics.md:173: "Families included/excluded in the currently encoded exposition view." |
| `config/bootstrap.go:500` | an invalid value of a variable is never looked at when an option of the same property is given | configuration.md:38-39: "METRICSHELL_ variables named by this specification with invalid values are fatal before workload start." |
| `config/bootstrap.go:837` | an empty `METRICSHELL_METRICS_INCLUDE` is split into one empty selector, which is refused | configuration.md:37-38: "Empty environment values are treated as explicitly empty, not absent." |
| `cli/run.go:637` | a relative path of the file or the Unix socket passes `Parse` and is refused when the endpoint starts, with code 72 | configuration.md:202: 64 is for "CLI, environment, cross-field, path, or resource-limit validation failed." |
| `config/bootstrap.go:515` | the address of the HTTP ingestion is stored as it is; that it is a loopback one is found out when the endpoint starts, with code 72 | configuration.md:91: "HTTP ingestion must resolve to loopback", and configuration.md:202 as above |
| `cli/run.go:162` | the level and the selector switch of the log are shown in the debug configuration and asked for nowhere else | structured-logging.md:25-26: "`log.level=debug` additionally emits every debug registry event" |
| `exposition/encode.go:82` | an OpenMetrics histogram whose sum is left out still has its `_count`; OpenMetrics 1.0 has the count only together with the sum | numeric-semantics.md:53: "Omission therefore represents every supported Core histogram validly" |
| `supplychain/evidence.go:361` | the scan is read line by line and a line that is no JSON record is skipped, so that a finding spread over several lines is none | 07-delivery/03-issues/ISSUE-037.md:18-19: "policy-blocking vulnerability fails publication" |

Three observations about the release tool contradict no document and are in the
model. `Finalize` replaces `SHA256SUMS` before its signature, so a run that is killed
between the two leaves a directory that no longer verifies and has to be built
again. `Generate` does not ask for the version and the sum of a module and can sign
what `Verify` then refuses. And it takes the digests of the binaries from the
`SHA256SUMS` it finds. `SignedVerifies` says when what was signed does verify.

## Fairness

Weak fairness is given to each goroutine that can go on (the Go scheduler runs
every runnable goroutine), to timers that are armed and to contexts with a
deadline. Clients, producers, signals and the workload get none: they may stop at
any point. Strong fairness is used where a `select` chooses among ready cases,
which Go does at random: the signal, timer and reap cases of `workload.run`
and the tick and event cases of the watcher. `Managed` is fair until the process
exits, except for the steps that wait for the workload: that its processes end and
finalization begins is assumed of nothing, and `FinalizationEnds` starts there. The
runs `core_safety`, `managed_exchange`, `snapshot_modes`, `socket`, `http` and
`programs` check safety only and assume no fairness; in the last one the clock is a
variable, and time does not pass a timer that is due.

## Proofs

Eight modules hold theorems checked by TLAPS, for every value of the constants
that satisfies the named assumptions of the modules (`CoreAssumption`,
`FinalWaitAssumption`, `ConfigsAssumption`, `TimesAssumption`,
`SupervisionAssumption`, `ManagedAssumption`, `ExchangeAssumption`,
`SocketAssumption`, `PeerAssumption`, `BytesAssumption`: limits that are natural
numbers or positive, finite sets of actors where they are counted, validated
configurations, frames and bodies of the modelled shape).

* `IngestionCoreProofs`. None of the safety properties is inductive alone. `IInv`
  adds that the admitted set is exactly the calls between admission and `Done`
  (`AdmittedInv`), that a call has no result before the deciding step
  (`AnswerInv`), how far `CloseAndFreeze` is (`FreezeInv`: frozen holder, empty
  admitted set or an expired context) and that everything exposed agrees with the
  type bindings (`BindingInv`). From it follow `LinearHistory`, `FinalSnapshot`,
  `DrainLosesNothing`, `StableTypes`, `NoLateAdmission`, `FrozenView`, and step
  simulation gives `CoreImplementsRegister`. `BoundedInflight` has an invariant of
  its own about the holders of slots.
* `FinalWaitProofs`. `IInv` ties the in-flight counter and the limiter to the
  position of every scrape (`HandlerInv`), the waiter's flags to the position of
  the main goroutine (`WaitInv`), and says that only `completeFinal` counts
  (`CountInv`). The cardinality lemmas `OneMore` and `OneLess` carry the counting.
  Results: `HonestCount`, `EarnedReason`, `DrainIsComplete`, `FrozenFinalView`,
  `ThresholdDrains`.
* `ShutdownBudgetProofs`. Lemma `ResolvePlan` is the arithmetic of `Resolve`: the
  reserve fits between the workload's deadline and the deadline of the plan, or
  that had passed. `IInv` keeps this and bounds the clock in every phase. That `Parse`
  accepts only budgets that `Validate` passes, from which the proof starts, is part
  of `AcceptedIsUsable`. Results:
  `TypeCorrect`, `ReserveKept`, `GraceGiven`, `FinalizationBounded`, and `BoundedExit`:
  a signal may come after the deadline it plans for, and two closes take timeouts of
  their own, so the bound is the later of deadline and signal, the time to reap a
  kill and these two timeouts.
* `SupervisionProofs`. The exit code and the reaping depend on the reaper's channel:
  `ReapInv` says that "done" is its last event and that the event of the primary is
  not lost while the loop runs, `ProcInv` that the reaper is done only without
  children, `MainInv` what every place of the main goroutine knows about both, and
  `SnapshotInv` that finalizing is entered by the exit of the workload only. Results:
  `HonestExit`, `AllReaped`, `FrozenLast`, and `GraceGiven`, an action property.
* `ManagedProofs`. `PlaceInv` says that a request is at exactly one place (connection,
  queue, owner, decided), `CountInv` that commits are numbered without gaps and that
  a generation counts the changes up to it, `BridgeInv` that cache and core hold
  prefixes of the registry, and `FinalInv` what each stage of finalization has
  stopped. Results: `HonestAnswers`, `CompleteFinalSnapshot`, `SoundReuse`, and step
  simulation gives `RefinesLog`.
* `ManagedExchangeProofs`. `ServerInv` relates the place of a server goroutine to the
  owner's decision, `ClientInv` what `Send` returned to the response it had, and
  `CountInv` the observer's counters to the goroutines that passed it. Results:
  `HonestExit`, `ValidCommits`, `HonestObserver`.
* `SocketWriterProofs`. The slots are counted as the cardinality of one set of pairs
  of connection and id (`Reserved`) and of the connections in a publication; the
  lemmas `PutStep` and `DropStep` carry that set through the server's paths. `commit`
  compares two counters only; that they stand for whole candidates is `TransInv`,
  kept by every frame: the accepted frames of a transaction are numbered from 0
  without gap or repetition, and each piece is in its place (`Ordered`). Results: `ExactSlots`, `CompleteCandidates`.
* `HTTPEndpointsProofs`. `PostInv` says that a post is installed in the step that
  decides its status, with the whole body; `ScrapeInv` that what a scrape may know
  was installed before it selects. Results: `WholeBodies`, `HonestStatus`,
  `ReadYourWrites`.

Proved and not part of a run: `TypeOK`, `FinalIsTheLastAccepted`, `TypesNeverChange`,
`ClosedAdmissionOnlyDrains`, `FrozenViewIsImmutable` and `InflightWithinConcurrent` of
the core, `ReasonIsEarned`, `DrainedMeansIdle`, `FinalViewIsFrozen` and
`ThresholdClosesAdmission` of the final wait, `TypeOK`, `GraceIsGiven` and
`FinalizationInsideDeadline` of the shutdown budget.

Only model-checked: every liveness property (fairness and `ENABLED` are outside
the prover); `TerminationHasPrecedence`; `HashIsOfTheActive` of the file transport;
`PublishIsHonest`, which also needs what is in flight in both directions; everything
of `snapshot_modes` and the properties of configuration and release in `programs`,
which are about what algorithms over data compute.

## Not modelled

* Probes (`probe/handler.go`): a table from the lifecycle state to a status code; a
  model would repeat the table.
* Diagnostics, error wording, the text of help, version and validate: output without
  state. Their failures are faults of `Supervision`.
* The debug endpoint, escaping, number formatting and the order of lines in an
  exposition; the syntax of JSON, UTF-8 and HTTP headers: text processing.
* Socket path preparation and file permissions: file-system setup before anything
  runs concurrently. A start that fails there is a failing endpoint of `Startup`.
* Build information, the replica verifier (`promverify/`), fixtures and research
  prototypes: constants, a pure check of collected samples, and programs of tests.
* The transports with the full `IngestionCore` in one state space: each transport
  publishes to an abstract core that does what `SnapshotRegister` allows. The core is
  proved to implement that register.
* Families of self-metrics that no code writes (`FileReconciliationsTotal`,
  `FileWatchEventsTotal`, `SocketTransactionsInflight`, `SocketFramesRejectedTotal`)
  are in the table of `SelfMetrics` and stay at their initial values.

Failures of the operating system appear where the code has a branch for them
(inotify, forwarding, diagnostics stream, subreaper, final install, binding of
an endpoint, too few descriptors).
