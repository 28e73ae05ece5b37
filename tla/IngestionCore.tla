--------------------------- MODULE IngestionCore ---------------------------
(***************************************************************************)
(* The ingestion core and the snapshot holder behind it:                   *)
(*   implementation/internal/ingestion/core.go                             *)
(*   implementation/internal/snapshot/holder.go                            *)
(*                                                                         *)
(* Every transport (file, unix, http) and the managed bridge hand complete *)
(* candidates to Core.Publish, each from its own goroutine.  Publish takes *)
(* an admission slot under barrierMu, waits for an executing slot, parses  *)
(* the candidate, installs it in the Holder and reports the outcome to the *)
(* self-metrics.  CloseAndFreeze closes admission, lets admitted work      *)
(* drain while its context permits and freezes the last valid snapshot.    *)
(***************************************************************************)
EXTENDS Integers, FiniteSets

CONSTANTS
  Calls,          \* the invocations of Core.Publish, one goroutine each
  Closers,        \* the invocations of Core.CloseAndFreeze
  Families,       \* metric family names
  Types,          \* metric types a family can be bound to
  Concurrent,     \* capacity of the channel executing
  Pending,        \* extra capacity of the channel admissions
  MaxGeneration,  \* the largest value of the 64-bit generation
  Zero            \* the payload of the initial zero-series snapshot

ASSUME CoreAssumption ==
  /\ Concurrent \in Nat \ {0}
  /\ Pending \in Nat
  /\ MaxGeneration \in Nat
  /\ Zero \notin Calls
  /\ IsFiniteSet(Calls)

VARIABLES
  candidate,      \* candidate[c]: what call c publishes (an input)
  expired,        \* the calls whose context has expired or was cancelled
  pc,             \* pc[c]: where call c is in Publish
  result,         \* result[c]: the Result call c returns
  active,         \* Holder.active
  bindings,       \* Holder.bindings: the type every family seen is bound to
  holderFrozen,   \* Holder.frozen
  closed,         \* Core.closed
  admissions,     \* the calls holding a slot of the channel admissions
  executing,      \* the calls holding a slot of the channel executing
  admitted,       \* the calls counted in the WaitGroup admitted
  freezeOnce,     \* progress of the sync.Once freezeOnce
  frozen,         \* the channel frozen is closed
  final,          \* Core.final
  drainer,        \* the goroutine CloseAndFreeze starts
  closer,         \* closer[k]: where call k is in CloseAndFreeze
  closerExpired,  \* the CloseAndFreeze calls whose context is done
  inflight,       \* self-metric ingestion_inflight
  gauge,          \* self-metric snapshot_generation
  exposed         \* history: every <<family, type>> an active snapshot had

holderVars  == <<active, bindings, holderFrozen, exposed>>
slotVars    == <<admissions, executing, admitted>>
freezeVars  == <<closed, freezeOnce, frozen, final, drainer, closer, closerExpired>>
metricVars  == <<inflight, gauge>>
vars == <<candidate, expired, pc, result, holderVars, slotVars, freezeVars, metricVars>>

----------------------------------------------------------------------------
(* Values *)

Snapshots == UNION {[F -> Types] : F \in SUBSET Families}

EmptySnapshot == [f \in {} |-> f]

\* What the parser makes of a candidate: a validated snapshot, a rejection
\* with a reason, or an error that carries no reason.
Candidates ==
  [parse : {"valid"}, families : Snapshots]
    \cup [parse : {"rejection", "error"}, families : {EmptySnapshot}]

Outcomes == {"accepted", "rejected", "busy", "timeout", "internal_error"}

Reasons == {"none", "frozen", "type_conflict", "internal", "parser"}

Generations == 0..MaxGeneration

Results == [outcome : Outcomes \cup {"none"}, reason : Reasons, generation : Generations]

Outcome(o, r) == [outcome |-> o, reason |-> r, generation |-> 0]

NoResult == Outcome("none", "none")

ActiveSnapshots == [generation : Generations, payload : Calls \cup {Zero}]

InitialSnapshot == [generation |-> 0, payload |-> Zero]

\* A candidate conflicts with the bindings when a family it carries was
\* installed before with another type.
Conflicts(bound, families) ==
  \E f \in DOMAIN bound \cap DOMAIN families : bound[f] # families[f]

Bind(bound, families) ==
  [f \in DOMAIN bound \cup DOMAIN families |->
     IF f \in DOMAIN families THEN families[f] ELSE bound[f]]

Exposes(families) == {<<f, families[f]>> : f \in DOMAIN families}

----------------------------------------------------------------------------
(* Core.Publish *)

\* A context can expire or be cancelled at any time; Publish no longer looks
\* at it once the parser has returned.
ExpireCall(c) ==
  /\ pc[c] \in {"calling", "admitted", "parsing"}
  /\ c \notin expired
  /\ expired' = expired \cup {c}
  /\ UNCHANGED <<candidate, pc, result, holderVars, slotVars, freezeVars, metricVars>>

\* The call ends without having been admitted.
Decline(c, outcome, reason) ==
  /\ pc[c] = "calling"
  /\ pc' = [pc EXCEPT ![c] = "returned"]
  /\ result' = [result EXCEPT ![c] = Outcome(outcome, reason)]
  /\ UNCHANGED <<candidate, expired, holderVars, slotVars, freezeVars, metricVars>>

UnknownTransport(c) == Decline(c, "internal_error", "internal")

DeclineClosed(c) == closed /\ Decline(c, "rejected", "frozen")

DeclineExpired(c) == ~closed /\ c \in expired /\ Decline(c, "timeout", "none")

DeclineBusy(c) ==
  /\ ~closed
  /\ c \notin expired
  /\ Cardinality(admissions) >= Concurrent + Pending
  /\ Decline(c, "busy", "none")

Admit(c) ==
  /\ pc[c] = "calling"
  /\ ~closed
  /\ c \notin expired
  /\ Cardinality(admissions) < Concurrent + Pending
  /\ admissions' = admissions \cup {c}
  /\ admitted' = admitted \cup {c}
  /\ pc' = [pc EXCEPT ![c] = "admitted"]
  /\ UNCHANGED <<candidate, expired, result, holderVars, executing, freezeVars, metricVars>>

\* The executing slot and the observer's Started.
StartExecuting(c) ==
  /\ pc[c] = "admitted"
  /\ Cardinality(executing) < Concurrent
  /\ executing' = executing \cup {c}
  /\ inflight' = inflight + 1
  /\ pc' = [pc EXCEPT ![c] = "parsing"]
  /\ UNCHANGED <<candidate, expired, result, holderVars, admissions, admitted, freezeVars, gauge>>

TimeoutWaiting(c) ==
  /\ pc[c] = "admitted"
  /\ c \in expired
  /\ result' = [result EXCEPT ![c] = Outcome("timeout", "none")]
  /\ pc' = [pc EXCEPT ![c] = "leaving"]
  /\ UNCHANGED <<candidate, expired, holderVars, slotVars, freezeVars, metricVars>>

ParserOutcome(c) ==
  CASE candidate[c].parse = "rejection" -> Outcome("rejected", "parser")
    [] candidate[c].parse = "error"     -> Outcome("internal_error", "internal")
    [] OTHER -> IF c \in expired THEN Outcome("timeout", "none") ELSE NoResult

\* The parser, and the check of the context that follows a valid candidate.
ParseCandidate(c) ==
  /\ pc[c] = "parsing"
  /\ result' = [result EXCEPT ![c] = ParserOutcome(c)]
  /\ pc' = [pc EXCEPT ![c] = IF ParserOutcome(c) = NoResult THEN "installing" ELSE "completing"]
  /\ UNCHANGED <<candidate, expired, holderVars, slotVars, freezeVars, metricVars>>

RejectInstall(c, reason) ==
  /\ result' = [result EXCEPT ![c] = Outcome("rejected", reason)]
  /\ UNCHANGED holderVars

\* Variant: the caller is told the generation that was replaced.
AcceptInstallStaleGeneration(c) ==
  /\ active' = [generation |-> active.generation + 1, payload |-> c]
  /\ bindings' = Bind(bindings, candidate[c].families)
  /\ exposed' = exposed \cup Exposes(candidate[c].families)
  /\ result' = [result EXCEPT ![c] = [outcome |-> "accepted", reason |-> "none",
                                      generation |-> active.generation]]
  /\ UNCHANGED holderFrozen

AcceptInstall(c) ==
  LET next == [generation |-> active.generation + 1, payload |-> c]
      families == candidate[c].families
  IN  /\ active' = next
      /\ bindings' = Bind(bindings, families)
      /\ exposed' = exposed \cup Exposes(families)
      /\ result' = [result EXCEPT ![c] = [outcome |-> "accepted", reason |-> "none",
                                          generation |-> next.generation]]
      /\ UNCHANGED holderFrozen

\* Variant: Install without the check of the types.
HolderInstallUntyped(c) ==
  IF holderFrozen THEN RejectInstall(c, "frozen")
  ELSE IF active.generation = MaxGeneration THEN RejectInstall(c, "internal")
  ELSE AcceptInstall(c)

\* Holder.Install, under writeMu.
HolderInstall(c) ==
  IF holderFrozen THEN RejectInstall(c, "frozen")
  ELSE IF Conflicts(bindings, candidate[c].families) THEN RejectInstall(c, "type_conflict")
  ELSE IF active.generation = MaxGeneration THEN RejectInstall(c, "internal")
  ELSE AcceptInstall(c)

Install(c) ==
  /\ pc[c] = "installing"
  /\ HolderInstall(c)
  /\ pc' = [pc EXCEPT ![c] = "completing"]
  /\ UNCHANGED <<candidate, expired, slotVars, freezeVars, metricVars>>

\* MetricsObserver.Completed, called with the snapshot this call installed:
\* the generation gauge is written after the Holder's lock was released.
Completed(c) ==
  /\ pc[c] = "completing"
  /\ inflight' = inflight - 1
  /\ gauge' = IF result[c].outcome = "accepted" THEN result[c].generation ELSE gauge
  /\ pc' = [pc EXCEPT ![c] = "completed"]
  /\ UNCHANGED <<candidate, expired, result, holderVars, slotVars, freezeVars>>

\* Variant: the executing slot is never given back.
ReleaseExecutingLeak(c) ==
  /\ pc[c] = "completed"
  /\ pc' = [pc EXCEPT ![c] = "leaving"]
  /\ UNCHANGED <<candidate, expired, result, holderVars, slotVars, freezeVars, metricVars>>

\* The deferred releases run last-in first-out: executing, admissions, admitted.
ReleaseExecuting(c) ==
  /\ pc[c] = "completed"
  /\ executing' = executing \ {c}
  /\ pc' = [pc EXCEPT ![c] = "leaving"]
  /\ UNCHANGED <<candidate, expired, result, holderVars, admissions, admitted, freezeVars, metricVars>>

ReleaseAdmission(c) ==
  /\ pc[c] = "leaving"
  /\ admissions' = admissions \ {c}
  /\ pc' = [pc EXCEPT ![c] = "left"]
  /\ UNCHANGED <<candidate, expired, result, holderVars, executing, admitted, freezeVars, metricVars>>

AdmittedDone(c) ==
  /\ pc[c] = "left"
  /\ admitted' = admitted \ {c}
  /\ pc' = [pc EXCEPT ![c] = "returned"]
  /\ UNCHANGED <<candidate, expired, result, holderVars, admissions, executing, freezeVars, metricVars>>

----------------------------------------------------------------------------
(* Core.CloseAndFreeze *)

\* The context is read by the select only.
ExpireCloser(k) ==
  /\ closer[k] \in {"calling", "waiting"}
  /\ k \notin closerExpired
  /\ closerExpired' = closerExpired \cup {k}
  /\ UNCHANGED <<candidate, expired, pc, result, holderVars, slotVars, metricVars,
                 closed, freezeOnce, frozen, final, drainer, closer>>

\* closeOnce: the first caller closes admission and starts the drainer.
CloseAdmission(k) ==
  /\ closer[k] = "calling"
  /\ closed' = TRUE
  /\ drainer' = IF closed THEN drainer ELSE "waiting"
  /\ closer' = [closer EXCEPT ![k] = "waiting"]
  /\ UNCHANGED <<candidate, expired, pc, result, holderVars, slotVars, metricVars,
                 freezeOnce, frozen, final, closerExpired>>

\* Variant: the drainer does not wait for admitted work.
DrainWithoutWaiting ==
  /\ drainer = "waiting"
  /\ drainer' = "freezing"
  /\ UNCHANGED <<candidate, expired, pc, result, holderVars, slotVars, metricVars,
                 closed, freezeOnce, frozen, final, closer, closerExpired>>

\* admitted.Wait() returns once the counter is zero.
DrainCompleted ==
  /\ drainer = "waiting"
  /\ admitted = {}
  /\ drainer' = "freezing"
  /\ UNCHANGED <<candidate, expired, pc, result, holderVars, slotVars, metricVars,
                 closed, freezeOnce, frozen, final, closer, closerExpired>>

CloserGivesUp(k) ==
  /\ closer[k] = "waiting"
  /\ k \in closerExpired
  /\ closer' = [closer EXCEPT ![k] = "freezing"]
  /\ UNCHANGED <<candidate, expired, pc, result, holderVars, slotVars, metricVars,
                 closed, freezeOnce, frozen, final, drainer, closerExpired>>

\* Core.freeze: whoever enters freezeOnce first runs it, the others block
\* until it is done.  Its first half is Holder.Freeze, under writeMu.
FreezeHolder ==
  /\ freezeOnce = "idle"
  /\ drainer = "freezing" \/ \E k \in Closers : closer[k] = "freezing"
  /\ freezeOnce' = "running"
  /\ holderFrozen' = TRUE
  /\ final' = active
  /\ UNCHANGED <<candidate, expired, pc, result, active, bindings, exposed, slotVars, metricVars,
                 closed, frozen, drainer, closer, closerExpired>>

CloseFrozenChannel ==
  /\ freezeOnce = "running"
  /\ freezeOnce' = "done"
  /\ frozen' = TRUE
  /\ UNCHANGED <<candidate, expired, pc, result, holderVars, slotVars, metricVars,
                 closed, final, drainer, closer, closerExpired>>

CloserReturns(k) ==
  /\ \/ closer[k] = "waiting" /\ frozen
     \/ closer[k] = "freezing" /\ freezeOnce = "done"
  /\ closer' = [closer EXCEPT ![k] = "returned"]
  /\ UNCHANGED <<candidate, expired, pc, result, holderVars, slotVars, metricVars,
                 closed, freezeOnce, frozen, final, drainer, closerExpired>>

DrainerReturns ==
  /\ drainer = "freezing"
  /\ freezeOnce = "done"
  /\ drainer' = "returned"
  /\ UNCHANGED <<candidate, expired, pc, result, holderVars, slotVars, metricVars,
                 closed, freezeOnce, frozen, final, closer, closerExpired>>

----------------------------------------------------------------------------
(* Specification *)

Init ==
  /\ candidate \in [Calls -> Candidates]
  /\ expired = {}
  /\ pc = [c \in Calls |-> "calling"]
  /\ result = [c \in Calls |-> NoResult]
  /\ active = InitialSnapshot
  /\ bindings = EmptySnapshot
  /\ holderFrozen = FALSE
  /\ closed = FALSE
  /\ admissions = {}
  /\ executing = {}
  /\ admitted = {}
  /\ freezeOnce = "idle"
  /\ frozen = FALSE
  /\ final = InitialSnapshot
  /\ drainer = "none"
  /\ closer = [k \in Closers |-> "calling"]
  /\ closerExpired = {}
  /\ inflight = 0
  /\ gauge = 0
  /\ exposed = {}

\* The steps Publish takes by itself once it was admitted.
PublishProgress(c) ==
  \/ StartExecuting(c) \/ TimeoutWaiting(c) \/ ParseCandidate(c) \/ Install(c)
  \/ Completed(c) \/ ReleaseExecuting(c) \/ ReleaseAdmission(c) \/ AdmittedDone(c)

PublishEntry(c) ==
  \/ UnknownTransport(c) \/ DeclineClosed(c) \/ DeclineExpired(c) \/ DeclineBusy(c) \/ Admit(c)

CloserProgress(k) == CloserGivesUp(k) \/ CloserReturns(k)

FreezeProgress == DrainCompleted \/ FreezeHolder \/ CloseFrozenChannel \/ DrainerReturns

\* Every call has returned and the drainer goroutine has ended.
Finished ==
  /\ \A c \in Calls : pc[c] = "returned"
  /\ \A k \in Closers : closer[k] = "returned"
  /\ drainer = "returned"
  /\ UNCHANGED vars

Next ==
  \/ \E c \in Calls : ExpireCall(c) \/ PublishEntry(c) \/ PublishProgress(c)
  \/ \E k \in Closers : ExpireCloser(k) \/ CloseAdmission(k) \/ CloserProgress(k)
  \/ FreezeProgress
  \/ Finished

\* Goroutines that can run are eventually run.  Nobody has to call, and no
\* context has to expire.
Fairness ==
  /\ \A c \in Calls : WF_vars(PublishProgress(c))
  /\ \A k \in Closers : WF_vars(CloserProgress(k))
  /\ WF_vars(FreezeProgress)

Spec == Init /\ [][Next]_vars

FairSpec == Spec /\ Fairness

----------------------------------------------------------------------------
(* Properties *)

PublishStates ==
  {"calling", "admitted", "parsing", "installing", "completing", "completed",
   "leaving", "left", "returned"}

\* The values every field of Core, Holder and the observer can take.
TypeOK ==
  /\ candidate \in [Calls -> Candidates]
  /\ expired \in SUBSET Calls
  /\ pc \in [Calls -> PublishStates]
  /\ result \in [Calls -> Results]
  /\ active \in ActiveSnapshots
  /\ bindings \in Snapshots
  /\ holderFrozen \in BOOLEAN
  /\ closed \in BOOLEAN
  /\ admissions \in SUBSET Calls
  /\ executing \in SUBSET Calls
  /\ admitted \in SUBSET Calls
  /\ freezeOnce \in {"idle", "running", "done"}
  /\ frozen \in BOOLEAN
  /\ final \in ActiveSnapshots
  /\ drainer \in {"none", "waiting", "freezing", "returned"}
  /\ closer \in [Closers -> {"calling", "waiting", "freezing", "returned"}]
  /\ closerExpired \in SUBSET Closers
  /\ inflight \in Int
  /\ gauge \in Generations
  /\ exposed \in SUBSET (Families \X Types)

Accepted(c) == result[c].outcome = "accepted"

\* Holder.Install assigns generations in one linear order however the calls
\* interleave: the accepted calls carry exactly the generations
\* 1..active.generation, each once, and the active payload is that of the
\* call that was given the last one.
AcceptedHistoryIsLinear ==
  /\ \A c \in Calls : Accepted(c) => result[c].generation \in 1..active.generation
  /\ \A c, d \in Calls :
       Accepted(c) /\ Accepted(d) /\ result[c].generation = result[d].generation => c = d
  /\ \A g \in 1..active.generation : \E c \in Calls : Accepted(c) /\ result[c].generation = g
  /\ \A c \in Calls :
       Accepted(c) /\ result[c].generation = active.generation => active.payload = c

\* What CloseAndFreeze returns is the last snapshot ever accepted: once the
\* channel frozen is closed the active snapshot is final, and no caller was
\* told of a later generation.
FinalIsTheLastAccepted ==
  frozen => /\ final = active
            /\ \A c \in Calls : Accepted(c) => result[c].generation <= final.generation

\* A candidate admitted before closure is refused as frozen only when some
\* CloseAndFreeze ran out of time: a natural drain never drops admitted work.
DrainKeepsAdmittedWork ==
  \A c \in Calls :
    pc[c] = "completing" /\ result[c].reason = "frozen" => closerExpired # {}

\* A family keeps the type of its first accepted appearance for the whole
\* execution, also across snapshots that do not carry it.
TypesNeverChange ==
  \A p, q \in exposed : p[1] = q[1] => p[2] = q[2]

\* Never more candidates between Started and Completed than executing slots.
InflightWithinConcurrent == inflight \in 0..Concurrent

\* After admission closed the WaitGroup only counts down, so that Wait in the
\* drainer cannot miss a candidate.
ClosedAdmissionOnlyDrains == [][closed => admitted' \subseteq admitted]_vars

\* After Holder.Freeze the active snapshot never changes and no call that
\* was still in flight is accepted.
FrozenViewIsImmutable ==
  [][holderFrozen => /\ active' = active
                     /\ \A c \in Calls : Accepted(c)' => Accepted(c)]_vars

\* The register sees a call answered when its outcome is decided.
Answer(c) ==
  CASE result[c].outcome = "none"     -> "none"
    [] result[c].outcome = "accepted" -> "accepted"
    [] OTHER                          -> "refused"

Register == INSTANCE SnapshotRegister WITH
  families <- [c \in Calls |-> candidate[c].families],
  register <- active,
  sealed   <- holderFrozen,
  answer   <- [c \in Calls |-> Answer(c)]

\* Publish and CloseAndFreeze, with all their slots, waits and timeouts, look
\* to callers and scrapers like the atomic register.
ImplementsRegister == Register!Spec

\* CloseAndFreeze returns, with or without a deadline on its context.
CloseAndFreezeReturns == \A k \in Closers : closer[k] = "waiting" ~> closer[k] = "returned"
=============================================================================
