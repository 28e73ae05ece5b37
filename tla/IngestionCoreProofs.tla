------------------------ MODULE IngestionCoreProofs ------------------------
(***************************************************************************)
(* Proofs about IngestionCore for every set of calls, every capacity and   *)
(* every bound on the generation.                                          *)
(***************************************************************************)
EXTENDS IngestionCore, FiniteSetTheorems, TLAPS

----------------------------------------------------------------------------
(* The inductive invariant *)

\* Between admission and the WaitGroup's Done a call is counted in admitted.
AdmittedStates ==
  {"admitted", "parsing", "installing", "completing", "completed", "leaving", "left"}

AdmittedInv == \A c \in Calls : c \in admitted <=> pc[c] \in AdmittedStates

\* A call has no outcome before the step that decides it.
AnswerInv ==
  \A c \in Calls :
    pc[c] \in {"calling", "admitted", "parsing", "installing"} => result[c] = NoResult

\* What the progress of CloseAndFreeze says about the Holder and the drain.
FreezeInv ==
  /\ holderFrozen <=> freezeOnce \in {"running", "done"}
  /\ frozen <=> freezeOnce = "done"
  /\ holderFrozen => final = active
  /\ drainer # "none" => closed
  /\ drainer \in {"freezing", "returned"} => admitted = {}
  /\ \A k \in Closers : closer[k] = "freezing" => k \in closerExpired
  /\ holderFrozen => drainer \in {"freezing", "returned"} \/ closerExpired # {}

\* Every type exposed so far is the one its family is bound to, and so is
\* every type an accepted candidate carries.
BindingInv ==
  /\ \A p \in exposed : p[1] \in DOMAIN bindings /\ bindings[p[1]] = p[2]
  /\ \A c \in Calls : Accepted(c) =>
       \A f \in DOMAIN candidate[c].families :
         f \in DOMAIN bindings /\ bindings[f] = candidate[c].families[f]

IInv ==
  /\ TypeOK
  /\ AdmittedInv
  /\ AnswerInv
  /\ FreezeInv
  /\ BindingInv
  /\ AcceptedHistoryIsLinear
  /\ DrainKeepsAdmittedWork

----------------------------------------------------------------------------
(* Facts about the operators *)

\* A snapshot is a function from some families to types.
LEMMA SnapshotShape ==
  \A s : s \in Snapshots <=> DOMAIN s \in SUBSET Families /\ s \in [DOMAIN s -> Types]
  BY DEF Snapshots

\* Binding the families of a snapshot yields a snapshot that gives every
\* family of the new one its new type and keeps the other bindings.
LEMMA BindFacts ==
  ASSUME NEW b \in Snapshots, NEW s \in Snapshots
  PROVE  /\ Bind(b, s) \in Snapshots
         /\ DOMAIN Bind(b, s) = DOMAIN b \cup DOMAIN s
         /\ \A f \in DOMAIN s : Bind(b, s)[f] = s[f]
         /\ \A f \in DOMAIN b : f \notin DOMAIN s => Bind(b, s)[f] = b[f]
  BY SnapshotShape DEF Bind

\* Without a conflict no existing binding changes.
LEMMA BindKeeps ==
  ASSUME NEW b \in Snapshots, NEW s \in Snapshots, ~Conflicts(b, s),
         NEW f \in DOMAIN b
  PROVE  Bind(b, s)[f] = b[f]
  BY BindFacts, Zenon DEF Conflicts

\* The zero snapshot, which binds nothing.
LEMMA EmptySnapshotType == EmptySnapshot \in Snapshots /\ DOMAIN EmptySnapshot = {}
  BY SnapshotShape, Zenon DEF EmptySnapshot

\* A candidate carries a snapshot and the verdict of the parser.
LEMMA CandidateFamilies ==
  ASSUME NEW x \in Candidates
  PROVE  x.families \in Snapshots /\ x.parse \in {"valid", "rejection", "error"}
  BY EmptySnapshotType DEF Candidates

\* The (family, type) pairs of a snapshot.
LEMMA ExposesFacts ==
  ASSUME NEW s \in Snapshots
  PROVE  /\ Exposes(s) \in SUBSET (Families \X Types)
         /\ \A p \in Exposes(s) : p[1] \in DOMAIN s /\ p[2] = s[p[1]]
  BY SnapshotShape DEF Exposes

\* An outcome without a generation is a result.
LEMMA OutcomeType ==
  ASSUME NEW o \in Outcomes \cup {"none"}, NEW r \in Reasons
  PROVE  Outcome(o, r) \in Results
  BY CoreAssumption DEF Outcome, Results, Generations

\* The holder starts with an active snapshot.
LEMMA InitialSnapshotType == InitialSnapshot \in ActiveSnapshots
  BY CoreAssumption DEF InitialSnapshot, ActiveSnapshots, Generations

----------------------------------------------------------------------------

\* The invariant holds of a new core.
LEMMA InitInv == Init => IInv
  <1> SUFFICES ASSUME Init PROVE IInv
    OBVIOUS
  <1> USE CoreAssumption DEF Init
  <1>1. TypeOK
    <2>1. NoResult \in Results
      BY OutcomeType DEF NoResult, Reasons
    <2>2. candidate \in [Calls -> Candidates] /\ expired \in SUBSET Calls
      OBVIOUS
    <2>3. pc \in [Calls -> PublishStates]
      BY DEF PublishStates
    <2>4. result \in [Calls -> Results]
      BY <2>1
    <2>5. closer \in [Closers -> {"calling", "waiting", "freezing", "returned"}]
      OBVIOUS
    <2>6. gauge \in Generations
      BY DEF Generations
    <2>7. holderFrozen \in BOOLEAN /\ closed \in BOOLEAN /\ frozen \in BOOLEAN
      BY Zenon
    <2> QED
      BY <2>1, <2>2, <2>3, <2>4, <2>5, <2>6, <2>7, EmptySnapshotType, InitialSnapshotType DEF TypeOK
  <1>2. AdmittedInv /\ AnswerInv /\ FreezeInv /\ BindingInv
    BY DEF AdmittedInv, AdmittedStates, AnswerInv, FreezeInv, BindingInv, Accepted, NoResult,
       Outcome
  <1>3. AcceptedHistoryIsLinear /\ DrainKeepsAdmittedWork
    BY DEF AcceptedHistoryIsLinear, DrainKeepsAdmittedWork, Accepted, NoResult, Outcome,
       InitialSnapshot
  <1> QED
    BY <1>1, <1>2, <1>3 DEF IInv

\* A call that ends without being accepted leaves the history of accepted
\* snapshots as it is.
LEMMA RefusalKeepsHistory ==
  ASSUME IInv, NEW c \in Calls, NEW r \in Results, r.outcome # "accepted",
         result[c] = NoResult, result' = [result EXCEPT ![c] = r],
         UNCHANGED <<candidate, active, bindings, exposed>>
  PROVE  /\ result' \in [Calls -> Results]
         /\ AcceptedHistoryIsLinear'
         /\ BindingInv'
  <1>1. result' \in [Calls -> Results]
    BY DEF IInv, TypeOK
  <1>2. \A d \in Calls : Accepted(d)' <=> Accepted(d)
    BY DEF IInv, TypeOK, Accepted, NoResult, Outcome
  <1>3. \A d \in Calls : Accepted(d) => result'[d] = result[d]
    BY DEF IInv, TypeOK, Accepted, NoResult, Outcome
  <1>4. BindingInv'
    BY <1>2 DEF IInv, BindingInv
  <1>5. AcceptedHistoryIsLinear'
    BY <1>2, <1>3 DEF IInv, AcceptedHistoryIsLinear
  <1> QED
    BY <1>1, <1>4, <1>5

\* An accepted candidate extends the history by one generation.
LEMMA AcceptKeepsInv ==
  ASSUME IInv, NEW c \in Calls, Install(c), AcceptInstall(c), ~holderFrozen,
         ~Conflicts(bindings, candidate[c].families), active.generation # MaxGeneration
  PROVE  IInv'
  <1> DEFINE g == active.generation + 1
             fs == candidate[c].families
  <1> USE CoreAssumption DEF IInv, TypeOK
  <1>1. /\ active.generation \in Nat /\ g \in Generations /\ fs \in Snapshots
        /\ result[c] = NoResult /\ pc[c] = "installing"
    <2>1. candidate[c] \in Candidates
      OBVIOUS
    <2>2. fs \in Snapshots
      BY <2>1, CandidateFamilies
    <2>3. active.generation \in Nat /\ g \in Generations
      BY DEF ActiveSnapshots, Generations
    <2> QED
      BY <2>2, <2>3 DEF Install, AnswerInv
  <1>2. /\ active' = [generation |-> g, payload |-> c]
        /\ result' = [result EXCEPT ![c] = [outcome |-> "accepted", reason |-> "none", generation |-> g]]
        /\ bindings' = Bind(bindings, fs)
        /\ exposed' = exposed \cup Exposes(fs)
        /\ candidate' = candidate
    BY DEF AcceptInstall, Install
  <1>3. active' \in ActiveSnapshots /\ result' \in [Calls -> Results]
    BY <1>1, <1>2 DEF ActiveSnapshots, Results, Outcomes, Reasons
  <1>4. /\ \A d \in Calls : d # c => result'[d] = result[d]
        /\ result'[c].outcome = "accepted" /\ result'[c].generation = g /\ result'[c].reason = "none"
        /\ ~Accepted(c)
    BY <1>1, <1>2 DEF Accepted, NoResult, Outcome
  <1>5. AcceptedHistoryIsLinear'
    <2>1. \A d \in Calls : Accepted(d)' <=> Accepted(d) \/ d = c
      BY <1>4 DEF Accepted
    <2>2. \A d \in Calls : Accepted(d) => result'[d] = result[d] /\ result[d].generation \in 1..active.generation
      BY <1>4 DEF AcceptedHistoryIsLinear
    <2>3. active'.generation = g /\ active'.payload = c
      BY <1>2
    <2>4. \A d \in Calls : Accepted(d)' => result'[d].generation \in 1..g
      BY <2>1, <2>2, <1>1, <1>4
    <2>5. \A n \in 1..g : \E d \in Calls : Accepted(d)' /\ result'[d].generation = n
      <3> SUFFICES ASSUME NEW n \in 1..g
                   PROVE  \E d \in Calls : Accepted(d)' /\ result'[d].generation = n
        OBVIOUS
      <3>1. CASE n = g
        BY <3>1, <1>4, <2>1
      <3>2. CASE n # g
        <4>1. n \in 1..active.generation
          BY <3>2, <1>1
        <4>2. PICK d \in Calls : Accepted(d) /\ result[d].generation = n
          BY <4>1 DEF AcceptedHistoryIsLinear
        <4> QED
          BY <4>2, <2>1, <2>2
      <3> QED
        BY <3>1, <3>2
    <2>6. \A d, e \in Calls :
            Accepted(d)' /\ Accepted(e)' /\ result'[d].generation = result'[e].generation => d = e
      BY <1>1, <1>4, <2>1, <2>2 DEF AcceptedHistoryIsLinear
    <2>7. \A d \in Calls : Accepted(d)' /\ result'[d].generation = g => c = d
      BY <1>1, <1>4, <2>1, <2>2
    <2> QED
      BY <2>3, <2>4, <2>5, <2>6, <2>7 DEF AcceptedHistoryIsLinear
  <1>6. bindings' \in Snapshots /\ exposed' \in SUBSET (Families \X Types)
    BY <1>1, <1>2, BindFacts, ExposesFacts, Zenon
  <1>7. BindingInv'
    <2> HIDE DEF fs
    <2>0. bindings \in Snapshots /\ fs \in Snapshots /\ ~Conflicts(bindings, fs)
      BY <1>1 DEF fs
    <2>6. /\ DOMAIN Bind(bindings, fs) = DOMAIN bindings \cup DOMAIN fs
          /\ \A f \in DOMAIN fs : Bind(bindings, fs)[f] = fs[f]
          /\ \A f \in DOMAIN bindings : Bind(bindings, fs)[f] = bindings[f]
      BY <2>0, BindFacts, BindKeeps, Zenon
    <2>1. \A f \in DOMAIN bindings : f \in DOMAIN bindings' /\ bindings'[f] = bindings[f]
      BY <2>6, <1>2
    <2>2. \A f \in DOMAIN fs : f \in DOMAIN bindings' /\ bindings'[f] = fs[f]
      BY <2>6, <1>2
    <2>3. \A p \in exposed' : p[1] \in DOMAIN bindings' /\ bindings'[p[1]] = p[2]
      BY <1>1, <1>2, <2>1, <2>2, ExposesFacts DEF BindingInv
    <2>4. \A d \in Calls : Accepted(d)' <=> Accepted(d) \/ d = c
      BY <1>4 DEF Accepted
    <2>5. \A d \in Calls : Accepted(d)' =>
            \A f \in DOMAIN candidate[d].families :
              f \in DOMAIN bindings' /\ bindings'[f] = candidate[d].families[f]
      BY <2>1, <2>2, <2>4 DEF BindingInv, fs
    <2> QED
      BY <1>2, <2>3, <2>5 DEF BindingInv
  <1>8. UNCHANGED <<expired, holderFrozen, slotVars, freezeVars, metricVars>>
        /\ pc' = [pc EXCEPT ![c] = "completing"]
    BY DEF Install, AcceptInstall
  <1>9. TypeOK'
    BY <1>2, <1>3, <1>6, <1>8, Zenon DEF slotVars, freezeVars, metricVars, PublishStates
  <1>10. AdmittedInv' /\ AnswerInv' /\ FreezeInv' /\ DrainKeepsAdmittedWork'
    BY <1>1, <1>4, <1>8 DEF slotVars, freezeVars, AdmittedInv, AdmittedStates, AnswerInv,
       FreezeInv, DrainKeepsAdmittedWork
  <1> QED
    BY <1>5, <1>7, <1>9, <1>10

\* A call that is given an outcome other than acceptance, or none yet, and
\* moves on without touching anything else.
LEMMA RefusalKeepsInv ==
  ASSUME IInv, NEW c \in Calls, NEW r \in Results, NEW to \in PublishStates,
         r.outcome # "accepted", result[c] = NoResult,
         c \in admitted <=> to \in AdmittedStates,
         to \in {"calling", "admitted", "parsing", "installing"} => r = NoResult,
         to = "completing" /\ r.reason = "frozen" => closerExpired # {},
         result' = [result EXCEPT ![c] = r], pc' = [pc EXCEPT ![c] = to],
         UNCHANGED <<candidate, expired, holderVars, slotVars, freezeVars, metricVars>>
  PROVE  IInv'
  <1>1. result' \in [Calls -> Results] /\ AcceptedHistoryIsLinear' /\ BindingInv'
    BY RefusalKeepsHistory, Zenon DEF holderVars
  <1>2. TypeOK'
    BY <1>1 DEF IInv, TypeOK, holderVars, slotVars, freezeVars, metricVars
  <1>3. pc \in [Calls -> PublishStates] /\ result \in [Calls -> Results]
    BY DEF IInv, TypeOK
  <1>4. AdmittedInv'
    BY <1>3 DEF IInv, AdmittedInv, slotVars
  <1>5. AnswerInv'
    BY <1>3 DEF IInv, AnswerInv
  <1>6. DrainKeepsAdmittedWork'
    BY <1>3 DEF IInv, DrainKeepsAdmittedWork, freezeVars
  <1>7. FreezeInv'
    BY DEF IInv, FreezeInv, holderVars, slotVars, freezeVars
  <1> QED
    BY <1>1, <1>2, <1>4, <1>5, <1>6, <1>7 DEF IInv

\* A step that leaves the candidates, their outcomes and the accepted
\* history alone.
LEMMA HistoryUntouched ==
  ASSUME IInv, UNCHANGED <<candidate, result, active, bindings, exposed>>
  PROVE  AcceptedHistoryIsLinear' /\ BindingInv'
  BY DEF IInv, AcceptedHistoryIsLinear, BindingInv, Accepted

\* A step of one call between admission and return that decides nothing.
LEMMA CallStepKeepsInv ==
  ASSUME IInv, NEW c \in Calls, NEW to \in PublishStates, TypeOK',
         to \notin {"calling", "completing"},
         to \in {"admitted", "parsing", "installing"} => result[c] = NoResult,
         \A d \in Calls : d \in admitted' <=> IF d = c THEN to \in AdmittedStates ELSE d \in admitted,
         admitted' # {} => (admitted # {} \/ ~closed),
         pc' = [pc EXCEPT ![c] = to],
         UNCHANGED <<candidate, result, holderVars, freezeVars>>
  PROVE  IInv'
  <1>1. pc \in [Calls -> PublishStates] /\ admitted \in SUBSET Calls
    BY DEF IInv, TypeOK
  <1>2. AcceptedHistoryIsLinear' /\ BindingInv'
    BY HistoryUntouched DEF holderVars
  <1>3. AdmittedInv'
    BY <1>1 DEF IInv, AdmittedInv
  <1>4. AnswerInv' /\ DrainKeepsAdmittedWork'
    BY <1>1 DEF IInv, AnswerInv, DrainKeepsAdmittedWork, freezeVars
  <1>5. FreezeInv'
    BY DEF IInv, FreezeInv, holderVars, freezeVars
  <1> QED
    BY <1>2, <1>3, <1>4, <1>5 DEF IInv

\* The same for a step between admission and the WaitGroup's Done.
LEMMA WorkStepKeepsInv ==
  ASSUME IInv, NEW c \in Calls, NEW to \in AdmittedStates, TypeOK', to # "completing",
         pc[c] \in AdmittedStates, to = "parsing" => pc[c] = "admitted",
         to \notin {"admitted", "installing"},
         pc' = [pc EXCEPT ![c] = to],
         UNCHANGED <<candidate, result, holderVars, freezeVars, admitted>>
  PROVE  IInv'
  <1>1. to \in PublishStates /\ to # "calling"
    BY DEF AdmittedStates, PublishStates
  <1>2. c \in admitted
    BY DEF IInv, AdmittedInv
  <1>3. to = "parsing" => result[c] = NoResult
    BY DEF IInv, AnswerInv
  <1>4. \A d \in Calls : d \in admitted' <=> IF d = c THEN to \in AdmittedStates ELSE d \in admitted
    BY <1>2
  <1>5. /\ to \in {"admitted", "parsing", "installing"} => result[c] = NoResult
        /\ to \notin {"calling", "completing"}
        /\ admitted' # {} => (admitted # {} \/ ~closed)
    BY <1>1, <1>2, <1>3
  <1> QED
    BY <1>1, <1>4, <1>5, CallStepKeepsInv, Zenon

\* The calls of Publish, from entry to return.
LEMMA CallsKeepInv ==
  ASSUME IInv, NEW c \in Calls, PublishEntry(c) \/ PublishProgress(c)
  PROVE  IInv'
  <1>0. TypeOK /\ (c \in admitted <=> pc[c] \in AdmittedStates)
        /\ (pc[c] \in {"calling", "admitted", "parsing", "installing"} => result[c] = NoResult)
    BY DEF IInv, AdmittedInv, AnswerInv
  <1>1. ASSUME NEW o \in {"internal_error", "rejected", "timeout", "busy"},
               NEW r \in Reasons, Decline(c, o, r)
        PROVE  IInv'
    <2>1. Outcome(o, r) \in Results /\ Outcome(o, r).outcome # "accepted"
      BY OutcomeType DEF Outcomes, Outcome
    <2> QED
      BY <1>0, <1>1, <2>1, RefusalKeepsInv, Zenon DEF Decline, PublishStates, AdmittedStates
  <1>2. CASE Admit(c)
    <2>1. TypeOK'
      BY <1>0, <1>2 DEF Admit, TypeOK, PublishStates, holderVars, freezeVars, metricVars
    <2> QED
      BY <1>0, <1>2, <2>1, CallStepKeepsInv, Zenon DEF Admit, PublishStates, AdmittedStates
  <1>3. CASE StartExecuting(c)
    <2>1. TypeOK'
      BY <1>0, <1>3 DEF StartExecuting, TypeOK, PublishStates, holderVars, freezeVars
    <2> QED
      BY <1>3, <2>1, WorkStepKeepsInv, Zenon DEF StartExecuting, AdmittedStates
  <1>4. CASE TimeoutWaiting(c)
    <2>1. Outcome("timeout", "none") \in Results
          /\ Outcome("timeout", "none").outcome # "accepted"
          /\ Outcome("timeout", "none").reason # "frozen"
      BY OutcomeType DEF Outcomes, Outcome, Reasons
    <2> QED
      BY <1>0, <1>4, <2>1, RefusalKeepsInv, Zenon DEF TimeoutWaiting, PublishStates, AdmittedStates
  <1>5. CASE ParseCandidate(c)
    <2>1. ParserOutcome(c) \in Results /\ ParserOutcome(c).outcome # "accepted"
          /\ ParserOutcome(c).reason # "frozen"
      BY OutcomeType DEF ParserOutcome, Outcomes, Outcome, Reasons, NoResult
    <2> QED
      BY <1>0, <1>5, <2>1, RefusalKeepsInv, Zenon
         DEF ParseCandidate, ParserOutcome, PublishStates, AdmittedStates
  <1>6. CASE Install(c)
    <2>1. ASSUME NEW r \in {"frozen", "type_conflict", "internal"}, RejectInstall(c, r),
                 r = "frozen" => holderFrozen
          PROVE  IInv'
      <3>1. Outcome("rejected", r) \in Results /\ Outcome("rejected", r).outcome # "accepted"
            /\ Outcome("rejected", r).reason = r
        BY OutcomeType DEF Outcomes, Outcome, Reasons
      <3>2. c \in admitted
        BY <1>0, <1>6 DEF Install, AdmittedStates
      <3>3. r = "frozen" => closerExpired # {}
        BY <2>1, <3>2 DEF IInv, FreezeInv
      <3> QED
        BY <1>0, <1>6, <2>1, <3>1, <3>2, <3>3, RefusalKeepsInv, Zenon
           DEF Install, RejectInstall, PublishStates, AdmittedStates
    <2>2. ASSUME AcceptInstall(c), ~holderFrozen, ~Conflicts(bindings, candidate[c].families),
                 active.generation # MaxGeneration
          PROVE  IInv'
      BY <1>0, <1>6, <2>2, AcceptKeepsInv, Zenon DEF Install, AdmittedStates
    <2> QED
      BY <1>6, <2>1, <2>2 DEF Install, HolderInstall
  <1>7. CASE Completed(c)
    <2>1. TypeOK'
      BY <1>0, <1>7 DEF Completed, TypeOK, Results, PublishStates, holderVars, slotVars, freezeVars
    <2> QED
      BY <1>7, <2>1, WorkStepKeepsInv, Zenon DEF Completed, slotVars, AdmittedStates
  <1>8. CASE ReleaseExecuting(c)
    <2>1. TypeOK'
      BY <1>0, <1>8 DEF ReleaseExecuting, TypeOK, PublishStates, holderVars, freezeVars, metricVars
    <2> QED
      BY <1>8, <2>1, WorkStepKeepsInv, Zenon DEF ReleaseExecuting, AdmittedStates
  <1>9. CASE ReleaseAdmission(c)
    <2>1. TypeOK'
      BY <1>0, <1>9 DEF ReleaseAdmission, TypeOK, PublishStates, holderVars, freezeVars, metricVars
    <2> QED
      BY <1>9, <2>1, WorkStepKeepsInv, Zenon DEF ReleaseAdmission, AdmittedStates
  <1>10. CASE AdmittedDone(c)
    <2>1. TypeOK'
      BY <1>0, <1>10 DEF AdmittedDone, TypeOK, PublishStates, holderVars, freezeVars, metricVars
    <2> QED
      BY <1>0, <1>10, <2>1, CallStepKeepsInv, Zenon DEF AdmittedDone, PublishStates, AdmittedStates
  <1>11. CASE PublishEntry(c)
    BY <1>1, <1>2, <1>11 DEF PublishEntry, UnknownTransport, DeclineClosed, DeclineExpired,
       DeclineBusy, Reasons
  <1> QED
    BY <1>3, <1>4, <1>5, <1>6, <1>7, <1>8, <1>9, <1>10, <1>11 DEF PublishProgress

\* The steps of CloseAndFreeze, which leave the calls alone.
LEMMA FreezeKeepsInv ==
  ASSUME IInv, TypeOK', FreezeInv', closerExpired \subseteq closerExpired',
         UNCHANGED <<candidate, pc, result, active, bindings, exposed, admitted>>
  PROVE  IInv'
  <1>1. AcceptedHistoryIsLinear' /\ BindingInv'
    BY HistoryUntouched
  <1>2. AdmittedInv' /\ AnswerInv' /\ DrainKeepsAdmittedWork'
    BY DEF IInv, AdmittedInv, AnswerInv, DrainKeepsAdmittedWork
  <1> QED
    BY <1>1, <1>2 DEF IInv

\* No step of the core, of its callers or of the closers breaks the invariant.
LEMMA NextInv == IInv /\ [Next]_vars => IInv'
  <1> SUFFICES ASSUME IInv, [Next]_vars PROVE IInv'
    OBVIOUS
  <1>0. TypeOK /\ FreezeInv
    BY DEF IInv
  <1>1. ASSUME NEW c \in Calls, ExpireCall(c) PROVE IInv'
    <2>1. TypeOK'
      BY <1>0, <1>1 DEF ExpireCall, TypeOK, holderVars, slotVars, freezeVars, metricVars
    <2>2. FreezeInv'
      BY <1>0, <1>1 DEF ExpireCall, FreezeInv, holderVars, slotVars, freezeVars
    <2> QED
      BY <1>1, <2>1, <2>2, FreezeKeepsInv DEF ExpireCall, holderVars, slotVars, freezeVars
  <1>2. ASSUME NEW c \in Calls, PublishEntry(c) \/ PublishProgress(c) PROVE IInv'
    BY <1>2, CallsKeepInv
  <1>3. ASSUME NEW k \in Closers, ExpireCloser(k) PROVE IInv'
    <2>1. TypeOK'
      BY <1>0, <1>3 DEF ExpireCloser, TypeOK, holderVars, slotVars, metricVars
    <2>2. FreezeInv'
      BY <1>0, <1>3 DEF ExpireCloser, TypeOK, FreezeInv, holderVars, slotVars
    <2> QED
      BY <1>3, <2>1, <2>2, FreezeKeepsInv DEF ExpireCloser, holderVars, slotVars
  <1>4. ASSUME NEW k \in Closers, CloseAdmission(k) PROVE IInv'
    <2>1. TypeOK'
      BY <1>0, <1>4 DEF CloseAdmission, TypeOK, holderVars, slotVars, metricVars
    <2>2. FreezeInv'
      BY <1>0, <1>4 DEF CloseAdmission, TypeOK, FreezeInv, holderVars, slotVars
    <2> QED
      BY <1>4, <2>1, <2>2, FreezeKeepsInv DEF CloseAdmission, holderVars, slotVars
  <1>5. ASSUME NEW k \in Closers, CloserGivesUp(k) PROVE IInv'
    <2>1. TypeOK'
      BY <1>0, <1>5 DEF CloserGivesUp, TypeOK, holderVars, slotVars, metricVars
    <2>2. FreezeInv'
      BY <1>0, <1>5 DEF CloserGivesUp, TypeOK, FreezeInv, holderVars, slotVars
    <2> QED
      BY <1>5, <2>1, <2>2, FreezeKeepsInv DEF CloserGivesUp, holderVars, slotVars
  <1>6. ASSUME NEW k \in Closers, CloserReturns(k) PROVE IInv'
    <2>1. TypeOK'
      BY <1>0, <1>6 DEF CloserReturns, TypeOK, holderVars, slotVars, metricVars
    <2>2. FreezeInv'
      BY <1>0, <1>6 DEF CloserReturns, TypeOK, FreezeInv, holderVars, slotVars
    <2> QED
      BY <1>6, <2>1, <2>2, FreezeKeepsInv DEF CloserReturns, holderVars, slotVars
  <1>7. CASE DrainCompleted
    <2>1. TypeOK'
      BY <1>0, <1>7 DEF DrainCompleted, TypeOK, holderVars, slotVars, metricVars
    <2>2. FreezeInv'
      BY <1>0, <1>7 DEF DrainCompleted, TypeOK, FreezeInv, holderVars, slotVars
    <2> QED
      BY <1>7, <2>1, <2>2, FreezeKeepsInv DEF DrainCompleted, holderVars, slotVars
  <1>8. CASE FreezeHolder
    <2>1. TypeOK'
      BY <1>0, <1>8 DEF FreezeHolder, TypeOK, holderVars, slotVars, metricVars
    <2>2. FreezeInv'
      BY <1>0, <1>8 DEF FreezeHolder, TypeOK, FreezeInv, holderVars, slotVars
    <2> QED
      BY <1>8, <2>1, <2>2, FreezeKeepsInv DEF FreezeHolder, holderVars, slotVars
  <1>9. CASE CloseFrozenChannel
    <2>1. TypeOK'
      BY <1>0, <1>9 DEF CloseFrozenChannel, TypeOK, holderVars, slotVars, metricVars
    <2>2. FreezeInv'
      BY <1>0, <1>9 DEF CloseFrozenChannel, TypeOK, FreezeInv, holderVars, slotVars
    <2> QED
      BY <1>9, <2>1, <2>2, FreezeKeepsInv DEF CloseFrozenChannel, holderVars, slotVars
  <1>10. CASE DrainerReturns
    <2>1. TypeOK'
      BY <1>0, <1>10 DEF DrainerReturns, TypeOK, holderVars, slotVars, metricVars
    <2>2. FreezeInv'
      BY <1>0, <1>10 DEF DrainerReturns, TypeOK, FreezeInv, holderVars, slotVars
    <2> QED
      BY <1>10, <2>1, <2>2, FreezeKeepsInv DEF DrainerReturns, holderVars, slotVars
  <1>11. CASE UNCHANGED vars
    <2>1. TypeOK' /\ FreezeInv'
      BY <1>0, <1>11 DEF vars, TypeOK, FreezeInv, holderVars, slotVars, freezeVars, metricVars
    <2> QED
      BY <1>11, <2>1, FreezeKeepsInv, Zenon DEF vars, holderVars, slotVars, freezeVars
  <1> QED
    BY <1>1, <1>2, <1>3, <1>4, <1>5, <1>6, <1>7, <1>8, <1>9, <1>10, <1>11
       DEF Next, Finished, CloserProgress, FreezeProgress

----------------------------------------------------------------------------
(* The theorems *)

\* The inductive invariant holds in every reachable state.
THEOREM InvariantHolds == Spec => []IInv
  BY InitInv, NextInv, PTL DEF Spec

\* Every field of Core, Holder and the observer keeps its type; in particular
\* the generation never runs over its maximum.
THEOREM TypeCorrect == Spec => []TypeOK
  <1>1. IInv => TypeOK
    BY DEF IInv
  <1> QED
    BY <1>1, InvariantHolds, PTL

\* Install assigns the generations in one linear order, whatever the number
\* of concurrent publications.
THEOREM LinearHistory == Spec => []AcceptedHistoryIsLinear
  <1>1. IInv => AcceptedHistoryIsLinear
    BY DEF IInv
  <1> QED
    BY <1>1, InvariantHolds, PTL

\* CloseAndFreeze returns the last snapshot that was ever accepted.
THEOREM FinalSnapshot == Spec => []FinalIsTheLastAccepted
  <1>1. IInv => FinalIsTheLastAccepted
    <2> SUFFICES ASSUME IInv, frozen PROVE FinalIsTheLastAccepted
      BY DEF FinalIsTheLastAccepted
    <2>1. final = active /\ active.generation \in Nat
      BY CoreAssumption DEF IInv, FreezeInv, TypeOK, ActiveSnapshots, Generations
    <2>2. \A c \in Calls : Accepted(c) => result[c].generation \in 1..active.generation
      BY DEF IInv, AcceptedHistoryIsLinear
    <2> QED
      BY <2>1, <2>2 DEF FinalIsTheLastAccepted
  <1> QED
    BY <1>1, InvariantHolds, PTL

\* An admitted candidate is refused as frozen only when a closer's context
\* ended before the drain did.
THEOREM DrainLosesNothing == Spec => []DrainKeepsAdmittedWork
  <1>1. IInv => DrainKeepsAdmittedWork
    BY DEF IInv
  <1> QED
    BY <1>1, InvariantHolds, PTL

\* No family is ever exposed with two types.
THEOREM StableTypes == Spec => []TypesNeverChange
  <1>1. IInv => TypesNeverChange
    <2>1. IInv => \A p \in exposed : bindings[p[1]] = p[2]
      BY Zenon DEF IInv, BindingInv
    <2> QED
      BY <2>1 DEF TypesNeverChange
  <1> QED
    BY <1>1, InvariantHolds, PTL

\* After CloseAndFreeze closed admission, the WaitGroup only counts down.
THEOREM NoLateAdmission == Spec => ClosedAdmissionOnlyDrains
  <1>1. [Next]_vars => (closed => admitted' \subseteq admitted)
    BY Zenon DEF Next, PublishEntry, UnknownTransport, DeclineClosed, DeclineExpired, DeclineBusy,
       Decline, Admit, PublishProgress, StartExecuting, TimeoutWaiting, ParseCandidate, Install,
       Completed, ReleaseExecuting, ReleaseAdmission, AdmittedDone, ExpireCall, ExpireCloser,
       CloseAdmission, CloserProgress, CloserGivesUp, CloserReturns, FreezeProgress,
       DrainCompleted, FreezeHolder, CloseFrozenChannel, DrainerReturns, Finished, vars, slotVars
  <1> QED
    BY <1>1, PTL DEF Spec, ClosedAdmissionOnlyDrains

\* After Holder.Freeze the active snapshot is immutable and no publication
\* still in flight is accepted.
THEOREM FrozenView == Spec => FrozenViewIsImmutable
  <1>1. IInv /\ [Next]_vars /\ holderFrozen =>
          active' = active /\ \A c \in Calls : Accepted(c)' => Accepted(c)
    <2> SUFFICES ASSUME IInv, [Next]_vars, holderFrozen
                 PROVE  active' = active /\ \A c \in Calls : Accepted(c)' => Accepted(c)
      OBVIOUS
    <2> DEFINE Goal == active' = active /\ \A c \in Calls : Accepted(c)' => Accepted(c)
    <2> USE DEF IInv, TypeOK, Accepted, holderVars
    <2>1. CASE UNCHANGED <<active, result>>
      BY <2>1
    <2>2. ASSUME NEW c \in Calls, NEW r, r.outcome # "accepted",
                 active' = active, result' = [result EXCEPT ![c] = r]
          PROVE  Goal
      BY <2>2, Zenon
    <2>3. ASSUME NEW c \in Calls, PublishEntry(c) PROVE Goal
      BY <2>1, <2>2, <2>3, Zenon DEF PublishEntry, UnknownTransport, DeclineClosed, DeclineExpired,
         DeclineBusy, Decline, Admit, Outcome
    <2>4. ASSUME NEW c \in Calls, ParseCandidate(c) PROVE Goal
      <3>1. ParserOutcome(c).outcome # "accepted"
        BY DEF ParserOutcome, Outcome, NoResult
      <3> QED
        BY <2>2, <2>4, <3>1 DEF ParseCandidate
    <2>5. ASSUME NEW c \in Calls, Install(c) \/ TimeoutWaiting(c) PROVE Goal
      BY <2>2, <2>5, Zenon DEF Install, HolderInstall, RejectInstall, TimeoutWaiting, Outcome
    <2>6. ASSUME NEW c \in Calls,
                 \/ ExpireCall(c) \/ StartExecuting(c) \/ Completed(c) \/ ReleaseExecuting(c)
                 \/ ReleaseAdmission(c) \/ AdmittedDone(c)
          PROVE  Goal
      BY <2>1, <2>6, Zenon DEF ExpireCall, StartExecuting, Completed, ReleaseExecuting, ReleaseAdmission,
         AdmittedDone
    <2>7. ASSUME NEW k \in Closers, ExpireCloser(k) \/ CloseAdmission(k) \/ CloserProgress(k)
          PROVE  Goal
      BY <2>1, <2>7, Zenon DEF ExpireCloser, CloseAdmission, CloserProgress, CloserGivesUp, CloserReturns
    <2>8. CASE FreezeProgress \/ Finished \/ UNCHANGED vars
      BY <2>1, <2>8, Zenon DEF FreezeProgress, DrainCompleted, FreezeHolder, CloseFrozenChannel,
         DrainerReturns, Finished, vars
    <2> QED
      BY <2>3, <2>4, <2>5, <2>6, <2>7, <2>8, Zenon DEF Next, PublishProgress
  <1> QED
    BY <1>1, InvariantHolds, PTL DEF Spec, FrozenViewIsImmutable

----------------------------------------------------------------------------
(* The executing slots *)

Running == {c \in Calls : pc[c] \in {"parsing", "installing", "completing"}}

Occupying == {c \in Calls : pc[c] \in {"parsing", "installing", "completing", "completed"}}

\* The slots of the channel executing belong to the calls between the send
\* and the deferred receive, and the gauge counts those not yet completed.
SlotInv ==
  /\ pc \in [Calls -> PublishStates]
  /\ executing = Occupying
  /\ Cardinality(executing) <= Concurrent
  /\ inflight = Cardinality(Running)

\* The invariant of the executing slots is inductive by itself.
LEMMA SlotsHold == Spec => []SlotInv
  <1> USE CoreAssumption
  <1>1. Init => SlotInv
    <2> SUFFICES ASSUME Init PROVE SlotInv
      OBVIOUS
    <2>1. Running = {} /\ Occupying = {}
      BY DEF Init, Running, Occupying
    <2> QED
      BY <2>1, FS_EmptySet DEF Init, SlotInv, PublishStates
  <1>2. SlotInv /\ [Next]_vars => SlotInv'
    <2> SUFFICES ASSUME SlotInv, [Next]_vars PROVE SlotInv'
      OBVIOUS
    <2>1. /\ IsFiniteSet(Running) /\ IsFiniteSet(executing)
          /\ Cardinality(Running) \in Nat /\ Cardinality(executing) \in Nat
          /\ Running \subseteq executing
      BY FS_Subset, FS_CardinalityType DEF SlotInv, Running, Occupying
    <2>2. ASSUME NEW c \in Calls, NEW from \in PublishStates, NEW to \in PublishStates,
                 pc[c] = from, pc' = [pc EXCEPT ![c] = to], executing' = executing,
                 inflight' = inflight,
                 \/ {from, to} \cap {"parsing", "installing", "completing", "completed"} = {}
                 \/ {from, to} \subseteq {"parsing", "installing", "completing"}
          PROVE  SlotInv'
      <3>1. Running' = Running /\ Occupying' = Occupying
        BY <2>2, Zenon DEF SlotInv, Running, Occupying
      <3> QED
        BY <2>2, <3>1 DEF SlotInv
    <2>3. ASSUME NEW c \in Calls, StartExecuting(c) PROVE SlotInv'
      <3>1. /\ Running' = Running \cup {c} /\ c \notin Running
            /\ Occupying' = executing \cup {c} /\ c \notin executing
            /\ pc' \in [Calls -> PublishStates]
        BY <2>3 DEF StartExecuting, SlotInv, Running, Occupying, PublishStates
      <3>2. /\ Cardinality(Running \cup {c}) = Cardinality(Running) + 1
            /\ Cardinality(executing \cup {c}) = Cardinality(executing) + 1
        BY <2>1, <3>1, FS_AddElement, Zenon
      <3>3. /\ Cardinality(executing) < Concurrent
            /\ executing' = executing \cup {c} /\ inflight' = inflight + 1
        BY <2>3, Zenon DEF StartExecuting
      <3>4. Cardinality(executing') <= Concurrent
        BY <2>1, <3>2, <3>3
      <3>5. inflight' = Cardinality(Running')
        BY <3>1, <3>2, <3>3, Zenon DEF SlotInv
      <3> QED
        BY <3>1, <3>3, <3>4, <3>5, Zenon DEF SlotInv
    <2>4. ASSUME NEW c \in Calls, Completed(c) PROVE SlotInv'
      <3>1. /\ Running' = Running \ {c} /\ c \in Running /\ Occupying' = Occupying
            /\ pc' \in [Calls -> PublishStates]
        BY <2>4 DEF Completed, SlotInv, Running, Occupying, PublishStates
      <3>2. Cardinality(Running \ {c}) = Cardinality(Running) - 1
        BY <2>1, <3>1, FS_RemoveElement, Zenon
      <3> QED
        BY <2>4, <3>1, <3>2, Zenon DEF Completed, SlotInv, slotVars
    <2>5. ASSUME NEW c \in Calls, ReleaseExecuting(c) PROVE SlotInv'
      <3>1. /\ Running' = Running /\ Occupying' = executing \ {c} /\ c \in executing
            /\ pc' \in [Calls -> PublishStates]
        BY <2>5 DEF ReleaseExecuting, SlotInv, Running, Occupying, PublishStates
      <3>2. Cardinality(executing \ {c}) = Cardinality(executing) - 1
        BY <2>1, <3>1, FS_RemoveElement, Zenon
      <3> QED
        BY <2>1, <2>5, <3>1, <3>2 DEF ReleaseExecuting, SlotInv, metricVars
    <2>6. ASSUME NEW c \in Calls, PublishEntry(c) PROVE SlotInv'
      BY <2>2, <2>6, Zenon DEF PublishEntry, UnknownTransport, DeclineClosed, DeclineExpired, DeclineBusy,
         Decline, Admit, slotVars, metricVars, PublishStates
    <2>7. ASSUME NEW c \in Calls, TimeoutWaiting(c) \/ ReleaseAdmission(c) \/ AdmittedDone(c)
          PROVE  SlotInv'
      BY <2>2, <2>7, Zenon DEF TimeoutWaiting, ReleaseAdmission, AdmittedDone, slotVars, metricVars,
         PublishStates
    <2>8. ASSUME NEW c \in Calls, ParseCandidate(c) \/ Install(c) PROVE SlotInv'
      BY <2>2, <2>8 DEF ParseCandidate, Install, slotVars, metricVars, PublishStates
    <2>9. CASE UNCHANGED <<pc, executing, inflight>>
      BY <2>9, Zenon DEF SlotInv, Running, Occupying
    <2>10. ASSUME NEW k \in Closers, ExpireCloser(k) \/ CloseAdmission(k) \/ CloserProgress(k)
           PROVE  SlotInv'
      BY <2>9, <2>10, Zenon DEF ExpireCloser, CloseAdmission, CloserProgress, CloserGivesUp, CloserReturns,
         slotVars, metricVars
    <2>11. CASE FreezeProgress \/ Finished \/ UNCHANGED vars \/ \E c \in Calls : ExpireCall(c)
      BY <2>9, <2>11 DEF FreezeProgress, DrainCompleted, FreezeHolder, CloseFrozenChannel,
         DrainerReturns, Finished, ExpireCall, vars, slotVars, metricVars
    <2> QED
      BY <2>3, <2>4, <2>5, <2>6, <2>7, <2>8, <2>10, <2>11 DEF Next, PublishProgress
  <1> QED
    BY <1>1, <1>2, PTL DEF Spec

\* The observer never counts more running candidates than executing slots.
THEOREM BoundedInflight == Spec => []InflightWithinConcurrent
  <1>1. SlotInv => InflightWithinConcurrent
    <2> SUFFICES ASSUME SlotInv PROVE inflight \in 0..Concurrent
      BY DEF InflightWithinConcurrent
    <2>1. IsFiniteSet(executing) /\ Running \subseteq executing
      BY CoreAssumption, FS_Subset DEF SlotInv, Running, Occupying
    <2>2. Cardinality(Running) <= Cardinality(executing)
          /\ Cardinality(Running) \in Nat /\ Cardinality(executing) \in Nat
      BY <2>1, FS_Subset, FS_CardinalityType, Zenon
    <2> QED
      BY <2>2, CoreAssumption DEF SlotInv
  <1> QED
    BY <1>1, SlotsHold, PTL

----------------------------------------------------------------------------
(* The core implements the register *)

\* A call that ends without being accepted is a refusal of the register.
LEMMA RefusalRefines ==
  ASSUME IInv, NEW c \in Calls, NEW r, r.outcome \notin {"accepted", "none"},
         result[c] = NoResult, result' = [result EXCEPT ![c] = r],
         UNCHANGED <<candidate, active, holderFrozen>>
  PROVE  Register!Refuse(c)
  <1>1. result \in [Calls -> Results] /\ result' = [result EXCEPT ![c] = r]
    BY DEF IInv, TypeOK
  <1>2. \A d \in Calls : Answer(d)' = IF d = c THEN "refused" ELSE Answer(d)
    BY <1>1 DEF Answer
  <1>3. Answer(c) = "none"
    BY DEF Answer, NoResult, Outcome
  <1> QED
    BY <1>2, <1>3, Zenon DEF Register!Refuse

\* An accepted installation is an acceptance of the register.
LEMMA AcceptanceRefines ==
  ASSUME IInv, NEW c \in Calls, AcceptInstall(c), Install(c), ~holderFrozen,
         ~Conflicts(bindings, candidate[c].families), active.generation # MaxGeneration
  PROVE  Register!Accept(c)
  <1>1. result[c] = NoResult /\ result \in [Calls -> Results]
    BY DEF IInv, TypeOK, AnswerInv, Install
  <1>2. Answer(c) = "none"
    BY <1>1 DEF Answer, NoResult, Outcome
  <1>3. \A d \in Calls : Answer(d)' = IF d = c THEN "accepted" ELSE Answer(d)
    BY <1>1 DEF Answer, AcceptInstall
  <1>4. active.generation < MaxGeneration
    BY CoreAssumption DEF IInv, TypeOK, ActiveSnapshots, Generations
  <1>5. \A d \in Calls : Answer(d) = "accepted" =>
          \A f \in DOMAIN candidate[c].families \cap DOMAIN candidate[d].families :
            candidate[c].families[f] = candidate[d].families[f]
    <2>1. \A d \in Calls : Answer(d) = "accepted" => Accepted(d)
      BY Zenon DEF Answer, Accepted
    <2> QED
      BY <2>1, Zenon DEF IInv, BindingInv, Conflicts
  <1>6. /\ active' = [generation |-> active.generation + 1, payload |-> c]
        /\ UNCHANGED <<candidate, holderFrozen>>
    BY DEF AcceptInstall, Install
  <1> QED
    BY <1>2, <1>3, <1>4, <1>5, <1>6, Zenon DEF Register!Accept, Register!Compatible

\* Publish and CloseAndFreeze, for every number of calls and every capacity,
\* implement the atomic register: a publication takes effect at one instant
\* or not at all, and nothing is accepted after the freeze.
THEOREM CoreImplementsRegister == Spec => ImplementsRegister
  <1>1. Init => Register!Init
    BY DEF Init, Register!Init, InitialSnapshot, Answer, NoResult, Outcome
  <1>2. IInv /\ [Next]_vars => [Register!Next]_(Register!vars)
    <2> SUFFICES ASSUME IInv, [Next]_vars PROVE [Register!Next]_(Register!vars)
      OBVIOUS
    <2>1. CASE UNCHANGED <<candidate, active, holderFrozen, result>>
      BY <2>1 DEF Register!vars, Answer
    <2>2. ASSUME NEW c \in Calls, Register!Accept(c) \/ Register!Refuse(c)
          PROVE  Register!Next
      BY <2>2 DEF Register!Next
    <2>3. ASSUME NEW c \in Calls, PublishEntry(c) PROVE [Register!Next]_(Register!vars)
      <3>1. ASSUME NEW o \in {"internal_error", "rejected", "timeout", "busy"}, NEW r, Decline(c, o, r)
            PROVE  Register!Refuse(c)
        <4>1. result[c] = NoResult
          BY <3>1 DEF IInv, AnswerInv, Decline
        <4>2. Outcome(o, r).outcome \notin {"accepted", "none"}
          BY DEF Outcome
        <4> QED
          BY <3>1, <4>1, <4>2, RefusalRefines, Zenon DEF Decline, holderVars
      <3> QED
        BY <2>1, <2>2, <2>3, <3>1 DEF PublishEntry, UnknownTransport, DeclineClosed, DeclineExpired,
           DeclineBusy, Admit, holderVars
    <2>4. ASSUME NEW c \in Calls, TimeoutWaiting(c) PROVE Register!Refuse(c)
      <3>1. result[c] = NoResult /\ Outcome("timeout", "none").outcome \notin {"accepted", "none"}
        BY <2>4 DEF IInv, AnswerInv, TimeoutWaiting, Outcome
      <3> QED
        BY <2>4, <3>1, RefusalRefines, Zenon DEF TimeoutWaiting, holderVars
    <2>5. ASSUME NEW c \in Calls, ParseCandidate(c) PROVE [Register!Next]_(Register!vars)
      <3>1. result[c] = NoResult /\ result \in [Calls -> Results]
        BY <2>5 DEF IInv, TypeOK, AnswerInv, ParseCandidate
      <3>2. CASE ParserOutcome(c) = NoResult
        BY <2>1, <2>5, <3>1, <3>2 DEF ParseCandidate, holderVars
      <3>3. CASE ParserOutcome(c) # NoResult
        <4>1. ParserOutcome(c).outcome \notin {"accepted", "none"}
          BY <3>3 DEF ParserOutcome, Outcome, NoResult
        <4> QED
          BY <2>2, <2>5, <3>1, <4>1, RefusalRefines, Zenon DEF ParseCandidate, holderVars
      <3> QED
        BY <3>2, <3>3
    <2>6. ASSUME NEW c \in Calls, Install(c) PROVE Register!Accept(c) \/ Register!Refuse(c)
      <3>1. result[c] = NoResult
        BY <2>6 DEF IInv, AnswerInv, Install
      <3>2. ASSUME NEW r, RejectInstall(c, r) PROVE Register!Refuse(c)
        <4>1. Outcome("rejected", r).outcome \notin {"accepted", "none"}
          BY DEF Outcome
        <4> QED
          BY <2>6, <3>1, <3>2, <4>1, RefusalRefines, Zenon DEF Install, RejectInstall, holderVars
      <3> QED
        BY <2>6, <3>2, AcceptanceRefines, Zenon DEF Install, HolderInstall
    <2>7. CASE FreezeHolder
      <3>1. UNCHANGED <<[c \in Calls |-> candidate[c].families], active, [c \in Calls |-> Answer(c)]>>
        BY <2>7 DEF FreezeHolder, Answer
      <3> QED
        BY <2>7, <3>1 DEF FreezeHolder, Register!Next, Register!Seal
    <2>8. ASSUME NEW c \in Calls,
                 \/ ExpireCall(c) \/ StartExecuting(c) \/ Completed(c) \/ ReleaseExecuting(c)
                 \/ ReleaseAdmission(c) \/ AdmittedDone(c)
          PROVE  [Register!Next]_(Register!vars)
      BY <2>1, <2>8, Zenon DEF ExpireCall, StartExecuting, Completed, ReleaseExecuting, ReleaseAdmission,
         AdmittedDone, holderVars
    <2>9. ASSUME NEW k \in Closers, ExpireCloser(k) \/ CloseAdmission(k) \/ CloserProgress(k)
          PROVE  [Register!Next]_(Register!vars)
      BY <2>1, <2>9, Zenon DEF ExpireCloser, CloseAdmission, CloserProgress, CloserGivesUp, CloserReturns,
         holderVars
    <2>10. CASE DrainCompleted \/ CloseFrozenChannel \/ DrainerReturns \/ Finished \/ UNCHANGED vars
      BY <2>1, <2>10 DEF DrainCompleted, CloseFrozenChannel, DrainerReturns, Finished, vars, holderVars
    <2> QED
      BY <2>2, <2>3, <2>4, <2>5, <2>6, <2>7, <2>8, <2>9, <2>10 DEF Next, PublishProgress, FreezeProgress
  <1> QED
    BY <1>1, <1>2, InvariantHolds, PTL DEF Spec, ImplementsRegister, Register!Spec
=============================================================================
