-------------------------- MODULE FinalWaitProofs --------------------------
(***************************************************************************)
(* Proofs about FinalWait for every number of scrapes, every limiter and   *)
(* every required count.                                                   *)
(***************************************************************************)
EXTENDS FinalWait, FiniteSetTheorems, TLAPS

----------------------------------------------------------------------------
(* The inductive invariant *)

\* A response is counted by completeFinal only.
CountInv ==
  \A r \in Requests :
    pc[r] \in {"idle", "acquired", "accepted", "writing", "written"} => ~final[r].counted

\* What the position of the runtime says about the waiter and the handler.
WaitInv ==
  /\ main \in {"finalizing", "frozen", "attached"} =>
       ~waiting /\ (\A r \in Requests : ~final[r].counted)
  /\ main = "finalizing" => state = "finalizing"
  /\ main # "finalizing" => active = generation
  /\ threshold => mode = "scrapes" /\ completed = RequiredScrapes
  /\ main = "threshold" => threshold
  /\ main \in {"timer", "polling"} => elapsed
  /\ main = "polling" => mode = "scrapes"
  /\ elapsed => mode # "immediate"

\* Who holds a limiter slot, and what the handler's flags imply.
HandlerInv ==
  /\ limiter = {r \in Requests : pc[r] \in InHandler \cup {"acquired", "releasing"}}
  /\ Cardinality(limiter) <= Concurrent
  /\ inflight = Cardinality({r \in Requests : pc[r] \in InHandler})
  /\ drained => draining /\ inflight = 0
  /\ completed = RequiredScrapes => draining

IInv ==
  /\ TypeOK
  /\ CountInv
  /\ WaitInv
  /\ HandlerInv
  /\ CountIsHonest
  /\ ReasonIsEarned

----------------------------------------------------------------------------
(* Sets of requests *)

Accepted == {r \in Requests : pc[r] \in InHandler}

\* Every set of requests is finite.
LEMMA FiniteRequests ==
  ASSUME NEW S \in SUBSET Requests
  PROVE  IsFiniteSet(S) /\ Cardinality(S) \in Nat
  BY FinalWaitAssumption, FS_Subset, FS_CardinalityType

\* A handler that is accepted is counted once more.
LEMMA OneMore ==
  ASSUME NEW S \in SUBSET Requests, NEW T \in SUBSET Requests, NEW r \in Requests,
         r \notin S, T = S \cup {r}
  PROVE  Cardinality(T) = Cardinality(S) + 1
  BY FiniteRequests, FS_AddElement

\* A handler that leaves is counted once less.
LEMMA OneLess ==
  ASSUME NEW S \in SUBSET Requests, NEW T \in SUBSET Requests, NEW r \in Requests,
         r \in S, T = S \ {r}
  PROVE  Cardinality(T) = Cardinality(S) - 1 /\ Cardinality(S) # 0
  <1>1. S = T \cup {r} /\ r \notin T
    OBVIOUS
  <1>2. Cardinality(S) = Cardinality(T) + 1
    BY <1>1, OneMore
  <1> QED
    BY <1>2, FiniteRequests

----------------------------------------------------------------------------
(* The invariant is inductive *)

\* The initial states satisfy the invariant.
LEMMA InitInv == Init => IInv
  <1> SUFFICES ASSUME Init PROVE IInv
    OBVIOUS
  <1>1. TypeOK
    BY Zenon DEF Init, TypeOK, Reasons, NotCounted, InHandler, Unanswered
  <1>2. CountInv
    BY DEF Init, CountInv, NotCounted
  <1>3. WaitInv
    BY DEF Init, WaitInv, NotCounted
  <1>4. Accepted = {} /\ CountedResponses = {} /\ limiter = {}
    BY DEF Init, Accepted, CountedResponses, InHandler, NotCounted
  <1>5. Cardinality({}) = 0
    BY FS_EmptySet
  <1>6. HandlerInv
    BY <1>4, <1>5, FinalWaitAssumption DEF Init, HandlerInv, Accepted, InHandler
  <1>7. CountIsHonest
    BY <1>4, <1>5, FinalWaitAssumption DEF Init, CountIsHonest
  <1>8. ReasonIsEarned
    BY DEF Init, ReasonIsEarned
  <1> QED
    BY <1>1, <1>2, <1>3, <1>6, <1>7, <1>8 DEF IInv

\* A step that leaves the requests, their responses and the slots alone.
LEMMA RequestsUntouched ==
  ASSUME IInv, UNCHANGED <<pc, final, outcome, seen, completed, generation, limiter, inflight>>,
         draining => draining', drained' => drained \/ (draining' /\ inflight = 0)
  PROVE  CountInv' /\ HandlerInv' /\ CountIsHonest'
  <1>1. CountInv'
    BY DEF IInv, CountInv
  <1>2. CountIsHonest'
    BY DEF IInv, CountIsHonest, CountedResponses
  <1>3. HandlerInv'
    BY DEF IInv, TypeOK, HandlerInv
  <1> QED
    BY <1>1, <1>2, <1>3

\* A step of one request that neither enters nor leaves its handler, takes
\* or gives back a slot, or counts.
LEMMA HandlerStep ==
  ASSUME IInv, NEW r \in Requests, NEW to \in {"writing", "written", "finishing", "answered"},
         pc' = [pc EXCEPT ![r] = to],
         to = "answered" => pc[r] = "flushing",
         to # "answered" => pc[r] \in InHandler,
         to \in {"writing", "written"} => pc[r] \in {"accepted", "writing"},
         UNCHANGED <<mode, active, elapsed, main, state, waiterVars, reason, terminating,
                     handlerVars, final>>,
         \A q \in Requests : q # r \/ pc[r] \notin {"accepted", "writing"} =>
           outcome'[q] = outcome[q] /\ seen'[q] = seen[q]
  PROVE  CountInv' /\ WaitInv' /\ HandlerInv' /\ CountIsHonest' /\ ReasonIsEarned'
  <1>0. pc \in [Requests -> Unanswered \cup {"idle", "answered"}]
    BY DEF IInv, TypeOK
  <1>1. CountInv'
    BY <1>0 DEF IInv, CountInv
  <1>2. WaitInv' /\ ReasonIsEarned'
    BY DEF IInv, WaitInv, ReasonIsEarned, waiterVars
  <1>3. CountedResponses' = CountedResponses /\ (pc[r] \in {"accepted", "writing"} => r \notin CountedResponses)
    BY DEF IInv, CountedResponses, CountInv
  <1>4. CountIsHonest'
    <2>1. \A q \in CountedResponses : outcome'[q] = outcome[q] /\ seen'[q] = seen[q]
      BY <1>3 DEF CountedResponses
    <2> QED
      BY <1>3, <2>1 DEF IInv, CountIsHonest, waiterVars
  <1>5. \A q \in Requests :
          /\ pc'[q] \in InHandler <=> pc[q] \in InHandler
          /\ pc'[q] \in InHandler \cup {"acquired", "releasing"} <=>
               pc[q] \in InHandler \cup {"acquired", "releasing"}
    BY <1>0 DEF InHandler
  <1>6. HandlerInv'
    BY <1>5 DEF IInv, HandlerInv, handlerVars, waiterVars
  <1> QED
    BY <1>1, <1>2, <1>4, <1>6

\* A step of one request at its borders: taking or giving back a slot,
\* entering or leaving the handler.
LEMMA BorderStep ==
  ASSUME IInv, NEW r \in Requests, HandlerInv',
         UNCHANGED <<mode, active, elapsed, main, state, waiterVars, reason, terminating,
                     final, outcome, seen>>,
         NEW to, pc' = [pc EXCEPT ![r] = to],
         to = "acquired" => pc[r] = "idle", to = "accepted" => pc[r] = "acquired",
         to \notin {"idle", "writing", "written"}
  PROVE  CountInv' /\ WaitInv' /\ HandlerInv' /\ CountIsHonest' /\ ReasonIsEarned'
  <1>0. pc \in [Requests -> Unanswered \cup {"idle", "answered"}]
    BY DEF IInv, TypeOK
  <1>1. CountInv'
    BY <1>0 DEF IInv, CountInv
  <1>2. WaitInv' /\ ReasonIsEarned'
    BY DEF IInv, WaitInv, ReasonIsEarned, waiterVars
  <1>3. CountIsHonest'
    BY DEF IInv, CountIsHonest, CountedResponses, waiterVars
  <1> QED
    BY <1>1, <1>2, <1>3

\* Requests that arrive.
LEMMA ArriveInv == ASSUME IInv, NEW r \in Requests, Arrive(r) PROVE IInv'
  <1>0. TypeOK /\ HandlerInv /\ pc[r] = "idle"
    BY DEF IInv, Arrive
  <1>1. TypeOK'
    <2>1. pc' \in [Requests -> Unanswered \cup {"idle", "answered"}] /\ limiter' \in SUBSET Requests
      BY <1>0 DEF TypeOK, Arrive, Unanswered
    <2> QED
      BY <1>0, <2>1 DEF TypeOK, Arrive, waiterVars
  <1>2. r \notin limiter
    BY <1>0 DEF HandlerInv, InHandler
  <1>3. \A q \in Requests : pc'[q] \in InHandler <=> pc[q] \in InHandler
    BY <1>0 DEF TypeOK, Arrive, InHandler
  <1>4. Cardinality(limiter') <= Concurrent
    <2>1. CASE limiter' = limiter
      BY <1>0, <2>1 DEF HandlerInv
    <2>2. CASE limiter' = limiter \cup {r} /\ Cardinality(limiter) < Concurrent
      <3>1. Cardinality(limiter') = Cardinality(limiter) + 1
        BY <1>0, <1>2, <2>2, OneMore DEF TypeOK
      <3> QED
        BY <1>0, <2>2, <3>1, FiniteRequests, FinalWaitAssumption DEF TypeOK
    <2> QED
      BY <2>1, <2>2 DEF Arrive
  <1>5. limiter' = {q \in Requests : pc'[q] \in InHandler \cup {"acquired", "releasing"}}
    BY <1>0 DEF TypeOK, Arrive, InHandler, HandlerInv
  <1>6. HandlerInv'
    BY <1>0, <1>3, <1>4, <1>5 DEF HandlerInv, Arrive, waiterVars
  <1>7. \E to \in {"acquired", "flushing"} : pc' = [pc EXCEPT ![r] = to]
    BY DEF Arrive
  <1> QED
    BY <1>0, <1>1, <1>6, <1>7, BorderStep, Zenon DEF IInv, Arrive

\* Entering the handler.
LEMMA AcceptInv == ASSUME IInv, NEW r \in Requests, AcceptMetric(r) PROVE IInv'
  <1>0. TypeOK /\ HandlerInv /\ pc[r] = "acquired"
    BY DEF IInv, AcceptMetric
  <1>1. TypeOK'
    BY <1>0 DEF TypeOK, AcceptMetric, Unanswered, InHandler, waiterVars
  <1>2. limiter' = {q \in Requests : pc'[q] \in InHandler \cup {"acquired", "releasing"}}
    BY <1>0 DEF TypeOK, AcceptMetric, InHandler, HandlerInv
  <1>3. inflight' = Cardinality(Accepted')
    <2>1. CASE draining
      <3>1. Accepted' = Accepted
        BY <1>0, <2>1 DEF TypeOK, AcceptMetric, InHandler, Accepted
      <3> QED
        BY <1>0, <2>1, <3>1 DEF HandlerInv, AcceptMetric, Accepted
    <2>2. CASE ~draining
      <3>1. Accepted' = Accepted \cup {r} /\ r \notin Accepted
        BY <1>0, <2>2 DEF TypeOK, AcceptMetric, InHandler, Accepted
      <3>2. Accepted \in SUBSET Requests /\ Accepted' \in SUBSET Requests
        BY DEF Accepted
      <3>3. Cardinality(Accepted') = Cardinality(Accepted) + 1
        BY <3>1, <3>2, OneMore
      <3> QED
        BY <1>0, <2>2, <3>3 DEF HandlerInv, AcceptMetric, Accepted
    <2> QED
      BY <2>1, <2>2
  <1>4. HandlerInv'
    BY <1>0, <1>2, <1>3 DEF HandlerInv, AcceptMetric, Accepted, waiterVars
  <1>5. \E to \in {"accepted", "releasing"} : pc' = [pc EXCEPT ![r] = to]
    BY Zenon DEF AcceptMetric
  <1> QED
    BY <1>0, <1>1, <1>4, <1>5, BorderStep, Zenon DEF IInv, AcceptMetric

\* Leaving the handler.
LEMMA FinishInv == ASSUME IInv, NEW r \in Requests, FinishMetric(r) PROVE IInv'
  <1>0. TypeOK /\ HandlerInv /\ pc[r] = "finishing"
    BY DEF IInv, FinishMetric
  <1>1. Accepted' = Accepted \ {r} /\ r \in Accepted
    BY <1>0 DEF TypeOK, FinishMetric, InHandler, Accepted
  <1>2. Accepted \in SUBSET Requests /\ Accepted' \in SUBSET Requests
    BY DEF Accepted
  <1>3. Cardinality(Accepted') = Cardinality(Accepted) - 1 /\ Cardinality(Accepted) # 0
    BY <1>1, <1>2, OneLess
  <1>4. inflight' = Cardinality(Accepted') /\ inflight' \in Nat /\ inflight # 0
    BY <1>0, <1>2, <1>3, FiniteRequests DEF HandlerInv, FinishMetric, Accepted
  <1>5. TypeOK'
    BY <1>0, <1>4 DEF TypeOK, FinishMetric, Unanswered, waiterVars
  <1>6. limiter' = {q \in Requests : pc'[q] \in InHandler \cup {"acquired", "releasing"}}
    BY <1>0 DEF TypeOK, FinishMetric, InHandler, HandlerInv
  <1>7. HandlerInv'
    BY <1>0, <1>4, <1>6, Zenon DEF HandlerInv, FinishMetric, Accepted, waiterVars
  <1> QED
    BY <1>0, <1>5, <1>7, BorderStep, Zenon DEF IInv, FinishMetric

\* Giving the slot back.
LEMMA ReleaseInv == ASSUME IInv, NEW r \in Requests, ReleaseLimiter(r) PROVE IInv'
  <1>0. TypeOK /\ HandlerInv /\ pc[r] = "releasing"
    BY DEF IInv, ReleaseLimiter
  <1>1. TypeOK'
    BY <1>0 DEF TypeOK, ReleaseLimiter, Unanswered, waiterVars
  <1>2. limiter' = {q \in Requests : pc'[q] \in InHandler \cup {"acquired", "releasing"}}
    BY <1>0 DEF TypeOK, ReleaseLimiter, InHandler, HandlerInv
  <1>3. Accepted' = Accepted
    BY <1>0 DEF TypeOK, ReleaseLimiter, InHandler, Accepted
  <1>4. r \in limiter
    BY <1>0 DEF HandlerInv
  <1>5. Cardinality(limiter') = Cardinality(limiter) - 1
    BY <1>0, <1>1, <1>4, OneLess DEF TypeOK, ReleaseLimiter
  <1>6. Cardinality(limiter') <= Concurrent
    BY <1>0, <1>5, FiniteRequests, FinalWaitAssumption DEF TypeOK, HandlerInv
  <1>7. HandlerInv'
    BY <1>0, <1>2, <1>3, <1>6 DEF HandlerInv, ReleaseLimiter, Accepted, waiterVars
  <1> QED
    BY <1>0, <1>1, <1>7, BorderStep, Zenon DEF IInv, ReleaseLimiter

\* Counting: the response of r is counted at most once, below the required
\* number, and the one that reaches it closes admission.
LEMMA CompleteInv == ASSUME IInv, NEW r \in Requests, CompleteFinal(r) PROVE IInv'
  <1> DEFINE counted == attached /\ outcome[r] = "success" /\ Counts(r)
             total == IF counted THEN completed + 1 ELSE completed
  <1>0. /\ TypeOK /\ HandlerInv /\ CountIsHonest /\ WaitInv /\ CountInv
        /\ pc[r] = "written" /\ ~final[r].counted /\ r \notin CountedResponses
    BY DEF IInv, CompleteFinal, CountInv, CountedResponses
  <1>1. /\ completed' = total
        /\ threshold' = (threshold \/ (counted /\ total = RequiredScrapes))
        /\ draining' = (draining \/ (counted /\ total = RequiredScrapes))
        /\ final' = [final EXCEPT ![r] = [completed |-> total, counted |-> counted]]
        /\ pc' = [pc EXCEPT ![r] = IF attached /\ started THEN "observing" ELSE "finishing"]
        /\ UNCHANGED <<mode, active, terminating, elapsed, main, state, generation, started,
                       waiting, reason, attached, limiter, inflight, drained, listening, seen,
                       outcome, cut, gauge>>
    BY DEF CompleteFinal
  <1>2. counted \in BOOLEAN /\ total \in Nat /\ total <= RequiredScrapes /\ completed <= total
    BY <1>0, FinalWaitAssumption DEF TypeOK, Counts, CountIsHonest
  <1>3. counted => waiting /\ mode = "scrapes" /\ seen[r] = generation
                   /\ completed < RequiredScrapes /\ outcome[r] = "success"
    BY DEF Counts
  <1>4. ~counted => total = completed
    OBVIOUS
  <1> HIDE DEF counted, total
  <1>5. TypeOK'
    BY <1>0, <1>1, <1>2 DEF TypeOK, Unanswered, InHandler
  <1>6. CountInv'
    BY <1>0, <1>1 DEF TypeOK, CountInv
  <1>7. WaitInv'
    <2>1. threshold' => mode' = "scrapes" /\ completed' = RequiredScrapes
      BY <1>0, <1>1, <1>2, <1>3, <1>4 DEF TypeOK, WaitInv
    <2>2. main \in {"finalizing", "frozen", "attached"} => \A q \in Requests : ~final'[q].counted
      BY <1>0, <1>1, <1>3 DEF TypeOK, WaitInv
    <2>3. main = "threshold" => threshold'
      BY <1>0, <1>1, Zenon DEF WaitInv
    <2> QED
      BY <1>0, <1>1, <2>1, <2>2, <2>3 DEF WaitInv
  <1>8. Accepted' = Accepted
    BY <1>0, <1>1 DEF TypeOK, InHandler, Accepted
  <1>9. limiter' = {q \in Requests : pc'[q] \in InHandler \cup {"acquired", "releasing"}}
    BY <1>0, <1>1 DEF TypeOK, InHandler, HandlerInv
  <1>10. drained' => draining'
    BY <1>0, <1>1, Zenon DEF HandlerInv
  <1>11. completed' = RequiredScrapes => draining'
    BY <1>0, <1>1, <1>4, Zenon DEF HandlerInv
  <1>12. HandlerInv'
    BY <1>0, <1>1, <1>8, <1>9, <1>10, <1>11, Zenon DEF HandlerInv, Accepted
  <1>13. CountIsHonest'
    <2>1. CASE counted
      <3>1. CountedResponses' = CountedResponses \cup {r}
        BY <1>0, <1>1, <2>1 DEF TypeOK, CountedResponses
      <3>2. CountedResponses \in SUBSET Requests /\ CountedResponses' \in SUBSET Requests
        BY DEF CountedResponses
      <3>3. Cardinality(CountedResponses') = Cardinality(CountedResponses) + 1
        BY <1>0, <3>1, <3>2, OneMore
      <3>4. total = completed + 1
        BY <2>1 DEF total
      <3> QED
        BY <1>0, <1>1, <1>2, <1>3, <2>1, <3>1, <3>3, <3>4 DEF CountIsHonest
    <2>2. CASE ~counted
      <3>1. CountedResponses' = CountedResponses
        BY <1>0, <1>1, <2>2 DEF TypeOK, CountedResponses
      <3> QED
        BY <1>0, <1>1, <1>4, <2>2, <3>1 DEF CountIsHonest
    <2> QED
      BY <2>1, <2>2
  <1>14. ReasonIsEarned'
    BY <1>0, <1>1, <1>2, <1>3, <1>4 DEF IInv, TypeOK, ReasonIsEarned
  <1> QED
    BY <1>5, <1>6, <1>7, <1>12, <1>13, <1>14 DEF IInv

\* The other steps of a handler.
LEMMA ServeInv == ASSUME IInv, NEW r \in Requests, ServeMetrics(r) PROVE IInv'
  <1>0. TypeOK
    BY DEF IInv
  <1>1. CASE PrepareResponse(r)
    <2>1. PICK o \in {"none", "failure"} :
            /\ outcome' = [outcome EXCEPT ![r] = o]
            /\ pc' = [pc EXCEPT ![r] = IF o = "none" THEN "writing" ELSE "written"]
      BY <1>1, Zenon DEF PrepareResponse
    <2>2. TypeOK'
      BY <1>0, <1>1, <2>1 DEF TypeOK, PrepareResponse, Unanswered, InHandler, waiterVars, handlerVars
    <2>3. \A q \in Requests : q # r => outcome'[q] = outcome[q] /\ seen'[q] = seen[q]
      BY <1>0, <1>1, <2>1 DEF TypeOK, PrepareResponse
    <2> QED
      BY <1>1, <2>1, <2>2, <2>3, HandlerStep, Zenon DEF IInv, PrepareResponse, InHandler
  <1>2. CASE WriteResponse(r)
    <2>1. TypeOK'
      BY <1>0, <1>2 DEF TypeOK, WriteResponse, Unanswered, InHandler, waiterVars, handlerVars
    <2>2. \A q \in Requests : q # r => outcome'[q] = outcome[q] /\ seen'[q] = seen[q]
      BY <1>0, <1>2 DEF TypeOK, WriteResponse
    <2> QED
      BY <1>2, <2>1, <2>2, HandlerStep, Zenon DEF IInv, WriteResponse, InHandler
  <1>3. CASE ObserveFinal(r)
    <2>1. TypeOK'
      BY <1>0, <1>3 DEF TypeOK, ObserveFinal, Unanswered, InHandler, waiterVars, handlerVars
    <2> QED
      BY <1>3, <2>1, HandlerStep, Zenon DEF IInv, ObserveFinal, InHandler
  <1>4. CASE Flush(r)
    <2>1. TypeOK'
      BY <1>0, <1>4 DEF TypeOK, Flush, Unanswered, InHandler, waiterVars, handlerVars
    <2> QED
      BY <1>4, <2>1, HandlerStep, Zenon DEF IInv, Flush
  <1> QED
    BY <1>1, <1>2, <1>3, <1>4, AcceptInv, CompleteInv, FinishInv, ReleaseInv DEF ServeMetrics

\* A step of the runtime or of the environment.
LEMMA RunStep ==
  ASSUME IInv, TypeOK', WaitInv', ReasonIsEarned',
         UNCHANGED <<pc, final, outcome, seen, completed, generation, limiter, inflight>>,
         draining => draining', drained' => drained \/ (draining' /\ inflight = 0)
  PROVE  IInv'
  BY RequestsUntouched DEF IInv

\* A step of the runtime that only decides where it goes next, and why.
LEMMA DecideStep ==
  ASSUME IInv, UNCHANGED mainOnly, reason' \in Reasons, ReasonIsEarned',
         main' \in {"waiting", "threshold", "timer", "polling", "decided", "closing", "leaving"},
         main \notin {"finalizing", "frozen", "attached"},
         main' = "threshold" => threshold,
         main' \in {"timer", "polling"} => elapsed,
         main' = "polling" => mode = "scrapes"
  PROVE  IInv'
  <1>1. TypeOK'
    BY DEF IInv, TypeOK, mainOnly, waiterVars, handlerVars, requestVars
  <1>2. WaitInv'
    BY DEF IInv, WaitInv, mainOnly, waiterVars, requestVars
  <1> QED
    BY <1>1, <1>2, RunStep DEF mainOnly, waiterVars, handlerVars, requestVars

\* The runtime between the freeze and the decision.
LEMMA WaitTransitionInv == ASSUME IInv, WaitTransition PROVE IInv'
  <1>0. TypeOK /\ WaitInv /\ ReasonIsEarned
    BY DEF IInv
  <1>1. CASE Activate
    <2>1. TypeOK'
      BY <1>0, <1>1 DEF TypeOK, Activate, handlerVars, requestVars
    <2>2. WaitInv' /\ ReasonIsEarned'
      BY <1>0, <1>1 DEF WaitInv, ReasonIsEarned, Activate, requestVars
    <2> QED
      BY <1>1, <2>1, <2>2, RunStep DEF Activate, handlerVars, requestVars
  <1>2. CASE EnterSelect
    <2>1. ReasonIsEarned' /\ reason' \in Reasons
      BY <1>0, <1>2 DEF EnterSelect, ReasonIsEarned, mainOnly, waiterVars, Reasons
    <2> QED
      BY <1>2, <2>1, DecideStep DEF EnterSelect
  <1>3. CASE WakeTerminated
    <2>1. ReasonIsEarned' /\ reason' \in Reasons
      BY <1>0, <1>3 DEF WakeTerminated, ReasonIsEarned, mainOnly, waiterVars, Reasons
    <2> QED
      BY <1>3, <2>1, DecideStep DEF WakeTerminated
  <1>4. CASE WakeThreshold \/ WakeTimer
    <2>1. ReasonIsEarned' /\ reason' \in Reasons
      BY <1>0, <1>4 DEF WakeThreshold, WakeTimer, TypeOK, ReasonIsEarned, mainOnly, waiterVars
    <2> QED
      BY <1>4, <2>1, DecideStep DEF WakeThreshold, WakeTimer
  <1>5. CASE CheckThreshold
    <2>1. ReasonIsEarned' /\ reason' \in Reasons
      BY <1>0, <1>5 DEF CheckThreshold, WaitInv, ReasonIsEarned, mainOnly, waiterVars, Reasons
    <2> QED
      BY <1>5, <2>1, DecideStep DEF CheckThreshold
  <1>6. CASE CheckTimer
    <2>1. ReasonIsEarned' /\ reason' \in Reasons
      BY <1>0, <1>6 DEF CheckTimer, WaitInv, ReasonIsEarned, mainOnly, waiterVars, Reasons
    <2>2. reason' = "none" => elapsed /\ mode = "scrapes"
      BY <1>0, <1>6 DEF CheckTimer, WaitInv, TypeOK, Modes
    <2> QED
      BY <1>6, <2>1, <2>2, DecideStep DEF CheckTimer
  <1>7. CASE PollThreshold
    <2>1. ReasonIsEarned' /\ reason' \in Reasons
      BY <1>0, <1>7 DEF PollThreshold, WaitInv, ReasonIsEarned, mainOnly, waiterVars, Reasons
    <2> QED
      BY <1>7, <2>1, DecideStep DEF PollThreshold
  <1>8. CASE Deactivate
    <2>a. /\ waiting' \in BOOLEAN /\ main' = "inactive"
          /\ UNCHANGED <<mode, active, terminating, elapsed, state, generation, started,
             completed, threshold, reason, handlerVars, listening, requestVars, cut, gauge>>
      BY <1>8, Zenon DEF Deactivate
    <2>1. TypeOK'
      BY <1>0, <2>a DEF TypeOK, waiterVars, handlerVars, requestVars
    <2>2. WaitInv' /\ ReasonIsEarned'
      BY <1>0, <1>8 DEF WaitInv, ReasonIsEarned, Deactivate, requestVars
    <2> QED
      BY <1>8, <2>1, <2>2, RunStep DEF Deactivate, handlerVars, requestVars
  <1> QED
    BY <1>1, <1>2, <1>3, <1>4, <1>5, <1>6, <1>7, <1>8 DEF WaitTransition

\* The runtime from the decision to the exit.
LEMMA LeaveInv == ASSUME IInv, Leave PROVE IInv'
  <1>0. TypeOK /\ WaitInv /\ ReasonIsEarned
    BY DEF IInv
  <1>1. CASE CompleteObservability
    <2>1. TypeOK'
      BY <1>0, <1>1 DEF TypeOK, CompleteObservability, waiterVars, handlerVars, requestVars
    <2>2. WaitInv' /\ ReasonIsEarned'
      BY <1>0, <1>1 DEF TypeOK, WaitInv, ReasonIsEarned, CompleteObservability, waiterVars, requestVars
    <2> QED
      BY <1>1, <2>1, <2>2, RunStep DEF CompleteObservability, waiterVars, handlerVars, requestVars
  <1>2. CASE StartDrain
    <2>1. TypeOK'
      BY <1>0, <1>2 DEF TypeOK, StartDrain, waiterVars, handlerVars, requestVars
    <2>2. WaitInv' /\ ReasonIsEarned'
      BY <1>0, <1>2 DEF TypeOK, WaitInv, ReasonIsEarned, StartDrain, waiterVars, requestVars
    <2> QED
      BY <1>2, <2>1, <2>2, RunStep, Zenon DEF StartDrain, waiterVars, handlerVars, requestVars
  <1>3. CASE DrainCompleted
    <2>a. /\ listening' \in BOOLEAN /\ main' = "shutdown"
          /\ UNCHANGED <<mode, active, terminating, elapsed, state, waiterVars, reason,
             handlerVars, requestVars, cut, gauge>>
      BY <1>3, Zenon DEF DrainCompleted
    <2>1. TypeOK'
      BY <1>0, <2>a DEF TypeOK, waiterVars, handlerVars, requestVars
    <2>2. WaitInv' /\ ReasonIsEarned'
      BY <1>0, <1>3 DEF TypeOK, WaitInv, ReasonIsEarned, DrainCompleted, waiterVars, requestVars
    <2> QED
      BY <1>3, <2>1, <2>2, RunStep DEF DrainCompleted, waiterVars, handlerVars, requestVars
  <1>4. CASE CloseServer
    <2>0. TypeOK => cut \in SUBSET Requests
      BY DEF TypeOK
    <2>a. /\ listening' \in BOOLEAN /\ main' = "leaving" /\ cut' \in SUBSET Requests
          /\ UNCHANGED <<mode, active, terminating, elapsed, state, waiterVars, reason,
             handlerVars, requestVars, gauge>>
      BY <1>0, <1>4, <2>0, Zenon DEF CloseServer
    <2>1. TypeOK'
      BY <1>0, <2>a DEF TypeOK, waiterVars, handlerVars, requestVars
    <2>2. WaitInv' /\ ReasonIsEarned'
      BY <1>0, <1>4 DEF TypeOK, WaitInv, ReasonIsEarned, CloseServer, waiterVars, requestVars
    <2> QED
      BY <1>4, <2>1, <2>2, RunStep DEF CloseServer, waiterVars, handlerVars, requestVars
  <1>5. CASE EnterTerminated
    <2>1. TypeOK'
      BY <1>0, <1>5 DEF TypeOK, EnterTerminated, waiterVars, handlerVars, requestVars
    <2>2. WaitInv' /\ ReasonIsEarned'
      BY <1>0, <1>5 DEF TypeOK, WaitInv, ReasonIsEarned, EnterTerminated, waiterVars, requestVars
    <2> QED
      BY <1>5, <2>1, <2>2, RunStep DEF EnterTerminated, waiterVars, handlerVars, requestVars
  <1>6. CASE DeferredShutdown
    <2>a. /\ listening' \in BOOLEAN /\ main' = "stopping"
          /\ UNCHANGED <<mode, active, terminating, elapsed, state, waiterVars, reason,
             handlerVars, requestVars, cut, gauge>>
      BY <1>6, Zenon DEF DeferredShutdown
    <2>1. TypeOK'
      BY <1>0, <2>a DEF TypeOK, waiterVars, handlerVars, requestVars
    <2>2. WaitInv' /\ ReasonIsEarned'
      BY <1>0, <1>6 DEF TypeOK, WaitInv, ReasonIsEarned, DeferredShutdown, waiterVars, requestVars
    <2> QED
      BY <1>6, <2>1, <2>2, RunStep DEF DeferredShutdown, waiterVars, handlerVars, requestVars
  <1>7. CASE Exit
    <2>1. TypeOK'
      BY <1>0, <1>7 DEF TypeOK, Exit, waiterVars, handlerVars, requestVars
    <2>2. WaitInv' /\ ReasonIsEarned'
      BY <1>0, <1>7 DEF TypeOK, WaitInv, ReasonIsEarned, Exit, waiterVars, requestVars
    <2> QED
      BY <1>7, <2>1, <2>2, RunStep DEF Exit, waiterVars, handlerVars, requestVars
  <1>8. CASE ShutdownCompleted
    <2>1. ReasonIsEarned' /\ reason' \in Reasons
      BY <1>0, <1>8 DEF ShutdownCompleted, TypeOK, ReasonIsEarned, mainOnly, waiterVars
    <2> QED
      BY <1>8, <2>1, DecideStep DEF ShutdownCompleted
  <1> QED
    BY <1>1, <1>2, <1>3, <1>4, <1>5, <1>6, <1>7, <1>8 DEF Leave

\* No step of a handler, of the runtime or of the environment breaks the invariant.
LEMMA NextInv == IInv /\ [Next]_vars => IInv'
  <1> SUFFICES ASSUME IInv, [Next]_vars PROVE IInv'
    OBVIOUS
  <1>0. TypeOK /\ WaitInv /\ ReasonIsEarned
    BY DEF IInv
  <1>1. CASE SetFinalWait
    <2>1. TypeOK'
      BY <1>0, <1>1 DEF TypeOK, SetFinalWait, waiterVars, handlerVars, requestVars
    <2>2. WaitInv' /\ ReasonIsEarned'
      BY <1>0, <1>1 DEF TypeOK, WaitInv, ReasonIsEarned, SetFinalWait, waiterVars, requestVars
    <2> QED
      BY <1>1, <2>1, <2>2, RunStep DEF SetFinalWait, waiterVars, handlerVars, requestVars
  <1>2. CASE LastInstall
    <2>1. TypeOK'
      BY <1>0, <1>2 DEF TypeOK, LastInstall, waiterVars, handlerVars, requestVars
    <2>2. WaitInv' /\ ReasonIsEarned'
      BY <1>0, <1>2 DEF TypeOK, WaitInv, ReasonIsEarned, LastInstall, waiterVars, requestVars
    <2> QED
      BY <1>2, <2>1, <2>2, RunStep DEF LastInstall, waiterVars, handlerVars, requestVars
  <1>3. CASE Terminate
    <2>1. TypeOK'
      BY <1>0, <1>3 DEF TypeOK, Terminate, waiterVars, handlerVars, requestVars
    <2>2. WaitInv' /\ ReasonIsEarned'
      BY <1>0, <1>3 DEF TypeOK, WaitInv, ReasonIsEarned, Terminate, waiterVars, requestVars
    <2> QED
      BY <1>3, <2>1, <2>2, RunStep DEF Terminate, waiterVars, handlerVars, requestVars
  <1>4. CASE Elapse
    <2>1. TypeOK'
      BY <1>0, <1>4 DEF TypeOK, Elapse, waiterVars, handlerVars, requestVars
    <2>2. WaitInv' /\ ReasonIsEarned'
      BY <1>0, <1>4 DEF TypeOK, WaitInv, ReasonIsEarned, Elapse, waiterVars, requestVars
    <2> QED
      BY <1>4, <2>1, <2>2, RunStep DEF Elapse, waiterVars, handlerVars, requestVars
  <1>5. CASE FreezeSnapshot
    <2>1. TypeOK'
      BY <1>0, <1>5 DEF TypeOK, FreezeSnapshot, handlerVars, requestVars
    <2>2. WaitInv' /\ ReasonIsEarned'
      BY <1>0, <1>5 DEF WaitInv, ReasonIsEarned, FreezeSnapshot, requestVars
    <2>3. CountedResponses = {}
      BY <1>0, <1>5 DEF WaitInv, FreezeSnapshot, CountedResponses
    <2>4. CountIsHonest'
      BY <1>5, <2>3 DEF IInv, CountIsHonest, CountedResponses, FreezeSnapshot, requestVars
    <2>5. CountInv'
      BY <1>5 DEF IInv, CountInv, FreezeSnapshot, requestVars
    <2>6. HandlerInv'
      BY <1>5 DEF IInv, HandlerInv, FreezeSnapshot, handlerVars, requestVars
    <2> QED
      BY <2>1, <2>2, <2>4, <2>5, <2>6 DEF IInv
  <1>6. CASE GraceOver
    <2>1. ReasonIsEarned' /\ reason' \in Reasons
      BY <1>0, <1>6 DEF GraceOver, TypeOK, ReasonIsEarned, mainOnly, waiterVars
    <2> QED
      BY <1>6, <2>1, DecideStep DEF GraceOver
  <1>7. CASE UNCHANGED vars
    <2>1. TypeOK'
      BY <1>0, <1>7 DEF TypeOK, vars, waiterVars, handlerVars, requestVars
    <2>2. WaitInv' /\ ReasonIsEarned'
      BY <1>0, <1>7 DEF WaitInv, ReasonIsEarned, vars, waiterVars, requestVars
    <2> QED
      BY <1>7, <2>1, <2>2, RunStep DEF vars, waiterVars, handlerVars, requestVars
  <1> QED
    BY <1>1, <1>2, <1>3, <1>4, <1>5, <1>6, <1>7, ArriveInv, ServeInv, WaitTransitionInv, LeaveInv
       DEF Next, Run, Exited

----------------------------------------------------------------------------
(* The theorems *)

\* The inductive invariant holds in every reachable state.
THEOREM InvariantHolds == Spec => []IInv
  BY InitInv, NextInv, PTL DEF Spec

\* However many scrapes complete concurrently, the Waiter's count is the
\* number of responses counted, saturates at the required number, and
\* counts only responses written in full for the frozen generation.
THEOREM HonestCount == Spec => []CountIsHonest
  BY InvariantHolds, PTL DEF IInv

\* The reported reason is what ended the wait.
THEOREM EarnedReason == Spec => []ReasonIsEarned
  BY InvariantHolds, PTL DEF IInv

\* Drain never reports success over a handler that is still running.
THEOREM DrainIsComplete == Spec => []DrainedMeansIdle
  <1>1. IInv => DrainedMeansIdle
    <2> SUFFICES ASSUME IInv PROVE DrainedMeansIdle
      OBVIOUS
    <2>1. Accepted \in SUBSET limiter /\ limiter \in SUBSET Requests
      BY DEF IInv, TypeOK, HandlerInv, Accepted
    <2>2. IsFiniteSet(limiter) /\ Cardinality(limiter) \in Nat
      BY <2>1, FiniteRequests
    <2>3. Cardinality(Accepted) <= Cardinality(limiter) /\ Cardinality(Accepted) \in Nat
      BY <2>1, <2>2, FS_Subset, FiniteRequests
    <2> QED
      BY <2>2, <2>3, FinalWaitAssumption DEF IInv, HandlerInv, DrainedMeansIdle, Accepted
  <1> QED
    BY <1>1, InvariantHolds, PTL

\* In final_wait the exposed generation is the frozen one.
THEOREM FrozenFinalView == Spec => []FinalViewIsFrozen
  <1>1. IInv => FinalViewIsFrozen
    BY DEF IInv, WaitInv, FinalViewIsFrozen
  <1> QED
    BY <1>1, InvariantHolds, PTL

\* Once the required count is reached, handlers only leave: the completion
\* grace drains what was accepted and cannot raise the count.
THEOREM ThresholdDrains == Spec => ThresholdClosesAdmission
  <1>1. ASSUME IInv, [Next]_vars, completed = RequiredScrapes
        PROVE  inflight' <= inflight /\ completed' = completed
    <2>0. inflight \in Nat /\ completed \in Nat /\ draining
      BY <1>1 DEF IInv, TypeOK, HandlerInv
    <2>1. ASSUME NEW r \in Requests, AcceptMetric(r)
          PROVE  inflight' = inflight /\ completed' = completed
      BY <2>0, <2>1, Zenon DEF AcceptMetric, waiterVars
    <2>2. ASSUME NEW r \in Requests, CompleteFinal(r)
          PROVE  inflight' = inflight /\ completed' = completed
      BY <1>1, <2>0, <2>2 DEF CompleteFinal, Counts
    <2>3. ASSUME NEW r \in Requests, FinishMetric(r)
          PROVE  inflight' = inflight - 1 /\ completed' = completed
      BY <2>3 DEF FinishMetric, waiterVars
    <2>4. ASSUME NEW r \in Requests,
                 Arrive(r) \/ PrepareResponse(r) \/ WriteResponse(r) \/ ObserveFinal(r)
                   \/ ReleaseLimiter(r) \/ Flush(r)
          PROVE  inflight' = inflight /\ completed' = completed
      BY <2>4, Zenon DEF Arrive, PrepareResponse, WriteResponse, ObserveFinal, ReleaseLimiter, Flush,
         waiterVars, handlerVars
    <2>5. ASSUME Activate \/ Deactivate \/ FreezeSnapshot \/ SetFinalWait \/ LastInstall
                   \/ Terminate \/ Elapse \/ UNCHANGED vars
          PROVE  inflight' = inflight /\ completed' = completed
      BY <2>5 DEF Activate, Deactivate, FreezeSnapshot, SetFinalWait, LastInstall, Terminate,
         Elapse, vars, waiterVars, handlerVars
    <2>6. ASSUME UNCHANGED mainOnly
          PROVE  inflight' = inflight /\ completed' = completed
      BY <2>6, Zenon DEF mainOnly, waiterVars, handlerVars
    <2>7. ASSUME Leave
          PROVE  inflight' = inflight /\ completed' = completed
      BY <2>6, <2>7 DEF Leave, CompleteObservability, StartDrain, DrainCompleted,
         ShutdownCompleted, CloseServer, EnterTerminated, DeferredShutdown, Exit, waiterVars,
         handlerVars
    <2>8. ASSUME WaitTransition
          PROVE  inflight' = inflight /\ completed' = completed
      BY <2>5, <2>6, <2>8 DEF WaitTransition, EnterSelect, WakeTerminated, WakeThreshold,
         WakeTimer, CheckThreshold, CheckTimer, PollThreshold
    <2>9. ASSUME NEW r \in Requests, Arrive(r) \/ ServeMetrics(r)
          PROVE  inflight' <= inflight /\ completed' = completed
      BY <2>0, <2>1, <2>2, <2>3, <2>4, <2>9 DEF ServeMetrics
    <2>10. GraceOver => inflight' = inflight /\ completed' = completed
      BY <2>6 DEF GraceOver
    <2> QED
      BY <1>1, <2>0, <2>5, <2>7, <2>8, <2>9, <2>10 DEF Next, Run, Exited
  <1> QED
    BY <1>1, InvariantHolds, PTL DEF Spec, ThresholdClosesAdmission

=============================================================================
