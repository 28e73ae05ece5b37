--------------------------- MODULE ManagedProofs ----------------------------
(***************************************************************************)
(* The safety properties of Managed, and that it implements ManagedLog,    *)
(* for every set of requests, every capacity and every limit of the core.  *)
(***************************************************************************)
EXTENDS Managed, FiniteSetTheorems, TLAPS

Places == {"idle", "accepted", "reading", "read", "submitting", "queued", "answered", "done"}

Responses == [outcome : Outcomes, generation : Nat, commit : Nat]

Caches == [present : BOOLEAN, generation : Nat, body : Seq(Requests)]

Bridges == [holder : {"free", "publisher", "finalizer"}, installed : BOOLEAN, lastRegistry : Nat]

Finals == [taken : BOOLEAN, body : Seq(Requests)]

TypeInv ==
  /\ conn \in [Requests -> Places]
  /\ answer \in [Requests -> Responses]
  /\ result \in [Requests -> Responses]
  /\ queue \in Seq(Requests)
  /\ owner \in Requests \cup {None, "done"}
  /\ commits \in Nat /\ generation \in Nat /\ frozen \in BOOLEAN
  /\ log \in Seq(Requests) /\ core \in Seq(Requests)
  /\ cache \in Caches /\ bridge \in Bridges /\ final \in Finals

(* A request is at one place: with its connection, in the queue, with the  *)
(* owner, or decided.                                                      *)
PlaceInv(r) ==
  /\ conn[r] \in {"idle", "accepted", "reading", "read", "submitting"} =>
       /\ r \notin Range(queue) /\ owner # r /\ result[r] = NoResponse
       /\ answer[r] = NoResponse
  /\ conn[r] = "queued" => answer[r] = NoResponse
  /\ r \in Range(queue) => owner # r
  /\ r \in Range(queue) \/ owner = r => result[r] = NoResponse
  /\ r \in Range(log) => result[r].outcome = "committed"
  /\ result[r] = NoResponse \/ result[r].outcome \in {"committed", "rejected", "late"}
  /\ answer[r].outcome = "committed" => answer[r] = result[r]
  /\ answer[r].outcome \in Refusals => r \notin Range(queue) /\ owner # r /\ result[r].outcome # "committed"

QueueInv == \A i, j \in 1..Len(queue) : queue[i] = queue[j] => i = j

(* Numbering: what the owner has committed, and which of it are changes. *)
Committed == {r \in Requests : result[r].outcome = "committed"}

Changes == {r \in Requests : r \in Range(log)}

ChangesUpTo(n) == {s \in Committed : s \in Range(log) /\ result[s].commit <= n}

CountInv ==
  /\ generation = Len(log)
  /\ Cardinality(Changes) = Len(log)
  /\ Cardinality(Committed) = commits
  /\ {result[r].commit : r \in Committed} = 1..commits
  /\ \A r \in Committed : result[r].generation = Cardinality(ChangesUpTo(result[r].commit))
  /\ \A r \in Requests : result[r].generation <= Len(log)

(* The cache and the core hold prefixes of the registry; whoever holds     *)
(* Bridge.mu has filled the cache.                                         *)
BridgeInv ==
  /\ cache.present => cache.generation <= Len(log) /\ cache.body = SubSeq(log, 1, cache.generation)
  /\ bridge.installed =>
       /\ cache.present /\ bridge.lastRegistry <= cache.generation
       /\ core = SubSeq(log, 1, bridge.lastRegistry)
  /\ ~bridge.installed => core = <<>>
  /\ publisher = "installing" => bridge.holder = "publisher" /\ cache.present
  /\ cli = "publishing" => bridge.holder = "finalizer" /\ cache.present

(* From Publisher.Stop on nothing is published; from FreezeAndInstall on   *)
(* the registry is frozen; from its success on the core shows all of it.   *)
FinalInv ==
  /\ cli \in {"draining_server", "draining_owner", "freezing", "installing", "publishing", "installed", "serving"} =>
       publisher = "done"
  /\ cli \in {"installing", "publishing", "installed", "serving"} => frozen
  /\ cli = "publishing" => cache.generation = Len(log)
  /\ cli = "installed" => core = log
  /\ final.taken => /\ publisher = "done" /\ frozen /\ core = log /\ final.body = log
                    /\ cli \in {"serving", "stopped", "closing_owner", "exited"}

IInv ==
  /\ TypeInv /\ QueueInv /\ CountInv /\ BridgeInv /\ FinalInv
  /\ \A r \in Requests : PlaceInv(r)

-----------------------------------------------------------------------------
(* Lemmas on sequences *)

LEMMA Appended ==
  ASSUME NEW S, NEW q \in Seq(S), NEW e \in S
  PROVE  /\ Append(q, e) \in Seq(S) /\ Len(Append(q, e)) = Len(q) + 1 /\ Len(q) \in Nat
         /\ \A i \in 1..Len(q) : Append(q, e)[i] = q[i]
         /\ Append(q, e)[Len(q) + 1] = e
         /\ \A r : r \in Range(Append(q, e)) <=> r \in Range(q) \/ r = e
  BY DEF Range

LEMMA Taken ==
  ASSUME NEW S, NEW q \in Seq(S), q # <<>>,
         \A i, j \in 1..Len(q) : q[i] = q[j] => i = j
  PROVE  /\ Tail(q) \in Seq(S) /\ Head(q) \in S
         /\ \A i, j \in 1..Len(Tail(q)) : Tail(q)[i] = Tail(q)[j] => i = j
         /\ \A r : r \in Range(q) <=> r \in Range(Tail(q)) \/ r = Head(q)
         /\ Head(q) \notin Range(Tail(q))
  <1>1. /\ Tail(q) \in Seq(S) /\ Head(q) \in S /\ Head(q) = q[1]
        /\ Len(q) \in Nat /\ Len(q) >= 1 /\ Len(Tail(q)) = Len(q) - 1
        /\ \A i \in 1..Len(Tail(q)) : Tail(q)[i] = q[i + 1]
    OBVIOUS
  <1>2. \A i \in 1..Len(Tail(q)) : i + 1 \in 1..Len(q) /\ i + 1 # 1
    BY <1>1
  <1>3. \A i, j \in 1..Len(Tail(q)) : Tail(q)[i] = Tail(q)[j] => i = j
    <2> SUFFICES ASSUME NEW i \in 1..Len(Tail(q)), NEW j \in 1..Len(Tail(q)), Tail(q)[i] = Tail(q)[j]
                 PROVE  i = j
      OBVIOUS
    <2>1. i + 1 = j + 1
      BY <1>1, <1>2
    <2> QED
      BY <2>1
  <1>4. \A r : r \in Range(Tail(q)) => r \in Range(q)
    BY <1>1, <1>2 DEF Range
  <1>5. Head(q) \in Range(q)
    BY <1>1 DEF Range
  <1>6. ASSUME NEW r, r \in Range(q), r # Head(q) PROVE r \in Range(Tail(q))
    <2>1. PICK i \in 1..Len(q) : q[i] = r
      BY <1>6 DEF Range
    <2>2. i - 1 \in 1..Len(Tail(q)) /\ (i - 1) + 1 = i
      BY <1>1, <1>6, <2>1
    <2>3. Tail(q)[i - 1] = r
      BY <1>1, <2>1, <2>2
    <2>4. DOMAIN Tail(q) = 1..Len(Tail(q))
      BY <1>1
    <2> QED
      BY <2>2, <2>3, <2>4, Zenon DEF Range
  <1>7. Head(q) \notin Range(Tail(q))
    <2> SUFFICES ASSUME NEW i \in 1..Len(Tail(q)), Tail(q)[i] = Head(q) PROVE FALSE
      BY DEF Range
    <2>1. q[i + 1] = q[1] /\ i + 1 \in 1..Len(q) /\ 1 \in 1..Len(q) /\ i + 1 # 1
      BY <1>1, <1>2
    <2> QED
      BY <2>1
  <1> QED
    BY <1>1, <1>3, <1>4, <1>5, <1>6, <1>7

(* A prefix of a sequence is a prefix of the longer one. *)
LEMMA PrefixKept ==
  ASSUME NEW S, NEW q \in Seq(S), NEW e \in S, NEW n \in 0..Len(q)
  PROVE  /\ SubSeq(q, 1, n) \in Seq(S) /\ Len(SubSeq(q, 1, n)) = n
         /\ SubSeq(Append(q, e), 1, n) = SubSeq(q, 1, n)
  OBVIOUS

LEMMA WholePrefix ==
  ASSUME NEW S, NEW q \in Seq(S)
  PROVE  SubSeq(q, 1, Len(q)) = q
  OBVIOUS

-----------------------------------------------------------------------------
(* What a step keeps that leaves some variables alone *)

LEMMA KeepsPlaces ==
  ASSUME IInv, UNCHANGED <<conn, answer, queue, owner, result, log>>
  PROVE  QueueInv' /\ \A r \in Requests : PlaceInv(r)'
  BY DEF IInv, QueueInv, PlaceInv

LEMMA KeepsCounts ==
  ASSUME CountInv, UNCHANGED <<result, log, commits, generation>>
  PROVE  CountInv'
  BY DEF CountInv, Committed, Changes, ChangesUpTo

LEMMA KeepsBridge ==
  ASSUME BridgeInv, UNCHANGED <<log, cache, bridge, core, publisher>>,
         cli' # "publishing" \/ cli' = cli
  PROVE  BridgeInv'
  BY DEF BridgeInv

LEMMA KeepsFinal ==
  ASSUME FinalInv, UNCHANGED <<log, frozen, cache, core, publisher, cli, final>>
  PROVE  FinalInv'
  BY DEF FinalInv

LEMMA InitInv == Init => IInv
  <1> SUFFICES ASSUME Init PROVE IInv
    OBVIOUS
  <1>1. TypeInv
    <2>1. NoResponse \in Responses
      BY DEF Responses, NoResponse, Response, Outcomes
    <2>2. cache \in Caches /\ bridge \in Bridges /\ final \in Finals
      BY DEF Init, Caches, Bridges, Finals
    <2>3. /\ conn \in [Requests -> Places]
          /\ answer \in [Requests -> Responses] /\ result \in [Requests -> Responses]
      BY <2>1 DEF Init, Places
    <2>4. queue \in Seq(Requests) /\ log \in Seq(Requests) /\ core \in Seq(Requests)
      BY DEF Init
    <2>5. owner \in Requests \cup {None, "done"} /\ commits \in Nat /\ generation \in Nat /\ frozen \in BOOLEAN
      BY Zenon DEF Init
    <2> QED
      BY <2>2, <2>3, <2>4, <2>5 DEF TypeInv
  <1>2. QueueInv /\ BridgeInv /\ FinalInv
    BY DEF Init, QueueInv, BridgeInv, FinalInv
  <1>3. \A r : r \notin Range(queue) /\ r \notin Range(log)
    BY DEF Init, Range
  <1>4. \A r \in Requests : PlaceInv(r)
    BY <1>3, ManagedAssumption DEF Init, PlaceInv, NoResponse, Response, Refusals
  <1>5. Committed = {} /\ Changes = {}
    BY <1>3 DEF Init, Committed, Changes, NoResponse, Response
  <1>6. CountInv
    <2>1. Cardinality({}) = 0
      BY FS_EmptySet
    <2>2. {result[r].commit : r \in {}} = 1..0
      OBVIOUS
    <2>3. \A r \in Requests : result[r].generation = 0
      BY DEF Init, NoResponse, Response
    <2>4. generation = 0 /\ commits = 0 /\ Len(log) = 0
      BY DEF Init
    <2> QED
      BY <1>5, <2>1, <2>2, <2>3, <2>4 DEF CountInv
  <1> QED
    BY <1>1, <1>2, <1>4, <1>6 DEF IInv

-----------------------------------------------------------------------------
(* Server.Serve, serveConnection and Owner.Submit *)

(* A step of one connection that leaves the queue alone. *)
LEMMA ConnectionStep ==
  ASSUME IInv, NEW r \in Requests, UNCHANGED <<ownerVars, registryVars, bridgeVars, cliVars>>,
         conn' \in [Requests -> Places], answer' \in [Requests -> Responses],
         \A q \in Requests \ {r} : conn'[q] = conn[q] /\ answer'[q] = answer[q],
         PlaceInv(r)'
  PROVE  IInv'
  <1> USE DEF ownerVars, registryVars, bridgeVars, cliVars
  <1>1. TypeInv'
    BY DEF IInv, TypeInv
  <1>2. QueueInv' /\ CountInv' /\ BridgeInv' /\ FinalInv'
    BY KeepsCounts, KeepsBridge, KeepsFinal DEF IInv, QueueInv
  <1>3. ASSUME NEW q \in Requests \ {r} PROVE PlaceInv(q)'
    BY <1>3 DEF IInv, PlaceInv
  <1> QED
    BY <1>1, <1>2, <1>3 DEF IInv

(* An answer to a request that is not with the owner, or that the owner    *)
(* has decided, or that leaves its fate open.                              *)
LEMMA AnswerStep ==
  ASSUME IInv, NEW r \in Requests, UNCHANGED <<ownerVars, registryVars, bridgeVars, cliVars>>,
         NEW place \in {"answered", "done"}, NEW response \in Responses,
         conn' = [conn EXCEPT ![r] = place], answer' = [answer EXCEPT ![r] = response],
         \/ conn[r] \in {"idle", "accepted", "reading", "read", "submitting"} /\ response.outcome # "committed"
         \/ response = result[r] /\ result[r] # NoResponse
         \/ response.outcome = "unknown"
  PROVE  IInv'
  <1> USE DEF ownerVars, registryVars, bridgeVars, cliVars
  <1>1. /\ conn' \in [Requests -> Places] /\ answer' \in [Requests -> Responses]
        /\ \A q \in Requests \ {r} : conn'[q] = conn[q] /\ answer'[q] = answer[q]
        /\ conn'[r] = place /\ answer'[r] = response
    BY DEF IInv, TypeInv, Places
  <1>2. PlaceInv(r)'
    BY <1>1 DEF IInv, PlaceInv, Refusals, NoResponse, Response
  <1> QED
    BY <1>1, <1>2, ConnectionStep

(* A step of a connection whose request is not queued yet. *)
LEMMA ReadingStep ==
  ASSUME IInv, NEW r \in Requests, UNCHANGED <<answer, ownerVars, registryVars, bridgeVars, cliVars>>,
         conn[r] \in {"idle", "accepted", "reading", "read"},
         NEW place \in {"accepted", "reading", "read", "submitting"}, conn' = [conn EXCEPT ![r] = place]
  PROVE  IInv'
  <1> USE DEF ownerVars, registryVars, bridgeVars, cliVars
  <1>1. /\ conn' \in [Requests -> Places] /\ answer' \in [Requests -> Responses]
        /\ \A q \in Requests \ {r} : conn'[q] = conn[q] /\ answer'[q] = answer[q]
        /\ conn'[r] = place
    BY Zenon DEF IInv, TypeInv, Places
  <1>2. PlaceInv(r)'
    BY <1>1 DEF IInv, PlaceInv
  <1> QED
    BY <1>1, <1>2, ConnectionStep

LEMMA SubmitStep ==
  ASSUME IInv, NEW r \in Requests, Submit(r)
  PROVE  IInv'
  <1> USE DEF Submit, registryVars, bridgeVars, cliVars
  <1>1. /\ queue' \in Seq(Requests) /\ Len(queue') = Len(queue) + 1 /\ Len(queue) \in Nat
        /\ \A i \in 1..Len(queue) : queue'[i] = queue[i]
        /\ queue'[Len(queue) + 1] = r
        /\ \A q : q \in Range(queue') <=> q \in Range(queue) \/ q = r
    BY Appended DEF IInv, TypeInv
  <1>2. r \notin Range(queue)
    BY DEF IInv, PlaceInv
  <1>3. QueueInv'
    <2> SUFFICES ASSUME NEW i \in 1..Len(queue'), NEW j \in 1..Len(queue'), queue'[i] = queue'[j] PROVE i = j
      BY DEF QueueInv
    <2>1. CASE i \in 1..Len(queue) /\ j \in 1..Len(queue)
      BY <1>1, <2>1 DEF IInv, QueueInv
    <2>2. CASE i = Len(queue) + 1 /\ j \in 1..Len(queue)
      BY <1>1, <1>2, <2>2 DEF Range
    <2>3. CASE j = Len(queue) + 1 /\ i \in 1..Len(queue)
      BY <1>1, <1>2, <2>3 DEF Range
    <2> QED
      BY <1>1, <2>1, <2>2, <2>3
  <1>4. TypeInv'
    BY <1>1 DEF IInv, TypeInv, Places
  <1>5. CountInv' /\ BridgeInv' /\ FinalInv'
    BY KeepsCounts, KeepsBridge, KeepsFinal DEF IInv
  <1>6. ASSUME NEW q \in Requests PROVE PlaceInv(q)'
    <2>1. conn'[q] = IF q = r THEN "queued" ELSE conn[q]
      BY DEF IInv, TypeInv
    <2>2. conn[r] = "submitting" /\ PlaceInv(r) /\ PlaceInv(q)
      BY DEF IInv
    <2>3. CASE q = r
      BY <1>1, <2>1, <2>2, <2>3 DEF PlaceInv, NoResponse, Response, Refusals
    <2>4. CASE q # r
      BY <1>1, <2>1, <2>2, <2>4 DEF PlaceInv
    <2> QED
      BY <2>3, <2>4
  <1> QED
    BY <1>3, <1>4, <1>5, <1>6 DEF IInv

LEMMA ServerSteps ==
  ASSUME IInv, NEW r \in Requests, Refuse(r) \/ Accept(r) \/ ReadFrame(r) \/ Serve(r)
  PROVE  IInv'
  <1>0. \A o \in Outcomes : Response(o, 0, 0) \in Responses /\ Response(o, 0, 0).outcome = o
    BY DEF Response, Responses
  <1>1. CASE Refuse(r)
    BY <1>0, <1>1, AnswerStep, Zenon DEF Refuse, Outcomes
  <1>2. CASE Accept(r) \/ ReadFrame(r) \/ SetReadDeadline(r)
    BY <1>2, ReadingStep DEF Accept, ReadFrame, SetReadDeadline
  <1>3. CASE ReadFails(r)
    <2>1. PICK o \in {"protocol", "dropped"} : Answer(r, Response(o, 0, 0))
      BY <1>3, Zenon DEF ReadFails
    <2>2. Response(o, 0, 0) \in Responses /\ Response(o, 0, 0).outcome # "committed"
      BY <1>0 DEF Outcomes, Response
    <2>3. conn[r] = "reading" /\ UNCHANGED <<ownerVars, registryVars, bridgeVars, cliVars>>
      BY <1>3, Zenon DEF ReadFails
    <2> QED
      BY <2>1, <2>2, <2>3, AnswerStep, Zenon DEF Answer
  <1>4. CASE HandleFrame(r)
    <2>1. CASE conn' = [conn EXCEPT ![r] = "submitting"] /\ UNCHANGED answer
      BY <1>4, <2>1, ReadingStep, Zenon DEF HandleFrame
    <2>2. CASE \E o \in {"closed", "protocol"} : Answer(r, Response(o, 0, 0))
      BY <1>0, <1>4, <2>2, AnswerStep, Zenon DEF HandleFrame, Answer, Outcomes
    <2> QED
      BY <1>4, <2>1, <2>2 DEF HandleFrame
  <1>5. CASE SubmitDeclines(r)
    <2>1. PICK o \in {"cancelled", "closed", "overloaded"} : Answer(r, Response(o, 0, 0))
      BY <1>5 DEF SubmitDeclines
    <2> QED
      BY <1>0, <1>5, <2>1, AnswerStep, Zenon DEF SubmitDeclines, Answer, Outcomes
  <1>6. CASE Await(r)
    <2>1. CASE result[r] # NoResponse /\ Answer(r, result[r])
      BY <1>6, <2>1, AnswerStep, Zenon DEF Await, Answer, IInv, TypeInv
    <2>2. CASE Answer(r, Response("unknown", 0, 0))
      BY <1>0, <1>6, <2>2, AnswerStep, Zenon DEF Await, Answer, Outcomes
    <2> QED
      BY <1>6, <2>1, <2>2 DEF Await
  <1>7. CASE Leave(r)
    <2>1. /\ conn' = [conn EXCEPT ![r] = "done"] /\ answer' = answer
          /\ UNCHANGED <<ownerVars, registryVars, bridgeVars, cliVars>>
          /\ conn[r] = "answered"
      BY <1>7 DEF Leave
    <2>2. PlaceInv(r)'
      BY <2>1 DEF IInv, TypeInv, PlaceInv, ownerVars, registryVars
    <2> QED
      BY <2>1, <2>2, ConnectionStep, Zenon DEF IInv, TypeInv, Places
  <1> QED
    BY <1>1, <1>2, <1>3, <1>4, <1>5, <1>6, <1>7, SubmitStep DEF Serve

-----------------------------------------------------------------------------
(* Owner.run and the registry *)

LEMMA TakeStep ==
  ASSUME IInv, OwnerTakes
  PROVE  IInv'
  <1> USE DEF OwnerTakes, serverVars, registryVars, bridgeVars, cliVars
  <1>1. /\ queue' \in Seq(Requests) /\ owner' \in Requests /\ QueueInv'
        /\ \A r : r \in Range(queue) <=> r \in Range(queue') \/ r = owner'
        /\ owner' \notin Range(queue')
    <2>1. /\ queue \in Seq(Requests) /\ queue # <<>>
          /\ \A i, j \in 1..Len(queue) : queue[i] = queue[j] => i = j
          /\ queue' = Tail(queue) /\ owner' = Head(queue)
      BY DEF IInv, TypeInv, QueueInv
    <2>2. /\ Tail(queue) \in Seq(Requests) /\ Head(queue) \in Requests
          /\ \A i, j \in 1..Len(Tail(queue)) : Tail(queue)[i] = Tail(queue)[j] => i = j
          /\ \A r : r \in Range(queue) <=> r \in Range(Tail(queue)) \/ r = Head(queue)
          /\ Head(queue) \notin Range(Tail(queue))
      BY <2>1, Taken
    <2> QED
      BY <2>1, <2>2 DEF QueueInv
  <1>2. TypeInv'
    BY <1>1 DEF IInv, TypeInv
  <1>3. CountInv' /\ BridgeInv' /\ FinalInv'
    BY KeepsCounts, KeepsBridge, KeepsFinal DEF IInv
  <1>4. ASSUME NEW r \in Requests PROVE PlaceInv(r)'
    <2>1. PlaceInv(r) /\ UNCHANGED <<conn, answer, result, log>>
      BY DEF IInv
    <2>2. owner' = r => r \in Range(queue)
      BY <1>1
    <2>3. r \in Range(queue') => r \in Range(queue) /\ owner' # r
      BY <1>1
    <2> QED
      BY <2>1, <2>2, <2>3 DEF PlaceInv
  <1> QED
    BY <1>1, <1>2, <1>3, <1>4 DEF IInv

LEMMA EndStep ==
  ASSUME IInv, OwnerEnds
  PROVE  IInv'
  <1> USE DEF OwnerEnds, serverVars, registryVars, bridgeVars, cliVars
  <1>1. TypeInv'
    BY DEF IInv, TypeInv
  <1>2. CountInv' /\ BridgeInv' /\ FinalInv' /\ QueueInv'
    BY KeepsCounts, KeepsBridge, KeepsFinal DEF IInv, QueueInv
  <1>3. ASSUME NEW r \in Requests PROVE PlaceInv(r)'
    BY ManagedAssumption DEF IInv, PlaceInv
  <1> QED
    BY <1>1, <1>2, <1>3 DEF IInv

(* The owner decides the request it holds; the log may have grown by it. *)
LEMMA DecidePlaces ==
  ASSUME IInv, owner \in Requests, NEW response \in Responses, OwnerReplies(response),
         response.outcome \in {"committed", "rejected", "late"},
         log' \in Seq(Requests),
         \A r \in Requests : r \in Range(log') => r \in Range(log) \/ (r = owner /\ response.outcome = "committed")
  PROVE  QueueInv' /\ \A r \in Requests : PlaceInv(r)'
  <1> USE DEF OwnerReplies, serverVars
  <1>1. QueueInv'
    BY DEF IInv, QueueInv
  <1>2. ASSUME NEW r \in Requests PROVE PlaceInv(r)'
    <2>1. PlaceInv(r) /\ UNCHANGED <<conn, answer, queue>> /\ owner' = None /\ None # r
      BY ManagedAssumption DEF IInv
    <2>2. result'[r] = IF r = owner THEN response ELSE result[r]
      BY Zenon DEF IInv, TypeInv
    <2>3. CASE r = owner
      <3>1. result[r] = NoResponse /\ r \notin Range(queue)
        BY <2>1, <2>3 DEF PlaceInv
      <3>2. answer[r].outcome # "committed" /\ answer[r].outcome \notin Refusals
            /\ conn[r] \notin {"idle", "accepted", "reading", "read", "submitting"}
        BY <2>1, <2>3, <3>1 DEF PlaceInv, NoResponse, Response, Refusals
      <3>3. r \in Range(log) => FALSE
        BY <2>1, <3>1 DEF PlaceInv, NoResponse, Response
      <3>4. r \in Range(log') => response.outcome = "committed"
        BY <3>3, Zenon
      <3> QED
        BY <2>1, <2>2, <2>3, <3>1, <3>2, <3>4, Zenon DEF PlaceInv
    <2>4. CASE r # owner
      BY <2>1, <2>2, <2>4 DEF PlaceInv
    <2> QED
      BY <2>3, <2>4
  <1> QED
    BY <1>1, <1>2

LEMMA DecideTypes ==
  ASSUME IInv, owner \in Requests, NEW response \in Responses, OwnerReplies(response),
         log' \in Seq(Requests), commits' \in Nat, generation' \in Nat
  PROVE  TypeInv'
  BY DEF IInv, TypeInv, OwnerReplies, serverVars, bridgeVars, cliVars

(* Numbering goes on without a gap when the owner commits. *)
LEMMA CommitCounts ==
  ASSUME IInv, owner \in Requests, NEW response \in Responses, OwnerReplies(response),
         response.outcome = "committed", response.commit = commits + 1, response.generation = Len(log'),
         log' \in Seq(Requests), Len(log) <= Len(log'),
         \A r \in Requests \ {owner} : r \in Range(log') <=> r \in Range(log),
         Cardinality(Changes') = Len(log'), generation' = Len(log'), commits' = commits + 1
  PROVE  CountInv'
  <1>1. /\ result[owner] = NoResponse /\ owner \notin Committed /\ owner \notin Changes
        /\ commits \in Nat /\ Len(log) \in Nat /\ Len(log') \in Nat
    BY DEF IInv, PlaceInv, TypeInv, Committed, Changes, NoResponse, Response
  <1>2. \A r \in Requests : result'[r] = IF r = owner THEN response ELSE result[r]
    BY DEF IInv, TypeInv, OwnerReplies
  <1>3. Committed' = Committed \cup {owner}
    BY <1>2 DEF Committed
  <1>4. Changes' \subseteq Committed'
    BY <1>3 DEF IInv, PlaceInv, Changes, Committed
  <1>5. Cardinality(Committed') = commits'
    <2>1. IsFiniteSet(Committed) /\ Cardinality(Committed) = commits
      BY ManagedAssumption, FS_Subset DEF Committed, IInv, CountInv
    <2>2. Cardinality(Committed \cup {owner}) = Cardinality(Committed) + 1
      BY <1>1, <2>1, FS_AddElement, Zenon
    <2> QED
      BY <1>3, <2>1, <2>2, Zenon
  <1>6. ASSUME NEW r \in Committed PROVE r \in Requests /\ r # owner /\ result[r].commit \in 1..commits
    <2>1. result[r].commit \in {result[q].commit : q \in Committed}
      OBVIOUS
    <2> QED
      BY <1>1, <2>1 DEF IInv, CountInv, Committed
  <1>7. {result'[r].commit : r \in Committed'} = 1..commits'
    <2>1. {result[r].commit : r \in Committed} = 1..commits
      BY DEF IInv, CountInv
    <2>2. \A r \in Committed : result'[r].commit = result[r].commit
      BY <1>2, <1>6
    <2>3. result'[owner].commit = commits + 1
      BY <1>2
    <2>4. {result'[r].commit : r \in Committed'} = (1..commits) \cup {commits + 1}
      BY <1>3, <2>1, <2>2, <2>3
    <2> QED
      BY <1>1, <2>4
  <1> DEFINE UpTo(n) == {q \in Committed' : q \in Range(log') /\ result'[q].commit <= n}
  <1>8. \A n \in 1..commits : UpTo(n) = ChangesUpTo(n)
    BY <1>1, <1>2, <1>3, <1>6 DEF ChangesUpTo
  <1>9. UpTo(commits + 1) = Changes'
    <2>1. \A r \in Committed' : result'[r].commit <= commits + 1
      BY <1>1, <1>2, <1>3, <1>6
    <2>2. UpTo(commits + 1) = {q \in Committed' : q \in Range(log')}
      BY <2>1
    <2>3. Committed' \subseteq Requests
      BY <1>3 DEF Committed
    <2> QED
      BY <1>4, <2>2, <2>3 DEF Changes
  <1> HIDE DEF UpTo
  <1>10. ASSUME NEW r \in Committed' PROVE result'[r].generation = Cardinality(UpTo(result'[r].commit))
    <2>1. CASE r = owner
      BY <1>2, <1>9, <2>1
    <2>2. CASE r \in Committed
      BY <1>2, <1>6, <1>8, <2>2 DEF IInv, CountInv
    <2> QED
      BY <1>3, <1>10, <2>1, <2>2
  <1>11. \A r \in Requests : result'[r].generation <= Len(log')
    <2>1. \A r \in Requests : result[r].generation \in Nat /\ result[r].generation <= Len(log)
      BY DEF IInv, CountInv, TypeInv, Responses
    <2> QED
      BY <1>1, <1>2, <2>1
  <1>12. \A r \in Committed' : result'[r].generation =
           Cardinality({q \in Committed' : q \in Range(log') /\ result'[q].commit <= result'[r].commit})
    BY <1>10, Zenon DEF UpTo
  <1> QED
    BY <1>5, <1>7, <1>11, <1>12, Zenon DEF CountInv, ChangesUpTo

LEMMA CommitChangeStep ==
  ASSUME IInv, CommitChange
  PROVE  IInv'
  <1> DEFINE response == Response("committed", generation + 1, commits + 1)
  <1>0. /\ owner \in Requests /\ ~frozen /\ log' = Append(log, owner) /\ OwnerReplies(response)
        /\ generation' = generation + 1 /\ commits' = commits + 1
    BY DEF CommitChange
  <1>1. /\ response \in Responses /\ response.outcome = "committed"
        /\ response.generation = generation + 1 /\ response.commit = commits + 1
    BY DEF Response, Responses, Outcomes, IInv, TypeInv
  <1> HIDE DEF response
  <1>2. /\ log' \in Seq(Requests) /\ Len(log') = Len(log) + 1 /\ Len(log) \in Nat
        /\ \A r : r \in Range(log') <=> r \in Range(log) \/ r = owner
    BY <1>0, Appended DEF IInv, TypeInv
  <1>3. QueueInv' /\ \A r \in Requests : PlaceInv(r)'
    BY <1>0, <1>1, <1>2, DecidePlaces
  <1>4. TypeInv'
    BY <1>0, <1>1, <1>2, DecideTypes DEF IInv, TypeInv
  <1>5. UNCHANGED <<frozen, cache, bridge, core, publisher, cli, final>>
    BY <1>0 DEF OwnerReplies, bridgeVars, cliVars
  <1>6. FinalInv'
    BY <1>0, <1>5 DEF IInv, FinalInv, TypeInv, OwnerReplies
  <1>7. BridgeInv'
    <2>1. \A n \in 0..Len(log) : SubSeq(log', 1, n) = SubSeq(log, 1, n)
      BY <1>0, PrefixKept DEF IInv, TypeInv
    <2>2. cache.generation \in Nat /\ bridge.lastRegistry \in Nat
      BY DEF IInv, TypeInv, Caches, Bridges
    <2> QED
      BY <1>2, <1>5, <2>1, <2>2 DEF IInv, BridgeInv
  <1>8. CountInv'
    <2>1. owner \notin Changes /\ IsFiniteSet(Changes) /\ Cardinality(Changes) = Len(log) /\ generation = Len(log)
      BY <1>0, ManagedAssumption, FS_Subset DEF IInv, PlaceInv, CountInv, Changes, NoResponse, Response
    <2>2. Changes' = Changes \cup {owner}
      BY <1>0, <1>2 DEF Changes
    <2>3. Cardinality(Changes \cup {owner}) = Cardinality(Changes) + 1
      BY <2>1, FS_AddElement
    <2>4. /\ Cardinality(Changes') = Len(log') /\ generation' = Len(log') /\ Len(log) <= Len(log')
          /\ response.generation = Len(log') /\ response.commit = commits + 1
          /\ \A r \in Requests \ {owner} : r \in Range(log') <=> r \in Range(log)
      BY <1>0, <1>1, <1>2, <2>1, <2>2, <2>3
    <2> QED
      BY <1>0, <1>1, <1>2, <2>4, CommitCounts, Zenon
  <1> QED
    BY <1>3, <1>4, <1>6, <1>7, <1>8 DEF IInv

LEMMA CommitNoChangeStep ==
  ASSUME IInv, CommitNoChange
  PROVE  IInv'
  <1> DEFINE response == Response("committed", generation, commits + 1)
  <1>0. /\ owner \in Requests /\ OwnerReplies(response) /\ commits' = commits + 1
        /\ log' = log /\ generation' = generation
    BY DEF CommitNoChange
  <1>1. /\ response \in Responses /\ response.outcome = "committed"
        /\ response.generation = generation /\ response.commit = commits + 1
        /\ log \in Seq(Requests) /\ generation = Len(log) /\ generation \in Nat /\ commits' \in Nat
    BY <1>0 DEF Response, Responses, Outcomes, IInv, TypeInv, CountInv
  <1> HIDE DEF response
  <1>2. QueueInv' /\ \A r \in Requests : PlaceInv(r)'
    BY <1>0, <1>1, DecidePlaces
  <1>3. TypeInv'
    BY <1>0, <1>1, DecideTypes
  <1>4. UNCHANGED <<log, frozen, cache, bridge, core, publisher, cli, final>>
    BY <1>0 DEF OwnerReplies, bridgeVars, cliVars
  <1>5. FinalInv' /\ BridgeInv'
    BY <1>4, KeepsFinal, KeepsBridge DEF IInv
  <1>6. Changes' = Changes /\ Cardinality(Changes) = Len(log)
    BY <1>4 DEF Changes, IInv, CountInv
  <1>7. CountInv'
    BY <1>0, <1>1, <1>6, CommitCounts
  <1> QED
    BY <1>2, <1>3, <1>5, <1>7 DEF IInv

LEMMA RejectStep ==
  ASSUME IInv, RejectMutation
  PROVE  IInv'
  <1> DEFINE response == Response(IF frozen THEN "late" ELSE "rejected", generation, 0)
  <1>0. /\ owner \in Requests /\ OwnerReplies(response) /\ commits' = commits
        /\ log' = log /\ generation' = generation
    BY DEF RejectMutation
  <1>1. /\ response \in Responses /\ response.outcome \in {"late", "rejected"}
        /\ response.generation = generation
        /\ log \in Seq(Requests) /\ generation = Len(log) /\ generation \in Nat /\ commits \in Nat
    BY DEF Response, Responses, Outcomes, IInv, TypeInv, CountInv
  <1> HIDE DEF response
  <1>2. QueueInv' /\ \A r \in Requests : PlaceInv(r)'
    BY <1>0, <1>1, DecidePlaces
  <1>3. TypeInv'
    BY <1>0, <1>1, DecideTypes
  <1>4. UNCHANGED <<log, frozen, cache, bridge, core, publisher, cli, final>>
    BY <1>0 DEF OwnerReplies, bridgeVars, cliVars
  <1>5. FinalInv' /\ BridgeInv'
    BY <1>4, KeepsFinal, KeepsBridge DEF IInv
  <1>6. CountInv'
    <2>1. \A r \in Requests : result'[r] = IF r = owner THEN response ELSE result[r]
      BY <1>0 DEF IInv, TypeInv, OwnerReplies
    <2>2. Committed \subseteq Requests /\ owner \notin Committed
      <3>1. result[owner] = NoResponse
        BY <1>0, Zenon DEF IInv, PlaceInv
      <3> QED
        BY <3>1 DEF Committed, NoResponse, Response
    <2>3. Committed' = Committed
      BY <1>0, <1>1, <2>1, <2>2 DEF Committed
    <2>4. Changes' = Changes
      BY <1>0 DEF Changes
    <2>5. \A r \in Committed : result'[r] = result[r]
      BY <2>1, <2>2
    <2>6. {result'[r].commit : r \in Committed} = {result[r].commit : r \in Committed}
      BY <2>5
    <2>7. \A n : {q \in Committed : q \in Range(log) /\ result'[q].commit <= n} = ChangesUpTo(n)
      BY <2>5 DEF ChangesUpTo
    <2>8. \A r \in Requests : result'[r].generation <= Len(log)
      <3>1. \A r \in Requests : result[r].generation <= Len(log)
        BY Zenon DEF IInv, CountInv
      <3>2. response.generation <= Len(log)
        BY <1>1 DEF IInv, CountInv
      <3> QED
        BY <2>1, <3>1, <3>2, Zenon
    <2>9. \A r \in Committed' : result'[r].generation =
            Cardinality({q \in Committed' : q \in Range(log') /\ result'[q].commit <= result'[r].commit})
      BY <1>0, <2>3, <2>5, <2>7, Zenon DEF IInv, CountInv
    <2> QED
      BY <1>0, <2>3, <2>4, <2>6, <2>8, <2>9, Zenon DEF IInv, CountInv, ChangesUpTo
  <1> QED
    BY <1>2, <1>3, <1>5, <1>6 DEF IInv

LEMMA OwnerSteps ==
  ASSUME IInv, OwnerStep
  PROVE  IInv'
  BY TakeStep, EndStep, CommitChangeStep, CommitNoChangeStep, RejectStep DEF OwnerStep

-----------------------------------------------------------------------------
(* Bridge.Install *)

(* A step of the publisher or of cli.Run touches no request. *)
LEMMA InstallerKeeps ==
  ASSUME IInv, UNCHANGED <<conn, answer, queue, owner, result, commits, log, generation>>
  PROVE  CountInv' /\ QueueInv' /\ \A r \in Requests : PlaceInv(r)'
  BY KeepsPlaces, KeepsCounts DEF IInv

LEMMA MaterializeStep ==
  ASSUME IInv, NEW caller \in {"publisher", "finalizer"}, Materialize(caller), UNCHANGED <<log, core>>
  PROVE  /\ cache' \in Caches /\ bridge' \in Bridges /\ bridge'.holder = caller
         /\ cache'.present /\ cache'.generation = Len(log) /\ cache'.body = SubSeq(log, 1, cache'.generation)
         /\ bridge'.installed = TRUE <=> bridge.installed = TRUE
         /\ bridge.installed = TRUE => bridge'.lastRegistry <= cache'.generation
                                       /\ core = SubSeq(log, 1, bridge'.lastRegistry)
         /\ bridge.installed # TRUE => core = <<>>
  <1>1. /\ cache \in Caches /\ bridge \in Bridges /\ log \in Seq(Requests) /\ generation = Len(log)
        /\ Len(log) \in Nat
    BY DEF IInv, TypeInv, CountInv
  <1>2. /\ bridge' \in Bridges /\ bridge'.holder = caller
        /\ bridge'.installed = bridge.installed /\ bridge'.lastRegistry = bridge.lastRegistry
        /\ bridge.installed \in BOOLEAN /\ bridge.lastRegistry \in Nat
    BY <1>1 DEF Materialize, Bridges
  <1>3. /\ cache' \in Caches /\ cache'.present /\ cache'.generation = Len(log)
        /\ cache'.body = SubSeq(log, 1, cache'.generation)
    <2>1. CASE cache.present /\ cache.generation = generation
      BY <1>1, <2>1 DEF Materialize, IInv, BridgeInv
    <2>2. CASE ~(cache.present /\ cache.generation = generation)
      <3>1. cache' = [present |-> TRUE, generation |-> Len(log), body |-> log]
        BY <1>1, <2>2 DEF Materialize
      <3>2. cache' \in Caches /\ cache'.present /\ cache'.generation = Len(log) /\ cache'.body = log
        BY <1>1, <3>1 DEF Caches
      <3> QED
        BY <1>1, <3>2, WholePrefix
    <2> QED
      BY <2>1, <2>2
  <1>4. bridge.installed = TRUE => bridge.lastRegistry <= Len(log) /\ core = SubSeq(log, 1, bridge.lastRegistry)
    <2> SUFFICES ASSUME bridge.installed = TRUE PROVE bridge.lastRegistry <= Len(log) /\ core = SubSeq(log, 1, bridge.lastRegistry)
      BY Zenon
    <2>1. cache.present /\ bridge.lastRegistry <= cache.generation /\ core = SubSeq(log, 1, bridge.lastRegistry)
          /\ cache.generation <= Len(log)
      BY DEF IInv, BridgeInv
    <2>2. cache.generation \in Nat
      BY <1>1 DEF Caches
    <2> QED
      BY <1>1, <1>2, <2>1, <2>2
  <1>5. bridge.installed # TRUE => core = <<>>
    BY Zenon DEF IInv, BridgeInv
  <1> QED
    BY <1>2, <1>3, <1>4, <1>5, Zenon

(* Install: the core holds a prefix of the log at least as long as before, *)
(* and after an acceptance exactly what the cache holds.                   *)
LEMMA InstallStep ==
  ASSUME IInv, NEW expiredContext, NEW o \in {"accepted", "rejected", "timeout"},
         InstallOutcome(expiredContext, o), Installed(o), cache.present
  PROVE  /\ core' \in Seq(Requests) /\ bridge' \in Bridges /\ bridge'.holder = "free"
         /\ bridge'.installed = TRUE => bridge'.lastRegistry <= cache.generation
                                        /\ core' = SubSeq(log, 1, bridge'.lastRegistry)
         /\ bridge'.installed # TRUE => core' = <<>>
         /\ o = "accepted" => core' = SubSeq(log, 1, cache.generation)
         /\ o # "accepted" => core' = core
  <1>1. /\ cache.generation \in Nat /\ cache.body \in Seq(Requests) /\ core \in Seq(Requests)
        /\ bridge \in Bridges /\ bridge.installed \in BOOLEAN /\ bridge.lastRegistry \in Nat
        /\ cache.body = SubSeq(log, 1, cache.generation)
    BY DEF IInv, TypeInv, Caches, Bridges, BridgeInv
  <1>2. /\ bridge.installed = TRUE => bridge.lastRegistry <= cache.generation
                                      /\ core = SubSeq(log, 1, bridge.lastRegistry)
        /\ bridge.installed # TRUE => core = <<>>
    BY Zenon DEF IInv, BridgeInv
  <1>3. CASE o = "accepted"
    <2>1. core' = SubSeq(log, 1, cache.generation)
      <3>1. CASE Reuses /\ core' = core
        BY <1>2, <3>1 DEF Reuses
      <3>2. CASE core' = cache.body
        BY <1>1, <3>2
      <3> QED
        BY <1>3, <3>1, <3>2 DEF InstallOutcome
    <2>2. bridge' = [holder |-> "free", installed |-> TRUE, lastRegistry |-> cache.generation]
      BY <1>3 DEF Installed
    <2>3. bridge' \in Bridges /\ bridge'.holder = "free" /\ bridge'.installed = TRUE
          /\ bridge'.lastRegistry = cache.generation
      BY <1>1, <2>2 DEF Bridges
    <2>4. core' \in Seq(Requests) /\ bridge'.lastRegistry <= cache.generation
          /\ core' = SubSeq(log, 1, bridge'.lastRegistry)
      <3>1. cache.generation <= cache.generation
        BY <1>1
      <3> QED
        BY <1>1, <2>1, <2>3, <3>1
    <2> QED
      BY <1>3, <2>1, <2>3, <2>4, Zenon
  <1>4. CASE o # "accepted"
    <2>1. core' = core
      BY <1>4 DEF InstallOutcome
    <2>2. bridge' = [bridge EXCEPT !.holder = "free"]
      BY <1>4 DEF Installed
    <2>3. bridge' \in Bridges /\ bridge'.holder = "free" /\ bridge'.installed = bridge.installed
          /\ bridge'.lastRegistry = bridge.lastRegistry
      BY <1>1, <2>2 DEF Bridges
    <2> QED
      BY <1>1, <1>2, <1>4, <2>1, <2>3, Zenon
  <1> QED
    BY <1>3, <1>4, Zenon

LEMMA TickStep ==
  ASSUME IInv, Tick
  PROVE  IInv'
  <1> USE DEF serverVars, ownerVars, registryVars, cliVars
  <1>1. /\ Materialize("publisher") /\ publisher = "waiting" /\ publisher' = "installing"
        /\ UNCHANGED <<conn, answer, queue, owner, result, commits, log, generation, frozen, core, cli, final>>
    BY DEF Tick
  <1>2. /\ cache' \in Caches /\ bridge' \in Bridges /\ bridge'.holder = "publisher"
        /\ cache'.present /\ cache'.generation = Len(log) /\ cache'.body = SubSeq(log, 1, cache'.generation)
        /\ bridge'.installed = TRUE <=> bridge.installed = TRUE
        /\ bridge.installed = TRUE => bridge'.lastRegistry <= cache'.generation
                                      /\ core = SubSeq(log, 1, bridge'.lastRegistry)
        /\ bridge.installed # TRUE => core = <<>>
    BY <1>1, MaterializeStep, Zenon
  <1>3. CountInv' /\ QueueInv' /\ \A r \in Requests : PlaceInv(r)'
    BY <1>1, InstallerKeeps
  <1>4. TypeInv'
    BY <1>1, <1>2 DEF IInv, TypeInv
  <1>5. cli # "publishing" /\ Len(log) \in Nat
    BY <1>1 DEF IInv, FinalInv, TypeInv
  <1>6. bridge'.installed \in BOOLEAN
    BY <1>2 DEF Bridges
  <1>7. BridgeInv'
    <2>1. cache'.generation <= Len(log') /\ cache'.body = SubSeq(log', 1, cache'.generation)
      BY <1>1, <1>2, <1>5
    <2>2. bridge'.installed => bridge'.lastRegistry <= cache'.generation
                               /\ core' = SubSeq(log', 1, bridge'.lastRegistry)
      BY <1>1, <1>2, <1>6
    <2>3. ~bridge'.installed => core' = <<>>
      BY <1>1, <1>2, <1>6, Zenon
    <2> QED
      BY <1>1, <1>2, <1>5, <2>1, <2>2, <2>3 DEF BridgeInv
  <1>8. FinalInv'
    BY <1>1, <1>5 DEF IInv, FinalInv
  <1> QED
    BY <1>3, <1>4, <1>7, <1>8 DEF IInv

LEMMA PublishStep ==
  ASSUME IInv, Publish
  PROVE  IInv'
  <1> USE DEF serverVars, ownerVars, registryVars, cliVars
  <1>1. /\ publisher = "installing" /\ publisher' = "waiting"
        /\ UNCHANGED <<conn, answer, queue, owner, result, commits, log, generation, frozen, cache, cli, final>>
    BY DEF Publish
  <1>2. PICK o \in {"accepted", "rejected", "timeout"} : InstallOutcome(cancelled, o) /\ Installed(o)
    BY DEF Publish
  <1>3. cache.present /\ bridge.holder = "publisher"
    BY <1>1 DEF IInv, BridgeInv
  <1>4. /\ core' \in Seq(Requests) /\ bridge' \in Bridges /\ bridge'.holder = "free"
        /\ bridge'.installed = TRUE => bridge'.lastRegistry <= cache.generation
                                       /\ core' = SubSeq(log, 1, bridge'.lastRegistry)
        /\ bridge'.installed # TRUE => core' = <<>>
    BY <1>2, <1>3, InstallStep, Zenon
  <1>5. CountInv' /\ QueueInv' /\ \A r \in Requests : PlaceInv(r)'
    BY <1>1, InstallerKeeps
  <1>6. TypeInv'
    BY <1>1, <1>4 DEF IInv, TypeInv
  <1>7. cli # "publishing"
    BY <1>3 DEF IInv, BridgeInv
  <1>8. bridge'.installed \in BOOLEAN
    BY <1>4 DEF Bridges
  <1>9. BridgeInv'
    BY <1>1, <1>3, <1>4, <1>7, <1>8, Zenon DEF IInv, BridgeInv
  <1>10. FinalInv'
    BY <1>1 DEF IInv, FinalInv
  <1> QED
    BY <1>5, <1>6, <1>9, <1>10 DEF IInv

LEMMA PublisherEndsStep ==
  ASSUME IInv, PublisherEnds
  PROVE  IInv'
  <1> USE DEF serverVars, ownerVars, registryVars, cliVars
  <1>1. /\ publisher' = "done"
        /\ UNCHANGED <<conn, answer, queue, owner, result, commits, log, generation, frozen, cache, bridge,
                       core, cli, final>>
    BY DEF PublisherEnds
  <1>2. CountInv' /\ QueueInv' /\ \A r \in Requests : PlaceInv(r)'
    BY <1>1, InstallerKeeps
  <1>3. TypeInv' /\ BridgeInv' /\ FinalInv'
    BY <1>1, Zenon DEF IInv, TypeInv, BridgeInv, FinalInv
  <1> QED
    BY <1>2, <1>3 DEF IInv

-----------------------------------------------------------------------------
(* cli.Run *)

(* A step of cli.Run that only moves on, towards finalization or away.     *)
LEMMA MoveStep ==
  ASSUME IInv, UNCHANGED <<conn, answer, queue, owner, result, commits, log, generation, cache, bridge, core,
                           publisher, final>>,
         frozen' \in BOOLEAN, frozen => frozen',
         \/ cli' = cli
         \/ ~final.taken /\ cli' \in {"closing", "closed", "failed", "stopping"}
         \/ ~final.taken /\ cli' \in {"draining_server", "draining_owner", "freezing"} /\ publisher = "done"
         \/ ~final.taken /\ cli' = "installing" /\ publisher = "done" /\ frozen'
         \/ cli' \in {"stopped", "closing_owner", "exited"}
  PROVE  IInv'
  <1>1. CountInv' /\ QueueInv' /\ \A r \in Requests : PlaceInv(r)'
    BY InstallerKeeps
  <1>2. TypeInv'
    BY DEF IInv, TypeInv
  <1>3. BridgeInv'
    BY KeepsBridge, Zenon DEF IInv
  <1>4. FinalInv'
    BY DEF IInv, FinalInv
  <1> QED
    BY <1>1, <1>2, <1>3, <1>4 DEF IInv

LEMMA FinalMaterializeStep ==
  ASSUME IInv, FinalMaterialize
  PROVE  IInv'
  <1> USE DEF serverVars, ownerVars, registryVars
  <1>1. /\ Materialize("finalizer") /\ cli = "installing" /\ cli' = "publishing"
        /\ UNCHANGED <<conn, answer, queue, owner, result, commits, log, generation, frozen, core, publisher, final>>
    BY DEF FinalMaterialize
  <1>2. /\ cache' \in Caches /\ bridge' \in Bridges /\ bridge'.holder = "finalizer"
        /\ cache'.present /\ cache'.generation = Len(log) /\ cache'.body = SubSeq(log, 1, cache'.generation)
        /\ bridge'.installed = TRUE <=> bridge.installed = TRUE
        /\ bridge.installed = TRUE => bridge'.lastRegistry <= cache'.generation
                                      /\ core = SubSeq(log, 1, bridge'.lastRegistry)
        /\ bridge.installed # TRUE => core = <<>>
    BY <1>1, MaterializeStep, Zenon
  <1>3. CountInv' /\ QueueInv' /\ \A r \in Requests : PlaceInv(r)'
    BY <1>1, InstallerKeeps
  <1>4. TypeInv'
    BY <1>1, <1>2 DEF IInv, TypeInv
  <1>5. publisher = "done" /\ frozen /\ ~final.taken /\ Len(log) \in Nat
    BY <1>1 DEF IInv, FinalInv, TypeInv
  <1>6. bridge'.installed \in BOOLEAN
    BY <1>2 DEF Bridges
  <1>7. BridgeInv'
    <2>1. cache'.generation <= Len(log') /\ cache'.body = SubSeq(log', 1, cache'.generation)
      BY <1>1, <1>2, <1>5
    <2>2. bridge'.installed => bridge'.lastRegistry <= cache'.generation
                               /\ core' = SubSeq(log', 1, bridge'.lastRegistry)
      BY <1>1, <1>2, <1>6
    <2>3. ~bridge'.installed => core' = <<>>
      BY <1>1, <1>2, <1>6, Zenon
    <2> QED
      BY <1>1, <1>2, <1>5, <2>1, <2>2, <2>3 DEF BridgeInv
  <1>8. FinalInv'
    BY <1>1, <1>2, <1>5 DEF FinalInv
  <1> QED
    BY <1>3, <1>4, <1>7, <1>8 DEF IInv

LEMMA FinalInstallStep ==
  ASSUME IInv, FinalInstall
  PROVE  IInv'
  <1> USE DEF serverVars, ownerVars, registryVars
  <1>1. /\ cli = "publishing"
        /\ UNCHANGED <<conn, answer, queue, owner, result, commits, log, generation, frozen, cache, publisher, final>>
    BY DEF FinalInstall
  <1>2. PICK o \in {"accepted", "rejected", "timeout"} :
          /\ InstallOutcome(freezeExpired, o) /\ Installed(o)
          /\ cli' = IF o = "accepted" THEN "installed" ELSE "failed"
    BY Zenon DEF FinalInstall
  <1>3. cache.present /\ cache.generation = Len(log) /\ log \in Seq(Requests) /\ publisher = "done" /\ frozen
        /\ ~final.taken
    BY <1>1 DEF IInv, BridgeInv, FinalInv, TypeInv
  <1>4. /\ core' \in Seq(Requests) /\ bridge' \in Bridges /\ bridge'.holder = "free"
        /\ bridge'.installed = TRUE => bridge'.lastRegistry <= cache.generation
                                       /\ core' = SubSeq(log, 1, bridge'.lastRegistry)
        /\ bridge'.installed # TRUE => core' = <<>>
        /\ o = "accepted" => core' = SubSeq(log, 1, cache.generation)
    BY <1>2, <1>3, InstallStep, Zenon
  <1>5. CountInv' /\ QueueInv' /\ \A r \in Requests : PlaceInv(r)'
    BY <1>1, InstallerKeeps
  <1>6. TypeInv'
    BY <1>1, <1>4 DEF IInv, TypeInv
  <1>7. bridge'.installed \in BOOLEAN
    BY <1>4, Zenon DEF Bridges
  <1>8. BridgeInv'
    BY <1>1, <1>2, <1>3, <1>4, <1>7, Zenon DEF IInv, BridgeInv
  <1>9. cli' = "installed" => core' = log
    BY <1>2, <1>3, <1>4, WholePrefix
  <1>10. FinalInv'
    BY <1>1, <1>2, <1>3, <1>9 DEF FinalInv
  <1> QED
    BY <1>5, <1>6, <1>8, <1>10 DEF IInv

LEMMA FreezeCoreStep ==
  ASSUME IInv, FreezeCore
  PROVE  IInv'
  <1> USE DEF serverVars, ownerVars, registryVars, bridgeVars
  <1>1. /\ cli = "installed" /\ cli' = "serving" /\ final' = [taken |-> TRUE, body |-> core]
        /\ UNCHANGED <<conn, answer, queue, owner, result, commits, log, generation, frozen, cache, bridge, core,
                       publisher>>
    BY Zenon DEF FreezeCore
  <1>2. publisher = "done" /\ frozen /\ core = log /\ core \in Seq(Requests)
    BY <1>1 DEF IInv, FinalInv, TypeInv
  <1>3. final' \in Finals /\ final'.body = core
    BY <1>1, <1>2, Zenon DEF Finals
  <1>4. CountInv' /\ QueueInv' /\ \A r \in Requests : PlaceInv(r)'
    BY <1>1, InstallerKeeps, Zenon
  <1>5. TypeInv'
    BY <1>1, <1>3 DEF IInv, TypeInv
  <1>6. BridgeInv'
    BY <1>1, KeepsBridge DEF IInv
  <1>7. FinalInv'
    BY <1>1, <1>2, <1>3 DEF FinalInv
  <1> QED
    BY <1>4, <1>5, <1>6, <1>7 DEF IInv

LEMMA MoveSteps ==
  ASSUME IInv,
         \/ CloseServerAdmission \/ CloseOwnerAdmission \/ Abort \/ BeginFinalization \/ FreezeContextExpires
         \/ PublisherStopped \/ PublisherStopFails \/ ServerDrained \/ OwnerDrained \/ DrainGivenUp
         \/ FreezeRegistry \/ StopIngestion \/ ServerClosed \/ OwnerClosed
  PROVE  IInv'
  <1> USE DEF serverVars, ownerVars, registryVars, bridgeVars
  <1>1. UNCHANGED <<conn, answer, queue, owner, result, commits, log, generation, cache, bridge, core, publisher, final>>
    BY Zenon DEF CloseServerAdmission, CloseOwnerAdmission, Abort, BeginFinalization, FreezeContextExpires,
           PublisherStopped, PublisherStopFails, ServerDrained, OwnerDrained, DrainGivenUp, FreezeRegistry,
           StopIngestion, ServerClosed, OwnerClosed, Advance
  <1>2. frozen' \in BOOLEAN /\ (frozen => frozen')
    BY Zenon DEF IInv, TypeInv, CloseServerAdmission, CloseOwnerAdmission, Abort, BeginFinalization, FreezeContextExpires,
           PublisherStopped, PublisherStopFails, ServerDrained, OwnerDrained, DrainGivenUp, FreezeRegistry,
           StopIngestion, ServerClosed, OwnerClosed, Advance
  <1>3. \/ cli' = cli
        \/ ~final.taken /\ cli' \in {"closing", "closed", "failed", "stopping"}
        \/ ~final.taken /\ cli' \in {"draining_server", "draining_owner", "freezing"} /\ publisher = "done"
        \/ ~final.taken /\ cli' = "installing" /\ publisher = "done" /\ frozen'
        \/ cli' \in {"stopped", "closing_owner", "exited"}
    <2>1. final.taken => cli \in {"serving", "stopped", "closing_owner", "exited"}
      BY DEF IInv, FinalInv
    <2>2. cli \in {"draining_server", "draining_owner", "freezing"} => publisher = "done"
      BY DEF IInv, FinalInv
    <2>3. CASE CloseServerAdmission \/ CloseOwnerAdmission \/ Abort \/ BeginFinalization
      BY <2>1, <2>3, Zenon DEF CloseServerAdmission, CloseOwnerAdmission, Abort, BeginFinalization
    <2>4. CASE FreezeContextExpires \/ FreezeRegistry
      BY <2>1, <2>2, <2>4 DEF FreezeContextExpires, FreezeRegistry
    <2>5. CASE PublisherStopped \/ PublisherStopFails \/ ServerDrained \/ OwnerDrained \/ DrainGivenUp
      BY <2>1, <2>2, <2>5, Zenon DEF PublisherStopped, PublisherStopFails, ServerDrained, OwnerDrained, DrainGivenUp, Advance
    <2>6. CASE StopIngestion \/ ServerClosed \/ OwnerClosed
      BY <2>6, Zenon DEF StopIngestion, ServerClosed, OwnerClosed, Advance
    <2> QED
      BY <2>3, <2>4, <2>5, <2>6
  <1> QED
    BY <1>1, <1>2, <1>3, MoveStep

(* The state machine keeps the invariant. *)
THEOREM Invariant == Spec => []IInv
  <1>1. ASSUME IInv, [Next]_vars PROVE IInv'
    <2>1. CASE UNCHANGED vars
      <3>1. UNCHANGED <<conn, answer, queue, owner, result, commits, log, generation, frozen, cache, bridge, core,
                        publisher, cli, final>>
        BY <2>1 DEF vars, serverVars, ownerVars, registryVars, bridgeVars, cliVars
      <3> QED
        BY <1>1, <3>1, MoveStep, Zenon DEF IInv, TypeInv
    <2>2. CASE \E r \in Requests : Refuse(r) \/ Accept(r) \/ ReadFrame(r) \/ Serve(r)
      BY <1>1, <2>2, ServerSteps
    <2>3. CASE OwnerStep
      BY <1>1, <2>3, OwnerSteps
    <2>4. CASE Tick \/ PublisherStep
      BY <1>1, <2>4, TickStep, PublishStep, PublisherEndsStep DEF PublisherStep
    <2>5. CASE Finalization
      BY <1>1, <2>5, MoveSteps, FinalMaterializeStep, FinalInstallStep, FreezeCoreStep DEF Finalization
    <2>6. CASE CloseServerAdmission \/ Abort \/ BeginFinalization \/ FreezeContextExpires
      BY <1>1, <2>6, MoveSteps
    <2> QED
      BY <1>1, <2>1, <2>2, <2>3, <2>4, <2>5, <2>6 DEF Next, Exited
  <1> QED
    BY <1>1, InitInv, PTL DEF Spec

-----------------------------------------------------------------------------
(* The properties *)

(* Whatever a client is told holds for good: "committed" only of requests  *)
(* the owner committed, a refusal only of requests that reach the registry *)
(* neither before nor after it; the numbers in the responses count without *)
(* gap (owner.go Submit and run, registry.go Apply).                       *)
THEOREM HonestAnswers == Spec => []AnswersAreHonest
  <1>1. ASSUME IInv PROVE AnswersAreHonest
    <2>1. ASSUME NEW r \in Requests
          PROVE  /\ answer[r].outcome = "committed" => result[r].outcome = "committed"
                 /\ answer[r].outcome \in Refusals => r \notin Range(log) /\ r \notin Range(queue) /\ owner # r
      BY <1>1, Zenon DEF IInv, PlaceInv
    <2>2. /\ {result[r].commit : r \in Committed} = 1..Cardinality(Committed)
          /\ \A r \in Committed : result[r].generation = Cardinality(ChangesUpTo(result[r].commit))
      BY <1>1, Zenon DEF IInv, CountInv
    <2> QED
      BY <2>1, <2>2, Zenon DEF AnswersAreHonest, Committed, ChangesUpTo
  <1> QED
    BY <1>1, Invariant, PTL

(* A successful finalization exposes the whole registry, with everything   *)
(* that was or will be answered "committed" (finalizer.go FreezeAndInstall,*)
(* bridge.go Install).                                                     *)
THEOREM CompleteFinalSnapshot == Spec => []FinalSnapshotIsComplete
  <1>1. ASSUME IInv PROVE FinalSnapshotIsComplete
    <2> SUFFICES ASSUME final.taken
                 PROVE  /\ final.body = log
                        /\ \A r \in Requests : answer[r].outcome = "committed" => Len(log) >= answer[r].generation
      BY DEF FinalSnapshotIsComplete
    <2>1. final.body = log
      BY <1>1 DEF IInv, FinalInv
    <2>2. ASSUME NEW r \in Requests, answer[r].outcome = "committed" PROVE Len(log) >= answer[r].generation
      <3>1. answer[r] = result[r] /\ result[r].generation <= Len(log)
        BY <1>1, <2>2, Zenon DEF IInv, PlaceInv, CountInv
      <3>2. result[r].generation \in Nat /\ Len(log) \in Nat
        BY <1>1 DEF IInv, TypeInv, Responses
      <3> QED
        BY <3>1, <3>2
    <2> QED
      BY <2>1, <2>2, Zenon
  <1> QED
    BY <1>1, Invariant, PTL

(* Neither the cache nor the bridge's memory of the last generation can    *)
(* hide a change (bridge.go Install, cache.go Materialize).                *)
THEOREM SoundReuse == Spec => []ReuseIsSound
  <1>1. IInv => ReuseIsSound
    BY DEF IInv, BridgeInv, ReuseIsSound
  <1> QED
    BY <1>1, Invariant, PTL

(* Server, owner, registry, publisher, bridge and finalizer together       *)
(* implement the log ManagedLog describes: a commit appends to it, an      *)
(* installation exposes a longer prefix of it, CloseAndFreeze seals all.   *)
THEOREM RefinesLog == Spec => ImplementsLog
  <1>1. Init => Log!Init
    BY DEF Init, Log!Init
  <1>2. ASSUME IInv, NEW n \in Nat, n <= Len(log), core' = SubSeq(log, 1, n), Len(core) <= n, ~final.taken,
               UNCHANGED <<log, final>>
        PROVE  Log!Next
    <2>1. Len(core) \in Nat /\ Len(log) \in Nat
      BY <1>2 DEF IInv, TypeInv
    <2>2. n \in Len(core)..Len(log)
      BY <1>2, <2>1
    <2>3. Log!Expose
      BY <1>2, <2>2 DEF Log!Expose
    <2> QED
      BY <2>3 DEF Log!Next
  <1>3. ASSUME IInv, NEW context, NEW o \in {"accepted", "rejected", "timeout"},
               InstallOutcome(context, o), Installed(o), cache.present, ~final.taken, UNCHANGED <<log, final>>
        PROVE  [Log!Next]_Log!vars
    <2>1. CASE o = "accepted"
      <3>1. core' = SubSeq(log, 1, cache.generation)
        BY <1>3, <2>1, InstallStep, Zenon
      <3>2. /\ cache.generation \in Nat /\ cache.generation <= Len(log) /\ log \in Seq(Requests)
            /\ bridge.lastRegistry \in Nat /\ bridge.installed \in BOOLEAN
        BY <1>3 DEF IInv, BridgeInv, TypeInv, Caches, Bridges
      <3>3. Len(core) <= cache.generation
        <4>1. CASE bridge.installed
          <5>1. bridge.lastRegistry <= cache.generation /\ core = SubSeq(log, 1, bridge.lastRegistry)
            BY <1>3, <4>1 DEF IInv, BridgeInv
          <5>2. Len(core) = bridge.lastRegistry
            BY <3>2, <5>1
          <5> QED
            BY <5>1, <5>2, Zenon
        <4>2. CASE ~bridge.installed
          BY <1>3, <3>2, <4>2 DEF IInv, BridgeInv
        <4> QED
          BY <4>1, <4>2
      <3> QED
        BY <1>2, <1>3, <3>1, <3>2, <3>3
    <2>2. CASE o # "accepted"
      BY <1>3, <2>2, InstallStep, Zenon DEF Log!vars
    <2> QED
      BY <2>1, <2>2
  <1>4. ASSUME IInv, [Next]_vars PROVE [Log!Next]_Log!vars
    <2> USE DEF serverVars, ownerVars, registryVars, bridgeVars, cliVars
    <2>1. CASE UNCHANGED <<log, core, final>>
      BY <2>1 DEF Log!vars
    <2>2. CASE CommitChange
      <3>1. ~final.taken
        BY <1>4, <2>2 DEF IInv, FinalInv, CommitChange
      <3>2. owner \notin Range(log)
        <4>1. owner \in Requests
          BY <2>2, Zenon DEF CommitChange
        <4>2. PlaceInv(owner)
          BY <1>4, <4>1, Zenon DEF IInv
        <4> QED
          BY <4>1, <4>2 DEF PlaceInv, NoResponse, Response
      <3>3. ~ \E i \in 1..Len(log) : log[i] = owner
        BY <1>4, <3>2 DEF IInv, TypeInv, Range
      <3>4. Log!Commit(owner)
        BY <2>2, <3>1, <3>3 DEF Log!Commit, CommitChange, OwnerReplies
      <3> QED
        BY <2>2, <3>4 DEF Log!Next, CommitChange
    <2>3. CASE Publish
      <3>1. publisher = "installing" /\ UNCHANGED <<log, final>>
        BY <2>3, Zenon DEF Publish
      <3>2. cache.present /\ ~final.taken
        BY <1>4, <3>1 DEF IInv, BridgeInv, FinalInv
      <3>3. PICK o \in {"accepted", "rejected", "timeout"} : InstallOutcome(cancelled, o) /\ Installed(o)
        BY <2>3 DEF Publish
      <3> QED
        BY <1>3, <1>4, <3>1, <3>2, <3>3
    <2>4. CASE FinalInstall
      <3>1. cli = "publishing" /\ UNCHANGED <<log, final>>
        BY <2>4, Zenon DEF FinalInstall
      <3>2. cache.present /\ ~final.taken
        BY <1>4, <3>1 DEF IInv, BridgeInv, FinalInv
      <3>3. PICK o \in {"accepted", "rejected", "timeout"} : InstallOutcome(freezeExpired, o) /\ Installed(o)
        BY <2>4 DEF FinalInstall
      <3> QED
        BY <1>3, <1>4, <3>1, <3>2, <3>3
    <2>5. CASE FreezeCore
      <3>1. core = log /\ final'.taken = TRUE /\ UNCHANGED <<log, core>>
        BY <1>4, <2>5 DEF IInv, FinalInv, FreezeCore
      <3> QED
        BY <3>1, Zenon DEF Log!Seal, Log!Next
    <2>6. CASE \E r \in Requests : Refuse(r) \/ Accept(r) \/ ReadFrame(r) \/ Serve(r)
      BY <2>1, <2>6, Zenon DEF Refuse, Accept, ReadFrame, Serve, SetReadDeadline, ReadFails, HandleFrame, SubmitDeclines,
                        Submit, Await, Leave
    <2>7. CASE OwnerTakes \/ OwnerEnds \/ CommitNoChange \/ RejectMutation
      BY <2>1, <2>7, Zenon DEF OwnerTakes, OwnerEnds, CommitNoChange, RejectMutation, OwnerReplies
    <2>8. CASE Tick \/ PublisherEnds \/ UNCHANGED vars
      BY <2>1, <2>8 DEF Tick, PublisherEnds, vars
    <2>9. CASE \/ CloseServerAdmission \/ CloseOwnerAdmission \/ Abort \/ BeginFinalization \/ FreezeContextExpires
               \/ PublisherStopped \/ PublisherStopFails \/ ServerDrained \/ OwnerDrained \/ DrainGivenUp
      BY <2>1, <2>9, Zenon DEF CloseServerAdmission, CloseOwnerAdmission, Abort, BeginFinalization, FreezeContextExpires,
                        PublisherStopped, PublisherStopFails, ServerDrained, OwnerDrained, DrainGivenUp, Advance
    <2>10. CASE FreezeRegistry \/ FinalMaterialize \/ StopIngestion \/ ServerClosed \/ OwnerClosed
      BY <2>1, <2>10, Zenon DEF FreezeRegistry, FinalMaterialize, StopIngestion, ServerClosed, OwnerClosed, Advance
    <2> QED
      BY <1>4, <2>2, <2>3, <2>4, <2>5, <2>6, <2>7, <2>8, <2>9, <2>10
      DEF Next, OwnerStep, PublisherStep, Finalization, Exited
  <1> QED
    BY <1>1, <1>4, Invariant, PTL DEF Spec, ImplementsLog, Log!Spec
=============================================================================
