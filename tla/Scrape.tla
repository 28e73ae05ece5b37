------------------------------- MODULE Scrape -------------------------------
(***************************************************************************)
(* Scrapes of /metrics against snapshots that change meanwhile:            *)
(*   implementation/internal/exposition/handler.go   serveMetrics          *)
(*   implementation/internal/exposition/response.go  Limiter, Prepare      *)
(*   implementation/internal/exposition/filter.go    Filter                *)
(* Draining and the final wait, which the same handler takes part in, are  *)
(* in FinalWait; the self-metrics appended to a response are left out.     *)
(* A snapshot is its set of family names; a name is a sequence, so that a  *)
(* selector can be a prefix of it.  HTTPEndpoints supplies the snapshots.  *)
(***************************************************************************)
EXTENDS Integers, Sequences, FiniteSets

CONSTANTS
  Scrapes,     \* the requests
  Headers,     \* Headers[s]: the methods and headers s may have
  Include,     \* the include selectors
  Exclude,     \* the exclude selectors
  Concurrent,  \* capacity of Limiter
  Limit        \* how many families fit in a response

VARIABLES
  current,  \* Holder.active: the active snapshot and its generation
  request,  \* request[s]: the method and headers of s
  stage,    \* where its handler is
  slots,    \* taken slots of Limiter.capacity
  active,   \* active[s]: the snapshot the handler selected
  answer    \* answer[s]: the status that reached the scraper, 0 for none

-----------------------------------------------------------------------------
(* filter.go *)

Matches(selector, name) ==
  \/ selector.kind = "name" /\ name = selector.value
  \/ /\ selector.kind = "prefix"
     /\ Len(name) >= Len(selector.value)
     /\ SubSeq(name, 1, Len(selector.value)) = selector.value

matchesAny(selectors, name) == \E s \in selectors : Matches(s, name)

Includes(name) ==
  /\ Include # {} => matchesAny(Include, name)
  /\ ~matchesAny(Exclude, name)

\* The families Encode writes of a snapshot.
Included(families) == {f \in families : Includes(f)}

-----------------------------------------------------------------------------
(* Negotiation.  A header is a sequence of items with a name and a quality  *)
(* (0 when it is out of range or not a number), empty when it is missing.   *)

Positive(header, names) ==
  \E i \in 1..Len(header) : header[i].name \in names /\ header[i].quality > 0

negotiateFormat(header) ==
  IF header = <<>> THEN "prometheus"
  ELSE IF Positive(header, {"application/openmetrics-text"}) THEN "openmetrics"
  ELSE IF Positive(header, {"text/plain", "text/*", "*/*"}) THEN "prometheus"
  ELSE "none"

negotiateEncoding(header) ==
  IF Positive(header, {"gzip"}) THEN "gzip"
  ELSE IF \E i \in 1..Len(header) : header[i].name \in {"identity", "*"} /\ header[i].quality = 0 THEN "none"
  ELSE "identity"

-----------------------------------------------------------------------------
Empty == [generation |-> 0, families |-> {}]

Init ==
  /\ request \in [Scrapes -> UNION {Headers[s] : s \in Scrapes}]
  /\ \A s \in Scrapes : request[s] \in Headers[s]
  /\ stage = [s \in Scrapes |-> "idle"]
  /\ slots = 0
  /\ active = [s \in Scrapes |-> Empty]
  /\ answer = [s \in Scrapes |-> 0]

HeaderStatus(r) ==
  IF ~r.get THEN 405
  ELSE IF negotiateFormat(r.accept) = "none" \/ negotiateEncoding(r.encoding) = "none" THEN 406
  ELSE 0

Answer(s, code) ==
  /\ answer' = [answer EXCEPT ![s] = code]
  /\ stage' = [stage EXCEPT ![s] = "done"]

Begin(s) ==
  /\ stage[s] = "idle"
  /\ IF HeaderStatus(request[s]) # 0
       THEN Answer(s, HeaderStatus(request[s]))
       ELSE stage' = [stage EXCEPT ![s] = "negotiated"] /\ UNCHANGED answer
  /\ UNCHANGED <<current, request, slots, active>>

Acquire(s) ==
  /\ stage[s] = "negotiated"
  /\ IF slots < Concurrent
       THEN slots' = slots + 1 /\ stage' = [stage EXCEPT ![s] = "acquired"] /\ UNCHANGED answer
       ELSE Answer(s, 503) /\ UNCHANGED slots
  /\ UNCHANGED <<current, request, active>>

\* Variant: the handler keeps the snapshot of an earlier scrape.
SelectCached(s) ==
  /\ stage[s] = "acquired"
  /\ \E snapshot \in {current} \cup {active[t] : t \in {u \in Scrapes : stage[u] = "done"}} :
       active' = [active EXCEPT ![s] = snapshot]
  /\ stage' = [stage EXCEPT ![s] = "selected"]
  /\ UNCHANGED <<current, request, slots, answer>>

\* Holder.Active, loaded once for the whole response.
Select(s) ==
  /\ stage[s] = "acquired"
  /\ active' = [active EXCEPT ![s] = current]
  /\ stage' = [stage EXCEPT ![s] = "selected"]
  /\ UNCHANGED <<current, request, slots, answer>>

\* Prepare encodes and checks the size before anything is written; Write may
\* time out or fail.  The deferred Release follows either.
Respond(s) ==
  /\ stage[s] = "selected"
  /\ IF Cardinality(Included(active[s].families)) > Limit
       THEN Answer(s, 503)
       ELSE \E code \in {200, 0} : Answer(s, code)
  /\ slots' = slots - 1
  /\ UNCHANGED <<current, request, active>>

=============================================================================
