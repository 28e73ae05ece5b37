--------------------------- MODULE HTTPEndpoints ---------------------------
(***************************************************************************)
(* The two HTTP endpoints of a runtime in the http ingestion mode, and     *)
(* what clients that use both can conclude: snapshots are posted through   *)
(* HTTPIngest, and /metrics is scraped as in Scrape.  The state they share *)
(* is the Holder: the last accepted snapshot is the one a scrape selects.  *)
(*   implementation/internal/cli/run.go  startIngestion                    *)
(***************************************************************************)
EXTENDS HTTPIngest, FiniteSetsExt

CONSTANTS
  Families,  \* Families[r]: the families of the snapshot that r posts
  Scrapes, Headers, Include, Exclude, Concurrent, Limit

VARIABLES
  request, stage, slots, active, answer,  \* of Scrape
  known      \* known[s]: the newest generation any client knew of when s began

\* Generation zero is the empty snapshot.
Current == [generation |-> Len(log), families |-> IF log = <<>> THEN {} ELSE Families[log[Len(log)]]]

S == INSTANCE Scrape WITH current <- Current

scrapeVars == <<request, stage, slots, active, answer, known>>

EndpointsInit ==
  /\ Init
  /\ S!Init
  /\ known = [s \in Scrapes |-> 0]

\* The generations named by an ACK that arrived or shown by a response.
Told ==
  {ack[r] : r \in {q \in Requests : delivered[q]}}
    \cup {active[s].generation : s \in {t \in Scrapes : answer[t] = 200}}

Post(r) == Ingest(r) /\ UNCHANGED scrapeVars

BeginScrape(s) ==
  /\ UNCHANGED vars
  /\ S!Begin(s)
  /\ known' = [known EXCEPT ![s] = Max(Told \cup {0})]

ServeScrape(s) ==
  /\ UNCHANGED <<vars, known>>
  /\ S!Acquire(s) \/ S!Select(s) \/ S!Respond(s)

EndpointsNext ==
  \/ \E r \in Requests : Post(r)
  \/ \E s \in Scrapes : BeginScrape(s) \/ ServeScrape(s)

EndpointsSpec == EndpointsInit /\ [][EndpointsNext]_<<vars, scrapeVars>>

-----------------------------------------------------------------------------
(* Properties *)

\* A client reads its own writes and nobody reads backwards: a scrape that
\* begins after an ACK named a generation, or after a response showed one,
\* selects that generation or a newer one, whole, however posts and scrapes
\* overlap (handler.go serveMetrics, holder.go Install and Active).
AcknowledgedIsExposed ==
  \A s \in Scrapes : stage[s] = "selected" \/ answer[s] = 200 =>
    LET g == active[s].generation IN
      /\ g >= known[s]
      /\ active[s].families = IF g = 0 THEN {} ELSE Families[log[g]]
=============================================================================
