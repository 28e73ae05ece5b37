------------------------ MODULE HTTPEndpointsProofs -------------------------
(***************************************************************************)
(* The safety properties of HTTPEndpoints for any posts, any scrapes, any  *)
(* limits and any selectors.                                               *)
(***************************************************************************)
EXTENDS HTTPEndpoints, WellFoundedInduction, TLAPS

(* The handler of a post holds the whole body, decoded. *)
Whole(r) ==
  /\ received[r] = body[r].wire
  /\ candidate[r] = IF body[r].encoding = "gzip" THEN body[r].decoded ELSE body[r].wire
  /\ body[r].encoding = "gzip" => body[r].intact

TypeInv ==
  /\ body \in [Requests -> AllBodies] /\ \A r \in Requests : body[r] \in Bodies[r]
  /\ pc \in [Requests -> {"headers", "reading", "publishing", "answered", "done"}]
  /\ received \in [Requests -> Nat]
  /\ candidate \in [Requests -> Nat]
  /\ status \in [Requests -> Nat]
  /\ ack \in [Requests -> 0..Len(log)]
  /\ delivered \in [Requests -> BOOLEAN]
  /\ log \in Seq(Requests)

(* A post is installed in the step that decides its status, and nothing    *)
(* about it changes afterwards.                                            *)
PostInv(r) ==
  /\ pc[r] \in {"headers", "reading", "publishing"} => r \notin Range(log) /\ ~delivered[r]
  /\ pc[r] = "publishing" \/ r \in Range(log) => Whole(r)
  /\ pc[r] \in {"answered", "done"} =>
       IF status[r] = 200 THEN ack[r] \in 1..Len(log) /\ log[ack[r]] = r ELSE r \notin Range(log)

IngestInv == TypeInv /\ \A r \in Requests : PostInv(r)

(* A snapshot the core has, or had: the one of its generation. *)
IsGeneration(snapshot) ==
  /\ snapshot.generation \in 0..Len(log)
  /\ snapshot.families = IF snapshot.generation = 0 THEN {} ELSE Families[log[snapshot.generation]]

(* What is known of a scrape was installed before it selects. *)
ScrapeInv ==
  /\ stage \in [Scrapes -> {"idle", "negotiated", "acquired", "selected", "done"}]
  /\ known \in [Scrapes -> 0..Len(log)]
  /\ DOMAIN active = Scrapes /\ answer \in [Scrapes -> Nat]
  /\ \A s \in Scrapes :
       /\ IsGeneration(active[s])
       /\ stage[s] \in {"idle", "negotiated", "acquired"} => answer[s] # 200
       /\ stage[s] = "selected" \/ answer[s] = 200 => active[s].generation >= known[s]

IInv == IngestInv /\ ScrapeInv

-----------------------------------------------------------------------------
(* Lemmas *)

(* A set of numbers up to n has its maximum. *)
LEMMA MaxOf ==
  ASSUME NEW n \in Nat, NEW V, V \subseteq 0..n, V # {}
  PROVE  Max(V) \in V
  <1> DEFINE R == OpToRel(<, Nat)
             T == {k \in Nat : n - k \in V}
  <1>0. \A g \in V : g \in Nat /\ n - g \in T /\ n - (n - g) = g
    OBVIOUS
  <1>1. T \subseteq Nat /\ T # {}
    BY <1>0, Zenon
  <1>2. \A a, b \in Nat : a < b => <<a, b>> \in R
    BY DEF OpToRel
  <1>3. IsWellFoundedOn(R, Nat)
    BY NatLessThanWellFounded, Zenon
  <1>4. \E x \in T : \A y \in T : ~(<<y, x>> \in R)
    <2> HIDE DEF R, T
    <2> QED BY <1>1, <1>3, WFMin
  <1>5. PICK x \in T : \A y \in T : ~(y < x)
    <2> HIDE DEF R
    <2> QED BY <1>1, <1>2, <1>4
  <1>6. x \in Nat /\ n - x \in V
    OBVIOUS
  <1>7. \A g \in V : n - x >= g
    <2> TAKE g \in V
    <2>1. ~(n - g < x) /\ g \in Nat
      BY <1>0, <1>5
    <2> QED
      BY <1>6, <2>1
  <1>8. \E m \in V : \A g \in V : m >= g
    BY <1>6, <1>7
  <1> QED
    BY <1>8, Zenon DEF Max

LEMMA Appended ==
  ASSUME NEW V, NEW q \in Seq(V), NEW e \in V
  PROVE  /\ Append(q, e) \in Seq(V) /\ Len(Append(q, e)) = Len(q) + 1 /\ Len(q) \in Nat
         /\ Append(q, e)[Len(q) + 1] = e
         /\ \A i \in 1..Len(q) : Append(q, e)[i] = q[i]
         /\ Range(Append(q, e)) = Range(q) \cup {e}
  <1>1. /\ Append(q, e) \in Seq(V) /\ Len(Append(q, e)) = Len(q) + 1 /\ Len(q) \in Nat
        /\ Append(q, e)[Len(q) + 1] = e
        /\ \A i \in 1..Len(q) : Append(q, e)[i] = q[i]
        /\ DOMAIN q = 1..Len(q) /\ DOMAIN Append(q, e) = 1..(Len(q) + 1)
    OBVIOUS
  <1>2. Range(Append(q, e)) = Range(q) \cup {e}
    BY <1>1 DEF Range
  <1> QED
    BY <1>1, <1>2

(* decode refuses or returns everything. *)
LEMMA DecodeIsWhole ==
  ASSUME NEW b, b.wire \in Nat, b.decoded \in Nat, b.intact \in BOOLEAN, decode(b).status = 0
  PROVE  /\ decode(b).size = IF b.encoding = "gzip" THEN b.decoded ELSE b.wire
         /\ b.encoding = "gzip" => b.intact
  <1> DEFINE full == IF b.encoding = "gzip" THEN b.decoded ELSE b.wire
  <1>1. full \in Nat /\ DecodedBytes \in Nat
    BY BytesAssumption
  <1>2. DecodeLimit(full) > DecodedBytes <=> full > DecodedBytes
    BY <1>1 DEF DecodeLimit, min
  <1>3. ~(full > DecodedBytes) => DecodeLimit(full) = full
    BY <1>1 DEF DecodeLimit, min
  <1>4. CASE b.encoding = "gzip" /\ ~b.intact /\ b.decoded <= DecodedBytes
    BY <1>1, <1>2, <1>4 DEF decode
  <1>5. CASE ~(b.encoding = "gzip" /\ ~b.intact /\ b.decoded <= DecodedBytes) /\ full > DecodedBytes
    BY <1>1, <1>2, <1>5 DEF decode
  <1>6. CASE ~(b.encoding = "gzip" /\ ~b.intact /\ b.decoded <= DecodedBytes) /\ ~(full > DecodedBytes)
    BY <1>1, <1>2, <1>3, <1>6 DEF decode
  <1> QED
    BY <1>4, <1>5, <1>6

LEMMA InitInv == EndpointsInit => IInv
  <1> SUFFICES ASSUME EndpointsInit PROVE IInv
    OBVIOUS
  <1>1. IngestInv
    BY DEF EndpointsInit, Init, IngestInv, TypeInv, PostInv, Range
  <1>2. ScrapeInv
    BY DEF EndpointsInit, Init, S!Init, S!Empty, ScrapeInv, IsGeneration
  <1> QED
    BY <1>1, <1>2 DEF IInv

-----------------------------------------------------------------------------
(* Posts *)

(* Steps of one post that install nothing. *)
LEMMA QuietPost ==
  ASSUME IngestInv, NEW r \in Requests, UNCHANGED <<body, ack, log>>,
         pc' \in [Requests -> {"headers", "reading", "publishing", "answered", "done"}],
         received' \in [Requests -> Nat], candidate' \in [Requests -> Nat],
         status' \in [Requests -> Nat], delivered' \in [Requests -> BOOLEAN],
         \A q \in Requests \ {r} : /\ pc'[q] = pc[q] /\ received'[q] = received[q] /\ candidate'[q] = candidate[q]
                                   /\ status'[q] = status[q] /\ delivered'[q] = delivered[q],
         PostInv(r)'
  PROVE  IngestInv'
  <1>1. TypeInv'
    BY DEF IngestInv, TypeInv
  <1>2. ASSUME NEW q \in Requests \ {r} PROVE PostInv(q)'
    <2>1. PostInv(q) /\ pc'[q] = pc[q] /\ status'[q] = status[q]
          /\ (delivered'[q] = TRUE <=> delivered[q] = TRUE)
      BY DEF IngestInv
    <2>2. Whole(q) => Whole(q)'
      BY DEF Whole
    <2>3. delivered[q] \in BOOLEAN /\ delivered'[q] \in BOOLEAN
      BY DEF IngestInv, TypeInv
    <2> QED
      BY <2>1, <2>2, <2>3 DEF PostInv
  <1> QED
    BY <1>1, <1>2 DEF IngestInv

(* A refusal: any status but 200, and the snapshot was not installed. *)
LEMMA Refusing ==
  ASSUME IngestInv, NEW r \in Requests, pc[r] \in {"headers", "reading", "publishing"},
         NEW code \in Nat \ {200}, Answer(r, code),
         UNCHANGED <<body, received, candidate, ack, delivered, log>>
  PROVE  IngestInv'
  <1>1. /\ pc' \in [Requests -> {"headers", "reading", "publishing", "answered", "done"}]
        /\ status' \in [Requests -> Nat] /\ pc'[r] = "answered" /\ status'[r] = code
        /\ \A q \in Requests \ {r} : pc'[q] = pc[q] /\ status'[q] = status[q]
    BY DEF IngestInv, TypeInv, Answer
  <1>2. PostInv(r)'
    BY <1>1 DEF IngestInv, PostInv, Whole
  <1>3. /\ received' \in [Requests -> Nat] /\ candidate' \in [Requests -> Nat]
        /\ delivered' \in [Requests -> BOOLEAN] /\ UNCHANGED <<body, ack, log>>
        /\ UNCHANGED <<received, candidate, delivered>>
    BY Zenon DEF IngestInv, TypeInv
  <1>4. \A q \in Requests \ {r} : /\ pc'[q] = pc[q] /\ received'[q] = received[q] /\ candidate'[q] = candidate[q]
                                   /\ status'[q] = status[q] /\ delivered'[q] = delivered[q]
    BY <1>1, <1>3
  <1> QED
    BY <1>1, <1>2, <1>3, <1>4, QuietPost

LEMMA HeaderRefusal ==
  ASSUME NEW b, HeaderStatus(b) # 0
  PROVE  HeaderStatus(b) \in Nat \ {200}
  BY DEF HeaderStatus

LEMMA PostSteps ==
  ASSUME IngestInv, NEW r \in Requests, Ingest(r)
  PROVE  IngestInv'
  <1>0. body[r].wire \in Nat /\ body[r].decoded \in Nat /\ body[r].intact \in BOOLEAN /\ WireBytes \in Nat
    BY BytesAssumption DEF IngestInv, TypeInv
  <1>1. CASE Begin(r)
    <2>1. CASE HeaderStatus(body[r]) # 0
      BY <1>1, <2>1, HeaderRefusal, Refusing DEF Begin
    <2>2. CASE HeaderStatus(body[r]) = 0
      <3>1. PostInv(r)'
        BY <1>1, <2>2 DEF Begin, IngestInv, TypeInv, PostInv, Whole
      <3> QED
        BY <1>1, <2>2, <3>1, QuietPost, Zenon DEF Begin, IngestInv, TypeInv
    <2> QED
      BY <2>1, <2>2
  <1>2. CASE Receive(r)
    <2>1. PICK n \in (received[r] + 1)..ReadLimit(body[r].wire) : received' = [received EXCEPT ![r] = n]
      BY <1>2, Zenon DEF Receive
    <2>2. ReadLimit(body[r].wire) \in Nat /\ received[r] \in Nat
      BY <1>0 DEF ReadLimit, min, IngestInv, TypeInv
    <2>3. n \in Nat
      BY <2>1, <2>2
    <2>4. PostInv(r)'
      BY <1>2 DEF Receive, IngestInv, PostInv, Whole
    <2> QED
      BY <1>2, <2>1, <2>3, <2>4, QuietPost, Zenon DEF Receive, IngestInv, TypeInv
  <1>3. CASE ReadFails(r)
    BY <1>3, Refusing DEF ReadFails
  <1>4. CASE Decode(r)
    <2> DEFINE result == decode(body[r])
               code == IF received[r] > WireBytes THEN 413 ELSE result.status
    <2>1. CASE code # 0
      <3>1. code \in Nat \ {200}
        <4>1. result.status \in {400, 413, 0}
          BY DEF decode
        <4> QED
          BY <2>1, <4>1
      <3> QED
        BY <1>4, <2>1, <3>1, Refusing DEF Decode
    <2>2. CASE code = 0
      <3>1. received[r] = body[r].wire /\ result.status = 0
        BY <1>0, <1>4, <2>2 DEF Decode, ReadLimit, min
      <3>2. /\ result.size = IF body[r].encoding = "gzip" THEN body[r].decoded ELSE body[r].wire
            /\ body[r].encoding = "gzip" => body[r].intact
        BY <1>0, <3>1, DecodeIsWhole
      <3>3. result.size \in Nat
        BY <1>0, <3>2
      <3>4. /\ candidate' = [candidate EXCEPT ![r] = result.size]
            /\ pc[r] = "reading" /\ pc' = [pc EXCEPT ![r] = "publishing"]
            /\ UNCHANGED <<body, received, status, ack, delivered, log>>
        BY <1>4, <2>2 DEF Decode
      <3> HIDE DEF result
      <3>5. PostInv(r)'
        BY <3>1, <3>2, <3>4 DEF IngestInv, TypeInv, PostInv, Whole
      <3> QED
        BY <3>3, <3>4, <3>5, QuietPost, Zenon DEF IngestInv, TypeInv
    <2> QED
      BY <2>1, <2>2
  <1>5. CASE Accepted(r)
    <2>1. /\ log' = Append(log, r) /\ pc[r] = "publishing"
          /\ UNCHANGED <<body, received, candidate, delivered>>
          /\ ack' = [ack EXCEPT ![r] = Len(log')]
          /\ status' = [status EXCEPT ![r] = 200] /\ pc' = [pc EXCEPT ![r] = "answered"]
      BY <1>5 DEF Accepted, Answer
    <2>2. /\ log' \in Seq(Requests) /\ Len(log') = Len(log) + 1 /\ Len(log) \in Nat
          /\ log'[Len(log) + 1] = r
          /\ \A i \in 1..Len(log) : log'[i] = log[i]
          /\ Range(log') = Range(log) \cup {r}
      BY <2>1, Appended DEF IngestInv, TypeInv
    <2>3. TypeInv'
      BY <2>1, <2>2 DEF IngestInv, TypeInv
    <2>4. PostInv(r)'
      BY <2>1, <2>2 DEF IngestInv, TypeInv, PostInv, Whole
    <2>5. ASSUME NEW q \in Requests \ {r} PROVE PostInv(q)'
      <3>1. /\ pc'[q] = pc[q] /\ ack'[q] = ack[q] /\ status'[q] = status[q]
            /\ (q \in Range(log') <=> q \in Range(log))
        BY <2>1, <2>2 DEF IngestInv, TypeInv
      <3>2. ack[q] \in 1..Len(log) => ack[q] \in 1..Len(log') /\ log'[ack[q]] = log[ack[q]]
        BY <2>2
      <3> QED
        BY <2>1, <3>1, <3>2 DEF IngestInv, PostInv, Whole
    <2> QED
      BY <2>3, <2>4, <2>5 DEF IngestInv
  <1>6. CASE Refused(r)
    BY <1>6, Refusing DEF Refused, RefusalStatuses
  <1>7. CASE Deliver(r)
    <2>1. PostInv(r)'
      BY <1>7 DEF Deliver, IngestInv, TypeInv, PostInv, Whole
    <2>2. /\ pc' \in [Requests -> {"headers", "reading", "publishing", "answered", "done"}]
          /\ delivered' \in [Requests -> BOOLEAN]
          /\ \A q \in Requests \ {r} : pc'[q] = pc[q] /\ delivered'[q] = delivered[q]
      BY <1>7, Zenon DEF Deliver, IngestInv, TypeInv
    <2>3. /\ received' \in [Requests -> Nat] /\ candidate' \in [Requests -> Nat]
          /\ status' \in [Requests -> Nat] /\ UNCHANGED <<body, ack, log, received, candidate, status>>
      BY <1>7, Zenon DEF Deliver, IngestInv, TypeInv
    <2> QED
      BY <2>1, <2>2, <2>3, QuietPost, Zenon
  <1> QED
    BY <1>1, <1>2, <1>3, <1>4, <1>5, <1>6, <1>7 DEF Ingest

-----------------------------------------------------------------------------
(* Scrapes *)

(* The log only grows, so the snapshots selected so far stay generations. *)
LEMMA LogGrows ==
  ASSUME IngestInv, NEW r \in Requests, Ingest(r)
  PROVE  /\ Len(log) \in Nat /\ Len(log') \in Nat /\ Len(log) <= Len(log')
         /\ \A i \in 1..Len(log) : log'[i] = log[i]
  <1>1. CASE Accepted(r)
    BY <1>1, Appended DEF Accepted, IngestInv, TypeInv
  <1>2. CASE ~Accepted(r)
    <2>1. log' = log
      BY <1>2 DEF Ingest, Begin, Receive, ReadFails, Decode, Refused, Deliver
    <2> QED
      BY <2>1 DEF IngestInv, TypeInv
  <1> QED
    BY <1>1, <1>2

LEMMA PostKeepsScrapes ==
  ASSUME IInv, NEW r \in Requests, Post(r)
  PROVE  ScrapeInv'
  <1>1. UNCHANGED <<stage, active, answer, known>> /\ Ingest(r)
    BY DEF Post, scrapeVars
  <1>2. /\ Len(log) \in Nat /\ Len(log') \in Nat /\ Len(log) <= Len(log')
        /\ \A i \in 1..Len(log) : log'[i] = log[i]
    BY <1>1, LogGrows DEF IInv
  <1>3. \A s \in Scrapes : IsGeneration(active[s])'
    <2> TAKE s \in Scrapes
    <2>1. IsGeneration(active[s])
      BY DEF IInv, ScrapeInv
    <2>2. active[s].generation \in 0..Len(log')
      BY <1>2, <2>1 DEF IsGeneration
    <2>3. active[s].generation # 0 => log'[active[s].generation] = log[active[s].generation]
      BY <1>2, <2>1 DEF IsGeneration
    <2> QED
      BY <1>1, <2>1, <2>2, <2>3 DEF IsGeneration
  <1>4. known' \in [Scrapes -> 0..Len(log')]
    BY <1>1, <1>2 DEF IInv, ScrapeInv
  <1> QED
    BY <1>1, <1>3, <1>4 DEF IInv, ScrapeInv

(* The active snapshot of the core is the newest generation. *)
LEMMA CurrentIsGeneration ==
  ASSUME IInv
  PROVE  IsGeneration(Current) /\ Current.generation = Len(log) /\ Len(log) \in Nat
  BY DEF Current, IsGeneration, IInv, IngestInv, TypeInv

LEMMA ScrapeRefusal ==
  ASSUME NEW q, S!HeaderStatus(q) # 0
  PROVE  S!HeaderStatus(q) \in Nat \ {200}
  BY DEF S!HeaderStatus

LEMMA BeginStep ==
  ASSUME IInv, NEW s \in Scrapes, BeginScrape(s)
  PROVE  ScrapeInv'
  <1>1. /\ UNCHANGED <<log, active>>
        /\ stage[s] = "idle"
        /\ known' = [known EXCEPT ![s] = Max(Told \cup {0})]
    BY DEF BeginScrape, vars, S!Begin
  <1>2. Told \cup {0} \subseteq 0..Len(log)
    <2>1. \A r \in Requests : ack[r] \in 0..Len(log)
      BY DEF IInv, IngestInv, TypeInv
    <2>2. \A t \in Scrapes : active[t].generation \in 0..Len(log)
      BY DEF IInv, ScrapeInv, IsGeneration
    <2>3. 0 \in 0..Len(log)
      BY DEF IInv, IngestInv, TypeInv
    <2> QED
      BY <2>1, <2>2, <2>3 DEF Told
  <1>3. Max(Told \cup {0}) \in 0..Len(log)
    <2>1. Len(log) \in Nat /\ Told \cup {0} # {}
      BY DEF IInv, IngestInv, TypeInv
    <2> QED
      BY <1>2, <2>1, MaxOf
  <1>4. \/ S!Answer(s, S!HeaderStatus(request[s])) /\ S!HeaderStatus(request[s]) # 0
        \/ stage' = [stage EXCEPT ![s] = "negotiated"] /\ UNCHANGED answer
    BY DEF BeginScrape, S!Begin
  <1>5. /\ stage' \in [Scrapes -> {"idle", "negotiated", "acquired", "selected", "done"}]
        /\ answer' \in [Scrapes -> Nat]
        /\ stage'[s] # "selected" /\ answer'[s] # 200
        /\ \A t \in Scrapes \ {s} : stage'[t] = stage[t] /\ answer'[t] = answer[t]
    <2>1. CASE S!Answer(s, S!HeaderStatus(request[s])) /\ S!HeaderStatus(request[s]) # 0
      <3>1. PICK code \in Nat \ {200} : /\ answer' = [answer EXCEPT ![s] = code]
                                        /\ stage' = [stage EXCEPT ![s] = "done"]
        BY <2>1, ScrapeRefusal, Zenon DEF S!Answer
      <3> QED
        BY <3>1 DEF IInv, ScrapeInv
    <2>2. CASE stage' = [stage EXCEPT ![s] = "negotiated"] /\ UNCHANGED answer
      BY <1>1, <2>2 DEF IInv, ScrapeInv
    <2> QED
      BY <1>4, <2>1, <2>2
  <1>6. \A t \in Scrapes : IsGeneration(active[t])'
    BY <1>1 DEF IInv, ScrapeInv, IsGeneration
  <1>7. known' \in [Scrapes -> 0..Len(log')] /\ \A t \in Scrapes \ {s} : known'[t] = known[t]
    BY <1>1, <1>3 DEF IInv, ScrapeInv
  <1> QED
    BY <1>1, <1>5, <1>6, <1>7 DEF IInv, ScrapeInv

LEMMA ServeStep ==
  ASSUME IInv, NEW s \in Scrapes, ServeScrape(s)
  PROVE  ScrapeInv'
  <1>0. UNCHANGED <<log, known>>
    BY DEF ServeScrape, vars
  <1>1. CASE S!Acquire(s)
    <2>1. /\ stage' \in [Scrapes -> {"idle", "negotiated", "acquired", "selected", "done"}]
          /\ answer' \in [Scrapes -> Nat]
          /\ stage'[s] # "selected" /\ answer'[s] # 200
          /\ \A t \in Scrapes \ {s} : stage'[t] = stage[t] /\ answer'[t] = answer[t]
          /\ active' = active
      <3>1. CASE slots < Concurrent
        BY <1>1, <3>1 DEF S!Acquire, IInv, ScrapeInv
      <3>2. CASE ~(slots < Concurrent)
        <4>1. /\ answer' = [answer EXCEPT ![s] = 503] /\ stage' = [stage EXCEPT ![s] = "done"]
              /\ active' = active
          BY <1>1, <3>2 DEF S!Acquire, S!Answer
        <4> QED
          BY <4>1 DEF IInv, ScrapeInv
      <3> QED
        BY <3>1, <3>2
    <2>2. \A t \in Scrapes : IsGeneration(active[t])'
      BY <1>0, <2>1 DEF IInv, ScrapeInv, IsGeneration
    <2> QED
      BY <1>0, <2>1, <2>2 DEF IInv, ScrapeInv
  <1>2. CASE S!Select(s)
    <2>1. /\ stage' = [stage EXCEPT ![s] = "selected"] /\ stage[s] = "acquired"
          /\ active' = [active EXCEPT ![s] = Current] /\ answer' = answer
      BY <1>2 DEF S!Select
    <2>2. IsGeneration(Current) /\ Current.generation = Len(log) /\ Len(log) \in Nat
      BY CurrentIsGeneration
    <2> HIDE DEF Current
    <2>3. active'[s] = Current /\ \A t \in Scrapes \ {s} : active'[t] = active[t]
      BY <2>1 DEF IInv, ScrapeInv
    <2>4. ASSUME NEW t \in Scrapes PROVE IsGeneration(active[t])'
      <3>1. active'[t] = Current \/ active'[t] = active[t]
        BY <2>3
      <3>2. IsGeneration(active'[t])
        BY <2>2, <3>1 DEF IInv, ScrapeInv
      <3> QED
        BY <1>0, <3>2 DEF IsGeneration
    <2>5. active'[s].generation >= known'[s]
      BY <1>0, <2>2, <2>3 DEF IInv, ScrapeInv
    <2> QED
      BY <1>0, <2>1, <2>3, <2>4, <2>5 DEF IInv, ScrapeInv
  <1>3. CASE S!Respond(s)
    <2>1. /\ stage' = [stage EXCEPT ![s] = "done"] /\ stage[s] = "selected"
          /\ active' = active
          /\ \E code \in {503, 200, 0} : answer' = [answer EXCEPT ![s] = code]
      BY <1>3 DEF S!Respond, S!Answer
    <2>2. \A t \in Scrapes : IsGeneration(active[t])'
      BY <1>0, <2>1 DEF IInv, ScrapeInv, IsGeneration
    <2> QED
      BY <1>0, <2>1, <2>2 DEF IInv, ScrapeInv
  <1> QED
    BY <1>1, <1>2, <1>3 DEF ServeScrape

-----------------------------------------------------------------------------
(* Theorems *)

(* The inductive invariant, for any interleaving of posts and scrapes. *)
THEOREM Invariant == EndpointsSpec => []IInv
  <1>1. IInv /\ [EndpointsNext]_<<vars, scrapeVars>> => IInv'
    <2> SUFFICES ASSUME IInv, [EndpointsNext]_<<vars, scrapeVars>> PROVE IInv'
      OBVIOUS
    <2>1. ASSUME NEW r \in Requests, Post(r) PROVE IInv'
      BY <2>1, PostSteps, PostKeepsScrapes DEF IInv, Post
    <2>2. ASSUME UNCHANGED vars PROVE IngestInv'
      BY <2>2 DEF IInv, IngestInv, TypeInv, PostInv, Whole, vars
    <2>3. ASSUME NEW s \in Scrapes, BeginScrape(s) PROVE IInv'
      BY <2>2, <2>3, BeginStep, Zenon DEF IInv, BeginScrape
    <2>4. ASSUME NEW s \in Scrapes, ServeScrape(s) PROVE IInv'
      BY <2>2, <2>4, ServeStep DEF IInv, ServeScrape, vars
    <2>5. CASE UNCHANGED <<vars, scrapeVars>>
      BY <2>2, <2>5 DEF IInv, ScrapeInv, IsGeneration, vars, scrapeVars
    <2> QED
      BY <2>1, <2>3, <2>4, <2>5 DEF EndpointsNext
  <1> QED
    BY <1>1, InitInv, PTL DEF EndpointsSpec

(* handler.go never hands a part of a body to the core. *)
THEOREM WholeBodies == EndpointsSpec => []NothingTruncated
  <1>1. IInv => NothingTruncated
    <2> SUFFICES ASSUME IInv, NEW r \in Range(log) PROVE Whole(r)
      BY DEF NothingTruncated, Whole
    <2>1. r \in Requests
      BY DEF IInv, IngestInv, TypeInv, Range
    <2> QED
      BY <2>1 DEF IInv, IngestInv, PostInv
  <1> QED
    BY <1>1, Invariant, PTL

(* The status of a delivered response says whether and where the snapshot  *)
(* was installed.                                                          *)
THEOREM HonestStatus == EndpointsSpec => []StatusIsHonest
  <1>1. IInv => StatusIsHonest
    BY DEF IInv, IngestInv, TypeInv, PostInv, StatusIsHonest
  <1> QED
    BY <1>1, Invariant, PTL

(* A scrape shows what was acknowledged, or shown, before it began.        *)
THEOREM ReadYourWrites == EndpointsSpec => []AcknowledgedIsExposed
  <1>1. IInv => AcknowledgedIsExposed
    BY DEF IInv, ScrapeInv, IsGeneration, AcknowledgedIsExposed
  <1> QED
    BY <1>1, Invariant, PTL
=============================================================================
