----------------------------- MODULE HTTPIngest -----------------------------
(***************************************************************************)
(* The HTTP transport: implementation/internal/httpingest/handler.go, with *)
(* the server around it (net/http) and the core behind it seen through     *)
(* what Core.Publish returns.                                              *)
(*                                                                         *)
(* A request is what its handling tells apart: whether its path, method    *)
(* and media type are right, its encoding, the length it declares (-1 for  *)
(* a chunked body), the bytes its body has, whether they are a whole gzip  *)
(* stream, and the bytes they decode to: up to where a broken stream       *)
(* breaks, none if that is its header.  Its body arrives in pieces and can *)
(* stop arriving at any time.                                              *)
(***************************************************************************)
EXTENDS Integers, Sequences, Functions

CONSTANTS
  Requests,      \* the requests
  Bodies,        \* Bodies[r]: what r may be
  WireBytes,     \* Config.WireBytes
  DecodedBytes   \* Config.DecodedBytes

ASSUME BytesAssumption ==
  /\ WireBytes \in Nat \ {0} /\ DecodedBytes \in Nat \ {0}
  /\ \A r \in Requests : \A b \in Bodies[r] : b.wire \in Nat /\ b.decoded \in Nat /\ b.intact \in BOOLEAN

VARIABLES
  body,       \* body[r]: the request
  pc,         \* where its handler is
  received,   \* how many bytes of the body the handler holds
  candidate,  \* how many decoded bytes it hands to the core
  status,     \* the status written, 0 before
  ack,        \* the generation an ACK names
  delivered,  \* the response reached the client
  log         \* the snapshots accepted by the core: log[g] is generation g

vars == <<body, pc, received, candidate, status, ack, delivered, log>>

AllBodies == UNION {Bodies[r] : r \in Requests}

min(a, b) == IF a < b THEN a ELSE b

Init ==
  /\ body \in [Requests -> AllBodies]
  /\ \A r \in Requests : body[r] \in Bodies[r]
  /\ pc = [r \in Requests |-> "headers"]
  /\ received = [r \in Requests |-> 0]
  /\ candidate = [r \in Requests |-> 0]
  /\ status = [r \in Requests |-> 0]
  /\ ack = [r \in Requests |-> 0]
  /\ delivered = [r \in Requests |-> FALSE]
  /\ log = <<>>

Answer(r, code) ==
  /\ status' = [status EXCEPT ![r] = code]
  /\ pc' = [pc EXCEPT ![r] = "answered"]

\* JSON without parameters, or the snapshot media type with version=1 alone.
acceptedMediaType(media) ==
  media \in {[type |-> "json", parameters |-> {}], [type |-> "snapshot", parameters |-> {"version=1"}]}

\* What the headers are refused with, the checks in their order, 0 if with
\* nothing.
HeaderStatus(b) ==
  IF ~b.path THEN 404
  ELSE IF ~b.post THEN 405
  ELSE IF ~acceptedMediaType(b.media) THEN 415
  ELSE IF b.encoding \notin {"identity", "gzip"} THEN 415
  ELSE IF b.declared > WireBytes THEN 413
  ELSE 0

Begin(r) ==
  /\ pc[r] = "headers"
  /\ IF HeaderStatus(body[r]) # 0
       THEN Answer(r, HeaderStatus(body[r]))
       ELSE pc' = [pc EXCEPT ![r] = "reading"] /\ UNCHANGED status
  /\ UNCHANGED <<body, received, candidate, ack, delivered, log>>

\* The bytes io.LimitReader lets through of a body of this size.
ReadLimit(size) == min(size, WireBytes + 1)

Receive(r) ==
  /\ pc[r] = "reading"
  /\ \E n \in (received[r] + 1)..ReadLimit(body[r].wire) :
       received' = [received EXCEPT ![r] = n]
  /\ UNCHANGED <<body, pc, candidate, status, ack, delivered, log>>

\* The body fails before its end: its read deadline passed or the client is
\* gone.  Whether the context of the request is done by then is up to the
\* server; the response may reach nobody.
ReadFails(r) ==
  /\ pc[r] = "reading"
  /\ received[r] < ReadLimit(body[r].wire)
  /\ \E code \in {408, 400} : Answer(r, code)
  /\ UNCHANGED <<body, received, candidate, ack, delivered, log>>

\* Variant: what does not fit is cut off.
DecodeLimitExact(size) == min(size, DecodedBytes)

DecodeLimit(size) == min(size, DecodedBytes + 1)

\* decode: what the bytes give under the limit, or the status of the refusal.
\* A reader stopped by the limit does not reach where a gzip stream breaks
\* after it; one that breaks before, in its header or later, is malformed.
decode(b) ==
  LET size == DecodeLimit(IF b.encoding = "gzip" THEN b.decoded ELSE b.wire)
  IN  IF b.encoding = "gzip" /\ ~b.intact /\ b.decoded <= DecodedBytes THEN [size |-> 0, status |-> 400]
      ELSE IF size > DecodedBytes THEN [size |-> 0, status |-> 413]
      ELSE [size |-> size, status |-> 0]

\* The end of the body, its size and decode.
Decode(r) ==
  /\ pc[r] = "reading"
  /\ received[r] = ReadLimit(body[r].wire)
  /\ LET result == decode(body[r])
         code   == IF received[r] > WireBytes THEN 413 ELSE result.status
     IN  IF code # 0
           THEN Answer(r, code) /\ UNCHANGED candidate
           ELSE /\ candidate' = [candidate EXCEPT ![r] = result.size]
                /\ pc' = [pc EXCEPT ![r] = "publishing"]
                /\ UNCHANGED status
  /\ UNCHANGED <<body, received, ack, delivered, log>>

\* Core.Publish accepted the candidate as the next generation.
Accepted(r) ==
  /\ pc[r] = "publishing"
  /\ log' = Append(log, r)
  /\ ack' = [ack EXCEPT ![r] = Len(log')]
  /\ Answer(r, 200)
  /\ UNCHANGED <<body, received, candidate, delivered>>

\* Statuses of Core.Publish's refusals: rejectionStatus, busy, timeout.
RefusalStatuses == {413, 422, 409, 500, 400} \cup {429, 408}

\* Variant: a request whose client is gone is answered with a timeout after
\* the core took it.
AcceptedAsTimeout(r) ==
  /\ pc[r] = "publishing"
  /\ \E code \in RefusalStatuses : Answer(r, code)
  /\ log' \in {log, Append(log, r)}
  /\ UNCHANGED <<body, received, candidate, ack, delivered>>

Refused(r) ==
  /\ pc[r] = "publishing"
  /\ \E code \in RefusalStatuses : Answer(r, code)
  /\ UNCHANGED <<body, received, candidate, ack, delivered, log>>

\* The response reaches the client, or the connection ends before it does.
Deliver(r) ==
  /\ pc[r] = "answered"
  /\ pc' = [pc EXCEPT ![r] = "done"]
  /\ \E reaches \in BOOLEAN : delivered' = [delivered EXCEPT ![r] = reaches]
  /\ UNCHANGED <<body, received, candidate, status, ack, log>>

Ingest(r) ==
  Begin(r) \/ Receive(r) \/ ReadFails(r) \/ Decode(r) \/ Accepted(r) \/ Refused(r) \/ Deliver(r)

-----------------------------------------------------------------------------
\* A complete request is one candidate: what the core accepted is all of the
\* body, all of it decoded, within both limits.  A body over a limit is never
\* cut to a shorter candidate.
NothingTruncated ==
  \A r \in Range(log) :
    /\ received[r] = body[r].wire
    /\ candidate[r] = IF body[r].encoding = "gzip" THEN body[r].decoded ELSE body[r].wire
    /\ body[r].encoding = "gzip" => body[r].intact

\* What a client may conclude from a response it got: 200 names the
\* generation at which its snapshot was installed, and after any other status
\* the snapshot was not installed and never will be.  Without a response it
\* may conclude nothing.
StatusIsHonest ==
  \A r \in {q \in Requests : delivered[q]} :
    IF status[r] = 200 THEN ack[r] \in 1..Len(log) /\ log[ack[r]] = r
                       ELSE r \notin Range(log)
=============================================================================
