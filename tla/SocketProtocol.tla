--------------------------- MODULE SocketProtocol ---------------------------
(***************************************************************************)
(* The server side of MSP/1, the snapshot protocol on the Unix socket:     *)
(*   implementation/internal/socketingest/protocol.go                      *)
(*   implementation/internal/socketingest/server.go                        *)
(*                                                                         *)
(* A connection carries frames; the server answers each before it reads    *)
(* the next.  BEGIN opens a transaction of a connection and takes a slot   *)
(* that all connections share, PART frames fill it, COMMIT publishes it.   *)
(* SocketWriter composes the server with its clients.                      *)
(***************************************************************************)
EXTENDS Integers, Sequences, FiniteSets, Functions

CONSTANTS
  Connections,   \* connections clients open
  Peers,         \* the connections whose clients take every answer at once
  Ids,           \* publication ids
  Pieces,        \* payloads that decode to at least a byte
  PieceBytes,    \* PieceBytes[p]: how many
  Parts,         \* Config.Parts
  DecodedBytes,  \* Config.DecodedBytes
  Transactions,  \* Config.Transactions
  MaxOpen,       \* Config.Connections
  MaxGeneration, \* bound on the publications the core accepts
  Padded,        \* a payload with padding
  None           \* no transaction, no part yet, or a payload without a byte

ASSUME SocketAssumption ==
  /\ Parts \in Nat \ {0} /\ DecodedBytes \in Nat \ {0} /\ Transactions \in Nat \ {0}
  /\ MaxOpen \in Nat \ {0} /\ MaxGeneration \in Nat
  /\ PieceBytes \in [Pieces -> Nat \ {0}]
  /\ IsFiniteSet(Connections)

VARIABLES
  stage,         \* stage[c]: "closed", "reading" or "publishing"
  transactions,  \* transactions[c]: the open ones, by id
  committing,    \* committing[c]: the transaction being published, or None
  slots,         \* slots taken in Protocol.transactions
  toClient,      \* toClient[c]: answers on their way
  log            \* what the core accepted, oldest first, and from where

vars == <<stage, transactions, committing, slots, toClient, log>>

Frames ==
  [kind : {"BEGIN"}, id : Ids, parts : 0..(Parts + 1), declared : 0..(DecodedBytes + 1)]
    \cup [kind : {"PART"}, id : Ids, index : 0..Parts, piece : Pieces \cup {Padded, None}]
    \cup [kind : {"COMMIT"}, id : Ids]
    \cup [kind : {"OTHER"}, id : Ids \cup {"invalid"},
          failure : {"malformed", "protocol_version", "frame_limit"}]

Answer(kind, id, code, number) == [kind |-> kind, id |-> id, code |-> code, number |-> number]

\* responseID: a frame without a valid id is answered under the id invalid.
nack(id, code) == Answer("NACK", id, code, 0)

NoTransactions == [id \in {} |-> id]

Init ==
  /\ stage = [c \in Connections |-> "closed"]
  /\ transactions = [c \in Connections |-> NoTransactions]
  /\ committing = [c \in Connections |-> None]
  /\ slots = 0
  /\ toClient = [c \in Connections |-> <<>>]
  /\ log = <<>>

Bytes(content) == SumFunction([i \in DOMAIN content |-> PieceBytes[content[i]]])

Open == {c \in Connections : stage[c] # "closed"}

----------------------------------------------------------------------------
(* server.go *)

Accept(c) ==
  /\ stage[c] = "closed" /\ Cardinality(Open) < MaxOpen
  /\ stage' = [stage EXCEPT ![c] = "reading"]
  /\ UNCHANGED <<transactions, committing, slots, toClient, log>>

\* Variant: the reservations of a lost connection are kept.
LeaveHolding(c) ==
  /\ stage[c] = "reading"
  /\ stage' = [stage EXCEPT ![c] = "closed"]
  /\ transactions' = [transactions EXCEPT ![c] = NoTransactions]
  /\ UNCHANGED <<slots, committing, toClient, log>>

\* The client is gone, the read deadline passed or an answer could not be
\* written: ServeConnection returns and its deferred calls release what the
\* connection still holds.
Leave(c) ==
  /\ stage[c] = "reading"
  /\ stage' = [stage EXCEPT ![c] = "closed"]
  /\ transactions' = [transactions EXCEPT ![c] = NoTransactions]
  /\ slots' = slots - Cardinality(DOMAIN transactions[c])
  /\ UNCHANGED <<committing, toClient, log>>

----------------------------------------------------------------------------
(* protocol.go *)

Respond(c, answer) ==
  toClient' = IF c \in Peers THEN toClient ELSE [toClient EXCEPT ![c] = Append(@, answer)]

Reject(c, id, failure) ==
  Respond(c, nack(id, failure)) /\ UNCHANGED <<stage, transactions, committing, slots, log>>

Put(c, id, t) ==
  transactions' = [transactions EXCEPT ![c] =
    [i \in DOMAIN @ \cup {id} |-> IF i = id THEN t ELSE @[i]]]

Drop(c, id) ==
  transactions' = [transactions EXCEPT ![c] = [i \in DOMAIN @ \ {id} |-> @[i]]]

\* The parts by their place, and the PART frames accepted so far, in the order
\* they came: next is their number and actual the sum of their sizes.
NewTransaction(f) ==
  [parts |-> [i \in 1..f.parts |-> None], accepted |-> <<>>, declared |-> f.declared, expired |-> FALSE]

next(t)     == Len(t.accepted)
Received(t) == [i \in 1..Len(t.accepted) |-> t.accepted[i].piece]
actual(t)   == Bytes(Received(t))

begin(c, f) ==
  IF f.parts \notin 1..Parts THEN Reject(c, f.id, "part_limit")
  ELSE IF f.declared \notin 1..DecodedBytes THEN Reject(c, f.id, "transaction_invalid")
  ELSE IF f.id \in DOMAIN transactions[c] THEN Reject(c, f.id, "transaction_invalid")
  ELSE IF slots = Transactions THEN Reject(c, f.id, "busy")
  ELSE /\ Put(c, f.id, NewTransaction(f))
       /\ slots' = slots + 1
       /\ Respond(c, Answer("FRAME_ACCEPTED", f.id, "BEGIN", 0))
       /\ UNCHANGED <<stage, committing, log>>

\* Variant: a part that is there already is taken again.
PartErrorRepeats(t, f) ==
  IF f.index >= Len(t.parts) THEN "part_limit"
  ELSE IF f.index > next(t) THEN "missing_part"
  ELSE IF f.piece = Padded THEN "malformed"
  ELSE IF f.piece = None \/ actual(t) + PieceBytes[f.piece] > t.declared THEN "transaction_invalid"
  ELSE "ok"

PartError(t, f) ==
  IF f.index >= Len(t.parts) THEN "part_limit"
  ELSE IF f.index # next(t) THEN IF f.index < next(t) THEN "duplicate_part" ELSE "missing_part"
  ELSE IF f.piece = Padded THEN "malformed"
  ELSE IF f.piece = None \/ actual(t) + PieceBytes[f.piece] > t.declared THEN "transaction_invalid"
  ELSE "ok"

Retain(t, f) ==
  [t EXCEPT !.parts = [@ EXCEPT ![f.index + 1] = f.piece], !.accepted = Append(@, f)]

\* An expired transaction is dropped only now.
part(c, f) ==
  IF f.id \notin DOMAIN transactions[c] THEN Reject(c, f.id, "transaction_invalid")
  ELSE LET t == transactions[c][f.id]  error == PartError(t, f) IN
    IF t.expired
    THEN /\ Drop(c, f.id)
         /\ slots' = slots - 1
         /\ Respond(c, nack(f.id, "transaction_expired"))
         /\ UNCHANGED <<stage, committing, log>>
    ELSE IF error # "ok" THEN Reject(c, f.id, error)
    ELSE /\ Put(c, f.id, Retain(t, f))
         /\ Respond(c, Answer("FRAME_ACCEPTED", f.id, "index", f.index))
         /\ UNCHANGED <<stage, committing, slots, log>>

CommitError(t) ==
  IF t.expired THEN "transaction_expired"
  ELSE IF next(t) # Len(t.parts) THEN "missing_part"
  ELSE IF actual(t) # t.declared THEN "transaction_invalid"
  ELSE "ok"

\* COMMIT removes the transaction; its slot is kept until Publish returned.
commit(c, f) ==
  IF f.id \notin DOMAIN transactions[c] THEN Reject(c, f.id, "transaction_invalid")
  ELSE LET t == transactions[c][f.id]  error == CommitError(t) IN
    /\ Drop(c, f.id)
    /\ IF error # "ok"
       THEN /\ slots' = slots - 1
            /\ Respond(c, nack(f.id, error))
            /\ UNCHANGED <<stage, committing>>
       ELSE /\ stage' = [stage EXCEPT ![c] = "publishing"]
            /\ committing' = [committing EXCEPT ![c] = [id |-> f.id, transaction |-> t]]
            /\ UNCHANGED <<slots, toClient>>
    /\ UNCHANGED log

process(c, f) ==
  /\ stage[c] = "reading"
  /\ \/ f.kind = "BEGIN" /\ begin(c, f)
     \/ f.kind = "PART" /\ part(c, f)
     \/ f.kind = "COMMIT" /\ commit(c, f)
     \/ f.kind = "OTHER" /\ Reject(c, f.id, f.failure)

Published(c, answer) ==
  /\ stage[c] = "publishing"
  /\ stage' = [stage EXCEPT ![c] = "reading"]
  /\ committing' = [committing EXCEPT ![c] = None]
  /\ slots' = slots - 1
  /\ Respond(c, answer)
  /\ UNCHANGED transactions

\* Variant: the generation is read from the core after the publication.
PublishAcceptedLate(c) ==
  /\ Len(log) < MaxGeneration
  /\ \E g \in (Len(log) + 1)..(Len(log) + 2) :
       Published(c, Answer("ACK", committing[c].id, "generation", g))
  /\ log' = Append(log, [from |-> c, transaction |-> committing[c].transaction])

\* Core.Publish accepted the candidate; its context expires with the
\* transaction, and by then it may have been accepted already.
PublishAccepted(c) ==
  /\ Len(log) < MaxGeneration
  /\ Published(c, Answer("ACK", committing[c].id, "generation", Len(log) + 1))
  /\ log' = Append(log, [from |-> c, transaction |-> committing[c].transaction])

\* It was rejected, or the core was busy, or it took too long.
PublishDeclined(c) ==
  /\ \E code \in {"rejected", "busy", "timeout"} : Published(c, nack(committing[c].id, code))
  /\ UNCHANGED log

\* TransactionTimeout passes; nothing happens until a frame names the id.
Expire(c, id) ==
  /\ id \in DOMAIN transactions[c] /\ ~transactions[c][id].expired
  /\ Put(c, id, [transactions[c][id] EXCEPT !.expired = TRUE])
  /\ UNCHANGED <<stage, committing, slots, toClient, log>>

----------------------------------------------------------------------------
(* Properties *)

Reserved == UNION {{c} \X DOMAIN transactions[c] : c \in Connections}

Publishing == {c \in Connections : stage[c] = "publishing"}

\* The slots taken are the open transactions of all connections and the ones
\* being published, and never more than Config.Transactions: none leaks, on no
\* way out of a connection, and none is released twice (protocol.go release,
\* ServeConnection, commit).
SlotsAreExact ==
  /\ slots = Cardinality(Reserved) + Cardinality(Publishing)
  /\ slots <= Transactions
  /\ \A c \in Connections : stage[c] = "closed" => DOMAIN transactions[c] = {}

\* The candidate has a part in every place, and these are the parts whose
\* frames were accepted: as many frames as places, numbered in the order they
\* came, so none was skipped, taken twice or written over another.
Assembled(t) ==
  /\ Len(t.accepted) = Len(t.parts)
  /\ \A i \in 1..Len(t.parts) : t.accepted[i].index = i - 1 /\ t.parts[i] = t.accepted[i].piece

\* What the core is given is what the client was told is accepted: every
\* declared part in order and exactly once, with exactly the declared size, of
\* one transaction that was not expired when it was committed.  The counters
\* commit compares (next, actual) say so only because part refuses repeated
\* and early parts (protocol.go part, commit).
OnlyCompleteCandidates ==
  \A g \in 1..Len(log) : LET t == log[g].transaction IN
    ~t.expired /\ Assembled(t) /\ Bytes(t.parts) = t.declared
=============================================================================
