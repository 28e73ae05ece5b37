------------------------- MODULE SocketWriterProofs -------------------------
(***************************************************************************)
(* The safety properties of the MSP/1 server, for every set of clients,    *)
(* calls and frames and every limit.                                       *)
(***************************************************************************)
EXTENDS SocketWriter, FiniteSetTheorems, TLAPS

Complete(t) == ~t.expired /\ Assembled(t) /\ Bytes(t.parts) = t.declared

(* An open transaction: the parts up to next are those of the accepted     *)
(* frames, which came in order.                                            *)
Ordered(t) ==
  /\ DOMAIN t = {"parts", "accepted", "declared", "expired"}
  /\ t.parts \in Seq(Range(t.parts)) /\ t.accepted \in Seq(Range(t.accepted))
  /\ Len(t.accepted) <= Len(t.parts)
  /\ \A i \in 1..Len(t.accepted) : t.accepted[i].index = i - 1 /\ t.parts[i] = t.accepted[i].piece

TypeInv ==
  /\ stage \in [Connections -> {"closed", "reading", "publishing"}]
  /\ transactions = [c \in Connections |-> transactions[c]]
  /\ committing = [c \in Connections |-> committing[c]]
  /\ log \in Seq(Range(log))

SlotInv == IsFiniteSet(Reserved) /\ SlotsAreExact

CommitInv ==
  /\ \A c \in Connections : stage[c] = "publishing" => Complete(committing[c].transaction)
  /\ OnlyCompleteCandidates

TransInv == \A c \in Connections : \A id \in DOMAIN transactions[c] : Ordered(transactions[c][id])

IInv == TypeInv /\ SlotInv /\ CommitInv /\ TransInv

-----------------------------------------------------------------------------
(* What the operations make of a transaction *)

LEMMA OverItsRange == ASSUME NEW S, NEW s \in Seq(S) PROVE s \in Seq(Range(s))
  BY DEF Range

LEMMA NewOrdered ==
  ASSUME NEW f, f.parts \in Nat
  PROVE  Ordered(NewTransaction(f))
  <1> DEFINE t == NewTransaction(f)
  <1>1. /\ DOMAIN t = {"parts", "accepted", "declared", "expired"}
        /\ t.parts = [i \in 1..f.parts |-> None] /\ t.accepted = <<>>
    BY DEF NewTransaction
  <1> HIDE DEF t
  <1>2. t.parts \in Seq(Range(t.parts)) /\ Len(t.parts) = f.parts
    BY <1>1 DEF Range
  <1>3. t.accepted \in Seq(Range(t.accepted)) /\ Len(t.accepted) = 0
    BY <1>1
  <1> QED
    BY <1>1, <1>2, <1>3 DEF Ordered, t

LEMMA ExpireOrdered ==
  ASSUME NEW t, Ordered(t)
  PROVE  Ordered([t EXCEPT !.expired = TRUE])
  BY DEF Ordered

LEMMA RetainOrdered ==
  ASSUME NEW t, NEW f, Ordered(t), PartError(t, f) = "ok"
  PROVE  Ordered(Retain(t, f))
  <1> DEFINE u == Retain(t, f)
             n == Len(t.accepted)
  <1>1. f.index = n /\ n \in Nat /\ Len(t.parts) \in Nat /\ n < Len(t.parts)
    BY DEF PartError, Ordered, next
  <1>2. /\ DOMAIN u = {"parts", "accepted", "declared", "expired"}
        /\ u.parts = [t.parts EXCEPT ![n + 1] = f.piece] /\ u.accepted = Append(t.accepted, f)
    BY <1>1 DEF Retain, Ordered
  <1> HIDE DEF u, n
  <1>3. /\ u.parts \in Seq(Range(t.parts) \cup {f.piece}) /\ Len(u.parts) = Len(t.parts)
        /\ u.parts[n + 1] = f.piece
        /\ \A i \in 1..n : u.parts[i] = t.parts[i]
    BY <1>1, <1>2 DEF Ordered, n
  <1>4. /\ u.accepted \in Seq(Range(t.accepted) \cup {f}) /\ Len(u.accepted) = n + 1
        /\ u.accepted[n + 1] = f
        /\ \A i \in 1..n : u.accepted[i] = t.accepted[i]
    BY <1>1, <1>2 DEF Ordered, n
  <1>5. u.parts \in Seq(Range(u.parts)) /\ u.accepted \in Seq(Range(u.accepted))
    BY <1>3, <1>4, OverItsRange, Zenon
  <1>6. \A i \in 1..(n + 1) : u.accepted[i].index = i - 1 /\ u.parts[i] = u.accepted[i].piece
    <2> SUFFICES ASSUME NEW i \in 1..(n + 1)
                 PROVE  u.accepted[i].index = i - 1 /\ u.parts[i] = u.accepted[i].piece
      OBVIOUS
    <2>1. CASE i \in 1..n
      BY <1>1, <1>3, <1>4, <2>1 DEF Ordered, n
    <2>2. CASE i = n + 1
      BY <1>1, <1>3, <1>4, <2>2
    <2> QED
      BY <1>1, <2>1, <2>2
  <1> QED
    BY <1>1, <1>2, <1>3, <1>4, <1>5, <1>6 DEF Ordered, u

LEMMA CommitComplete ==
  ASSUME NEW t, Ordered(t), CommitError(t) = "ok"
  PROVE  Complete(t)
  <1>1. ~t.expired /\ Len(t.accepted) = Len(t.parts) /\ Bytes(Received(t)) = t.declared
    BY DEF CommitError, next, actual
  <1>2. t.parts = [i \in 1..Len(t.parts) |-> t.parts[i]]
    BY DEF Ordered
  <1>3. Received(t) = t.parts
    BY <1>1, <1>2 DEF Ordered, Received
  <1> QED
    BY <1>1, <1>3 DEF Complete, Assembled, Ordered

-----------------------------------------------------------------------------
(* The open transactions as one set *)

LEMMA Pairs ==
  /\ \A c \in Connections : \A id \in DOMAIN transactions[c] : <<c, id>> \in Reserved
  /\ \A x \in Reserved : \E c \in Connections : \E id \in DOMAIN transactions[c] : x = <<c, id>>
  BY DEF Reserved

LEMMA PutStep ==
  ASSUME TypeInv, NEW c \in Connections, NEW id, NEW t, Put(c, id, t)
  PROVE  /\ transactions' = [d \in Connections |-> transactions'[d]]
         /\ Reserved' = Reserved \cup {<<c, id>>}
         /\ \A d \in Connections \ {c} : transactions'[d] = transactions[d]
         /\ TransInv /\ Ordered(t) => TransInv'
  <1>1. /\ transactions' = [d \in Connections |-> transactions'[d]]
        /\ \A d \in Connections \ {c} : transactions'[d] = transactions[d]
        /\ transactions'[c] = [i \in DOMAIN transactions[c] \cup {id} |-> IF i = id THEN t ELSE transactions[c][i]]
    BY Zenon DEF TypeInv, Put
  <1>2. DOMAIN transactions'[c] = DOMAIN transactions[c] \cup {id}
    BY <1>1
  <1>3. /\ \A d \in Connections : \A i \in DOMAIN transactions'[d] : <<d, i>> \in Reserved'
        /\ \A x \in Reserved' : \E d \in Connections : \E i \in DOMAIN transactions'[d] : x = <<d, i>>
    BY DEF Reserved
  <1>4. Reserved' \subseteq Reserved \cup {<<c, id>>}
    BY <1>1, <1>2, <1>3, Pairs
  <1>5. Reserved \cup {<<c, id>>} \subseteq Reserved'
    BY <1>1, <1>2, <1>3, Pairs
  <1>6. TransInv /\ Ordered(t) => TransInv'
    BY <1>1, <1>2 DEF TransInv
  <1> QED
    BY <1>1, <1>4, <1>5, <1>6

LEMMA DropStep ==
  ASSUME TypeInv, NEW c \in Connections, NEW id, Drop(c, id)
  PROVE  /\ transactions' = [d \in Connections |-> transactions'[d]]
         /\ Reserved' = Reserved \ {<<c, id>>}
         /\ \A d \in Connections \ {c} : transactions'[d] = transactions[d]
         /\ TransInv => TransInv'
  <1>1. /\ transactions' = [d \in Connections |-> transactions'[d]]
        /\ \A d \in Connections \ {c} : transactions'[d] = transactions[d]
        /\ transactions'[c] = [i \in DOMAIN transactions[c] \ {id} |-> transactions[c][i]]
    BY Zenon DEF TypeInv, Drop
  <1>2. DOMAIN transactions'[c] = DOMAIN transactions[c] \ {id}
    BY <1>1
  <1>3. /\ \A d \in Connections : \A i \in DOMAIN transactions'[d] : <<d, i>> \in Reserved'
        /\ \A x \in Reserved' : \E d \in Connections : \E i \in DOMAIN transactions'[d] : x = <<d, i>>
    BY DEF Reserved
  <1>4. Reserved' \subseteq Reserved \ {<<c, id>>}
    BY <1>1, <1>2, <1>3, Pairs
  <1>5. Reserved \ {<<c, id>>} \subseteq Reserved'
    BY <1>1, <1>2, <1>3, Pairs
  <1>6. TransInv => TransInv'
    BY <1>1, <1>2 DEF TransInv
  <1> QED
    BY <1>1, <1>4, <1>5, <1>6

(* What the slots say, as numbers. *)
LEMMA Counted ==
  ASSUME IInv
  PROVE  /\ IsFiniteSet(Publishing) /\ Cardinality(Publishing) \in Nat
         /\ IsFiniteSet(Reserved) /\ Cardinality(Reserved) \in Nat
         /\ slots \in Nat /\ slots <= Transactions /\ Transactions \in Nat
         /\ slots = Cardinality(Reserved) + Cardinality(Publishing)
  <1>1. Publishing \in SUBSET Connections
    BY DEF Publishing
  <1>2. IsFiniteSet(Publishing) /\ IsFiniteSet(Reserved)
    BY <1>1, SocketAssumption, FS_Subset DEF IInv, SlotInv
  <1>3. Cardinality(Publishing) \in Nat /\ Cardinality(Reserved) \in Nat
    BY <1>2, FS_CardinalityType
  <1> QED
    BY <1>2, <1>3, SocketAssumption DEF IInv, SlotInv, SlotsAreExact

LEMMA InitInv == Init => IInv
  <1> SUFFICES ASSUME Init PROVE IInv
    OBVIOUS
  <1>1. TypeInv
    BY DEF Init, TypeInv, Range
  <1>2. \A c \in Connections : stage[c] = "closed" /\ DOMAIN transactions[c] = {}
    BY DEF Init, NoTransactions
  <1>3. Reserved = {} /\ Publishing = {}
    BY <1>2, Pairs DEF Publishing
  <1>4. SlotInv
    BY <1>2, <1>3, FS_EmptySet, SocketAssumption DEF SlotInv, SlotsAreExact, Init
  <1>5. CommitInv
    BY <1>2 DEF CommitInv, OnlyCompleteCandidates, Init
  <1>6. TransInv
    BY <1>2 DEF TransInv
  <1> QED
    BY <1>1, <1>4, <1>5, <1>6 DEF IInv

(* A step that touches no slot, no stage and nothing committed. *)
LEMMA QuietStep ==
  ASSUME IInv, UNCHANGED <<stage, transactions, committing, slots, log>>
  PROVE  IInv'
  <1>1. TypeInv' /\ CommitInv' /\ TransInv'
    BY DEF IInv, TypeInv, CommitInv, OnlyCompleteCandidates, TransInv
  <1>2. SlotInv'
    BY DEF IInv, SlotInv, SlotsAreExact, Reserved, Publishing
  <1> QED
    BY <1>1, <1>2 DEF IInv

(* A step of a connection that is read changes its transactions: one comes *)
(* or goes with its slot, or the set stays.                                *)
LEMMA TransactionStep ==
  ASSUME IInv, NEW c \in Connections, stage[c] = "reading", UNCHANGED <<stage, committing, log>>,
         transactions' = [d \in Connections |-> transactions'[d]], TransInv',
         \A d \in Connections \ {c} : transactions'[d] = transactions[d],
         IsFiniteSet(Reserved'), slots' - slots = Cardinality(Reserved') - Cardinality(Reserved),
         slots' \in Int, slots' <= Transactions
  PROVE  IInv'
  <1>1. TypeInv' /\ CommitInv'
    BY DEF IInv, TypeInv, CommitInv, OnlyCompleteCandidates
  <1>2. Publishing' = Publishing
    BY DEF Publishing
  <1>3. Cardinality(Reserved') \in Nat
    BY FS_CardinalityType
  <1>4. slots' = Cardinality(Reserved') + Cardinality(Publishing')
    BY <1>2, <1>3, Counted
  <1>5. \A d \in Connections : stage'[d] = "closed" => DOMAIN transactions'[d] = {}
    BY DEF IInv, SlotInv, SlotsAreExact
  <1> QED
    BY <1>1, <1>4, <1>5 DEF IInv, SlotInv, SlotsAreExact

LEMMA ReplaceStep ==
  ASSUME IInv, NEW c \in Connections, NEW id \in DOMAIN transactions[c], NEW t, Put(c, id, t), Ordered(t),
         UNCHANGED <<stage, committing, slots, log>>
  PROVE  IInv'
  <1>1. Reserved' = Reserved /\ transactions' = [d \in Connections |-> transactions'[d]] /\ TransInv'
    <2>1. TypeInv /\ TransInv
      BY DEF IInv
    <2>2. <<c, id>> \in Reserved
      BY Pairs
    <2>3. Reserved' = Reserved \cup {<<c, id>>} /\ transactions' = [d \in Connections |-> transactions'[d]] /\ TransInv'
      BY <2>1, PutStep, Zenon
    <2> QED
      BY <2>2, <2>3, Zenon
  <1>2. TypeInv' /\ CommitInv'
    <2>1. TypeInv'
      BY <1>1 DEF IInv, TypeInv
    <2>2. CommitInv'
      BY DEF IInv, CommitInv, OnlyCompleteCandidates
    <2> QED
      BY <2>1, <2>2
  <1>3. Publishing' = Publishing
    BY DEF Publishing
  <1>4. \A d \in Connections \ {c} : transactions'[d] = transactions[d]
    BY PutStep DEF IInv
  <1>5. stage[c] # "closed"
    BY DEF IInv, SlotInv, SlotsAreExact
  <1>6. SlotInv'
    BY <1>1, <1>3, <1>4, <1>5 DEF IInv, SlotInv, SlotsAreExact
  <1> QED
    BY <1>1, <1>2, <1>6 DEF IInv

LEMMA ReleaseStep ==
  ASSUME IInv, NEW c \in Connections, stage[c] = "reading", NEW id \in DOMAIN transactions[c], Drop(c, id),
         slots' = slots - 1, UNCHANGED <<stage, committing, log>>
  PROVE  IInv'
  <1>1. /\ Reserved' = Reserved \ {<<c, id>>} /\ transactions' = [d \in Connections |-> transactions'[d]]
        /\ (\A d \in Connections \ {c} : transactions'[d] = transactions[d]) /\ TransInv'
    BY DropStep DEF IInv
  <1>2. <<c, id>> \in Reserved
    BY Pairs
  <1>3. IsFiniteSet(Reserved \ {<<c, id>>}) /\ Cardinality(Reserved \ {<<c, id>>}) = Cardinality(Reserved) - 1
    BY <1>2, Counted, FS_RemoveElement
  <1>4. IsFiniteSet(Reserved') /\ slots' - slots = Cardinality(Reserved') - Cardinality(Reserved)
        /\ slots' \in Int /\ slots' <= Transactions
    BY <1>1, <1>3, Counted
  <1> QED
    BY <1>1, <1>4, TransactionStep

LEMMA BeginStep ==
  ASSUME IInv, NEW c \in Connections, stage[c] = "reading", NEW f, begin(c, f)
  PROVE  IInv'
  <1>1. CASE \E failure : Reject(c, f.id, failure)
    BY <1>1, QuietStep DEF Reject
  <1>2. CASE ~ \E failure : Reject(c, f.id, failure)
    <2>1. /\ f.id \notin DOMAIN transactions[c] /\ slots # Transactions /\ slots' = slots + 1
          /\ Put(c, f.id, NewTransaction(f)) /\ UNCHANGED <<stage, committing, log>>
          /\ f.parts \in 1..Parts
      BY <1>2 DEF begin
    <2>6. Ordered(NewTransaction(f))
      BY <2>1, SocketAssumption, NewOrdered
    <2>2. /\ Reserved' = Reserved \cup {<<c, f.id>>} /\ transactions' = [d \in Connections |-> transactions'[d]]
          /\ (\A d \in Connections \ {c} : transactions'[d] = transactions[d]) /\ TransInv'
      BY <2>1, <2>6, PutStep DEF IInv
    <2>3. <<c, f.id>> \notin Reserved
      BY <2>1, Pairs
    <2>4. /\ IsFiniteSet(Reserved \cup {<<c, f.id>>})
          /\ Cardinality(Reserved \cup {<<c, f.id>>}) = Cardinality(Reserved) + 1
      BY <2>3, Counted, FS_AddElement
    <2>5. IsFiniteSet(Reserved') /\ slots' - slots = Cardinality(Reserved') - Cardinality(Reserved)
          /\ slots' \in Int /\ slots' <= Transactions
      BY <2>1, <2>2, <2>4, Counted
    <2> QED
      BY <2>1, <2>2, <2>5, TransactionStep, Zenon
  <1> QED
    BY <1>1, <1>2

LEMMA PartStep ==
  ASSUME IInv, NEW c \in Connections, stage[c] = "reading", NEW f, part(c, f)
  PROVE  IInv'
  <1> DEFINE t == transactions[c][f.id]
  <1>1. CASE \E failure : Reject(c, f.id, failure)
    BY <1>1, QuietStep DEF Reject
  <1>2. CASE ~ \E failure : Reject(c, f.id, failure)
    <2>1. f.id \in DOMAIN transactions[c]
      BY <1>2 DEF part
    <2>2. CASE Drop(c, f.id) /\ slots' = slots - 1 /\ UNCHANGED <<stage, committing, log>>
      BY <2>1, <2>2, ReleaseStep
    <2>3. CASE /\ PartError(t, f) = "ok" /\ Put(c, f.id, Retain(t, f))
               /\ UNCHANGED <<stage, committing, slots, log>>
      <3>1. Ordered(Retain(t, f))
        BY <2>1, <2>3, RetainOrdered DEF IInv, TransInv
      <3> QED
        BY <2>1, <2>3, <3>1, ReplaceStep
    <2> QED
      BY <1>2, <2>1, <2>2, <2>3 DEF part
  <1> QED
    BY <1>1, <1>2

LEMMA CommitStep ==
  ASSUME IInv, NEW c \in Connections, stage[c] = "reading", NEW f, commit(c, f)
  PROVE  IInv'
  <1> DEFINE t == transactions[c][f.id]
  <1>1. CASE \E failure : Reject(c, f.id, failure)
    BY <1>1, QuietStep DEF Reject
  <1>2. CASE ~ \E failure : Reject(c, f.id, failure)
    <2>1. f.id \in DOMAIN transactions[c] /\ Drop(c, f.id) /\ log' = log
      BY <1>2 DEF commit
    <2>2. CASE slots' = slots - 1 /\ UNCHANGED <<stage, committing>>
      BY <2>1, <2>2, ReleaseStep
    <2>3. CASE /\ CommitError(t) = "ok" /\ UNCHANGED slots
               /\ stage' = [stage EXCEPT ![c] = "publishing"]
               /\ committing' = [committing EXCEPT ![c] = [id |-> f.id, transaction |-> t]]
      <3>1. /\ Reserved' = Reserved \ {<<c, f.id>>} /\ transactions' = [d \in Connections |-> transactions'[d]]
            /\ (\A d \in Connections \ {c} : transactions'[d] = transactions[d]) /\ TransInv'
        BY <2>1, DropStep DEF IInv
      <3>2. <<c, f.id>> \in Reserved
        BY <2>1, Pairs
      <3>3. /\ IsFiniteSet(Reserved \ {<<c, f.id>>})
            /\ Cardinality(Reserved \ {<<c, f.id>>}) = Cardinality(Reserved) - 1
        BY <3>2, Counted, FS_RemoveElement
      <3>4. Publishing' = Publishing \cup {c} /\ c \notin Publishing
        BY <2>3 DEF Publishing, IInv, TypeInv
      <3>5. Cardinality(Publishing \cup {c}) = Cardinality(Publishing) + 1
        BY <3>4, Counted, FS_AddElement, Zenon
      <3>6. /\ slots' = Cardinality(Reserved') + Cardinality(Publishing')
            /\ slots' <= Transactions /\ IsFiniteSet(Reserved')
        BY <2>3, <3>1, <3>3, <3>4, <3>5, Counted
      <3>7. \A d \in Connections : stage'[d] = "closed" => DOMAIN transactions'[d] = {}
        BY <2>3, <3>1 DEF IInv, TypeInv, SlotInv, SlotsAreExact
      <3>8. Complete(t)
        BY <2>1, <2>3, CommitComplete DEF IInv, TransInv
      <3>9. \A d \in Connections : stage'[d] = "publishing" => Complete(committing'[d].transaction)
        <4> SUFFICES ASSUME NEW d \in Connections, stage'[d] = "publishing"
                     PROVE  Complete(committing'[d].transaction)
          OBVIOUS
        <4>1. CASE d = c
          BY <2>3, <3>8, <4>1 DEF IInv, TypeInv
        <4>2. CASE d # c
          BY <2>3, <4>2 DEF IInv, TypeInv, CommitInv
        <4> QED
          BY <4>1, <4>2
      <3>10. TypeInv'
        BY <2>1, <2>3, <3>1, Zenon DEF IInv, TypeInv
      <3> QED
        BY <2>1, <3>1, <3>6, <3>7, <3>9, <3>10 DEF IInv, SlotInv, SlotsAreExact, CommitInv, OnlyCompleteCandidates
    <2> QED
      BY <1>2, <2>1, <2>2, <2>3 DEF commit
  <1> QED
    BY <1>1, <1>2

LEMMA ProcessStep ==
  ASSUME IInv, NEW c \in Connections, NEW f, process(c, f)
  PROVE  IInv'
  BY BeginStep, PartStep, CommitStep, QuietStep DEF process, Reject

LEMMA PublishStep ==
  ASSUME IInv, NEW c \in Connections, PublishAccepted(c) \/ PublishDeclined(c)
  PROVE  IInv'
  <1>1. /\ stage[c] = "publishing" /\ stage' = [stage EXCEPT ![c] = "reading"]
        /\ committing' = [committing EXCEPT ![c] = None]
        /\ slots' = slots - 1 /\ UNCHANGED transactions
    BY DEF PublishAccepted, PublishDeclined, Published
  <1>2. Publishing' = Publishing \ {c} /\ c \in Publishing /\ Reserved' = Reserved
    BY <1>1 DEF Publishing, Reserved, IInv, TypeInv
  <1>3. Cardinality(Publishing \ {c}) = Cardinality(Publishing) - 1
    BY <1>2, Counted, FS_RemoveElement, Zenon
  <1>4. slots' = Cardinality(Reserved') + Cardinality(Publishing') /\ slots' <= Transactions /\ IsFiniteSet(Reserved')
    BY <1>1, <1>2, <1>3, Counted
  <1>5. \A d \in Connections : stage'[d] = "closed" => DOMAIN transactions'[d] = {}
    BY <1>1 DEF IInv, TypeInv, SlotInv, SlotsAreExact
  <1>6. \A d \in Connections : stage'[d] = "publishing" => Complete(committing'[d].transaction)
    BY <1>1 DEF IInv, TypeInv, CommitInv
  <1>7. log' \in Seq(Range(log')) /\ OnlyCompleteCandidates'
    <2>1. CASE log' = log
      BY <2>1 DEF IInv, TypeInv, CommitInv, OnlyCompleteCandidates
    <2>2. CASE log' = Append(log, [from |-> c, transaction |-> committing[c].transaction])
      <3> DEFINE e == [from |-> c, transaction |-> committing[c].transaction]
      <3>1. Complete(e.transaction)
        BY <1>1 DEF IInv, CommitInv
      <3> HIDE DEF e
      <3>2. log \in Seq(Range(log) \cup {e}) /\ log' = Append(log, e)
        BY <2>2 DEF IInv, TypeInv, e
      <3>3. /\ Len(log) \in Nat /\ Len(log') = Len(log) + 1 /\ log' \in Seq(Range(log) \cup {e})
            /\ \A g \in 1..Len(log) : log'[g] = log[g]
            /\ log'[Len(log) + 1] = e
        BY <3>2
      <3>4. OnlyCompleteCandidates'
        <4> SUFFICES ASSUME NEW g \in 1..Len(log') PROVE Complete(log'[g].transaction)
          BY DEF OnlyCompleteCandidates, Complete
        <4>1. CASE g \in 1..Len(log)
          BY <3>3, <4>1 DEF IInv, CommitInv, OnlyCompleteCandidates, Complete
        <4>2. CASE g = Len(log) + 1
          BY <3>1, <3>3, <4>2
        <4> QED
          BY <3>3, <4>1, <4>2
      <3>5. \A g \in 1..Len(log') : log'[g] \in Range(log')
        BY <3>3 DEF Range
      <3>6. log' \in Seq(Range(log'))
        BY <3>3, <3>5
      <3> QED
        BY <3>4, <3>6
    <2> QED
      BY <2>1, <2>2 DEF PublishAccepted, PublishDeclined
  <1>8. TypeInv'
    BY <1>1, <1>7, Zenon DEF IInv, TypeInv
  <1>9. TransInv'
    BY <1>1 DEF IInv, TransInv
  <1> QED
    BY <1>4, <1>5, <1>6, <1>7, <1>8, <1>9 DEF IInv, SlotInv, SlotsAreExact, CommitInv

LEMMA LeaveStep ==
  ASSUME IInv, NEW c \in Connections, Leave(c)
  PROVE  IInv'
  <1> DEFINE open == DOMAIN transactions[c]
  <1>1. /\ stage[c] = "reading" /\ stage' = [stage EXCEPT ![c] = "closed"]
        /\ transactions' = [transactions EXCEPT ![c] = NoTransactions]
        /\ slots' = slots - Cardinality(open) /\ UNCHANGED <<committing, log>>
    BY DEF Leave
  <1>2. /\ \A d \in Connections \ {c} : transactions'[d] = transactions[d] /\ stage'[d] = stage[d]
        /\ DOMAIN transactions'[c] = {} /\ stage'[c] = "closed"
        /\ transactions' = [d \in Connections |-> transactions'[d]]
    BY <1>1 DEF IInv, TypeInv, NoTransactions
  <1>3. Publishing' = Publishing
    BY <1>1, <1>2 DEF Publishing
  <1>4. Reserved' = Reserved \ ({c} \X open)
    <2>1. /\ \A d \in Connections : \A i \in DOMAIN transactions'[d] : <<d, i>> \in Reserved'
          /\ \A x \in Reserved' : \E d \in Connections : \E i \in DOMAIN transactions'[d] : x = <<d, i>>
      BY DEF Reserved
    <2>2. Reserved' \subseteq Reserved \ ({c} \X open)
      BY <1>2, <2>1, Pairs
    <2>3. Reserved \ ({c} \X open) \subseteq Reserved'
      BY <1>2, <2>1, Pairs
    <2> QED
      BY <2>2, <2>3
  <1>5. {c} \X open \in SUBSET Reserved
    BY Pairs
  <1>6. IsFiniteSet({c} \X open) /\ IsFiniteSet({c}) /\ Cardinality({c}) = 1
    BY <1>5, Counted, FS_Subset, FS_Singleton, Zenon
  <1>7. Cardinality({c} \X open) = Cardinality(open)
    <2>1. ExistsBijection({c} \X open, open)
      <3> DEFINE g == [x \in {c} \X open |-> x[2]]
      <3>1. /\ \A x \in {c} \X open : x = <<c, x[2]>> /\ x[2] \in open
            /\ \A i \in open : <<c, i>> \in {c} \X open /\ <<c, i>>[2] = i
        OBVIOUS
      <3>2. g \in [{c} \X open -> open]
        BY <3>1
      <3>3. \A x, y \in {c} \X open : g[x] = g[y] => x = y
        BY <3>1
      <3>4. \A i \in open : \E x \in {c} \X open : g[x] = i
        BY <3>1, Zenon
      <3> HIDE DEF g
      <3>5. g \in Bijection({c} \X open, open)
        BY <3>2, <3>3, <3>4 DEF Bijection, Injection, Surjection, IsInjective
      <3> QED
        BY <3>5 DEF ExistsBijection
    <2> QED
      BY <1>6, <2>1, FS_Bijection
  <1>8. /\ IsFiniteSet(Reserved \ ({c} \X open))
        /\ Cardinality(Reserved \ ({c} \X open)) = Cardinality(Reserved) - Cardinality({c} \X open)
    <2>1. Reserved \cap ({c} \X open) = {c} \X open
      BY <1>5
    <2>2. /\ IsFiniteSet(Reserved \ ({c} \X open))
          /\ Cardinality(Reserved \ ({c} \X open)) = Cardinality(Reserved) - Cardinality(Reserved \cap ({c} \X open))
      BY Counted, FS_Difference, Zenon
    <2> QED
      BY <2>1, <2>2
  <1>9. Cardinality(open) \in Nat /\ Cardinality(Reserved \ ({c} \X open)) \in Nat
    BY <1>6, <1>7, <1>8, FS_CardinalityType
  <1>10. slots' = Cardinality(Reserved') + Cardinality(Publishing') /\ slots' <= Transactions /\ IsFiniteSet(Reserved')
    BY <1>1, <1>3, <1>4, <1>7, <1>8, <1>9, Counted
  <1>11. \A d \in Connections : stage'[d] = "closed" => DOMAIN transactions'[d] = {}
    BY <1>2 DEF IInv, SlotInv, SlotsAreExact
  <1>12. CommitInv'
    BY <1>1, <1>2 DEF IInv, CommitInv, OnlyCompleteCandidates
  <1>13. TypeInv'
    BY <1>1, <1>2 DEF IInv, TypeInv
  <1>14. TransInv'
    BY <1>2 DEF IInv, TransInv
  <1> QED
    BY <1>10, <1>11, <1>12, <1>13, <1>14 DEF IInv, SlotInv, SlotsAreExact

LEMMA AcceptStep ==
  ASSUME IInv, NEW c \in Connections, Accept(c)
  PROVE  IInv'
  <1>1. stage[c] = "closed" /\ stage' = [stage EXCEPT ![c] = "reading"] /\ UNCHANGED <<transactions, committing, slots, log>>
    BY DEF Accept
  <1>2. Publishing' = Publishing /\ Reserved' = Reserved
    BY <1>1 DEF Publishing, Reserved, IInv, TypeInv
  <1>3. TypeInv' /\ CommitInv' /\ TransInv'
    BY <1>1 DEF IInv, TypeInv, CommitInv, OnlyCompleteCandidates, TransInv
  <1>4. SlotInv'
    BY <1>1, <1>2 DEF IInv, TypeInv, SlotInv, SlotsAreExact
  <1> QED
    BY <1>3, <1>4 DEF IInv

(* What the calls of Writer.Publish do moves frames and answers only. *)
LEMMA CallStep ==
  ASSUME IInv, NEW k \in Calls, Publish(k) \/ Cancel(k)
  PROVE  IInv'
  <1>1. UNCHANGED <<stage, transactions, committing, slots, log>>
    BY DEF Publish, Cancel, Enter, Receive, Timeout, EndOfFile, vars, serverVars
  <1> QED
    BY <1>1, QuietStep, Zenon

(* The state machine keeps the invariant. *)
THEOREM Invariant == WriterSpec => []IInv
  <1>1. WriterInit => IInv
    BY InitInv DEF WriterInit
  <1>2. ASSUME IInv, [WriterNext]_writerVars PROVE IInv'
    <2>1. CASE UNCHANGED writerVars
      BY <1>2, <2>1, QuietStep DEF writerVars, vars
    <2>2. ASSUME NEW c \in Connections, ServePeer(c) \/ ServeFrame(c) PROVE IInv'
      BY <1>2, <2>2, ProcessStep DEF ServePeer, ServeFrame
    <2>3. ASSUME NEW c \in Connections, ServePublish(c) PROVE IInv'
      BY <1>2, <2>3, PublishStep DEF ServePublish
    <2>4. ASSUME NEW c \in Connections, ServeLeave(c) \/ ServeAccept(c) PROVE IInv'
      BY <1>2, <2>4, LeaveStep, AcceptStep DEF ServeLeave, ServeAccept
    <2>5. ASSUME NEW c \in Connections, NEW id \in Ids, ServeExpire(c, id) PROVE IInv'
      <3> DEFINE t == transactions[c][id]
      <3>1. /\ id \in DOMAIN transactions[c] /\ Put(c, id, [t EXCEPT !.expired = TRUE])
            /\ UNCHANGED <<stage, committing, slots, log>>
        BY <2>5 DEF ServeExpire, Expire
      <3>2. Ordered([t EXCEPT !.expired = TRUE])
        BY <1>2, <3>1, ExpireOrdered DEF IInv, TransInv
      <3> QED
        BY <1>2, <3>1, <3>2, ReplaceStep
    <2>6. CASE \E k \in Calls : Publish(k) \/ Cancel(k)
      BY <1>2, <2>6, CallStep
    <2> QED
      BY <1>2, <2>1, <2>2, <2>3, <2>4, <2>5, <2>6 DEF WriterNext, AllDone
  <1> QED
    BY <1>1, <1>2, PTL DEF WriterSpec

(* No slot of Protocol.transactions leaks or is released twice, on no way  *)
(* out of a connection, and no more than Config.Transactions are taken     *)
(* (protocol.go release, ServeConnection, commit).                         *)
THEOREM ExactSlots == WriterSpec => []SlotsAreExact
  <1>1. IInv => SlotsAreExact
    BY DEF IInv, SlotInv
  <1> QED
    BY <1>1, Invariant, PTL

(* The core is only ever given whole candidates, every part once and in    *)
(* order and as many bytes as declared, whatever frames the clients send   *)
(* and whenever they leave (protocol.go part, commit).                     *)
THEOREM CompleteCandidates == WriterSpec => []OnlyCompleteCandidates
  <1>1. IInv => OnlyCompleteCandidates
    BY DEF IInv, CommitInv
  <1> QED
    BY <1>1, Invariant, PTL
=============================================================================
