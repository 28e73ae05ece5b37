----------------------- MODULE ManagedExchangeProofs -----------------------
(***************************************************************************)
(* Proofs about ManagedExchange for any number of clients, any frames and  *)
(* any bound on a frame.                                                   *)
(***************************************************************************)
EXTENDS ManagedExchange, FiniteSetTheorems, TLAPS

----------------------------------------------------------------------------
(* The inductive invariant *)

Stages ==
  {"none", "backlog", "serving", "read", "submitted", "counted", "projecting", "answering", "closed"}

Categories == {"none", "accepted", "rejected", "overload", "protocol", "transport", "unknown"}

Responses == [by : {"owner", "server", "protocol"}, outcome : Outcomes, commit : Nat]

\* The outcomes after which the operation is not, and will not be, committed.
Definite == {"rejected", "closed", "cancelled", "overloaded", "protocol"}

\* The owner has the operation, or committed it.
Taken(c) == c \in Range(commits) \cup undecided

TypeInv ==
  /\ frame \in [Clients -> UNION Range(Frames)] /\ \A c \in Clients : frame[c] \in Frames[c]
  /\ client \in [Clients -> {"idle", "writing", "reading", "done"}]
  /\ written \in [Clients -> Nat] /\ buffered \in [Clients -> Nat] /\ seen \in [Clients -> Nat]
  /\ category \in [Clients -> Categories]
  /\ server \in [Clients -> Stages]
  /\ answer \in [Clients -> Responses \cup {None}]
  /\ response \in [Clients -> Responses \cup {None}]
  /\ operations \in [Outcomes -> Nat] /\ generation \in Nat
  /\ commits \in Seq(Clients) /\ undecided \in SUBSET Clients

\* What the place of the goroutine says about the operation.
ServerInv(c) ==
  /\ client[c] = "idle" => server[c] = "none"
  /\ server[c] \in {"none", "backlog", "serving", "read"} => answer[c] = None
  /\ server[c] \in {"submitted", "counted", "projecting"} => answer[c] # None /\ answer[c].by = "owner"
  /\ answer[c] = None => ~Taken(c)
  /\ answer[c] # None /\ answer[c].outcome \in Definite => ~Taken(c)
  /\ answer[c] # None /\ answer[c].outcome = "committed" =>
       answer[c].commit \in 1..Len(commits) /\ commits[answer[c].commit] = c
  /\ server[c] = "read" \/ Taken(c) => written[c] > 0
  /\ Taken(c) => ParseFrame(frame[c]) = "none"
  /\ response[c] # None => response[c] = answer[c] /\ server[c] = "closed"

\* What Send returned, against the response it received or did not receive.
ClientInv(c) ==
  /\ client[c] # "done" => category[c] = "none"
  /\ category[c] = "accepted" => response[c] # None /\ response[c].outcome = "committed"
  /\ category[c] \in {"rejected", "overload", "protocol"} =>
       response[c] # None /\ response[c].outcome \in Definite
  /\ category[c] = "transport" => server[c] = "none" \/ written[c] = 0

\* The decisions counted for an outcome.
Counted(o) ==
  {c \in Clients :
     /\ server[c] \in {"counted", "projecting", "answering", "closed"}
     /\ answer[c] # None /\ answer[c].by = "owner" /\ answer[c].outcome = o}

CountInv ==
  /\ \A o \in Outcomes : operations[o] = Cardinality(Counted(o))
  /\ generation <= Len(commits)
  /\ \A c \in Clients : seen[c] <= Len(commits)

IInv ==
  /\ TypeInv
  /\ \A c \in Clients : ServerInv(c) /\ ClientInv(c)
  /\ CountInv

----------------------------------------------------------------------------
(* Sequences and sets *)

\* A commit adds one operation to the ones committed, behind the others.
LEMMA OneCommit ==
  ASSUME NEW s \in Seq(Clients), NEW c \in Clients
  PROVE  /\ Append(s, c) \in Seq(Clients)
         /\ Len(Append(s, c)) = Len(s) + 1
         /\ \A i \in 1..Len(s) : Append(s, c)[i] = s[i]
         /\ Append(s, c)[Len(s) + 1] = c
         /\ Range(Append(s, c)) = Range(s) \cup {c}
  <1>1. DOMAIN s = 1..Len(s) /\ DOMAIN Append(s, c) = 1..(Len(s) + 1)
    OBVIOUS
  <1> QED
    BY <1>1 DEF Range

\* Every set of clients is finite.
LEMMA FiniteClients ==
  ASSUME NEW S \in SUBSET Clients
  PROVE  IsFiniteSet(S) /\ Cardinality(S) \in Nat
  BY ExchangeAssumption, FS_Subset, FS_CardinalityType

----------------------------------------------------------------------------
(* The invariant is inductive *)

\* No operation exists before the first connection.
LEMMA InitInv == Init => IInv
  <1> SUFFICES ASSUME Init PROVE IInv
    OBVIOUS
  <1>1. TypeInv
    BY DEF Init, TypeInv, Stages, Categories
  <1>2. Range(commits) = {}
    BY DEF Init, Range
  <1>3. \A c \in Clients : ServerInv(c) /\ ClientInv(c)
    BY <1>2 DEF Init, ServerInv, ClientInv, Taken
  <1>4. \A o \in Outcomes : Counted(o) = {}
    BY DEF Init, Counted
  <1>5. \A o \in Outcomes : Cardinality(Counted(o)) = 0
    BY <1>4, FS_EmptySet
  <1>6. CountInv
    BY <1>5 DEF Init, CountInv
  <1> QED
    BY <1>1, <1>3, <1>6 DEF IInv

\* A step after which the same decisions are counted.
LEMMA SameCounts ==
  ASSUME IInv, UNCHANGED <<operations, generation, seen>>, Len(commits) <= Len(commits'), Len(commits') \in Nat,
         \A o \in Outcomes : Counted(o)' = Counted(o)
  PROVE  CountInv'
  BY DEF IInv, TypeInv, CountInv

\* The steps of the client touch nothing of the server but the backlog.
LEMMA ClientSteps ==
  ASSUME IInv, NEW c \in Clients,
         Dial(c) \/ DialFails(c) \/ Write(c) \/ WriteFails(c) \/ Receive(c) \/ MissingResponse(c)
  PROVE  IInv'
  <1>1. TypeInv
    BY DEF IInv
  <1>2. ServerInv(c) /\ ClientInv(c) /\ \A d \in Clients : ServerInv(d) /\ ClientInv(d)
    BY DEF IInv
  <1> USE DEF serverVars, ownerVars, observerVars
  <1>3. CASE Dial(c)
    <2>1. TypeInv'
      BY <1>1, <1>3, Zenon DEF TypeInv, Dial, Stages
    <2>2. \A d \in Clients : ServerInv(d)' /\ ClientInv(d)'
      <3>1. \A d \in Clients : ServerInv(d)'
        BY <1>1, <1>2, <1>3, Zenon DEF TypeInv, ServerInv, Dial, Taken
      <3>2. \A d \in Clients : ClientInv(d)'
        BY <1>1, <1>2, <1>3, Zenon DEF TypeInv, ServerInv, ClientInv, Dial, Taken
      <3> QED
        BY <3>1, <3>2
    <2>3. \A o \in Outcomes : Counted(o)' = Counted(o)
      BY <1>1, <1>2, <1>3 DEF TypeInv, ServerInv, Dial, Counted
    <2>4. CountInv'
      BY <1>1, <1>3, <2>3, SameCounts DEF Dial, TypeInv
    <2> QED
      BY <2>1, <2>2, <2>4 DEF IInv
  <1>4. ASSUME UNCHANGED <<frame, serverVars, ownerVars, observerVars>>, TypeInv',
               \A d \in Clients : ServerInv(d)' /\ ClientInv(d)'
        PROVE  IInv'
    <2>1. \A o \in Outcomes : Counted(o)' = Counted(o)
      BY <1>4 DEF Counted
    <2>2. Len(commits) <= Len(commits') /\ Len(commits') \in Nat
      BY <1>1, <1>4 DEF TypeInv
    <2>3. CountInv'
      BY <1>4, <2>1, <2>2, SameCounts, Zenon
    <2> QED
      BY <1>4, <2>3, Zenon DEF IInv
  <1>5. CASE DialFails(c)
    <2>1. TypeInv'
      BY <1>1, <1>5, Zenon DEF TypeInv, DialFails, Return, Categories
    <2>2. \A d \in Clients : ServerInv(d)'
      BY <1>1, <1>2, <1>5, Zenon DEF TypeInv, ServerInv, DialFails, Return, Taken
    <2>3. \A d \in Clients : ClientInv(d)'
      BY <1>1, <1>2, <1>5, Zenon DEF TypeInv, ClientInv, ServerInv, DialFails, Return
    <2> QED
      BY <1>4, <1>5, <2>1, <2>2, <2>3 DEF DialFails
  <1>6. CASE Write(c)
    <2>1. PICK n \in 1..(Size(frame[c]) - written[c]) :
            /\ written' = [written EXCEPT ![c] = @ + n]
            /\ client' = [client EXCEPT ![c] = IF written'[c] = Size(frame[c]) THEN "reading" ELSE @]
      BY <1>6, Zenon DEF Write
    <2>2. Size(frame[c]) \in Nat
      <3>1. frame[c].line \in Nat /\ frame[c].extra \in Nat
        BY <1>1, ExchangeAssumption, Zenon DEF TypeInv
      <3> QED
        BY <3>1 DEF Size
    <2>3. n \in Nat /\ n > 0 /\ client[c] = "writing"
      <3>1. client[c] = "writing" /\ written[c] \in Nat
        BY <1>1, <1>6, Zenon DEF TypeInv, Write
      <3> QED
        BY <2>1, <2>2, <3>1
    <2>4. UNCHANGED <<frame, category, serverVars, ownerVars, observerVars, admitting>>
      BY <1>6 DEF Write
    <2>5. PICK to \in {"writing", "reading"} : client' = [client EXCEPT ![c] = to]
      BY <1>1, <2>1, <2>3, Zenon DEF TypeInv
    <2>6. TypeInv'
      BY <1>1, <2>1, <2>3, <2>4, <2>5 DEF TypeInv
    <2>7. \A d \in Clients : client'[d] = "idle" => client[d] = "idle"
      BY <1>1, <2>5 DEF TypeInv
    <2>8. \A d \in Clients : written[d] > 0 => written'[d] > 0
      BY <1>1, <2>1, <2>3 DEF TypeInv
    <2>9. \A d \in Clients : ServerInv(d)'
      BY <1>2, <2>4, <2>7, <2>8 DEF ServerInv, Taken
    <2>10. \A d \in Clients : category[d] # "none" => client'[d] = client[d] /\ written'[d] = written[d]
      BY <1>1, <1>2, <2>1, <2>3, <2>5 DEF TypeInv, ClientInv
    <2>11. \A d \in Clients : ClientInv(d)'
      BY <1>2, <2>4, <2>10 DEF ClientInv
    <2> QED
      BY <1>4, <2>4, <2>6, <2>9, <2>11
  <1>7. CASE WriteFails(c)
    <2>1. TypeInv'
      BY <1>1, <1>7, Zenon DEF TypeInv, WriteFails, Return, Categories
    <2>2. \A d \in Clients : ServerInv(d)'
      BY <1>1, <1>2, <1>7, Zenon DEF TypeInv, ServerInv, WriteFails, Return, Taken
    <2>3. \A d \in Clients : ClientInv(d)'
      BY <1>1, <1>2, <1>7 DEF TypeInv, ClientInv, WriteFails, Return
    <2> QED
      BY <1>4, <1>7, <2>1, <2>2, <2>3 DEF WriteFails
  <1>8. CASE Receive(c)
    <2>1. response[c] \in Responses
      BY <1>1, <1>8 DEF TypeInv, Receive
    <2>2. LET what == CategoryOf(response[c].outcome) IN
            /\ what \in Categories \ {"none", "transport"}
            /\ what = "accepted" => response[c].outcome = "committed"
            /\ what \in {"rejected", "overload", "protocol"} => response[c].outcome \in Definite
      BY <2>1, Zenon DEF CategoryOf, Responses, Outcomes, Definite, Categories
    <2>3. TypeInv'
      <3>1. /\ client' = [client EXCEPT ![c] = "done"]
            /\ category' = [category EXCEPT ![c] = CategoryOf(response[c].outcome)]
            /\ UNCHANGED <<frame, written, serverVars, ownerVars, observerVars, admitting>>
        BY <1>8, Zenon DEF Receive, Return
      <3>2. client' \in [Clients -> {"idle", "writing", "reading", "done"}] /\ category' \in [Clients -> Categories]
        BY <1>1, <2>2, <3>1, Zenon DEF TypeInv
      <3> QED
        BY <1>1, <3>1, <3>2 DEF TypeInv
    <2>4. \A d \in Clients : ServerInv(d)'
      BY <1>1, <1>2, <1>8, Zenon DEF TypeInv, ServerInv, Receive, Return, Taken
    <2>5. ASSUME NEW d \in Clients PROVE ClientInv(d)'
      <3>1. /\ client' = [client EXCEPT ![c] = "done"]
            /\ category' = [category EXCEPT ![c] = CategoryOf(response[c].outcome)]
            /\ UNCHANGED <<written, server, response>> /\ response[c] # None
        BY <1>8, Zenon DEF Receive, Return, serverVars
      <3>2. CASE d = c
        <4>1. client'[c] = "done" /\ category'[c] = CategoryOf(response[c].outcome)
          BY <1>1, <3>1, Zenon DEF TypeInv
        <4> QED
          BY <2>2, <3>1, <3>2, <4>1, Zenon DEF ClientInv
      <3>3. CASE d # c
        <4>1. client'[d] = client[d] /\ category'[d] = category[d]
          BY <1>1, <3>1, <3>3, Zenon DEF TypeInv
        <4> QED
          BY <1>2, <3>1, <4>1, Zenon DEF ClientInv
      <3> QED
        BY <3>2, <3>3
    <2> QED
      BY <1>4, <1>8, <2>3, <2>4, <2>5, Zenon DEF Receive
  <1>9. CASE MissingResponse(c)
    <2>1. TypeInv'
      BY <1>1, <1>9 DEF TypeInv, MissingResponse, Return, Categories
    <2>2. \A d \in Clients : ServerInv(d)'
      BY <1>1, <1>2, <1>9, Zenon DEF TypeInv, ServerInv, MissingResponse, Return, Taken
    <2>3. \A d \in Clients : ClientInv(d)'
      BY <1>1, <1>2, <1>9 DEF TypeInv, ClientInv, MissingResponse, Return
    <2> QED
      BY <1>4, <1>9, <2>1, <2>2, <2>3, Zenon DEF MissingResponse
  <1> QED
    BY <1>3, <1>5, <1>6, <1>7, <1>8, <1>9

\* A goroutine that answers without the owner, or ends without an answer.
LEMMA Unsubmitted ==
  ASSUME IInv, NEW c \in Clients, NEW to \in {"serving", "read", "answering", "closed"},
         NEW r \in Responses \cup {None},
         UNCHANGED <<clientVars, response, ownerVars, observerVars>>,
         buffered' \in [Clients -> Nat],
         server[c] \in {"backlog", "serving", "read"},
         server' = [server EXCEPT ![c] = to], answer' = [answer EXCEPT ![c] = r],
         to \in {"serving", "read"} => r = None,
         r # None => r.by # "owner" /\ r.outcome \in Definite,
         to = "read" => written[c] > 0
  PROVE  IInv'
  <1>1. TypeInv /\ \A d \in Clients : ServerInv(d) /\ ClientInv(d)
    BY DEF IInv
  <1> USE DEF clientVars, ownerVars, observerVars
  <1>2. TypeInv'
    BY <1>1 DEF TypeInv, Stages
  <1>3. \A d \in Clients : Taken(d)' = Taken(d)
    BY DEF Taken
  <1>4. ~Taken(c) /\ answer[c] = None /\ response[c] = None /\ client[c] # "idle"
    BY <1>1 DEF TypeInv, ServerInv
  <1>5. ServerInv(c)'
    BY <1>1, <1>3, <1>4, Zenon DEF TypeInv, ServerInv, Definite
  <1>6. \A d \in Clients \ {c} : ServerInv(d)'
    BY <1>1, <1>3 DEF TypeInv, ServerInv
  <1>7. \A d \in Clients : ClientInv(d)'
    BY <1>1, <1>4 DEF TypeInv, ClientInv
  <1>8. \A o \in Outcomes : Counted(o)' = Counted(o)
    BY <1>1, <1>4 DEF TypeInv, Counted
  <1>9. CountInv'
    BY <1>1, <1>8, SameCounts DEF TypeInv
  <1> QED
    BY <1>2, <1>5, <1>6, <1>7, <1>9 DEF IInv

\* The steps of the server before the owner has the operation.
LEMMA ServerSteps ==
  ASSUME IInv, NEW c \in Clients, Accept(c) \/ Read(c) \/ EndOfFile(c) \/ ReadTimeout(c)
  PROVE  IInv'
  <1>1. TypeInv /\ ServerInv(c)
    BY DEF IInv
  <1>2. \A by \in {"server", "protocol"}, o \in Definite :
          Response(by, o, 0) \in Responses /\ Response(by, o, 0).by # "owner"
            /\ Response(by, o, 0).outcome \in Definite
    BY DEF Response, Responses, Definite, Outcomes
  <1>3. CASE Accept(c)
    <2>1. CASE server' = [server EXCEPT ![c] = "serving"] /\ UNCHANGED answer
      <3>1. answer' = [answer EXCEPT ![c] = None]
        BY <1>1, <1>3, <2>1 DEF Accept, ServerInv, TypeInv
      <3> QED
        BY <1>1, <1>3, <2>1, <3>1, Unsubmitted, Zenon DEF Accept, TypeInv
    <2>2. ASSUME NEW o \in {"closed", "overloaded"}, Answer(c, Response("server", o, 0)) PROVE IInv'
      BY <1>1, <1>2, <1>3, <2>2, Unsubmitted, Zenon DEF Accept, Answer, TypeInv, Definite
    <2> QED
      BY <1>3, <2>1, <2>2 DEF Accept
  <1>4. CASE Read(c)
    <2>1. PICK b \in (buffered[c] + 1)..written[c] :
            /\ buffered' = [buffered EXCEPT ![c] = b]
            /\ LET read == ReadFrame(frame[c], b)
               IN  CASE read = "more"     -> UNCHANGED <<server, answer>>
                     [] read = "complete" -> server' = [server EXCEPT ![c] = "read"] /\ UNCHANGED answer
                     [] OTHER             -> ProtocolRejected(c)
      BY <1>4, Zenon DEF Read
    <2>2. buffered' \in [Clients -> Nat] /\ written[c] > 0 /\ server[c] = "serving"
      BY <1>1, <1>4, <2>1 DEF TypeInv, Read
    <2>3. answer[c] = None
      BY <1>1, <2>2 DEF ServerInv
    <2>4. UNCHANGED <<clientVars, response, ownerVars, observerVars>>
      BY <1>4 DEF Read
    <2>5. CASE UNCHANGED <<server, answer>>
      <3>1. server' = [server EXCEPT ![c] = "serving"] /\ answer' = [answer EXCEPT ![c] = None]
        BY <1>1, <2>2, <2>3, <2>5 DEF TypeInv
      <3> QED
        BY <2>2, <2>4, <3>1, Unsubmitted, Zenon
    <2>6. CASE server' = [server EXCEPT ![c] = "read"] /\ UNCHANGED answer
      <3>1. answer' = [answer EXCEPT ![c] = None]
        BY <1>1, <2>3, <2>6 DEF TypeInv
      <3> QED
        BY <2>2, <2>4, <2>6, <3>1, Unsubmitted, Zenon
    <2>7. CASE ProtocolRejected(c)
      BY <1>2, <2>2, <2>4, <2>7, Unsubmitted, Zenon DEF ProtocolRejected, Answer, Definite
    <2> QED
      BY <2>1, <2>5, <2>6, <2>7
  <1>5. CASE EndOfFile(c)
    BY <1>1, <1>2, <1>5, Unsubmitted, Zenon DEF EndOfFile, ProtocolRejected, Answer, Definite, TypeInv
  <1>6. CASE ReadTimeout(c)
    <2>1. answer' = [answer EXCEPT ![c] = None]
      BY <1>1, <1>6 DEF ReadTimeout, ServerInv, TypeInv
    <2> QED
      BY <1>1, <1>6, <2>1, Unsubmitted, Zenon DEF ReadTimeout, TypeInv
  <1> QED
    BY <1>3, <1>4, <1>5, <1>6

\* An operation committed, now or after its caller left: the others keep
\* their places.
LEMMA OthersKeepTheirPlaces ==
  ASSUME IInv, NEW c \in Clients, commits' = Append(commits, c) \/ UNCHANGED commits
  PROVE  /\ commits' \in Seq(Clients) /\ Len(commits) <= Len(commits') /\ Len(commits') \in Nat
         /\ \A i \in 1..Len(commits) : i \in 1..Len(commits') /\ commits'[i] = commits[i]
         /\ Range(commits') = Range(commits) \/ Range(commits') = Range(commits) \cup {c}
         /\ commits' = Append(commits, c) =>
              Len(commits') \in 1..Len(commits') /\ commits'[Len(commits')] = c
  <1>1. commits \in Seq(Clients) /\ Len(commits) \in Nat
    BY DEF IInv, TypeInv
  <1>2. CASE commits' = Append(commits, c)
    <2>1. commits' \in Seq(Clients) /\ Len(commits') = Len(commits) + 1
      BY <1>1, <1>2, OneCommit
    <2>2. \A i \in 1..Len(commits) : commits'[i] = commits[i]
      BY <1>1, <1>2, OneCommit
    <2>3. commits'[Len(commits')] = c
      BY <1>1, <1>2, <2>1, OneCommit
    <2>4. Range(commits') = Range(commits) \cup {c}
      BY <1>1, <1>2, OneCommit
    <2> QED
      BY <1>1, <2>1, <2>2, <2>3, <2>4
  <1>3. CASE UNCHANGED commits
    <2>1. commits' # Append(commits, c)
      BY <1>1, <1>3, OneCommit
    <2> QED
      BY <1>1, <1>3, <2>1
  <1> QED
    BY <1>2, <1>3

\* Admission is checked once more, the frame is parsed, the owner decides.
LEMMA HandleStep ==
  ASSUME IInv, NEW c \in Clients, Handle(c)
  PROVE  IInv'
  <1>1. TypeInv /\ \A d \in Clients : ServerInv(d) /\ ClientInv(d)
    BY DEF IInv
  <1>2. UNCHANGED <<clientVars, buffered, response, observerVars, admitting>> /\ server[c] = "read"
    BY Zenon DEF Handle
  <1>3. ASSUME NEW by \in {"server", "protocol"}, NEW o \in {"closed", "protocol"},
               Answer(c, Response(by, o, 0)), UNCHANGED ownerVars
        PROVE  IInv'
    <2>1. Response(by, o, 0) \in Responses /\ Response(by, o, 0).by # "owner"
            /\ Response(by, o, 0).outcome \in Definite
      BY DEF Response, Responses, Definite, Outcomes
    <2> QED
      BY <1>1, <1>2, <1>3, <2>1, Unsubmitted, Zenon DEF Answer, TypeInv
  <1>4. CASE Submit(c) /\ ParseFrame(frame[c]) = "none"
    <2> USE DEF clientVars, ownerVars, observerVars
    <2>1. ~Taken(c) /\ answer[c] = None /\ response[c] = None /\ client[c] # "idle" /\ written[c] > 0
      BY <1>1, <1>2 DEF TypeInv, ServerInv
    <2>2. commits' = Append(commits, c) \/ UNCHANGED commits
      BY <1>4, Zenon DEF Submit
    <2>3. PICK o \in Outcomes \ {"protocol"}, n \in Nat :
            /\ answer' = [answer EXCEPT ![c] = Response("owner", o, n)]
            /\ o = "committed" => commits' = Append(commits, c) /\ n = Len(commits') /\ undecided' = undecided
            /\ o \in Definite => UNCHANGED <<commits, undecided>>
            /\ o = "unknown" => UNCHANGED commits /\ undecided' = undecided \cup {c}
      BY <1>1, <1>4, OneCommit DEF Submit, Outcomes, Definite, TypeInv
    <2>4. Response("owner", o, n) \in Responses /\ Response("owner", o, n).by = "owner"
            /\ Response("owner", o, n).outcome = o /\ Response("owner", o, n).commit = n
      BY DEF Response, Responses
    <2>5. Response("owner", o, n) # None
      BY <2>4, ExchangeAssumption DEF Responses
    <2>6. o \in Definite \cup {"committed", "unknown"}
      BY DEF Outcomes, Definite
    <2>7. server' = [server EXCEPT ![c] = "submitted"]
      BY <1>4 DEF Submit
    <2>8. undecided' \in SUBSET Clients
      BY <1>1, <2>3, <2>6, Zenon DEF TypeInv
    <2>9. TypeInv'
      <3>1. commits' \in Seq(Clients)
        BY <2>2, OthersKeepTheirPlaces
      <3>2. server' \in [Clients -> Stages] /\ answer' \in [Clients -> Responses \cup {None}]
        BY <1>1, <2>3, <2>4, <2>7 DEF TypeInv, Stages
      <3> QED
        BY <1>1, <1>2, <2>8, <3>1, <3>2 DEF TypeInv
    <2>10. \A d \in Clients \ {c} : Taken(d)' = Taken(d)
      BY <2>2, <2>3, <2>6, OthersKeepTheirPlaces DEF Taken
    <2>11. o \in Definite => ~Taken(c)'
      BY <2>1, <2>3 DEF Taken
    <2>12. \A d \in Clients \ {c} : ServerInv(d)'
      <3> TAKE d \in Clients \ {c}
      <3>1. UNCHANGED <<client[d], server[d], answer[d], written[d], frame[d], response[d]>>
        BY <1>1, <1>2, <2>3, <2>7 DEF TypeInv
      <3>2. \A i \in 1..Len(commits) : i \in 1..Len(commits') /\ commits'[i] = commits[i]
        BY <2>2, OthersKeepTheirPlaces
      <3> QED
        BY <1>1, <2>10, <3>1, <3>2 DEF ServerInv
    <2>13. answer'[c] = Response("owner", o, n) /\ server'[c] = "submitted"
      BY <1>1, <2>3, <2>7 DEF TypeInv
    <2>14. o = "committed" => n \in 1..Len(commits') /\ commits'[n] = c
      BY <2>3, OthersKeepTheirPlaces
    <2>15. ServerInv(c)'
      BY <1>2, <1>4, <2>1, <2>4, <2>5, <2>11, <2>13, <2>14 DEF ServerInv
    <2>16. \A d \in Clients : ClientInv(d)'
      BY <1>1, <1>2, <2>7 DEF TypeInv, ClientInv
    <2>17. \A p \in Outcomes : Counted(p)' = Counted(p)
      BY <1>1, <1>2, <2>3, <2>7, Zenon DEF TypeInv, Counted
    <2>18. CountInv'
      BY <1>2, <2>2, <2>17, OthersKeepTheirPlaces, SameCounts
    <2> QED
      BY <2>9, <2>12, <2>15, <2>16, <2>18 DEF IInv
  <1> QED
    BY <1>3, <1>4 DEF Handle, ProtocolRejected

\* A step of the goroutine behind the owner, which changes no operation.
LEMMA Answering ==
  ASSUME IInv, NEW c \in Clients, NEW to \in {"counted", "projecting", "answering", "closed"},
         UNCHANGED <<clientVars, buffered, answer, ownerVars>>,
         server[c] \in {"submitted", "counted", "projecting", "answering"},
         server' = [server EXCEPT ![c] = to],
         to \in {"counted", "projecting"} => answer[c] # None /\ answer[c].by = "owner",
         response' = response \/ (to = "closed" /\ response' = [response EXCEPT ![c] = answer[c]]),
         operations' \in [Outcomes -> Nat], generation' \in Nat, seen' \in [Clients -> Nat]
  PROVE  TypeInv' /\ \A d \in Clients : ServerInv(d)' /\ ClientInv(d)'
  <1>1. TypeInv /\ \A d \in Clients : ServerInv(d) /\ ClientInv(d)
    BY Zenon DEF IInv
  <1> USE DEF clientVars, ownerVars
  <1>2. TypeInv'
    BY <1>1, Zenon DEF TypeInv, Stages
  <1>3. \A d \in Clients : Taken(d)' = Taken(d)
    BY DEF Taken
  <1>4. response[c] = None /\ client[c] # "idle" /\ category[c] \notin {"accepted", "rejected", "overload", "protocol"}
    BY <1>1 DEF TypeInv, ServerInv, ClientInv
  <1>5. \A d \in Clients : ServerInv(d)'
    BY <1>1, <1>3, <1>4 DEF TypeInv, ServerInv
  <1>6. \A d \in Clients : ClientInv(d)'
    BY <1>1, <1>4 DEF TypeInv, ClientInv
  <1> QED
    BY <1>2, <1>5, <1>6

\* A step of the goroutine behind the owner that counts nothing.
LEMMA AnsweringUncounted ==
  ASSUME IInv, NEW c \in Clients, NEW to \in {"projecting", "answering", "closed"},
         UNCHANGED <<clientVars, buffered, answer, ownerVars, operations>>,
         server[c] \in {"counted", "projecting", "answering"},
         server' = [server EXCEPT ![c] = to],
         to = "projecting" => answer[c] # None /\ answer[c].by = "owner",
         response' = response \/ (to = "closed" /\ response' = [response EXCEPT ![c] = answer[c]]),
         generation' \in 0..Len(commits), seen' \in [Clients -> 0..Len(commits)]
  PROVE  IInv'
  <1>1. TypeInv
    BY DEF IInv
  <1>2. generation' \in Nat /\ seen' \in [Clients -> Nat] /\ operations' \in [Outcomes -> Nat]
    BY <1>1 DEF TypeInv
  <1>3. TypeInv' /\ \A d \in Clients : ServerInv(d)' /\ ClientInv(d)'
    BY <1>2, Answering, Zenon
  <1>4. \A o \in Outcomes : Counted(o)' = Counted(o)
    BY <1>1 DEF TypeInv, Counted
  <1>5. CountInv'
    BY <1>1, <1>4 DEF IInv, TypeInv, CountInv, ownerVars
  <1> QED
    BY <1>3, <1>5, Zenon DEF IInv

\* The outcome is counted once, for the client whose operation it is.
LEMMA CountStep ==
  ASSUME IInv, NEW c \in Clients, CountOutcome(c)
  PROVE  IInv'
  <1>1. TypeInv /\ ServerInv(c) /\ CountInv
    BY DEF IInv
  <1>2. server[c] = "submitted" /\ answer[c] \in Responses /\ answer[c].by = "owner" /\ answer[c] # None
    BY <1>1, Zenon DEF CountOutcome, ServerInv, TypeInv
  <1> DEFINE o == answer[c].outcome
  <1>3. o \in Outcomes
    BY <1>2 DEF Responses
  <1>4. operations' = [operations EXCEPT ![o] = @ + 1] /\ server' = [server EXCEPT ![c] = "counted"]
    BY Zenon DEF CountOutcome
  <1>5. UNCHANGED <<clientVars, buffered, answer, response, ownerVars, generation, seen>>
    BY DEF CountOutcome
  <1>6. operations' \in [Outcomes -> Nat]
    <2>1. operations \in [Outcomes -> Nat]
      BY <1>1, Zenon DEF TypeInv
    <2>2. operations[o] + 1 \in Nat
      BY <1>3, <2>1
    <2> HIDE DEF o
    <2> QED
      BY <1>4, <2>1, <2>2, Zenon
  <1>7. TypeInv' /\ \A d \in Clients : ServerInv(d)' /\ ClientInv(d)'
    BY <1>1, <1>2, <1>4, <1>5, <1>6, Answering, Zenon DEF TypeInv
  <1>8. \A p \in Outcomes : Counted(p)' = IF p = o THEN Counted(p) \cup {c} ELSE Counted(p)
    BY <1>1, <1>2, <1>4, <1>5, Zenon DEF TypeInv, Counted
  <1>9. \A p \in Outcomes : Counted(p) \in SUBSET Clients /\ c \notin Counted(p)
    BY <1>2 DEF Counted
  <1>10. \A p \in Outcomes : Cardinality(Counted(p) \cup {c}) = Cardinality(Counted(p)) + 1
    BY <1>9, FiniteClients, FS_AddElement
  <1>11. \A p \in Outcomes : Cardinality(Counted(p)') = Cardinality(Counted(p)) + IF p = o THEN 1 ELSE 0
    BY <1>8, <1>9, <1>10, FiniteClients
  <1> HIDE DEF o
  <1>12. \A p \in Outcomes : operations'[p] = Cardinality(Counted(p)')
    BY <1>1, <1>3, <1>4, <1>11 DEF TypeInv, CountInv
  <1>13. CountInv'
    BY <1>1, <1>5, <1>12 DEF CountInv, ownerVars
  <1> QED
    BY <1>7, <1>13 DEF IInv

\* The owner decides for nobody: the caller was told that its fate is open.
LEMMA DecideStep ==
  ASSUME IInv, NEW c \in Clients, Decide(c)
  PROVE  IInv'
  <1>1. TypeInv /\ \A d \in Clients : ServerInv(d) /\ ClientInv(d)
    BY DEF IInv
  <1> USE DEF clientVars, serverVars, observerVars
  <1>2. /\ commits' = Append(commits, c) \/ UNCHANGED commits
        /\ undecided' = undecided \ {c} /\ c \in undecided
        /\ UNCHANGED <<clientVars, serverVars, observerVars, admitting>>
    BY DEF Decide
  <1>3. commits' \in Seq(Clients) /\ Len(commits) <= Len(commits') /\ Len(commits') \in Nat
    BY <1>2, OthersKeepTheirPlaces
  <1>4. \A i \in 1..Len(commits) : i \in 1..Len(commits') /\ commits'[i] = commits[i]
    BY <1>2, OthersKeepTheirPlaces
  <1>5. \A d \in Clients : Taken(d)' => Taken(d)
    BY <1>2, OthersKeepTheirPlaces, Zenon DEF Taken
  <1>6. TypeInv'
    BY <1>1, <1>2, <1>3 DEF TypeInv
  <1>7. \A d \in Clients : ServerInv(d)' /\ ClientInv(d)'
    <2> SUFFICES ASSUME NEW d \in Clients PROVE ServerInv(d)' /\ ClientInv(d)'
      BY Zenon
    <2>1. UNCHANGED <<frame, client, written, category, server, answer, response>>
      BY <1>2, Zenon
    <2>2. ClientInv(d)'
      BY <1>1, <2>1, Zenon DEF ClientInv
    <2>3. ServerInv(d)
      BY <1>1, Zenon
    <2>4. answer[d] # None /\ answer[d].outcome = "committed" =>
            answer[d].commit \in 1..Len(commits') /\ commits'[answer[d].commit] = d
      BY <1>4, <2>3, Zenon DEF ServerInv
    <2>5. Taken(d)' => Taken(d)
      BY <1>5, Zenon
    <2>6. ServerInv(d)'
      BY <2>1, <2>3, <2>4, <2>5, Zenon DEF ServerInv
    <2> QED
      BY <2>2, <2>6, Zenon
  <1>8. \A o \in Outcomes : Counted(o)' = Counted(o)
    BY <1>2, Zenon DEF Counted
  <1>9. CountInv'
    BY <1>2, <1>3, <1>8, SameCounts
  <1> QED
    BY <1>6, <1>7, <1>9 DEF IInv

\* Every step keeps the invariant.
LEMMA NextInv == IInv /\ [Next]_vars => IInv'
  <1> SUFFICES ASSUME IInv, [Next]_vars PROVE IInv'
    OBVIOUS
  <1>1. TypeInv /\ CountInv /\ \A c \in Clients : ServerInv(c)
    BY DEF IInv
  <1>2. ASSUME UNCHANGED <<clientVars, serverVars, ownerVars, observerVars>> PROVE IInv'
    <2> USE <1>2 DEF clientVars, serverVars, ownerVars, observerVars
    <2>1. TypeInv'
      BY <1>1 DEF TypeInv
    <2>2. \A c \in Clients : ServerInv(c)' /\ ClientInv(c)'
      BY Zenon DEF IInv, ServerInv, ClientInv, Taken
    <2>3. \A o \in Outcomes : Counted(o)' = Counted(o)
      BY Zenon DEF Counted
    <2>4. CountInv'
      BY <1>1, <2>3 DEF CountInv
    <2> QED
      BY <2>1, <2>2, <2>4, Zenon DEF IInv
  <1>3. ASSUME NEW c \in Clients, ReadState(c) PROVE IInv'
    <2>1. Len(commits) \in Nat /\ generation \in 0..Len(commits)
      BY <1>1 DEF TypeInv, CountInv
    <2>2. seen' \in [Clients -> 0..Len(commits)]
      BY <1>1, <1>3, <2>1 DEF ReadState, TypeInv, CountInv
    <2>3. answer[c] # None /\ answer[c].by = "owner"
      BY <1>1, <1>3 DEF ReadState, ServerInv
    <2> QED
      BY <1>3, <2>1, <2>2, <2>3, AnsweringUncounted, Zenon DEF ReadState
  <1>4. ASSUME NEW c \in Clients, ShowState(c) PROVE IInv'
    <2>1. Len(commits) \in Nat /\ seen[c] \in 0..Len(commits)
      BY <1>1 DEF TypeInv, CountInv
    <2>2. seen' \in [Clients -> 0..Len(commits)]
      BY <1>1, <1>4, <2>1 DEF ShowState, TypeInv, CountInv
    <2> QED
      BY <1>4, <2>1, <2>2, AnsweringUncounted, Zenon DEF ShowState
  <1>5. ASSUME NEW c \in Clients, WriteResponse(c) PROVE IInv'
    <2>1. generation \in 0..Len(commits) /\ seen \in [Clients -> 0..Len(commits)]
      BY <1>1 DEF TypeInv, CountInv
    <2> QED
      BY <1>5, <2>1, AnsweringUncounted, Zenon DEF WriteResponse, observerVars
  <1>6. CASE CloseAdmission
    BY <1>2, <1>6 DEF CloseAdmission
  <1>7. CASE UNCHANGED vars
    BY <1>2, <1>7 DEF vars
  <1> QED
    BY <1>3, <1>4, <1>5, <1>6, <1>7, ClientSteps, ServerSteps, HandleStep, CountStep, DecideStep DEF Next

\* The invariant holds in every state.
THEOREM Invariant == Spec => []IInv
  BY InitInv, NextInv, PTL DEF Spec

----------------------------------------------------------------------------
(* What follows from it *)

\* The exit code of the client: 0 only for a committed operation, 3 to 6 only
\* for one that is not and will not be committed, for any number of clients.
THEOREM HonestExit == Spec => []ExitCodeIsHonest
  <1>1. IInv => ExitCodeIsHonest
    <2> SUFFICES ASSUME IInv, NEW c \in Clients, client[c] = "done"
                 PROVE  LET exit == ExitCode(category[c])
                        IN  /\ exit = 0 => response[c].commit \in 1..Len(commits) /\ commits[response[c].commit] = c
                            /\ exit \in 3..6 => c \notin Range(commits) /\ c \notin undecided
      BY DEF ExitCodeIsHonest
    <2>1. ServerInv(c) /\ ClientInv(c) /\ category[c] \in Categories
      BY DEF IInv, TypeInv
    <2>2. ExitCode(category[c]) = 0 => category[c] = "accepted"
      BY <2>1 DEF ExitCode, Categories
    <2>3. ExitCode(category[c]) \in 3..6 => category[c] \in {"rejected", "overload", "protocol", "transport"}
      BY <2>1 DEF ExitCode, Categories
    <2>4. category[c] = "accepted" => response[c].commit \in 1..Len(commits) /\ commits[response[c].commit] = c
      BY <2>1 DEF ServerInv, ClientInv
    <2>5. category[c] \in {"rejected", "overload", "protocol"} => ~Taken(c)
      BY <2>1 DEF ServerInv, ClientInv
    <2>6. category[c] = "transport" => ~Taken(c)
      BY <2>1 DEF ServerInv, ClientInv
    <2> QED
      BY <2>2, <2>3, <2>4, <2>5, <2>6 DEF Taken
  <1> QED
    BY <1>1, Invariant, PTL

\* As many members as there are fields, and every field among them: each
\* field exactly once, and nothing else.
LEMMA ExactFields ==
  ASSUME NEW members \in Seq(STRING), NEW fields, Len(members) = Cardinality(fields), fields \subseteq Range(members)
  PROVE  Range(members) = fields /\ Len(members) = Cardinality(Range(members))
  <1>1. Len(members) \in Nat /\ DOMAIN members = 1..Len(members)
    OBVIOUS
  <1>2. members \in Surjection(1..Len(members), Range(members))
    BY <1>1 DEF Surjection, Range
  <1>3. IsFiniteSet(1..Len(members)) /\ Cardinality(1..Len(members)) = Len(members)
    BY <1>1, FS_Interval
  <1>4. IsFiniteSet(Range(members)) /\ Cardinality(Range(members)) <= Len(members)
    BY <1>2, <1>3, FS_Surjection
  <1>5. /\ Cardinality(fields) <= Cardinality(Range(members))
        /\ Cardinality(Range(members)) = Cardinality(fields) => Range(members) = fields
    BY <1>4, FS_Subset
  <1>6. Cardinality(Range(members)) \in Nat
    BY <1>4, FS_CardinalityType
  <1> QED
    BY <1>1, <1>4, <1>5, <1>6

\* A commit needs a complete frame inside the bound that is a well-formed
\* request of version 1, however its bytes arrived.
THEOREM ValidCommits == Spec => []OnlyValidFramesCommit
  <1>1. ASSUME NEW f, ParseFrame(f) = "none", f.line \in Nat, f.members \in Seq(STRING),
               f.version \in {"one", "mistyped", "other"},
               f.object \in BOOLEAN, f.typed \in BOOLEAN, f.numbers \in BOOLEAN
        PROVE  /\ f.line \in 1..FrameBytes
               /\ f.object /\ f.version = "one" /\ f.typed /\ f.numbers
               /\ Len(f.members) = Cardinality(Range(f.members))
               /\ Range(f.members) = IF f.op = "declare" THEN DeclarationFields ELSE OperationFields
    <2>1. /\ f.line # 0 /\ ~(f.line > FrameBytes)
          /\ f.object /\ VersionError(f) = "none"
          /\ \/ Operation(f) = "declare" /\ parseDeclaration(f)
             \/ Operation(f) \in MutationKinds /\ parseOperation(f)
      BY <1>1 DEF ParseFrame
    <2>2. f.version = "one"
      BY <1>1, <2>1, Zenon DEF VersionError
    <2>3. CASE Operation(f) = "declare" /\ parseDeclaration(f)
      <3>1. f.op = "declare" /\ f.typed /\ f.numbers
        BY <2>3 DEF Operation, parseDeclaration, parseNumber
      <3>2. Range(f.members) = DeclarationFields /\ Len(f.members) = Cardinality(Range(f.members))
        BY <1>1, <2>3, ExactFields, Zenon DEF parseDeclaration, exactFields
      <3> QED
        BY <1>1, <2>1, <2>2, <3>1, <3>2, ExchangeAssumption
    <2>4. CASE Operation(f) \in MutationKinds /\ parseOperation(f)
      <3>1. f.op # "declare" /\ f.typed /\ f.numbers
        BY <2>4 DEF Operation, MutationKinds, parseOperation, parseNumber
      <3>2. Range(f.members) = OperationFields /\ Len(f.members) = Cardinality(Range(f.members))
        BY <1>1, <2>4, ExactFields, Zenon DEF parseOperation, exactFields
      <3> QED
        BY <1>1, <2>1, <2>2, <3>1, <3>2, ExchangeAssumption
    <2> QED
      BY <2>1, <2>3, <2>4
  <1>2. IInv => OnlyValidFramesCommit
    <2> SUFFICES ASSUME IInv PROVE OnlyValidFramesCommit
      BY Zenon
    <2>1. \A c \in Range(commits) \cup undecided : c \in Clients /\ Taken(c)
      BY DEF IInv, TypeInv, Taken, Range
    <2>2. \A c \in Clients : Taken(c) => ParseFrame(frame[c]) = "none"
      BY DEF IInv, ServerInv
    <2>3. \A c \in Clients : frame[c] \in Frames[c]
      BY Zenon DEF IInv, TypeInv
    <2> QED
      BY <1>1, <2>1, <2>2, <2>3, ExchangeAssumption DEF OnlyValidFramesCommit
  <1> QED
    BY <1>2, Invariant, PTL

\* What the observer counts, against the decisions of the owner and the
\* answers of the clients; the generation it shows is never ahead.
THEOREM HonestObserver == Spec => []ObserverIsHonest
  <1>1. IInv => ObserverIsHonest
    <2> SUFFICES ASSUME IInv PROVE ObserverIsHonest
      OBVIOUS
    <2> DEFINE Answered(o) ==
                 {c \in Clients : response[c] # None /\ response[c].by = "owner" /\ response[c].outcome = o}
               Decided(o) ==
                 {c \in Clients : answer[c] # None /\ answer[c].by = "owner" /\ answer[c].outcome = o}
               atRest == \A c \in Clients : server[c] \in {"none", "backlog", "closed"}
    <2>1. TypeInv /\ CountInv /\ \A c \in Clients : ServerInv(c)
      BY DEF IInv
    <2>2. \A o \in Outcomes : /\ Answered(o) \in SUBSET Counted(o) /\ Counted(o) \in SUBSET Decided(o)
                              /\ Decided(o) \in SUBSET Clients
      BY <2>1 DEF ServerInv, Counted
    <2>3. atRest => \A o \in Outcomes : Counted(o) = Decided(o)
      BY <2>1 DEF ServerInv, Counted
    <2> HIDE DEF Answered, Decided, atRest
    <2>4. \A o \in Outcomes :
            /\ IsFiniteSet(Decided(o)) /\ Cardinality(Decided(o)) \in Nat
            /\ IsFiniteSet(Counted(o)) /\ Cardinality(Counted(o)) \in Nat
            /\ Cardinality(Answered(o)) \in Nat
      BY <2>2, FiniteClients
    <2>5. \A o \in Outcomes : Cardinality(Answered(o)) <= Cardinality(Counted(o))
                              /\ Cardinality(Counted(o)) <= Cardinality(Decided(o))
      BY <2>2, <2>4, FS_Subset
    <2>6. \A o \in Outcomes : operations[o] \in Cardinality(Answered(o))..Cardinality(Decided(o))
      BY <2>1, <2>4, <2>5 DEF CountInv
    <2>7. atRest => \A o \in Outcomes : operations[o] = Cardinality(Decided(o))
      BY <2>1, <2>3 DEF CountInv
    <2>8. generation <= Len(commits)
      BY <2>1 DEF CountInv
    <2> QED
      BY <2>6, <2>7, <2>8, Zenon DEF ObserverIsHonest, Answered, Decided, atRest
  <1> QED
    BY <1>1, Invariant, PTL
=============================================================================
