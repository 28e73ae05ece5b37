--------------------------- MODULE ManagedExchange ---------------------------
(***************************************************************************)
(* One managed operation, from the client that sends it to the category it *)
(* reports:                                                                *)
(*   implementation/internal/managedclient/client.go     Send              *)
(*   implementation/internal/managedserver/server.go     Serve, serveConnection *)
(*   implementation/internal/managedprotocol/protocol.go ReadFrame, ParseFrame *)
(*   implementation/internal/managedobserve/observer.go  Submit, project *)
(*                                                                         *)
(* Every client has a connection of its own.  The bytes it writes reach    *)
(* the server in pieces of any size, its deadline can pass at any time,    *)
(* and the server can be closing admission.  A frame is what its parsing   *)
(* tells apart: how many bytes precede its first newline, whether anything *)
(* follows it, and what the JSON says.  The owner is abstracted to its     *)
(* outcome (Managed has the queue behind it); an operation with outcome    *)
(* "unknown" may still be committed later.  The observer between the two   *)
(* counts the outcome, reads the generation and shows it, without a lock.  *)
(***************************************************************************)
EXTENDS Integers, Sequences, FiniteSets, Functions

CONSTANTS
  Clients,     \* the calls of Send
  Frames,      \* Frames[c]: the frames a program may give a client
  Commands,    \* the command lines of the client
  FrameBytes,  \* the configured maximum of a frame, its newline not counted
  None         \* no response

Outcomes == {"committed", "rejected", "closed", "cancelled", "overloaded", "unknown", "protocol"}

ASSUME ExchangeAssumption ==
  /\ IsFiniteSet(Clients) /\ FrameBytes \in Nat
  /\ DOMAIN Frames = Clients
  /\ \A c \in Clients : \A f \in Frames[c] :
       /\ f.line \in Nat /\ f.extra \in Nat
       /\ f.members \in Seq(STRING) /\ f.version \in {"one", "mistyped", "other"}
       /\ f.object \in BOOLEAN /\ f.trailing \in BOOLEAN /\ f.typed \in BOOLEAN /\ f.numbers \in BOOLEAN
  /\ None \notin [by : {"owner", "server", "protocol"}, outcome : Outcomes, commit : Nat]

VARIABLES
  frame,      \* frame[c]: what the client sends
  client,     \* where Send is
  written,    \* how many bytes the connection took from it
  category,   \* what Send returned
  server,     \* where the goroutine serving the connection is
  buffered,   \* how many bytes its bufio.Reader took
  answer,     \* the response it is going to write
  response,   \* the response written, or None
  operations, \* metricshell_managed_operations_total, by outcome
  generation, \* the gauge metricshell_managed_generation
  seen,       \* the generation a goroutine read and is about to show
  commits,    \* the operations committed, in commit order
  undecided,  \* operations with the owner whose caller was told "unknown"
  admitting   \* Server.admitting

clientVars == <<frame, client, written, category>>
serverVars == <<server, buffered, answer, response>>
ownerVars  == <<commits, undecided>>
observerVars == <<operations, generation, seen>>
vars == <<clientVars, serverVars, ownerVars, observerVars, admitting>>

MutationKinds == {"counter_initialize", "counter_add", "gauge_set", "histogram_observe"}

Size(f) == f.line + 1 + f.extra
Response(by, outcome, commit) == [by |-> by, outcome |-> outcome, commit |-> commit]

-----------------------------------------------------------------------------
(* protocol.go *)

DeclarationFields == {"version", "op", "name", "help", "type", "label_names", "buckets"}
OperationFields   == {"version", "op", "name", "labels", "value"}

\* One JSON value, no member of an object twice.
validateUniqueJSON(f) == IsInjective(f.members) /\ ~f.trailing

exactFields(f, fields) == Len(f.members) = Cardinality(fields) /\ fields \subseteq Range(f.members)

\* A number may be bare or quoted; either way ParseFloat must take its text.
parseNumber(f) == f.numbers

parseDeclaration(f) == exactFields(f, DeclarationFields) /\ f.typed /\ parseNumber(f)
parseOperation(f)   == exactFields(f, OperationFields) /\ f.typed /\ parseNumber(f)

\* Variant: a version is required and not compared.
VersionErrorPresence(f) ==
  IF "version" \notin Range(f.members) THEN "missing_version"
  ELSE IF f.version = "mistyped"       THEN "invalid_version"
  ELSE                                      "none"

VersionError(f) ==
  IF "version" \notin Range(f.members) THEN "missing_version"
  ELSE IF f.version = "mistyped"       THEN "invalid_version"
  ELSE IF f.version = "other"          THEN "unsupported_version"
  ELSE                                      "none"

\* The operation of a frame, "none" where it has no known one.
Operation(f) == IF "op" \in Range(f.members) THEN f.op ELSE "none"

\* What is wrong with a frame ReadFrame returned (one newline, at its end), in
\* the order of the checks.
ParseFrame(f) ==
  IF f.line = 0                                          THEN "empty_frame"
  ELSE IF f.line > FrameBytes                            THEN "frame_too_large"
  ELSE IF ~validateUniqueJSON(f) \/ ~f.object            THEN "malformed_json"
  ELSE IF VersionError(f) # "none"                       THEN VersionError(f)
  ELSE IF \/ Operation(f) = "declare" /\ parseDeclaration(f)
          \/ Operation(f) \in MutationKinds /\ parseOperation(f) THEN "none"
  ELSE "invalid_request"

\* ReadFrame once b bytes are in its buffer of FrameBytes + 1: ReadSlice
\* looks for the newline, then for a full buffer; bytes behind the newline
\* count only when they are in the buffer already.
ReadFrame(f, b) ==
  CASE b > f.line + 1                        -> "multiple_frames"
    [] b = f.line + 1                        -> "complete"
    [] b < f.line + 1 /\ b = FrameBytes + 1  -> "frame_too_large"
    [] OTHER                                 -> "more"

-----------------------------------------------------------------------------
(* cli.go of the client: the frame made from a command line.  A command is  *)
(* its operation, whether its arguments are enough and well formed, whether *)
(* they have buckets that are not numbers, and the size of its encoding.    *)

LocalError(a) ==
  \/ ~a.arguments
  \/ a.op \notin MutationKinds \cup {"declare"}
  \/ a.op # "declare" /\ ~a.number

Encoded(a, members) ==
  [line |-> a.size, extra |-> 0, members |-> members, trailing |-> FALSE, object |-> TRUE,
   version |-> "one", op |-> a.op, typed |-> TRUE, numbers |-> a.number \/ (a.op = "declare" /\ ~a.buckets)]

parseCommand(a) ==
  Encoded(a, IF a.op = "declare"
               THEN <<"version", "op", "name", "type", "help", "label_names", "buckets">>
               ELSE <<"version", "op", "name", "value", "labels">>)

CommandFrames == {parseCommand(a) : a \in {x \in Commands : ~LocalError(x)}}

-----------------------------------------------------------------------------
Init ==
  /\ frame \in {f \in [Clients -> UNION Range(Frames)] : \A c \in Clients : f[c] \in Frames[c]}
  /\ client = [c \in Clients |-> "idle"]
  /\ written = [c \in Clients |-> 0]
  /\ category = [c \in Clients |-> "none"]
  /\ server = [c \in Clients |-> "none"]
  /\ buffered = [c \in Clients |-> 0]
  /\ answer = [c \in Clients |-> None]
  /\ response = [c \in Clients |-> None]
  /\ operations = [o \in Outcomes |-> 0]
  /\ generation = 0
  /\ seen = [c \in Clients |-> 0]
  /\ commits = <<>>
  /\ undecided = {}
  /\ admitting = TRUE

(* client.go *)

Return(c, what) ==
  /\ client' = [client EXCEPT ![c] = "done"]
  /\ category' = [category EXCEPT ![c] = what]

\* The connection waits in the backlog of the listener.
Dial(c) ==
  /\ client[c] = "idle"
  /\ client' = [client EXCEPT ![c] = "writing"]
  /\ server' = [server EXCEPT ![c] = "backlog"]
  /\ UNCHANGED <<frame, written, category, buffered, answer, response, ownerVars, observerVars, admitting>>

DialFails(c) ==
  /\ client[c] = "idle"
  /\ Return(c, "transport")
  /\ UNCHANGED <<frame, written, serverVars, ownerVars, observerVars, admitting>>

Write(c) ==
  /\ client[c] = "writing"
  /\ server[c] # "closed"
  /\ \E n \in 1..(Size(frame[c]) - written[c]) :
       /\ written' = [written EXCEPT ![c] = @ + n]
       /\ client' = [client EXCEPT ![c] = IF written'[c] = Size(frame[c]) THEN "reading" ELSE @]
  /\ UNCHANGED <<frame, category, serverVars, ownerVars, observerVars, admitting>>

\* The deadline passes, or the server closed the connection.
WriteFails(c) ==
  /\ client[c] = "writing"
  /\ Return(c, IF written[c] = 0 THEN "transport" ELSE "unknown")
  /\ UNCHANGED <<frame, written, serverVars, ownerVars, observerVars, admitting>>

CategoryOf(outcome) ==
  CASE outcome = "committed"                             -> "accepted"
    [] outcome \in {"rejected", "closed", "cancelled"}   -> "rejected"
    [] outcome = "overloaded"                            -> "overload"
    [] outcome = "unknown"                               -> "unknown"
    [] outcome = "protocol"                              -> "protocol"

\* RunCLI.
ExitCode(what) ==
  CASE what = "accepted"  -> 0
    [] what = "rejected"  -> 3
    [] what = "overload"  -> 4
    [] what = "protocol"  -> 5
    [] what = "transport" -> 6
    [] OTHER              -> 7

Receive(c) ==
  /\ client[c] = "reading"
  /\ response[c] # None
  /\ Return(c, CategoryOf(response[c].outcome))
  /\ UNCHANGED <<frame, written, serverVars, ownerVars, observerVars, admitting>>

\* Variant: a call without an answer is reported as a failure of the transport.
MissingResponseTransport(c) ==
  /\ client[c] = "reading"
  /\ Return(c, "transport")
  /\ UNCHANGED <<frame, written, serverVars, ownerVars, observerVars, admitting>>

\* The deadline passes, or the connection ends without a response (a server
\* that closes with unread bytes can also reset it and lose the response).
MissingResponse(c) ==
  /\ client[c] = "reading"
  /\ Return(c, "unknown")
  /\ UNCHANGED <<frame, written, serverVars, ownerVars, observerVars, admitting>>

-----------------------------------------------------------------------------
(* server.go *)

\* The response of the goroutine is decided.
Answer(c, r) ==
  /\ answer' = [answer EXCEPT ![c] = r]
  /\ server' = [server EXCEPT ![c] = "answering"]

ProtocolRejected(c) == Answer(c, Response("protocol", "protocol", 0))

\* The accept loop: rejectClosed answers after a frame or its deadline, which
\* may be at any time, without looking at what it read; no free slot is
\* answered without reading at all.
Accept(c) ==
  /\ server[c] = "backlog"
  /\ \/ ~admitting /\ Answer(c, Response("server", "closed", 0))
     \/ admitting /\ Answer(c, Response("server", "overloaded", 0))
     \/ admitting /\ server' = [server EXCEPT ![c] = "serving"] /\ UNCHANGED answer
  /\ UNCHANGED <<clientVars, buffered, response, ownerVars, observerVars, admitting>>

\* One fill of the reader's buffer, and what ReadSlice makes of it.
Read(c) ==
  /\ server[c] = "serving"
  /\ \E b \in (buffered[c] + 1)..written[c] :
       /\ b <= FrameBytes + 1
       /\ buffered' = [buffered EXCEPT ![c] = b]
       /\ LET read == ReadFrame(frame[c], b)
          IN  CASE read = "more"     -> UNCHANGED <<server, answer>>
                [] read = "complete" -> server' = [server EXCEPT ![c] = "read"] /\ UNCHANGED answer
                [] OTHER             -> ProtocolRejected(c)
  /\ UNCHANGED <<clientVars, response, ownerVars, observerVars, admitting>>

\* The client is gone and its bytes are read: partial_frame, which nobody
\* receives.
EndOfFile(c) ==
  /\ server[c] = "serving"
  /\ client[c] = "done" /\ buffered[c] = written[c]
  /\ ProtocolRejected(c)
  /\ UNCHANGED <<clientVars, buffered, response, ownerVars, observerVars, admitting>>

\* The read deadline passes, by itself or moved by CloseAdmission; there is
\* no response.
ReadTimeout(c) ==
  /\ server[c] = "serving"
  /\ server' = [server EXCEPT ![c] = "closed"]
  /\ UNCHANGED <<clientVars, buffered, answer, response, ownerVars, observerVars, admitting>>

\* Owner.Submit: the operation is committed, refused, or its fate is open.
Submit(c) ==
  /\ server' = [server EXCEPT ![c] = "submitted"]
  /\ \/ /\ commits' = Append(commits, c)
        /\ answer' = [answer EXCEPT ![c] = Response("owner", "committed", Len(commits'))]
        /\ UNCHANGED undecided
     \/ /\ \E o \in {"rejected", "closed", "cancelled", "overloaded"} :
             answer' = [answer EXCEPT ![c] = Response("owner", o, 0)]
        /\ UNCHANGED ownerVars
     \/ /\ undecided' = undecided \cup {c}
        /\ answer' = [answer EXCEPT ![c] = Response("owner", "unknown", 0)]
        /\ UNCHANGED commits

\* serveConnection after ReadFrame: admission once more, then HandleObserved.
Handle(c) ==
  /\ server[c] = "read"
  /\ IF ~admitting
       THEN Answer(c, Response("server", "closed", 0)) /\ UNCHANGED ownerVars
       ELSE IF ParseFrame(frame[c]) # "none"
              THEN ProtocolRejected(c) /\ UNCHANGED ownerVars
              ELSE Submit(c)
  /\ UNCHANGED <<clientVars, buffered, response, observerVars, admitting>>

(* observer.go: the outcome is counted, Registry.State is read, and its     *)
(* generation is shown.  Not here: the counters by class and code.          *)

\* Variant: an operation whose fate is open is not counted.
CountOutcomeKnown(c) ==
  /\ server[c] = "submitted"
  /\ operations' = IF answer[c].outcome = "unknown" THEN operations
                    ELSE [operations EXCEPT ![answer[c].outcome] = @ + 1]
  /\ server' = [server EXCEPT ![c] = "counted"]
  /\ UNCHANGED <<clientVars, buffered, answer, response, ownerVars, generation, seen, admitting>>

CountOutcome(c) ==
  /\ server[c] = "submitted"
  /\ operations' = [operations EXCEPT ![answer[c].outcome] = @ + 1]
  /\ server' = [server EXCEPT ![c] = "counted"]
  /\ UNCHANGED <<clientVars, buffered, answer, response, ownerVars, generation, seen, admitting>>

ReadState(c) ==
  /\ server[c] = "counted"
  /\ seen' = [seen EXCEPT ![c] = Len(commits)]
  /\ server' = [server EXCEPT ![c] = "projecting"]
  /\ UNCHANGED <<clientVars, buffered, answer, response, ownerVars, operations, generation, admitting>>

ShowState(c) ==
  /\ server[c] = "projecting"
  /\ generation' = seen[c]
  /\ seen' = [seen EXCEPT ![c] = 0]
  /\ server' = [server EXCEPT ![c] = "answering"]
  /\ UNCHANGED <<clientVars, buffered, answer, response, ownerVars, operations, admitting>>

\* writeResponse, then the connection is closed.
WriteResponse(c) ==
  /\ server[c] = "answering"
  /\ response' = [response EXCEPT ![c] = answer[c]]
  /\ server' = [server EXCEPT ![c] = "closed"]
  /\ UNCHANGED <<clientVars, buffered, answer, ownerVars, observerVars, admitting>>

\* The owner decides an operation whose caller has left.
Decide(c) ==
  /\ c \in undecided
  /\ undecided' = undecided \ {c}
  /\ commits' = Append(commits, c) \/ UNCHANGED commits
  /\ UNCHANGED <<clientVars, serverVars, observerVars, admitting>>

CloseAdmission ==
  /\ admitting
  /\ admitting' = FALSE
  /\ UNCHANGED <<clientVars, serverVars, ownerVars, observerVars>>

Next ==
  \/ \E c \in Clients :
       \/ Dial(c) \/ DialFails(c) \/ Write(c) \/ WriteFails(c) \/ Receive(c) \/ MissingResponse(c)
       \/ Accept(c) \/ Read(c) \/ EndOfFile(c) \/ ReadTimeout(c) \/ Handle(c)
       \/ CountOutcome(c) \/ ReadState(c) \/ ShowState(c) \/ WriteResponse(c) \/ Decide(c)
  \/ CloseAdmission

Spec == Init /\ [][Next]_vars

-----------------------------------------------------------------------------
\* What the exit code of the client lets a script do: after 0 the operation
\* is committed at the place the response named, and after 3 to 6 it is not,
\* and never will be, committed, so that it can be sent again.  Only 7 leaves
\* it open.
ExitCodeIsHonest ==
  \A c \in {d \in Clients : client[d] = "done"} :
    LET exit == ExitCode(category[c])
    IN  /\ exit = 0 => response[c].commit \in 1..Len(commits) /\ commits[response[c].commit] = c
        /\ exit \in 3..6 => c \notin Range(commits) /\ c \notin undecided

\* Only a frame inside the bound whose request is a well-formed version 1
\* request ever reaches the registry, however its bytes arrive.
OnlyValidFramesCommit ==
  \A c \in Range(commits) \cup undecided :
    /\ frame[c].line \in 1..FrameBytes
    /\ frame[c].object /\ frame[c].version = "one" /\ frame[c].typed /\ frame[c].numbers
    /\ Len(frame[c].members) = Cardinality(Range(frame[c].members))
    /\ Range(frame[c].members) = IF frame[c].op = "declare" THEN DeclarationFields ELSE OperationFields

\* No decision of the owner reaches a client before it is counted; when no
\* connection is being served the counts are exactly the decisions made; and
\* the generation shown never runs ahead of the commits (observer.go Submit
\* and project between Owner.Submit and writeResponse).
ObserverIsHonest ==
  LET Answered(o) == {c \in Clients : response[c] # None /\ response[c].by = "owner" /\ response[c].outcome = o}
      Decided(o)  == {c \in Clients : answer[c] # None /\ answer[c].by = "owner" /\ answer[c].outcome = o}
      atRest      == \A c \in Clients : server[c] \in {"none", "backlog", "closed"}
  IN
    /\ \A o \in Outcomes :
         /\ operations[o] \in Cardinality(Answered(o))..Cardinality(Decided(o))
         /\ atRest => operations[o] = Cardinality(Decided(o))
    /\ generation <= Len(commits)
=============================================================================
