---------------------------- MODULE SocketWriter ----------------------------
(***************************************************************************)
(* The clients of MSP/1 on top of the server.  A peer is a client of any   *)
(* make: it sends frames in any order and leaves at any time.  The others  *)
(* use the official client:                                                *)
(*   implementation/client/writer.go                                       *)
(*                                                                         *)
(* Goroutines share the Writer of a connection.  Its gate lets one Publish *)
(* at a time send frames and read answers; a deadline can end a Publish    *)
(* in the middle of a frame or while an answer is still on its way, and    *)
(* the connection is kept.  The next Publish then writes behind that piece *)
(* of a frame and reads the answers the last one left behind.              *)
(***************************************************************************)
EXTENDS SocketProtocol

CONSTANTS
  Calls,          \* calls of Writer.Publish
  CallConnection, \* CallConnection[k]: the connection of its Writer
  CallId,         \* CallId[k]: publicationID, also of an earlier call
  CallContent,    \* CallContent[k]: the candidate, as split makes parts of it
  PeerFrames      \* the frames that peers send

ASSUME PeerAssumption ==
  PeerFrames \subseteq Frames /\ \A k \in Calls : CallConnection[k] \in Connections \ Peers

VARIABLES
  toServer,  \* toServer[c]: frames on their way
  call,      \* call[k]: "new", "awaiting" or "done"
  step,      \* step[k]: 0 after BEGIN, i after part i - 1, then COMMIT
  result     \* result[k]: the ErrorKind or "ok", and the generation

callVars   == <<call, step, result>>
writerVars == <<vars, toServer, callVars>>
serverVars == <<stage, transactions, committing, slots, log>>

Result(kind, generation) == [kind |-> kind, generation |-> generation]

\* What is left of a line when a read timed out in the middle of it.
Torn == Answer("torn", None, "torn", 0)

WriterInit ==
  /\ Init
  /\ toServer = [c \in Connections |-> <<>>]
  /\ call = [k \in Calls |-> "new"]
  /\ step = [k \in Calls |-> 0]
  /\ result = [k \in Calls |-> Result("none", 0)]

----------------------------------------------------------------------------
(* The server, reading what was sent *)

ServePeer(c) ==
  /\ c \in Peers
  /\ \E f \in PeerFrames : process(c, f)
  /\ UNCHANGED <<toServer, callVars>>

ServeFrame(c) ==
  /\ toServer[c] # <<>> /\ Head(toServer[c]).kind # "STUB"
  /\ process(c, Head(toServer[c]))
  /\ toServer' = [toServer EXCEPT ![c] = Tail(@)]
  /\ UNCHANGED callVars

ServePublish(c) ==
  /\ PublishAccepted(c) \/ PublishDeclined(c)
  /\ UNCHANGED <<toServer, callVars>>

ServeAccept(c) == Accept(c) /\ UNCHANGED <<toServer, callVars>>

\* What is still on its way to the server is lost.
ServeLeave(c) ==
  /\ Leave(c)
  /\ toServer' = [toServer EXCEPT ![c] = <<>>]
  /\ UNCHANGED callVars

ServeExpire(c, id) == Expire(c, id) /\ UNCHANGED <<toServer, callVars>>

----------------------------------------------------------------------------
(* Writer.Publish *)

GateFree(c) == \A k \in Calls : CallConnection[k] = c => call[k] # "awaiting"

Frame(k, s) ==
  LET content == CallContent[k] IN
    IF s = 0 THEN [kind |-> "BEGIN", id |-> CallId[k], parts |-> Len(content),
                   declared |-> Bytes(content)]
    ELSE IF s <= Len(content) THEN [kind |-> "PART", id |-> CallId[k], index |-> s - 1,
                                    piece |-> content[s]]
    ELSE [kind |-> "COMMIT", id |-> CallId[k]]

Finish(k, kind, generation) ==
  /\ call' = [call EXCEPT ![k] = "done"]
  /\ result' = [result EXCEPT ![k] = Result(kind, generation)]
  /\ UNCHANGED step

\* The start of a frame, without the end of its line.  What is written next
\* continues that line, which then has too many fields or does not begin with
\* MSP/1; an id is read from its third field.  (A line that begins with MSP/ is
\* answered protocol_version, which Publish does not tell from malformed.)
Stub(k) == [kind |-> "STUB", id |-> CallId[k]]

Whole(frames) == SelectSeq(frames, LAMBDA f : f.kind # "STUB")

Continued(frames, f) ==
  IF Whole(frames) = frames THEN {Append(frames, f)}
  ELSE {Append(Whole(frames), [kind |-> "OTHER", id |-> id, failure |-> "malformed"]) :
          id \in {frames[Len(frames)].id, "invalid"}}

\* writeAll: frame s is sent, or the deadline passes when none or some of it
\* is written, or the peer has closed the connection.
Send(k, s) ==
  LET c == CallConnection[k] IN
    \/ /\ stage[c] # "closed"
       /\ \E frames \in Continued(toServer[c], Frame(k, s)) : toServer' = [toServer EXCEPT ![c] = frames]
       /\ call' = [call EXCEPT ![k] = "awaiting"]
       /\ step' = [step EXCEPT ![k] = s]
       /\ UNCHANGED result
    \/ /\ stage[c] # "closed"
       /\ \E frames \in {toServer[c], Append(Whole(toServer[c]), Stub(k))} :
            toServer' = [toServer EXCEPT ![c] = frames]
       /\ Finish(k, "timeout", 0)
    \/ stage[c] = "closed" /\ Finish(k, "closed_connection", 0) /\ UNCHANGED toServer

\* Publish takes the gate and sends BEGIN; connections were dialled before.
Enter(k) ==
  LET c == CallConnection[k] IN
    /\ call[k] = "new" /\ GateFree(c)
    /\ Send(k, 0)
    /\ UNCHANGED vars

\* The context ends while the call waits for the gate.
Cancel(k) ==
  /\ call[k] = "new"
  /\ Finish(k, "timeout", 0)
  /\ UNCHANGED <<vars, toServer>>

Expected(k) ==
  IF step[k] = 0 THEN Answer("FRAME_ACCEPTED", CallId[k], "BEGIN", 0)
  ELSE Answer("FRAME_ACCEPTED", CallId[k], "index", step[k] - 1)

\* response and responseError: the error an unexpected answer is.
ErrorOf(k, answer) ==
  IF answer = Torn THEN "invalid_response"
  ELSE IF answer.id # CallId[k] THEN "response_mismatch"
  ELSE IF answer.kind = "NACK" THEN "rejected"
  ELSE "invalid_response"

\* roundTrip, and the answer to COMMIT: the next line is read, whoever caused
\* it, and compared with the one that is expected.
Receive(k) ==
  LET c == CallConnection[k]  answer == Head(toClient[c])  last == Len(CallContent[k]) + 1 IN
    /\ call[k] = "awaiting" /\ toClient[c] # <<>>
    /\ toClient' = [toClient EXCEPT ![c] = Tail(@)]
    /\ \/ step[k] < last /\ answer = Expected(k) /\ Send(k, step[k] + 1)
       \/ /\ step[k] = last /\ answer.kind = "ACK" /\ answer.id = CallId[k]
          /\ Finish(k, "ok", answer.number) /\ UNCHANGED toServer
       \/ /\ IF step[k] < last THEN answer # Expected(k)
             ELSE answer.kind # "ACK" \/ answer.id # CallId[k]
          /\ Finish(k, ErrorOf(k, answer), 0) /\ UNCHANGED toServer
    /\ UNCHANGED serverVars

\* The deadline passes: the answer stays in the stream, or what was read of
\* its line is lost.
Timeout(k) ==
  LET c == CallConnection[k] IN
    /\ call[k] = "awaiting"
    /\ Finish(k, "timeout", 0)
    /\ \/ UNCHANGED toClient
       \/ toClient[c] # <<>> /\ toClient' = [toClient EXCEPT ![c] = <<Torn>> \o Tail(@)]
    /\ UNCHANGED <<serverVars, toServer>>

EndOfFile(k) ==
  LET c == CallConnection[k] IN
    /\ call[k] = "awaiting" /\ toClient[c] = <<>> /\ stage[c] = "closed"
    /\ Finish(k, "closed_connection", 0)
    /\ UNCHANGED <<vars, toServer>>

Publish(k) == Enter(k) \/ Receive(k) \/ Timeout(k) \/ EndOfFile(k)

AllDone == (\A k \in Calls : call[k] = "done") /\ UNCHANGED writerVars

\* Every connection is accepted once, before it is used.
WriterNext ==
  \/ \E c \in Connections :
       \/ (\A k \in Calls : call[k] = "new") /\ ServeAccept(c)
       \/ ServePeer(c) \/ ServeFrame(c) \/ ServePublish(c) \/ ServeLeave(c)
       \/ \E id \in Ids : ServeExpire(c, id)
  \/ \E k \in Calls : Publish(k) \/ Cancel(k)
  \/ AllDone

WriterSpec == WriterInit /\ [][WriterNext]_writerVars

----------------------------------------------------------------------------
(* Properties *)

\* When Publish returns a generation, that generation is the caller's own
\* candidate and no other call was told it, also if earlier calls with the
\* same publication id timed out and left answers in the stream (writer.go
\* roundTrip, response).  And whatever those calls left over, and whatever a
\* peer sends under the same id, what is installed for a Writer's connection
\* is the whole candidate of one of its calls (protocol.go begin, part, commit).
PublishIsHonest ==
  /\ \A k \in Calls : result[k].kind = "ok" =>
       /\ result[k].generation \in 1..Len(log)
       /\ log[result[k].generation].from = CallConnection[k]
       /\ log[result[k].generation].transaction.parts = CallContent[k]
       /\ \A l \in Calls \ {k} :
            result[l].kind = "ok" => result[l].generation # result[k].generation
  /\ \A g \in 1..Len(log) : log[g].from \in Peers \/
       \E k \in Calls : log[g].from = CallConnection[k] /\ log[g].transaction.parts = CallContent[k]

=============================================================================
