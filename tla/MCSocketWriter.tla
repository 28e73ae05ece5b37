--------------------------- MODULE MCSocketWriter ---------------------------
(* SocketWriter for TLC: a Writer on one connection and a peer on another.   *)
EXTENDS SocketWriter

CONSTANTS x, y, c1, p, q, k1, k2

MCPieceBytes == [piece \in {x, y} |-> 1]

MCCallConnection == [k \in Calls |-> c1]

MCCallId == [k \in Calls |-> p]

\* The candidates of the calls have the same size, also with parts exchanged.
MCCallContent == [k \in Calls |-> IF k = k1 THEN <<x, x>> ELSE <<y, y>>]

\* The peer uses the id of the calls too.  It can repeat a part, leave one out,
\* send one that is no payload, and take both slots.
MCPeerFrames ==
  {f \in Frames :
     CASE f.kind = "BEGIN" -> <<f.id, f.parts, f.declared>> \in
                                {<<p, 0, 1>>, <<p, 1, 3>>, <<p, 1, 2>>, <<p, 2, 2>>, <<q, 1, 1>>}
       [] f.kind = "PART" -> f.id = p /\ f.piece \in IF f.index = 0 THEN {x, Padded, None} ELSE {x}
       [] f.kind = "COMMIT" -> TRUE
       [] f.kind = "OTHER" -> f.id = "invalid" /\ f.failure = "malformed"}
=============================================================================
