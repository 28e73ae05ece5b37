-------------------------- MODULE SnapshotRegister --------------------------
(***************************************************************************)
(* What the ingestion core promises its callers: one register holding the  *)
(* last accepted snapshot.  A publication is answered once, atomically: it *)
(* is accepted and becomes the next generation, or it is refused and       *)
(* changes nothing.  Whether it can be accepted depends only on the        *)
(* publications accepted before it.  After the seal nothing is accepted.   *)
(***************************************************************************)
EXTENDS Integers

CONSTANTS Calls, MaxGeneration, Zero

VARIABLES
  families,  \* families[c]: the family types call c publishes
  register,  \* the active snapshot: its generation and the call it came from
  sealed,    \* the register was frozen
  answer     \* answer[c]: "none", "refused", or "accepted"

vars == <<families, register, sealed, answer>>

Init ==
  /\ register = [generation |-> 0, payload |-> Zero]
  /\ sealed = FALSE
  /\ answer = [c \in Calls |-> "none"]

\* Two snapshots agree on the type of every family they share.
Compatible(c, d) ==
  \A f \in DOMAIN families[c] \cap DOMAIN families[d] : families[c][f] = families[d][f]

Accept(c) ==
  /\ answer[c] = "none"
  /\ ~sealed
  /\ register.generation < MaxGeneration
  /\ \A d \in Calls : answer[d] = "accepted" => Compatible(c, d)
  /\ register' = [generation |-> register.generation + 1, payload |-> c]
  /\ answer' = [answer EXCEPT ![c] = "accepted"]
  /\ UNCHANGED <<families, sealed>>

Refuse(c) ==
  /\ answer[c] = "none"
  /\ answer' = [answer EXCEPT ![c] = "refused"]
  /\ UNCHANGED <<families, register, sealed>>

Seal ==
  /\ sealed' = TRUE
  /\ UNCHANGED <<families, register, answer>>

Next ==
  \/ \E c \in Calls : Accept(c) \/ Refuse(c)
  \/ Seal

Spec == Init /\ [][Next]_vars
=============================================================================
