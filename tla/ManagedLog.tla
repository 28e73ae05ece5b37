----------------------------- MODULE ManagedLog -----------------------------
(***************************************************************************)
(* What managed aggregation promises, seen from outside: committed changes *)
(* form one totally ordered log; what the endpoint exposes is always a     *)
(* complete prefix of it and never moves back; the final exposed state is  *)
(* the whole log, and once it is sealed neither of the two changes.        *)
(***************************************************************************)
EXTENDS Sequences, Integers

CONSTANTS Requests

VARIABLES
  log,      \* the committed changes, oldest first
  exposed,  \* the changes the core exposes
  sealed    \* the final snapshot was taken

vars == <<log, exposed, sealed>>

Init == log = <<>> /\ exposed = <<>> /\ sealed = FALSE

Commit(r) ==
  /\ ~sealed
  /\ ~ \E i \in 1..Len(log) : log[i] = r
  /\ log' = Append(log, r)
  /\ UNCHANGED <<exposed, sealed>>

Expose ==
  /\ ~sealed
  /\ \E n \in Len(exposed)..Len(log) : exposed' = SubSeq(log, 1, n)
  /\ UNCHANGED <<log, sealed>>

Seal ==
  /\ exposed = log
  /\ sealed' = TRUE
  /\ UNCHANGED <<log, exposed>>

Next == (\E r \in Requests : Commit(r)) \/ Expose \/ Seal

Spec == Init /\ [][Next]_vars
=============================================================================
