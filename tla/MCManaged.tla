----------------------------- MODULE MCManaged -----------------------------
(* Two requests and a queue of one.  The connections suffice and the core   *)
(* takes every registry, or there is one of both.                           *)
EXTENDS Managed

MCLimits ==
  {[connections |-> 2, core |-> 2], [connections |-> 1, core |-> 1]}
=============================================================================
