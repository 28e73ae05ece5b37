--------------------------- MODULE MCSupervision ---------------------------
(* A primary with one descendant; queues that fill; every fault, and the    *)
(* pairs that meet in one handler or in the cleanup after it.               *)
EXTENDS Supervision

MCFaults ==
  {{"diagnostics", "group"}, {"diagnostics", "all"}, {"group", "all"}, {"subreaper", "all"},
   {"finalizer", "group"}}
=============================================================================
