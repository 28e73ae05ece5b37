------------------------------ MODULE Programs -------------------------------
(***************************************************************************)
(* The two programs the repository builds around the runtime's components: *)
(* metricshell, from its command line to its exit (Startup), and the       *)
(* release tool (Release).  They share no state, and one is run.           *)
(***************************************************************************)
EXTENDS Startup, Release

VARIABLE program

programVars == <<program, startVars, releaseVars>>

NoInput == [env |-> <<>>, args |-> <<>>, dangling |-> FALSE, retired |-> FALSE, command |-> "nothing"]

ProgramInit ==
  /\ \/ program = "metricshell" /\ StartInit
     \/ program = "release" /\ input = NoInput /\ Started
  /\ ReleaseInit

ProgramNext ==
  /\ UNCHANGED program
  /\ \/ program = "metricshell" /\ StartNext /\ UNCHANGED releaseVars
     \/ program = "release" /\ ReleaseNext /\ UNCHANGED startVars

ProgramSpec == ProgramInit /\ [][ProgramNext]_programVars
=============================================================================
