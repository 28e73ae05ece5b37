\* Three signals and two faults while the primary and its descendant exit.
SPECIFICATION FairSpec
CONSTANTS
  Descendants = {d1}
  MayEscape = TRUE
  Faults <- MCFaults
  SignalCapacity = 2
  ReapCapacity = 1
  MaxSignals = 3
INVARIANTS
  ExitIsTheWorkloads
  NoChildLeftBehind
  FrozenAfterTheLastWriter
PROPERTIES
  GraceIsRespected
  ShutdownEnds
