\* A termination signal between the two registrations, without any fault.
SPECIFICATION FairSpec
CONSTANTS
  Descendants = {d1}
  MayEscape = FALSE
  Faults = {}
  SignalCapacity = 2
  ReapCapacity = 1
  MaxSignals = 2
PROPERTY TerminationIsForwarded
