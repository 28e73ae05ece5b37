SPECIFICATION ProgramSpec
CONSTANTS
  Configs <- MCConfigs
  ReapTime = 1
  LastSignal = 6
  Inputs <- MCInputs
  FollowedUnits = 6
  Requests <- MCRequests
  Deliveries <- MCDeliveries
  MaxFaults = 1
  MaxRuns = 3
INVARIANTS
  EveryOptionCounts
  AcceptedIsUsable
  ReserveIsKept
  ExitIsBounded
  VerifiedIsGenuine
PROPERTIES
  SignedVerifies
\* The programs exit.
CHECK_DEADLOCK FALSE
