\* One of two concurrent scrapes reaches the required count.
CONSTANTS
  Requests = {r1, r2}
  Concurrent = 2
  RequiredScrapes = 1
SPECIFICATION FairSpec
INVARIANTS
  CountIsHonest
PROPERTIES
  TerminationHasPrecedence
  RunExits
