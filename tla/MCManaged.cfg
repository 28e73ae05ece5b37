\* Two requests, overload at the server and at the owner, a drain with work in
\* the queue, a late request, and the fairness of the scheduler.
SPECIFICATION FairSpec
CONSTANTS
  Requests = {r1, r2}
  Limits <- MCLimits
  QueueCapacity = 1
  None = None
INVARIANTS
  AnswersAreHonest
  FinalSnapshotIsComplete
  ReuseIsSound
PROPERTIES
  ImplementsLog
  FinalizationEnds
\* A stop before the exit is a counterexample of FinalizationEnds.
CHECK_DEADLOCK FALSE
