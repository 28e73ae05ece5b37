SPECIFICATION Spec
CONSTANTS
  c1 = c1
  c2 = c2
  Clients = {c1, c2}
  Frames <- MCFrames
  Commands <- MCCommands
  FrameBytes = 2
  None = None
INVARIANTS
  ExitCodeIsHonest
  OnlyValidFramesCommit
  ObserverIsHonest
\* Every call returns and every connection ends.
CHECK_DEADLOCK FALSE
