\* Four changes of the producer overflow a queue of two events.
SPECIFICATION FairSpec
CONSTANTS
  ValidFiles = {a, b}
  InvalidFiles = {bad}
  Unreadable = {symlink}
  None = None
  QueueLimit = 2
  MaxChanges = 4
  InotifyMayFail = TRUE
INVARIANTS
  HashIsOfTheActive
PROPERTIES
  Convergence
