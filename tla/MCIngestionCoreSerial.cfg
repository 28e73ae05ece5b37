\* One publication executes and one waits behind it; the second one to
\* install meets the end of the range of generations.
SPECIFICATION FairSpec
CONSTANTS
  Calls = {c1, c2}
  Closers = {k1}
  Families = {f}
  Types = {t1}
  Concurrent = 1
  Pending = 1
  MaxGeneration = 1
  Zero = Zero
PROPERTIES
  CloseAndFreezeReturns
