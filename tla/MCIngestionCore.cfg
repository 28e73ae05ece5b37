\* Three publications, two of which may be admitted and execute at once, and
\* three generations: enough for a family to be left out and come back.
SPECIFICATION Spec
CONSTANTS
  Calls = {c1, c2, c3}
  Closers = {k1}
  Families = {f}
  Types = {t1, t2}
  Concurrent = 2
  Pending = 0
  MaxGeneration = 3
  Zero = Zero
SYMMETRY CallSymmetry
INVARIANTS
  AcceptedHistoryIsLinear
  DrainKeepsAdmittedWork
PROPERTIES
  ImplementsRegister
