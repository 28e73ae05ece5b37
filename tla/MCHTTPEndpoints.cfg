\* Two posts, two scrapes and one slot.
SPECIFICATION EndpointsSpec
CONSTANTS
  r1 = r1
  r2 = r2
  s1 = s1
  s2 = s2
  Requests = {r1, r2}
  Bodies <- MCBodies
  WireBytes = 1
  DecodedBytes = 1
  Families <- MCFamilies
  Scrapes = {s1, s2}
  Headers <- MCHeaders
  Include <- MCInclude
  Exclude <- MCExclude
  Concurrent = 1
  Limit = 1
INVARIANTS
  NothingTruncated
  StatusIsHonest
  AcknowledgedIsExposed
\* Every request is answered or its connection ends.
CHECK_DEADLOCK FALSE
