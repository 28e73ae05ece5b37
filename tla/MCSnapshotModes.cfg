\* In one mode every document of a bounded set; in another declarations and
\* operations of every kind, single and in batches of two, up to the family,
\* series, count and generation limits; in the third any two calls to the
\* registry of self-metrics, the second of which may find a counter full.
SPECIFICATION ExpositionSpec
CONSTANTS
  Bytes <- MCBytes
  InvalidNames = {"1"}
  ReservedParts = {"metricshell_"}
  MaxFinite = 3
  Descriptors <- MCDescriptors
  Operations <- MCOperations
  ManagedLimits <- MCManagedLimits
  MaxCount = 2
  MaxGeneration = 5
  Documents <- MCDocuments
  CoreLimits <- MCCoreLimits
  Filters <- MCFilters
  MaxCounter = 1
  MaxUpdates = 2
  Counts = {2000}
  Instants = {1500}
  Durations = {0, 250, 60001}
INVARIANTS
  VerdictMatchesReference
  MaterializationIsValid
  ActiveSeriesIsExact
  ViewIsConsistent
  ExpositionIsLegal
PROPERTIES
  GenerationVersionsState
\* A document in snapshot mode is parsed once.
CHECK_DEADLOCK FALSE
