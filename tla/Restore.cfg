SPECIFICATION Spec
CONSTANTS
  a = a
  b = b
  x = x
  Files = {a, b, x}
  ArchiveFiles = {a, b}
  MaxCrashes = 1
INVARIANTS CompletedMeansRestored NoResolutionNoMixture NeverHalfRestored NoTempLeft
PROPERTIES LocalMergeKeepsUnique
CHECK_DEADLOCK FALSE
