SPECIFICATION Spec
CONSTANTS
  a = a
  x = x
  k1 = k1
  k2 = k2
  Files = {a, x}
  SourceFiles = {a}
  Containers = {k1, k2}
INVARIANTS CompletedMeansCopied NoPartialDestination ContainersBack
PROPERTIES CopiedBeforeDelete EarlyCancelKeepsSource
CHECK_DEADLOCK FALSE
