SPECIFICATION Spec
CONSTANTS
  a = a
  x = x
  k1 = k1
  k2 = k2
  Files = {a, x}
  SourceFiles = {a}
  Containers = {k1}
PROPERTIES MergeKeepsUnique
CHECK_DEADLOCK FALSE
