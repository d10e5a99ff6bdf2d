SPECIFICATION Spec
CONSTANTS
  a = a
  b = b
  k = k
  Names = {a, b}
  Containers = {k}
  Mounts <- MCMounts
  Asks <- MCAsks
  MaxRequests = 3
  MaxWaiting = 2
INVARIANTS SizeInv
PROPERTIES PermissionsRestore ImplementsVolumePool SizesSettle
CHECK_DEADLOCK FALSE
