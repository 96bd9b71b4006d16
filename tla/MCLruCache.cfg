SPECIFICATION Spec
CONSTANTS
  k1 = k1  k2 = k2  k3 = k3  k4 = k4
  v1 = v1  v2 = v2
  Keys <- MCKeys
  Values <- MCValues
  NoValue = NoValue
  MaxElements = 3
  MaxBlocks = 2
  SingleBlock = 2
  FirstBlock = 2
INVARIANTS
  WellLinked
PROPERTIES
  ImplementsMap
