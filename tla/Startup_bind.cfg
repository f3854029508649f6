SPECIFICATION Spec
CONSTANTS
  NumVehicles = 2
  Worlds <- MCWorlds
  DoubleOf <- MCDoubleOf
  UInt16 = 4
  RangeFields = 2
  AnyIndex <- MCAnyIndex
INVARIANTS
  AbortedStaysOffline
