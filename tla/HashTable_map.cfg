SPECIFICATION Spec
CONSTANTS
  Keys = {0, 2, 6, 7}
  Values <- MCValues
  ResetValue <- MCResetValue
  Hash <- MCHash
  Primes <- MCPrimes
  NULL = NULL
INVARIANTS
  TypeOK
  CountRight
PROPERTIES
  ImplementsMap
