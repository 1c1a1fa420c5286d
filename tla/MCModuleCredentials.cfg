SPECIFICATION Spec
CONSTANTS
  Replicas = {r1, r2}
  Modules = {a, b}
  Beside = {a}
  Grants = {g1, g2}
  Charts <- MCCharts
  a = a
  b = b
  g1 = g1
  g2 = g2
  Nothing = nothing
  Malformed = malformed
  None = none
  TTL = 3
  RenewBefore = 1
  MaxEdits = 1
  MaxFaults = 1
INVARIANTS
  NeverLapses
PROPERTIES
  DeclarerIsServed
  UndeclaredLosesCredential
  WritesSettle
\* In a namespace without modules nothing happens.
CHECK_DEADLOCK FALSE
