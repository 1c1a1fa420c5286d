SPECIFICATION Spec
CONSTANTS
  Replicas = {r1, r2, r3}
  Keys = {k1, k2}
  None = None
  Bad = Bad
  Stale = Stale
  MaxFaults = 2
INVARIANTS
  IInv
  TrustRootAgreed
PROPERTIES
  ChoiceSpec
  EveryReplicaRuns
CHECK_DEADLOCK FALSE
