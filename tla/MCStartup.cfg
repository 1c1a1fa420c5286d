SPECIFICATION Spec
CONSTANTS
  Replicas = {r1, r2}
  MaxFaults = 2
  None = None
INVARIANTS
  AdminPasswordsAgree
  WaitsCanEnd

  
CHECK_DEADLOCK FALSE
