SPECIFICATION Spec
CONSTANTS
  Replicas = {r1}
  Observers = {o1, o2}
  Tokens <- MCTokens
  Interval = 2
  RecordTimeout = 1
  MaxOwnerAge = 3
INVARIANTS
  MintBacked
  StaleRoleHeals
PROPERTY DemotionTakesEffect
