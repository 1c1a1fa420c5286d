SPECIFICATION Spec
CONSTANTS
  Names = {n1}
  Deleters = {d1, d2}
  Runs = {m1, m2}
  None = None
  TTL = 3
  MintLag = 1
  MaxGen = 2
INVARIANTS
  TokenBacked
  DisabledMintsFail
PROPERTY DeletesOnlyDisabled
