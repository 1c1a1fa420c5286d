SPECIFICATION Spec
CONSTANTS
  Clients = {c1, c2}
  Mods = {m1, m2}
  Requests <- MCRequests
  MaxTTL = 5
  Second = 10
  HalfWord = 128
  MaxMemory = 1
  MaxMints = 2
  MaxCrashes = 1
  None = None
INVARIANTS
  HandedOutIsAudited
  EntriesAreIssuances
  TTLWithinCeiling
PROPERTIES
  EveryRequestIsAnswered
