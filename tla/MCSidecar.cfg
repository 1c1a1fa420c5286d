SPECIFICATION Spec
CONSTANTS
  Conns = {c1}
  TTLs <- MCTTLs
  Interval = 2
  CallTimeout = 1
  MaxBackoff = 3
  HalfLifetime = TRUE
  Margin = 2
  MaxDeaths = 1
INVARIANTS
  Headroom
  FilesAgree
PROPERTIES
  OnlyRevocationClears
  ServesOnceBrokerGrants
CHECK_DEADLOCK FALSE
