SPECIFICATION Spec
CONSTANTS
  Slugs = {s1, s2, s3}
  Writers = {w1, w2}
  Values = {v1}
  Top = Top
  None = None
  Keep = Keep
  MaxIds = 2
INVARIANTS
  TwoLevelsWithoutOverlap
  BoundOnce
PROPERTIES
  UnbindsItsOwn
SYMMETRY Symmetry
