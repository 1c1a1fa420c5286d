SPECIFICATION Spec
CONSTANTS
  A = A
  B = B
  w1 = w1
  w2 = w2
  None = None
  Memberships <- MCMemberships
  Mods = {A, B}
  Openings <- MCOpenings
  Pages = {p1, p2}
  Declared <- MCDeclared
  Paths <- MCPaths
  JWTLife = 1
  NavTTL = 0
  CookieTTL = 1
INVARIANTS
  MembershipIsRecent
  LatestPageIsServedItsOwn
  PublicStaysUnderPrefix
