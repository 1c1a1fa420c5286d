SPECIFICATION Spec
CONSTANTS
  o1 = o1
  o2 = o2
  a = a
  b = b
  k = k
  Objects = {o1, o2}
  Ids = {a, b}
  Manifests <- MCManifests
  NameOf <- MCNameOf
  Kinds = {k}
  None = None
  Healthy = healthy
  Failures = {down}
  MaxEdits = 1
PROPERTIES
  RegistryIsCorrect
  ListsInstalled
  RoutesToSoleProvider
  HealthIsFollowed
  StatusWritesStop
\* A cluster without modules leaves the controller nothing to do.
CHECK_DEADLOCK FALSE
