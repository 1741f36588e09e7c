SPECIFICATION Spec
CONSTANTS
  Domains = {auth, logging}
  Auth = auth
  Paths = {p1, p2}
  Values = {"off", "on"}
  p1 = p1
  p2 = p2
  Bodies <- MCBodies
  Default <- MCDefault
  Bundles <- MCBundles
  Requests = {q1, q2}
  Subscribers = {s1}
  Faults = {"apply", "store", "answer"}
  MaxWrites = 3
  Nobody = Nobody
SYMMETRY MCSymmetry
INVARIANTS ConfigInv VersionNamesData
PROPERTY NoLostUpdate
