\* One root, two commands at a time, everything that may go wrong.
CONSTANTS
  m1 = m1  m2 = m2  r1 = r1  i1 = i1  i2 = i2
  p1 = p1  q1 = q1
  Managers = {m1, m2}
  Roots = {r1}
  Profiles = {p1}
  Ports = {q1}
  Ids = {i1, i2}
  Profile <- OneProfile
  Port <- OnePort
  Earlier = {i1}
  Faults = {"error", "crash", "rollback", "foreign", "operator", "service"}
  None = None  Foreign = Foreign  Stale = Stale
SPECIFICATION FairSpec
INVARIANTS
  TypeOK
  
  
PROPERTIES
  IdentityKept
  
