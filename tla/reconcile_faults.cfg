\* A migration and other commands, two things that go wrong, two acts of others.
CONSTANTS
  m1 = m1  m2 = m2
  Managers = {m1, m2}
  Allowed <- Roles
  Found = {"legacy", "unmatched", "mutated"}
  OtherTasks <- Altered
  Faults = {"error", "kill", "crash", "query", "service"}
  MaxFaults = 2
  MaxEdits = 2
  None = None  Stale = Stale
SPECIFICATION Spec
INVARIANTS
  TypeOK
  RolledBack
  RetryIsGranted
  FullIsVerified
  AbsentIsFree
PROPERTIES
  ForeignKept
  StateKept
