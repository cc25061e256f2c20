\* Two callers that share the directory without a lock, every fault.
CONSTANTS
  p1 = p1  p2 = p2  d1 = d1  d2 = d2  d3 = d3  d4 = d4
  a1 = a1  a2 = a2  a3 = a3  a4 = a4
  Procs = {p1, p2}
  Digests = {d1, d2}
  Aliases = {a1, a2}
  SourceOf <- PairSource
  Size <- PairSizes
  Secret = {d2}
  Protections = {TRUE, FALSE}
  Queries = {a1, a2}
  Refusals = {}
  Faults = {"put", "undo", "sweep", "crash", "damage"}
  TTL = 1
  MaxEntries = 1
  MaxBytes = 2
  RecordFloor = 2
  MaxTime = 2
  Absent = Absent
  Garbage = Garbage
SPECIFICATION Spec
INVARIANTS
  TypeOK
  SecretNeverStored
PROPERTIES
  ImplementsContract
SYMMETRY Callers
