\* Two callers that share the directory without a lock, the byte quota binds:
\* it holds at rest, and every call comes to an end.
CONSTANTS
  p1 = p1  p2 = p2  d1 = d1  d2 = d2  d3 = d3  d4 = d4
  a1 = a1  a2 = a2  a3 = a3  a4 = a4
  Procs = {p1, p2}
  Digests = {d1, d2}
  Aliases = {a1, a2}
  SourceOf <- PairSource
  Size <- PairSizes
  Secret = {}
  Protections = {FALSE}
  Queries = {a1}
  Refusals = {}
  Faults = {}
  TTL = 2
  MaxEntries = 2
  MaxBytes = 2
  RecordFloor = 2
  MaxTime = 3
  Absent = Absent
  Garbage = Garbage
SPECIFICATION FairSpec
INVARIANTS
  QuotaAtRest

  
CHECK_DEADLOCK FALSE
