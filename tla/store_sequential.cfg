\* One caller whose writes may fail: what an answer promises, and the bounds at rest.
CONSTANTS
  p1 = p1  p2 = p2  d1 = d1  d2 = d2  d3 = d3  d4 = d4
  a1 = a1  a2 = a2  a3 = a3  a4 = a4
  Procs = {p1}
  Digests = {d1, d2, d3, d4}
  Aliases = {a1, a2, a3, a4}
  SourceOf <- QuadSource
  Size <- QuadSizes
  Secret = {d4}
  Protections = {TRUE, FALSE}
  Queries = {a1, d2}
  Refusals = {"disabled"}
  Faults = {"put"}
  TTL = 2
  MaxEntries = 1
  MaxBytes = 2
  RecordFloor = 2
  MaxTime = 5
  Absent = Absent
  Garbage = Garbage
SPECIFICATION Spec
INVARIANTS
  AnsweredIsRetrievable
  EntryHasPayload
  RecordsBoundedAtRest
