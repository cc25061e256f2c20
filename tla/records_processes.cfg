\* Two threads of one process and one of another, two rotations.
CONSTANTS
  w1 = w1  w2 = w2  w3 = w3  gw = gw  cli = cli  s1 = s1  c1 = c1  t1 = t1
  Workers = {w1, w2, w3}
  Home <- Homes
  Sources = {s1}
  Turns = {t1}  Calls = {c1}
  Rotations = 2
  LinesMax = 1
  FilesMax = 1
  Retention = 0  Interval = 1
  Faults = {"log", "rotate", "unlink", "crash"}
  MaxReports = 2  MaxRecords = 2  MaxPins = 1  MaxTime = 1  MaxFaults = 1  Budget = 4
  Absent = Absent  Gone = Gone
SPECIFICATION Spec
INVARIANTS
  TypeOK
  OldestGoFirst
  
  
PROPERTIES
  PinnedKept
SYMMETRY Alike
CHECK_DEADLOCK FALSE
