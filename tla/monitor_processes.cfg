\* Two threads, two processes, one turn of two requests and another, two old
\* traces, commands and every fault.
CONSTANTS
  w1 = w1  w2 = w2  gw = gw  cli = cli  r1 = r1  r2 = r2  r3 = r3
  t1 = t1  t2 = t2  o1 = o1  o2 = o2
  Processes = {gw, cli}
  Workers = {w1, w2}
  Owner = Owner
  Requests = {r1, r2}
  TurnOf <- OneTurn
  OldTraces <- TwoOld
  InitialFiles <- Shown
  Commands = {"off", "on_full"}
  Faults = {"status", "disk", "crash", "api"}
  MaxTurn = 1  MaxMinute = 2
  ApisMax = 1  StatsMax = 1  Drop = 1
  Window = 1  Interval = 1  Retention = 1
  TracesMax = 1  DeleteCap = 2
  MaxCommands = 1  MaxFaults = 1  MaxTime = 1
  Absent = Absent  Torn = Torn  None = None
SPECIFICATION Spec
INVARIANTS
  TypeOK
  WishKept
  Guardrails
  RootOnce
PROPERTIES
  OwnTracesKept
SYMMETRY Alike
CHECK_DEADLOCK FALSE
