\* Two workers, every fault, one result that must not leave, a cache of one.
CONSTANTS
  w1 = w1  w2 = w2  terminal = terminal  search = search
  Workers = {w1, w2}
  NCalls = 3
  ToolOf <- ThreeTools
  Verdicts <- FirstRedacted
  Buried = {}
  Outcomes <- EachAnswer
  LocalWrites = TRUE
  CacheMax = 1
  NegativeTTL = 1
  Faults = {"provider", "process", "write"}
  MaxTime = 0
  MaxRequests = 2
SPECIFICATION Spec
INVARIANTS
  TypeOK
  BlockedStaysHere
  
SYMMETRY Threads
CHECK_DEADLOCK FALSE
