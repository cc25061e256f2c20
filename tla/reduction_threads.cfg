\* Two workers, nothing leaves the stores: what a marker and a negative outcome
\* stand for.
CONSTANTS
  w1 = w1  w2 = w2  terminal = terminal  search = search
  Workers = {w1, w2}
  NCalls = 2
  ToolOf <- TwoTools
  Verdicts <- AllPass
  Buried = {}
  Outcomes <- AnyAnswer
  LocalWrites = TRUE
  CacheMax = 2
  NegativeTTL = 1
  Faults = {"local", "write"}
  MaxTime = 2
  MaxRequests = 1
SPECIFICATION Spec
INVARIANTS
  ReplacedIsRecoverable
PROPERTIES
  NoRepeatedWork
SYMMETRY Threads
CHECK_DEADLOCK FALSE
