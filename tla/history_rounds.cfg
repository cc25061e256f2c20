\* A small, a large and a read result, compacted again and again.
CONSTANTS
  Sources = {"note", "trace", "file"}
  Kind <- KindOf
  Call <- CallOf
  Size <- SizeOf
  Chatty <- Trace
  FormSize <- FormSizes
  Hot = 1  Warm = 1
  ProtectFirst = 1  ProtectLast = 1
  MinItem = 4  AggregateBudget = 3  Materiality = 2
  NoOpMax = 1
  Builtin = TRUE
  MaxMessages = 5  MaxStored = 3
SPECIFICATION Spec
INVARIANTS
  TypeOK
  
  KeptExact
CHECK_DEADLOCK FALSE
