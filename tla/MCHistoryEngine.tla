--------------------------- MODULE MCHistoryEngine ---------------------------
(* Small instances of the context engine. *)
EXTENDS HistoryEngine

Trace == {"trace"}
Kinds == [log |-> "now", note |-> "now", trace |-> "now", file |-> "aged", diff |-> "never"]
Calls == [log |-> "terminal", note |-> "terminal", trace |-> "terminal",
          file |-> "read_file", diff |-> "patch"]
Sizes == [log |-> 6, note |-> 3, trace |-> 6, file |-> 5, diff |-> 6]
FormSizes == [warm |-> 2, cold |-> 1, part |-> 1]
KindOf == [s \in Sources |-> Kinds[s]]
CallOf == [s \in Sources |-> Calls[s]]
SizeOf == [s \in Sources |-> Sizes[s]]
=============================================================================
