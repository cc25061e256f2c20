---------------------------- MODULE HistoryEngine ----------------------------
(* The composite context engine (context_engine.py) and what it does to old  *)
(* tool results (lifecycle.py): when the host finds its history too long,    *)
(* the results between the protected head and the protected tail are put     *)
(* into shorter forms that name a marker, each by itself or, small ones,     *)
(* together; a change that saves too little is dropped and the host's own    *)
(* engine asked instead.  The new history takes the place of the old one, so *)
(* a later compaction meets the forms of an earlier one.                     *)
(*                                                                           *)
(* A marker is named by the texts that the provider keeps under it; a text   *)
(* is its source and the markers it has been put behind, innermost first.    *)
EXTENDS Integers, Sequences, FiniteSets, SequencesExt

CONSTANTS
  Sources,        \* results of tools; two messages may have the same
  Kind,           \* per source: "now", "aged" or "never", from semantic_admission
  Call,           \* per source: the tool with its arguments
  Size,           \* per source: its length
  Chatty,         \* sources whose forms begin with 2,000 characters of anchors
  FormSize,       \* the length of a form: "warm", "cold", "part"
  Hot, Warm,      \* hot_tool_results, warm_tool_results
  ProtectFirst, ProtectLast,    \* protect_first_n, protect_last_n
  MinItem, AggregateBudget, Materiality,
  NoOpMax,        \* digests remembered as of no use, 256 in the code
  Builtin,        \* whether the host has an engine of its own
  MaxMessages, MaxStored  \* bounds of the runs

Roles == {"system", "user", "tool"}
Forms == {"warm", "cold", "part"}

ASSUME EngineAssumption ==
  /\ {Hot, Warm, ProtectFirst, ProtectLast, MinItem, AggregateBudget, Materiality,
      NoOpMax, MaxMessages, MaxStored} \subseteq Nat
  /\ Kind \in [Sources -> {"now", "aged", "never"}] /\ Size \in [Sources -> Nat]
  /\ Chatty \subseteq Sources /\ DOMAIN Call = Sources
  /\ FormSize \in [Forms -> Nat] /\ Builtin \in BOOLEAN

VARIABLES history,  \* the messages of the session
          noop,     \* _no_op: histories that were of no use, oldest first
          store,    \* markers whose texts the provider keeps
          said      \* messages since the session began

vars == <<history, noop, store, said>>

-----------------------------------------------------------------------------
(* The host.                                                                 *)

Other(role) == [role |-> role, src |-> "none", layers |-> << >>, form |-> "exact"]
Result(s) == [role |-> "tool", src |-> s, layers |-> << >>, form |-> "exact"]
\* A session begins with what the user asks, with or without a system message.
Openings == {<<Other("user")>>, <<Other("system"), Other("user")>>}
Init == history \in Openings /\ noop = << >> /\ store = {} /\ said = 0

Systems(h) == {i \in DOMAIN h : h[i].role = "system"}

Say(m) ==
  /\ said < MaxMessages /\ said' = said + 1
  /\ history' = Append(history, m)
  /\ UNCHANGED <<noop, store>>
UserSays == Say(Other("user"))
ToolAnswers(s) == Say(Result(s))

\* on_session_reset; what the provider has kept nobody refers to any more.
Reset == history' \in Openings /\ noop' = << >> /\ store' = {} /\ said' = 0

\* update_model: what was of no use may be of use to another model.
UpdateModel ==
  /\ noop' = << >>
  /\ UNCHANGED <<history, store, said>>
-----------------------------------------------------------------------------
(* transform_history.                                                        *)

\* System messages, the first ones besides them, and the last ones.
Protected(h) ==
  LET Before(i) == Cardinality({j \in 1..(i - 1) : h[j].role # "system"})
  IN  Systems(h) \cup {i \in DOMAIN h : Before(i) < ProtectFirst}
        \cup ((Len(h) - ProtectLast + 1)..Len(h))

Candidates(h) == {i \in DOMAIN h : h[i].role = "tool"} \ Protected(h)

\* Faulty variant: the oldest are the hot ones.
Aged(rank) == IF rank < Hot THEN "hot" ELSE IF rank < Hot + Warm THEN "warm" ELSE "cold"
AgesReversed(h) == LET C == Candidates(h) IN [i \in C |-> Aged(Cardinality({j \in C : j < i}))]
Ages(h) == LET C == Candidates(h) IN [i \in C |-> Aged(Cardinality({j \in C : j > i}))]

\* _already_compressed looks at the first 2,000 characters; semantic_admission
\* asks it as well, so that a form it recognises is left as it is at any age.
Recognised(m) == m.layers # << >> /\ m.src \notin Chatty
Admitted(m, age) ==
  /\ Kind[m.src] = "now" \/ (Kind[m.src] = "aged" /\ age # "hot")
  /\ ~Recognised(m)

Length(m) == IF m.role # "tool" THEN 0
             ELSE IF m.form = "exact" THEN Size[m.src] ELSE FormSize[m.form]
LengthOf(h, I) == MapThenSumSet(LAMBDA i : Length(h[i]), I)

\* What is asked of the provider: the large results one by one; the small ones
\* of one call and age together, if there are several and they are long.
Requests(h, age) ==
  LET eligible == {i \in DOMAIN age : Admitted(h[i], age[i])}
      large == {i \in eligible : Length(h[i]) >= MinItem}
      small == eligible \ large
      With(i) == {j \in small : Call[h[j].src] = Call[h[i].src] /\ age[j] = age[i]}
  IN  {{i} : i \in large} \cup
      {I \in {With(i) : i \in small} : Cardinality(I) >= 2 /\ LengthOf(h, I) > AggregateBudget}

Text(m) == [src |-> m.src, layers |-> m.layers]
Marker(h, I) == {Text(h[i]) : i \in I}

\* The first part of several has the summary of all.
Form(I, i, age) == IF I = {i} THEN IF age = "cold" THEN "cold" ELSE "warm"
                   ELSE IF \A j \in I : i <= j THEN "warm" ELSE "part"
Replaced(h, I, i, age) ==
  [role |-> "tool", src |-> h[i].src, layers |-> Append(h[i].layers, Marker(h, I)),
   form |-> Form(I, i, age)]

\* An answer to a request is used if it is shorter and names one marker.
\* Faulty variant: any text is used.
UsedAny(answers) == DOMAIN answers
Used(answers) == {I \in DOMAIN answers : answers[I] = "marker"}

Transformed(h, used, ages) ==
  [i \in DOMAIN h |-> IF \E I \in used : i \in I
                      THEN Replaced(h, CHOOSE I \in used : i \in I, i, ages[i])
                      ELSE h[i]]

-----------------------------------------------------------------------------
(* compress.                                                                 *)

\* Faulty variant: nothing is ever forgotten.
RememberAll(h) == Append(noop, h)
Remember(h) == IF Len(noop) < NoOpMax THEN Append(noop, h)
               ELSE Tail(Append(noop, h))

\* has_content_to_compress.
HasContent(h) == \E i \in DOMAIN h : i \in Candidates(h)

\* The host's engine may put the oldest messages that are not protected into a
\* summary; without one the history stays as it is.
Summaries(h) ==
  LET free == DOMAIN h \ Protected(h)
      first == {i \in free : \A k \in free : i <= k}
      Short(i, j) == SubSeq(h, 1, i - 1) \o <<Other("user")>> \o SubSeq(h, j + 1, Len(h))
  IN  UNION {{Short(i, j) : j \in {k \in free : i..k \subseteq free}} : i \in first}
Fallback ==
  \/ history' = history
  \/ Builtin /\ history' \in Summaries(history)

KnownNoOp ==
  /\ HasContent(history) /\ \E n \in DOMAIN noop : noop[n] = history
  /\ Fallback
  /\ UNCHANGED <<noop, store, said>>

\* Each request is answered or not; if the transformation raises, none counts.
\* What the provider has kept it keeps, whether the form is used or dropped.
Compress ==
  /\ HasContent(history) /\ \A n \in DOMAIN noop : noop[n] # history
  /\ LET ages == Ages(history) IN
     \E answers \in [Requests(history, ages) -> {"marker", "no_marker"}] :
       LET used == Used(answers)
           candidate == Transformed(history, used, ages)
           saved == LengthOf(history, DOMAIN history) - LengthOf(candidate, DOMAIN history)
       IN
       /\ store' = store \cup {Marker(history, I) :
                     I \in {J \in DOMAIN answers : answers[J] = "marker"}}
       /\ Cardinality(store') <= MaxStored
       /\ \/ /\ used # {} /\ saved >= Materiality
             /\ history' = candidate
             /\ UNCHANGED noop
          \/ /\ ~(used # {} /\ saved >= Materiality)
             /\ noop' = Remember(history)
             /\ Fallback
  /\ UNCHANGED said

Next ==
  \/ UserSays \/ (\E s \in Sources : ToolAnswers(s))
  \/ Reset \/ UpdateModel \/ KnownNoOp \/ Compress

Spec == Init /\ [][Next]_vars
-----------------------------------------------------------------------------
(* Properties.                                                               *)

\* The engine remembers a bounded number of different histories, and a message
\* has a form only if it is a result behind a marker.
TypeOK ==
  /\ said \in 0..MaxMessages /\ Len(history) <= said + 2
  /\ \A i \in DOMAIN history :
       LET m == history[i] IN
       /\ m.role \in Roles /\ m.form \in Forms \cup {"exact"}
       /\ m.role = "tool" => m.src \in Sources
       /\ m.form = "exact" <=> m.layers = << >>
       /\ m.role # "tool" => m.form = "exact"
  /\ Len(noop) <= NoOpMax /\ IsInjective(noop)

\* A result that the engine has put away, however often and with whichever
\* others, is led back to: each marker it is behind keeps the text that was
\* there before, down to the source.
Recoverable == \A i \in DOMAIN history : \A k \in DOMAIN history[i].layers :
  LET m == history[i] IN
  /\ m.layers[k] \in store
  /\ [src |-> m.src, layers |-> SubSeq(m.layers, 1, k - 1)] \in m.layers[k]

\* Over repeated compactions, also by the host's engine: the head, the tail and
\* what is never admitted are exact, and so is a source that was read, as long
\* as it is one of the newest that may be put away.
KeptExact == \A i \in DOMAIN history :
  LET m == history[i] IN
  m.layers # << >> =>
    /\ m.role = "tool" /\ Kind[m.src] # "never" /\ i <= Len(history) - ProtectLast
    /\ Cardinality({j \in 1..(i - 1) : history[j].role # "system"}) >= ProtectFirst
    /\ Kind[m.src] = "aged" => Cardinality({j \in Candidates(history) : j > i}) >= Hot

\* Said by lifecycle.py:198: "Reuse the real marker. Never nest or synthesize
\* recovery handles."
NeverNested == \A i \in DOMAIN history : Len(history[i].layers) <= 1
=============================================================================
