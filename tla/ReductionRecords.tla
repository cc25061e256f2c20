-------------------------- MODULE ReductionRecords --------------------------
(* What a reduction leaves behind in a profile: the report files, which the  *)
(* next writer prunes (retention.py), and the event log with its rotations   *)
(* (observability.py), out of which the net ledger (net_ledger.py) and the   *)
(* line of the llm-monitor are computed.  Threads of one process share       *)
(* _EVENT_WRITE_LOCK; the processes of a profile share nothing but the files.*)
EXTENDS Integers, Sequences, FiniteSets

CONSTANTS Workers, Home,  \* threads, and the process of each
          Sources,        \* logical sources: each has one marker
          Turns, Calls,   \* completed turns; identities of retrieval calls
          Rotations,      \* EVENT_LOG_ROTATIONS, 3 in the code
          LinesMax,       \* event_log_max_bytes, in lines
          FilesMax,       \* report_max_bytes, in files
          Retention, Interval,  \* retention_days, .._interval_seconds, in ticks
          Faults,         \* what may go wrong
          MaxReports, MaxRecords, MaxPins, MaxTime, MaxFaults,  \* bounds of the
          Budget,         \* runs: of each kind of event, and of all together
          Absent, Gone    \* no such file; a file that has no name any more

Processes == {Home[w] : w \in Workers}
Parts == {"source", "report", "keep"}
FaultNames == {"log", "rotate", "unlink", "crash"}
EventKinds == {"none", "compressed", "retrieval", "turn"}
EventKeys == Seq({0} \cup Sources \cup Turns \cup Calls)
Entry == [id : Nat, by : Processes, alone : BOOLEAN,
          kind : EventKinds, key : EventKeys, new : BOOLEAN]

ASSUME RecordsAssumption ==
  /\ Rotations \in Nat \ {0} /\ LinesMax \in Nat \ {0} /\ FilesMax \in Nat
  /\ {Retention, Interval, MaxReports, MaxRecords, MaxPins, MaxTime, MaxFaults, Budget}
       \subseteq Nat
  /\ Faults \subseteq FaultNames
  /\ Workers \subseteq DOMAIN Home /\ IsFiniteSet(Workers)
  /\ Absent \notin Seq(Entry) /\ Gone \notin 0..Rotations

VARIABLES now,      \* the clock
          log,      \* headroom-events.jsonl and its rotations: 0..Rotations
          files,    \* report files: <<group, part>> -> mtime
          pruned,   \* per process: _LAST_PRUNE_MONOTONIC
          held,     \* processes whose _EVENT_WRITE_LOCK is held
          job,      \* per worker
          marked,   \* sources whose marker the model has been given
          begun, asked, pins,  \* reports, other records and pins so far
          written,  \* history: events written so far; they bear their number
          crowded,  \* history: files were renamed under another process's hands
          faults    \* how often so far

reports == <<files, pruned, begun, pins>>
events == <<log, held, written, crowded>>
vars == <<now, reports, events, job, marked, asked, faults>>

NoEvent == [kind |-> "none", key |-> <<0>>, new |-> FALSE]
NoJob == [step |-> "idle", event |-> NoEvent, group |-> 0, listed |-> {},
          found |-> {}, at |-> 0, open |-> 0, alone |-> TRUE]

Init ==
  /\ now = 0
  /\ log = [i \in 0..Rotations |-> Absent]
  /\ files = << >>
  /\ pruned = [p \in Processes |-> -Interval]
  /\ held = {}
  /\ job = [w \in Workers |-> NoJob]
  /\ marked = {}
  /\ begun = 0 /\ asked = 0 /\ pins = 0
  /\ written = 0 /\ crowded = FALSE /\ faults = 0

At(w, s) == job[w].step = s
Goto(w, s) == job' = [job EXCEPT ![w].step = s]
Affordable == begun + asked + pins + now + faults < Budget
Mishap(f) ==
  f \in Faults /\ faults < MaxFaults /\ Affordable /\ faults' = faults + 1

-----------------------------------------------------------------------------
(* Report files.  A writer prunes first, at most once in an interval.        *)

\* _report_dir for a source to reduce, whose event will say it is new.
Reduce(w, s) ==
  /\ At(w, "idle") /\ begun < MaxReports /\ Affordable
  /\ LET due == now - pruned[Home[w]] >= Interval IN
     /\ job' = [job EXCEPT ![w] = [NoJob EXCEPT !.group = begun + 1,
          !.step = IF due THEN "inventory" ELSE "source",
          !.event = [kind |-> "compressed", key |-> <<s>>, new |-> TRUE]]]
     /\ pruned' = IF due THEN [pruned EXCEPT ![Home[w]] = now] ELSE pruned
  /\ begun' = begun + 1
  /\ UNCHANGED <<now, events, files, pins, marked, asked, faults>>

Newest(fs, g) == LET of == {fs[f] : f \in {h \in DOMAIN fs : h[1] = g}}
                 IN  CHOOSE t \in of : \A u \in of : u <= t
Pinned(F, g) == <<g, "keep">> \in F
OfGroups(F, G) == {f \in F : f[1] \in G}
Size(F, G) == Cardinality(F \ OfGroups(F, G))   \* what is left without G

Keeping(fs) == {g \in {f[1] : f \in DOMAIN fs} : Pinned(DOMAIN fs, g)}

\* prune_report_artifacts: what is past the retention, then the oldest until
\* the rest is small enough; none of the groups K.
Prunable(fs, K) ==
  LET F == DOMAIN fs
      free == {f[1] : f \in F} \ K
      expired == {g \in free : Newest(fs, g) < now - Retention}
      rest == free \ expired
      Enough(V) == Size(F, expired \cup V) <= FilesMax
  IN  {expired \cup V : V \in {U \in SUBSET rest :
         /\ \A d \in U, e \in rest \ U : Newest(fs, d) <= Newest(fs, e)
         /\ Enough(U) \/ U = rest
         /\ U = {} \/ \E d \in U : ~Enough(U \ {d})
                       /\ \A e \in U : Newest(fs, e) <= Newest(fs, d)}}
\* Faulty variant: nothing is pinned.
SelectedAll(fs) == Prunable(fs, {})
Selected(fs) == Prunable(fs, Keeping(fs))

Inventory(w) ==
  /\ At(w, "inventory")
  /\ \E G \in Selected(files) :
       LET doomed == OfGroups(DOMAIN files, G) IN
       job' = [job EXCEPT ![w].listed = doomed, ![w].found = DOMAIN files,
                 ![w].step = IF doomed = {} THEN "source" ELSE "unlink"]
  /\ UNCHANGED <<now, reports, events, marked, asked, faults>>

\* One file after the other; an error is counted and the next one tried.
Unlink(w) ==
  /\ At(w, "unlink")
  /\ \E f \in job[w].listed :
       LET left == job[w].listed \ {f} IN
       \/ /\ files' = [h \in DOMAIN files \ {f} |-> files[h]]
          /\ job' = [job EXCEPT ![w].listed = left,
                       ![w].step = IF left = {} THEN "source" ELSE "unlink"]
          /\ UNCHANGED faults
       \/ /\ Mishap("unlink") /\ UNCHANGED files
          /\ job' = [job EXCEPT ![w].listed = left,
                       ![w].step = IF left = {} THEN "source" ELSE "unlink"]
  /\ UNCHANGED <<now, pruned, begun, pins, events, marked, asked>>

\* The source before the provider is asked, the report after its answer.
WritePart(w, part, next) ==
  /\ At(w, part)
  /\ files' = [f \in DOMAIN files \cup {<<job[w].group, part>>} |->
                 IF f = <<job[w].group, part>> THEN now ELSE files[f]]
  /\ job' = [job EXCEPT ![w].step = next, ![w].found = {}]
  /\ UNCHANGED <<now, pruned, begun, pins, events, marked, asked, faults>>
WriteSource(w) == WritePart(w, "source", "report")
WriteReport(w) == WritePart(w, "report", "lock")

\* The owner keeps a report.
Pin(g) ==
  /\ pins < MaxPins /\ Affordable /\ pins' = pins + 1
  /\ \E f \in DOMAIN files : f[1] = g
  /\ ~Pinned(DOMAIN files, g)
  /\ files' = [f \in DOMAIN files \cup {<<g, "keep">>} |->
                 IF f = <<g, "keep">> THEN now ELSE files[f]]
  /\ UNCHANGED <<now, pruned, begun, events, job, marked, asked, faults>>

-----------------------------------------------------------------------------
(* The event log.                                                            *)

Record(w, event) ==
  /\ At(w, "idle") /\ asked < MaxRecords /\ Affordable /\ asked' = asked + 1
  /\ job' = [job EXCEPT ![w] = [NoJob EXCEPT !.step = "lock", !.event = event]]
  /\ UNCHANGED <<now, reports, events, marked, faults>>

\* The fragment of an earlier request is used again: not new savings.
Reuse(w, s) ==
  s \in marked /\ Record(w, [kind |-> "compressed", key |-> <<s>>, new |-> FALSE])
\* headroom_retrieve was called, as call c; a retry of it has its identity.
Retrieve(w, s, c) ==
  s \in marked /\ Record(w, [kind |-> "retrieval", key |-> <<s, c>>, new |-> FALSE])
\* on_turn_complete: one turn has one event id, however often it is reported.
CompleteTurn(w, t) ==
  Record(w, [kind |-> "turn", key |-> <<t>>, new |-> FALSE])

Locked == {"search", "rotate", "drop", "shift", "roll", "open", "write"}
Moving == {"drop", "shift", "roll", "write"}
Others(w) == {v \in Workers : Home[v] # Home[w]}

Locking(w) ==
  /\ held' = held \cup {Home[w]}
  /\ LET busy == {v \in Others(w) : job[v].step \in Locked} IN
     job' = [v \in Workers |->
       IF v = w THEN [job[w] EXCEPT !.alone = (busy = {}),
                        !.step = IF job[w].event.new THEN "search" ELSE "rotate"]
       ELSE [job[v] EXCEPT !.alone = @ /\ v \notin busy]]
  /\ UNCHANGED <<now, reports, log, written, crowded, marked, asked, faults>>

\* Faulty variant: nothing is waited for.
LockIgnored(w) == At(w, "lock") /\ Locking(w)
Lock(w) == At(w, "lock") /\ Home[w] \notin held /\ Locking(w)

Has(i, k) == log[i] # Absent
             /\ \E n \in 1..Len(log[i]) : log[i][n].kind = "compressed" /\ log[i][n].key = k
\* _event_log_contains_dedupe_key: the log, then each of its rotations.
\* Faulty variant: the log alone.
SearchTop(w) ==
  /\ At(w, "search")
  /\ job' = [job EXCEPT ![w].step = "rotate",
                        ![w].event.new = ~Has(0, job[w].event.key)]
  /\ UNCHANGED <<now, reports, events, marked, asked, faults>>
Search(w) ==
  /\ At(w, "search")
  /\ job' = IF Has(job[w].at, job[w].event.key)
            THEN [job EXCEPT ![w].step = "rotate", ![w].event.new = FALSE]
            ELSE IF job[w].at = Rotations THEN [job EXCEPT ![w].step = "rotate"]
            ELSE [job EXCEPT ![w].at = @ + 1]
  /\ UNCHANGED <<now, reports, events, marked, asked, faults>>

\* _rotate_event_log_if_needed.
\* Faulty variant: only a log that is over its bound is rotated.
OverFull == log[0] # Absent /\ Len(log[0]) > LinesMax
Full == log[0] # Absent /\ Len(log[0]) >= LinesMax
Rotate(w) ==
  /\ At(w, "rotate")
  /\ Goto(w, IF Full THEN "drop" ELSE "open")
  /\ UNCHANGED <<now, reports, events, marked, asked, faults>>

\* The file at i takes the place of the one after it, or of none; who has one
\* of them open keeps it.
Shifted(i) == [j \in 0..Rotations |->
  IF j = i THEN Absent ELSE IF j = i + 1 THEN log[i] ELSE log[j]]
Reopened(i) == [v \in Workers |->
  IF ~At(v, "write") THEN job[v]
  ELSE IF job[v].open = i + 1 THEN [job[v] EXCEPT !.open = Gone]
  ELSE IF job[v].open = i /\ i < Rotations THEN [job[v] EXCEPT !.open = i + 1]
  ELSE IF job[v].open = i THEN [job[v] EXCEPT !.open = Gone] ELSE job[v]]
Then(w, s, i) == [Reopened(i) EXCEPT ![w].step = s, ![w].at = i - 1]
Crowd(w) == crowded' = (crowded \/ \E v \in Others(w) : job[v].step \in Moving)

\* Moves the file at i if there is one; it may have gone since it was looked
\* for, and then the rotation is given up.
Move(w, i, next) ==
  /\ IF log[i] # Absent
     THEN /\ log' = Shifted(i) /\ Crowd(w)
          /\ job' = Then(w, next, i)
     ELSE /\ UNCHANGED <<log, crowded>>
          /\ \/ job' = [job EXCEPT ![w].step = next, ![w].at = i - 1]
             \/ crowded /\ Goto(w, "open")
  /\ UNCHANGED <<now, reports, held, written, marked, asked, faults>>
Drop(w) ==
  At(w, "drop") /\ Move(w, Rotations, IF Rotations > 1 THEN "shift" ELSE "roll")
Shift(w) ==
  At(w, "shift") /\ Move(w, job[w].at, IF job[w].at > 1 THEN "shift" ELSE "roll")
Roll(w) == At(w, "roll") /\ Move(w, 0, "open")
RotateFails(w) ==
  /\ Mishap("rotate") /\ job[w].step \in {"drop", "shift", "roll"}
  /\ Goto(w, "open")
  /\ UNCHANGED <<now, reports, events, marked, asked>>

Open(w) ==
  /\ At(w, "open")
  /\ log' = IF log[0] = Absent THEN [log EXCEPT ![0] = << >>] ELSE log
  /\ job' = [job EXCEPT ![w].step = "write", ![w].open = 0]
  /\ UNCHANGED <<now, reports, held, written, crowded, marked, asked, faults>>

\* The model is given the marker when its event is written, or cannot be.
Done(w) ==
  /\ job' = [job EXCEPT ![w] = NoJob]
  /\ held' = held \ {Home[w]}
  /\ marked' = IF job[w].event.kind = "compressed"
               THEN marked \cup {job[w].event.key[1]} ELSE marked

Line(w) == LET e == job[w].event IN
  [id |-> written + 1, by |-> Home[w], alone |-> job[w].alone,
   kind |-> e.kind, key |-> e.key, new |-> e.new]
Write(w) ==
  /\ At(w, "write")
  /\ IF job[w].open = Gone THEN UNCHANGED log
     ELSE log' = [log EXCEPT ![job[w].open] = Append(@, Line(w))]
  /\ written' = written + 1
  /\ Done(w)
  /\ UNCHANGED <<now, reports, crowded, asked, faults>>
LogFails(w) ==
  /\ Mishap("log") /\ job[w].step \in {"open", "write"}
  /\ Done(w)
  /\ UNCHANGED <<now, reports, log, written, crowded, asked>>

-----------------------------------------------------------------------------
Crash(p) ==
  /\ Mishap("crash")
  /\ pruned' = [pruned EXCEPT ![p] = now - Interval]
  /\ held' = held \ {p}
  /\ job' = [w \in Workers |-> IF Home[w] = p THEN NoJob ELSE job[w]]
  /\ UNCHANGED <<now, files, begun, pins, log, written, crowded, marked, asked>>

Tick ==
  /\ now < MaxTime /\ Affordable /\ now' = now + 1
  /\ UNCHANGED <<reports, events, job, marked, asked, faults>>

Work(w) ==
  \/ Inventory(w) \/ Unlink(w) \/ WriteSource(w) \/ WriteReport(w) \/ Lock(w)
  \/ Search(w) \/ Rotate(w) \/ Drop(w) \/ Shift(w) \/ Roll(w) \/ RotateFails(w)
  \/ Open(w) \/ Write(w) \/ LogFails(w)

Next ==
  \/ \E w \in Workers : Work(w)
  \/ \E w \in Workers, s \in Sources : Reduce(w, s) \/ Reuse(w, s)
  \/ \E w \in Workers, s \in Sources, c \in Calls : Retrieve(w, s, c)
  \/ \E w \in Workers, t \in Turns : CompleteTurn(w, t)
  \/ \E g \in 1..MaxReports : Pin(g)
  \/ \E p \in Processes : Crash(p)
  \/ Tick

Spec == Init /\ [][Next]_vars
-----------------------------------------------------------------------------
(* The readers: they read the log, not its rotations.                        *)

Lines == IF log[0] = Absent THEN << >> ELSE log[0]

\* build_net_ledger: a source, a retrieval and a turn are taken once; what was
\* retrieved is set off against its source when all lines are read.
NoLedger == [seen |-> {}, gross |-> 0, back |-> 0, turns |-> 0, pending |-> << >>]
\* Faulty variant: lines are told apart by their own id alone.
TakenById(l, e) ==
  LET m == [l EXCEPT !.seen = @ \cup {<<e.kind, e.key>>}] IN
  CASE e.kind = "compressed" -> [m EXCEPT !.gross = @ + 1]
    [] e.kind = "retrieval" -> [m EXCEPT !.pending = Append(@, e.key)]
    [] e.kind = "turn" -> [m EXCEPT !.turns = @ + 1]
Taken(l, e) ==
  LET m == [l EXCEPT !.seen = @ \cup {<<e.kind, e.key>>}] IN
  IF <<e.kind, e.key>> \in l.seen THEN l
  ELSE CASE e.kind = "compressed" -> [m EXCEPT !.gross = @ + 1]
         [] e.kind = "retrieval" -> [m EXCEPT !.pending = Append(@, e.key)]
         [] e.kind = "turn" -> [m EXCEPT !.turns = @ + 1]
Read(lines) ==
  LET after[n \in 0..Len(lines)] ==
        IF n = 0 THEN NoLedger ELSE Taken(after[n - 1], lines[n])
  IN  after[Len(lines)]
Returned(l) == {n \in 1..Len(l.pending) :
                  <<"compressed", <<l.pending[n][1]>> >> \in l.seen}
Ledger(lines) ==
  LET l == Read(lines) IN [l EXCEPT !.back = Cardinality(Returned(l))]

\* _headroom_turn_summary_line: each source once, and only if it is new.
NoSummary == [seen |-> {}, saved |-> 0]
Summed(m, e) ==
  IF e.kind # "compressed" \/ e.key \in m.seen THEN m
  ELSE [m EXCEPT !.seen = @ \cup {e.key}, !.saved = IF e.new THEN @ + 1 ELSE @]
Summary(lines) ==
  LET after[n \in 0..Len(lines)] ==
        IF n = 0 THEN NoSummary ELSE Summed(after[n - 1], lines[n])
  IN  after[Len(lines)]

-----------------------------------------------------------------------------
(* Properties.                                                               *)

Steps == {"idle", "inventory", "unlink", "source", "report", "lock"} \cup Locked
Retained == UNION {{log[i][n] : n \in 1..Len(log[i])} :
                     i \in {j \in 0..Rotations : log[j] # Absent}}

\* The lock of a process is held by one of its threads, and no log grows past
\* its bound by more than what the other processes had under way, as long as
\* every rotation succeeds.
TypeOK ==
  /\ now \in 0..MaxTime /\ begun \in 0..MaxReports /\ pins \in 0..MaxPins
  /\ written \in 0..(MaxReports + MaxRecords) /\ crowded \in BOOLEAN
  /\ \A i \in 0..Rotations : log[i] # Absent =>
       /\ \A n \in 1..Len(log[i]) :
            /\ log[i][n].id \in 1..written /\ log[i][n].by \in Processes
            /\ log[i][n].kind \in EventKinds \ {"none"} /\ log[i][n].new \in BOOLEAN
       /\ crowded \/ Len(log[i]) <= LinesMax + Cardinality(Processes) - 1 + faults
  /\ \A f \in DOMAIN files : f \in (1..begun) \X Parts /\ files[f] \in 0..now
  /\ \A p \in Processes : p \in held <=> \E w \in Workers : Home[w] = p /\ job[w].step \in Locked
  /\ \A v, w \in Workers : v # w /\ Home[v] = Home[w] =>
       ~(job[v].step \in Locked /\ job[w].step \in Locked)
  /\ \A w \in Workers : job[w].step \in Steps /\ job[w].event.kind \in EventKinds
  /\ marked \subseteq Sources /\ faults \in 0..MaxFaults

\* The log and its rotations are the last events there were, in their order:
\* none is lost before an older one, unless two processes renamed at once.
OldestGoFirst == crowded \/
  /\ \A e \in Retained : \A k \in e.id..written : \E f \in Retained : f.id = k
  /\ \A i, j \in 0..Rotations : log[i] # Absent /\ log[j] # Absent =>
       \A m \in 1..Len(log[i]), n \in 1..Len(log[j]) :
         i > j \/ (i = j /\ m < n) => log[i][m].id < log[j][n].id

\* Of what is retained no source is new savings twice, over rotations, threads
\* and restarts, but for two processes that searched at the same time.
NewOnce == \A e, f \in Retained :
  (e.id # f.id /\ e.key = f.key /\ e.new /\ f.new) =>
    e.by # f.by /\ ~e.alone /\ ~f.alone

\* Also then, and however their lines mix: the ledger takes each source, each
\* retrieval and each turn of the log once, sets a retrieval off against its
\* source wherever that stands, and the monitor's line never claims more.
ReadersCountOnce ==
  LET es == {Lines[n] : n \in 1..Len(Lines)}
      Keys(k) == {e.key : e \in {d \in es : d.kind = k}}
      l == Ledger(Lines) IN
  /\ l.gross = Cardinality(Keys("compressed"))
  /\ l.turns = Cardinality(Keys("turn"))
  /\ l.back = Cardinality({k \in Keys("retrieval") : <<k[1]>> \in Keys("compressed")})
  /\ Summary(Lines).saved <= l.gross

\* Said by docs/portable-core.md:98: "Savings totals must count only rows
\* explicitly marked as new savings".
OnlyMarkedCounted ==
  Ledger(Lines).gross = Cardinality({Lines[n].key : n \in
    {k \in 1..Len(Lines) : Lines[k].kind = "compressed" /\ Lines[k].new}})

\* What its owner keeps stays, whichever process prunes, unless the pruning
\* had looked before the owner did.
PinnedKept == [][\A f \in DOMAIN files \ DOMAIN files' :
  Pinned(DOMAIN files, f[1]) =>
    \E w \in Workers : At(w, "unlink") /\ ~Pinned(job[w].found, f[1])]_vars
=============================================================================
