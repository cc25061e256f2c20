----------------------------- MODULE LlmMonitor -----------------------------
(* The companion llm-monitor (companions/llm-monitor/__init__.py): its state *)
(* file with the owner's on and off, the hooks that trace every request, the *)
(* pruning of traces, and the visible markers with their guardrails.  Hooks  *)
(* run in threads of several Hermes processes (gateway, command line) that   *)
(* share the files; _LOCK holds within one process.                          *)
EXTENDS Integers, Sequences, FiniteSets, SequencesExt, Subsequences

CONSTANTS Processes, Workers,   \* Hermes processes; threads that run hooks
          Owner,                \* the thread that runs the owner's command
          Requests, TurnOf,     \* model requests, and the turn of each
          OldTraces,            \* traces of earlier days: name -> mtime
          InitialFiles,         \* state files found at first
          Commands,             \* commands the owner gives
          Faults,               \* what may go wrong
          MaxTurn, MaxMinute,   \* max_visible_calls_per_turn, .._per_minute
          ApisMax, StatsMax,    \* 300 in the code
          Drop,                 \* 80 in the code: dropped past the former
          Window, Interval, Retention,  \* 60 s, 1 h, retention_days, in ticks
          TracesMax, DeleteCap, \* max_trace_files, .._deletes_per_check
          MaxCommands, MaxFaults, MaxTime,  \* bounds of the runs
          Absent, Torn, None    \* no file; one that cannot be parsed; nothing

FaultNames == {"status", "disk", "crash", "api"}
CommandNames == {"on", "on_full", "off", "precall_on", "precall_off",
                 "per_call", "summary"}
Turns == {TurnOf[r] : r \in Requests}

Settings == [enabled : BOOLEAN, full : BOOLEAN, visible : BOOLEAN,
             perCall : BOOLEAN]

ASSUME MonitorAssumption ==
  /\ Faults \subseteq FaultNames /\ Commands \subseteq CommandNames
  /\ Owner \notin Workers /\ None \notin Processes \cup Workers \cup {Owner}
  /\ IsFiniteSet(Workers) /\ {Absent, Torn} \cap Settings = {}
  /\ InitialFiles \subseteq {Absent, Torn} \cup {s \in Settings : ~s.full}
  /\ {MaxTurn, MaxMinute, ApisMax, StatsMax, Drop, Window, Interval, Retention,
      TracesMax, DeleteCap} \subseteq Nat \ {0}
  /\ {MaxCommands, MaxFaults, MaxTime} \subseteq Nat

VARIABLES now,       \* the clock
          file, tmp, \* state.json and state.json.tmp, shared by all processes
          held,      \* per process: who holds _LOCK between two steps
          writer,    \* per thread: the write of the state it is about
          job,       \* per worker: the hook it runs
          status,    \* per request: how far it is, and in which process
          memory,    \* per process: the module's dictionaries
          traces,    \* trace files: name -> mtime
          asked,     \* the last `on` or `off` that was answered
          firm,      \* no two writers of the state have overlapped since
          commands, faults  \* how often so far

control == <<file, tmp, held, writer, asked, firm, commands>>
hooks == <<job, status, memory, traces>>
vars == <<now, control, hooks, faults>>

DefaultState == [enabled |-> TRUE, full |-> FALSE, visible |-> FALSE,
                 perCall |-> FALSE]
Contents == Settings \cup {Absent, Torn}
Actors == Workers \cup {Owner}
NoWriter == [step |-> "none", proc |-> None, change |-> "none",
             new |-> DefaultState, alone |-> TRUE, open |-> "tmp"]
\* What a process remembers: trace files and roots of its turns, the requests
\* announced, the budget spent per turn, the calls of the last minute, the
\* requests and the turns shown, and when it last pruned.
Fresh == [files |-> << >>, roots |-> {}, sent |-> {},
          spent |-> [t \in Turns |-> 0], times |-> << >>, apis |-> {},
          stats |-> << >>, checked |-> -Interval,
          cards |-> [t \in Turns |-> 0], rooted |-> [t \in Turns |-> 0]]
NoJob == [step |-> "idle", proc |-> None, req |-> None, seen |-> DefaultState,
          asked |-> "metadata", firm |-> TRUE, listed |-> {}, card |-> FALSE]

Init ==
  /\ now = 0
  /\ file \in InitialFiles /\ tmp = Absent
  /\ held = [p \in Processes |-> None]
  /\ writer = [a \in Actors |-> NoWriter]
  /\ job = [w \in Workers |-> NoJob]
  /\ status = [r \in Requests |-> [at |-> "new", proc |-> None]]
  /\ memory = [p \in Processes |-> Fresh]
  /\ traces = OldTraces
  /\ asked = "metadata" /\ firm = TRUE /\ commands = 0 /\ faults = 0

-----------------------------------------------------------------------------
(* The state file: read, changed and written back, each under the lock of    *)
(* the process but not all three together.                                   *)

Free(p) == held[p] = None
Mishap(f) == f \in Faults /\ faults < MaxFaults /\ faults' = faults + 1

\* A file that is absent or cannot be parsed reads as the default, which is on.
ReadState == IF file \in {Absent, Torn} THEN DefaultState ELSE file

Applied(s, c) ==
  CASE c = "on" -> [s EXCEPT !.enabled = TRUE, !.full = FALSE]
    [] c = "on_full" -> [s EXCEPT !.enabled = TRUE, !.full = TRUE]
    [] c = "off" -> [s EXCEPT !.enabled = FALSE, !.visible = FALSE]
    [] c = "precall_on" -> [s EXCEPT !.visible = TRUE]
    [] c \in {"precall_off", "disable"} -> [s EXCEPT !.visible = FALSE]
    [] c = "per_call" -> [s EXCEPT !.perCall = TRUE]
    [] c = "summary" -> [s EXCEPT !.perCall = FALSE]

Writing(a) == writer[a].step # "none"
\* Thread a reads the state it is going to change.
BeginChange(a, p, c) ==
  /\ Free(p)
  /\ LET others == {b \in Actors \ {a} : Writing(b)} IN
     /\ writer' = [b \in Actors |->
          IF b = a THEN [NoWriter EXCEPT !.step = "open", !.proc = p,
               !.change = c, !.new = Applied(ReadState, c), !.alone = (others = {})]
          ELSE [writer[b] EXCEPT !.alone = @ /\ ~Writing(b)]]
     /\ firm' = (firm /\ others = {})

Command(p, c) ==
  /\ ~Writing(Owner) /\ commands < MaxCommands /\ commands' = commands + 1
  /\ BeginChange(Owner, p, c)
  /\ UNCHANGED <<now, file, tmp, held, asked, hooks, faults>>

\* _write_state: the temporary file, then the replacement, under the lock.
\* Faulty variant: the state file itself is written.
OpenInPlace(a) ==
  /\ writer[a].step = "open" /\ Free(writer[a].proc)
  /\ held' = [held EXCEPT ![writer[a].proc] = a]
  /\ file' = Torn /\ tmp' = Torn
  /\ writer' = [writer EXCEPT ![a].step = "fill", ![a].open = "tmp"]
  /\ UNCHANGED <<now, asked, firm, commands, hooks, faults>>
OpenTemporary(a) ==
  /\ writer[a].step = "open" /\ Free(writer[a].proc)
  /\ held' = [held EXCEPT ![writer[a].proc] = a]
  /\ tmp' = Torn
  /\ writer' = [writer EXCEPT ![a].step = "fill", ![a].open = "tmp"]
  /\ UNCHANGED <<now, file, asked, firm, commands, hooks, faults>>

\* The name is the same in every process: two that write at once mix their
\* texts, and one may write what the other has already put in place.
FillTemporary(a) ==
  /\ writer[a].step = "fill"
  /\ \E text \in {writer[a].new} \cup
       (IF \E b \in Actors \ {a} : writer[b].step \in {"fill", "replace"}
        THEN {Torn} ELSE {}) :
       IF writer[a].open = "tmp" THEN tmp' = text /\ UNCHANGED file
                                 ELSE file' = text /\ UNCHANGED tmp
  /\ writer' = [writer EXCEPT ![a].step = "replace"]
  /\ UNCHANGED <<now, held, asked, firm, commands, hooks, faults>>

\* Without a temporary file the replacement raises, and nothing is answered.
Answers(a) == a = Owner /\ writer[a].change \in {"on", "on_full", "off"}
              /\ tmp # Absent
Replace(a) ==
  /\ writer[a].step = "replace"
  /\ IF tmp = Absent THEN UNCHANGED file ELSE file' = tmp
  /\ tmp' = Absent
  /\ writer' = [b \in Actors |-> IF b = a THEN NoWriter
       ELSE IF writer[b].step = "fill" /\ tmp # Absent
            THEN [writer[b] EXCEPT !.open = "file"] ELSE writer[b]]
  /\ held' = [held EXCEPT ![writer[a].proc] = None]
  /\ IF Answers(a)
     THEN /\ asked' = IF writer[a].change = "off" THEN "off"
                      ELSE IF writer[a].change = "on" THEN "metadata" ELSE "full"
          /\ firm' = writer[a].alone
     ELSE UNCHANGED <<asked, firm>>
  /\ UNCHANGED <<now, commands, hooks, faults>>

-----------------------------------------------------------------------------
(* A hook's way through its steps.                                           *)

At(w, s) == job[w].step = s
Mine(w) == memory[job[w].proc]
Turn(w) == TurnOf[job[w].req]
Goto(w, s) == job' = [job EXCEPT ![w].step = s]
Ready(w, s) == At(w, s) /\ Free(job[w].proc)
Remember(w, m) == memory' = [memory EXCEPT ![job[w].proc] = m]
\* The hook is over, and its request under way, answered, or to be repeated.
Left(w, s) ==
  /\ job' = [job EXCEPT ![w] = NoJob]
  /\ status' = [status EXCEPT ![job[w].req].at = s]
After(w) == IF status[job[w].req].at = "pre" THEN "running" ELSE "done"

Enter(w, p, r, s) ==
  /\ At(w, "idle") /\ Free(p)
  /\ job' = [job EXCEPT ![w] = [NoJob EXCEPT !.step = s, !.proc = p, !.req = r,
               !.seen = ReadState, !.asked = asked, !.firm = firm]]
  /\ UNCHANGED <<now, control, memory, traces, faults>>

\* on_pre_api_request reads the state once; nothing else if it is off.
PreRequest(w, p, r) ==
  /\ status[r].at = "new"
  /\ status' = [status EXCEPT ![r] = [proc |-> p,
       at |-> IF ReadState.enabled THEN "pre" ELSE "running"]]
  /\ IF ReadState.enabled THEN Enter(w, p, r, "prune")
     ELSE At(w, "idle") /\ Free(p)
          /\ UNCHANGED <<now, control, job, memory, traces, faults>>

\* _maybe_prune_traces, at most once in an interval: all but the traces of the
\* process's own turns are listed under the lock.
\* Faulty variant: only the turns whose root is written are spared.
ListedUnrooted(p) ==
  DOMAIN traces \ {memory[p].files[t] : t \in DOMAIN memory[p].files \ memory[p].roots}
Listed(p) == DOMAIN traces \ {memory[p].files[t] : t \in DOMAIN memory[p].files}
MaybePrune(w) ==
  /\ Ready(w, "prune")
  /\ LET p == job[w].proc IN
     IF now - memory[p].checked < Interval
     THEN Goto(w, "locate") /\ UNCHANGED <<held, memory>>
     ELSE /\ job' = [job EXCEPT ![w].step = "stat", ![w].listed = Listed(p)]
          /\ held' = [held EXCEPT ![p] = w]
          /\ Remember(w, [Mine(w) EXCEPT !.checked = now])
  /\ UNCHANGED <<now, file, tmp, writer, asked, firm, commands, status, traces,
                 faults>>

\* The oldest go: what is past the retention, and what exceeds the number.
Older(d, e) == traces[d] < traces[e]
Victims(S) ==
  LET expired == {d \in S : traces[d] < now - Retention}
      surplus == Cardinality(S \ expired) - TracesMax
      n == Cardinality(expired) + (IF surplus > 0 THEN surplus ELSE 0)
  IN  {V \in SUBSET S :
         /\ Cardinality(V) = IF n < DeleteCap THEN n ELSE DeleteCap
         /\ \A d \in V, e \in S \ V : ~Older(e, d)}

\* A listed file that another process has deleted since makes stat raise, out
\* of the hook: the request goes on without a trace.
Stat(w) ==
  /\ At(w, "stat")
  /\ IF job[w].listed \subseteq DOMAIN traces
     THEN /\ \E V \in Victims(job[w].listed) :
               job' = [job EXCEPT ![w].step = "unlink", ![w].listed = V]
          /\ UNCHANGED <<held, status>>
     ELSE Left(w, "running") /\ held' = [held EXCEPT ![job[w].proc] = None]
  /\ UNCHANGED <<now, file, tmp, writer, asked, firm, commands, memory, traces,
                 faults>>

Unlink(w) ==
  /\ At(w, "unlink")
  /\ traces' = [d \in DOMAIN traces \ job[w].listed |-> traces[d]]
  /\ job' = [job EXCEPT ![w].step = "locate", ![w].listed = {}]
  /\ held' = [held EXCEPT ![job[w].proc] = None]
  /\ UNCHANGED <<now, file, tmp, writer, asked, firm, commands, memory, status,
                 faults>>

\* _trace_file: one name per turn, with the second it was first asked for.
Located(m, t) == IF t \in DOMAIN m.files THEN m.files
                 ELSE [u \in DOMAIN m.files \cup {t} |->
                         IF u = t THEN <<t, now>> ELSE m.files[u]]
\* _maybe_write_root marks the turn first and writes the root after it.
\* Faulty variant: the turn is marked when its root has been written.
LocateUnmarked(w) ==
  /\ Ready(w, "locate")
  /\ Remember(w, [Mine(w) EXCEPT !.files = Located(Mine(w), Turn(w))])
  /\ Goto(w, IF Turn(w) \in Mine(w).roots THEN "request" ELSE "root")
  /\ UNCHANGED <<now, control, status, traces, faults>>
Locate(w) ==
  /\ Ready(w, "locate")
  /\ Remember(w, [Mine(w) EXCEPT !.files = Located(Mine(w), Turn(w)),
                                 !.roots = @ \cup {Turn(w)}])
  /\ Goto(w, IF Turn(w) \in Mine(w).roots THEN "request" ELSE "root")
  /\ UNCHANGED <<now, control, status, traces, faults>>

\* _append_event creates the file if it is not there (any more).
Touch(d) == traces' = [e \in DOMAIN traces \cup {d} |->
                          IF e = d THEN now ELSE traces[e]]

WriteRoot(w) ==
  /\ Ready(w, "root")
  /\ Touch(Mine(w).files[Turn(w)])
  /\ Remember(w, [Mine(w) EXCEPT !.rooted[Turn(w)] = @ + 1,
                                 !.roots = @ \cup {Turn(w)}])
  /\ Goto(w, "request")
  /\ UNCHANGED <<now, control, status, faults>>

WriteRequest(w) ==
  /\ Ready(w, "request")
  /\ Touch(Mine(w).files[Turn(w)])
  /\ Goto(w, "notify")
  /\ UNCHANGED <<now, control, status, memory, faults>>

\* A root, request or response that cannot be written raises out of the hook.
AppendRaises(w) ==
  /\ Mishap("disk")
  /\ job[w].step \in {"root", "request", "response"}
  /\ Left(w, After(w))
  /\ UNCHANGED <<now, control, memory, traces>>

-----------------------------------------------------------------------------
(* The visible markers.                                                      *)

Recent(m) ==
  Subsequence(m.times, {i \in 1..Len(m.times) : m.times[i] >= now - Window})
\* _visible_pre_call_allowed: a card of its own is charged to its turn, also
\* when the minute is full; the one summary of a turn is not.
Charged(m, s, t) ==
  [m EXCEPT !.times = Recent(m),
            !.spent[t] = IF s.perCall /\ m.spent[t] < MaxTurn THEN @ + 1 ELSE @]
\* Faulty variant: a turn at its limit is let through once more.
AllowedOnceMore(m, s, t) == (s.perCall => m.spent[t] <= MaxTurn)
                            /\ Len(Recent(m)) < MaxMinute
Allowed(m, s, t) == (s.perCall => m.spent[t] < MaxTurn)
                    /\ Len(Recent(m)) < MaxMinute

\* The state is read again, the call charged, and a request announced once.
Notify(w) ==
  /\ Ready(w, "notify")
  /\ LET s == ReadState
         m == Charged(Mine(w), s, Turn(w)) IN
     IF ~s.enabled \/ ~s.visible
     THEN Left(w, "running") /\ UNCHANGED memory
     ELSE IF ~Allowed(Mine(w), s, Turn(w))
     THEN /\ Remember(w, m)
          /\ Goto(w, "mark") /\ UNCHANGED status
     ELSE /\ Remember(w, [m EXCEPT !.times = Append(@, now), !.sent = @ \cup {job[w].req}])
          /\ IF job[w].req \in m.sent THEN Left(w, "running")
             ELSE /\ job' = [job EXCEPT ![w].step = "deliver", ![w].card = s.perCall]
                  /\ UNCHANGED status
  /\ UNCHANGED <<now, control, traces, faults>>

\* _remember_visible_api: past the bound some are dropped, whichever.
\* Faulty variant: none is.
RememberedAll(S) == {S}
Remembered(S) == IF Cardinality(S) <= ApisMax THEN {S}
                 ELSE {T \in SUBSET S : Cardinality(T) = Cardinality(S) - Drop}
\* _update_turn_stats_pre: past the bound the first go, but not the turn's own.
Counted(q, t) == IF Contains(q, t) THEN q ELSE Append(q, t)
Kept(q, t) ==
  IF Len(q) <= StatsMax THEN q
  ELSE SelectSeq(SubSeq(q, 1, Drop), LAMBDA u : u = t)
       \o SubSeq(q, Drop + 1, Len(q))

\* The gateway takes the marker, or it cannot and visibility is switched off.
Deliver(w) ==
  LET t == Turn(w)
      stats == IF job[w].card THEN Mine(w).stats ELSE Kept(Counted(Mine(w).stats, t), t)
  IN
  /\ Ready(w, "deliver")
  /\ \/ /\ \E S \in Remembered(Mine(w).apis \cup {job[w].req}) :
             Remember(w, [Mine(w) EXCEPT !.stats = stats, !.apis = S,
                            !.cards[t] = IF job[w].card THEN @ + 1 ELSE @])
        /\ UNCHANGED <<writer, firm, faults>>
     \/ /\ Mishap("status")
        /\ Remember(w, [Mine(w) EXCEPT !.stats = stats])
        /\ BeginChange(w, job[w].proc, "disable")
  /\ Goto(w, "mark")
  /\ UNCHANGED <<now, file, tmp, held, asked, commands, status, traces>>

\* The marker's own event, or that it was suppressed; errors are swallowed.
Mark(w) ==
  /\ Ready(w, "mark") /\ ~Writing(w)
  /\ \/ Touch(Mine(w).files[Turn(w)]) /\ UNCHANGED faults
     \/ Mishap("disk") /\ UNCHANGED traces
  /\ Left(w, "running")
  /\ UNCHANGED <<now, control, memory>>

PostRequest(w, r) ==
  LET p == status[r].proc IN
  /\ status[r].at = "running"
  /\ status' = [status EXCEPT ![r].at = IF ReadState.enabled THEN "post" ELSE "done"]
  /\ IF ReadState.enabled THEN Enter(w, p, r, "response")
     ELSE At(w, "idle") /\ Free(p)
          /\ UNCHANGED <<now, control, job, memory, traces, faults>>

WriteResponse(w) ==
  LET m == [Mine(w) EXCEPT !.files = Located(Mine(w), Turn(w))] IN
  /\ Ready(w, "response")
  /\ Remember(w, m) /\ Touch(m.files[Turn(w)])
  /\ Goto(w, "update")
  /\ UNCHANGED <<now, control, status, faults>>

\* Only what was announced is completed: the card of the request, or the
\* summary of a turn that has one.
Announced(m, s, r) ==
  r \in m.apis \/ (~s.perCall /\ Contains(m.stats, TurnOf[r]))
NotifyPost(w) ==
  /\ Ready(w, "update")
  /\ LET s == ReadState IN
     IF ~s.enabled \/ ~s.visible \/ ~Announced(Mine(w), s, job[w].req)
     THEN Left(w, "done") /\ UNCHANGED <<writer, firm, memory, faults>>
     ELSE /\ Remember(w, IF s.perCall THEN Mine(w)
               ELSE [Mine(w) EXCEPT !.stats = Counted(@, Turn(w))])
          /\ \/ Left(w, "done") /\ UNCHANGED <<writer, firm, faults>>
             \/ /\ Mishap("status") /\ BeginChange(w, job[w].proc, "disable")
                /\ Goto(w, "close") /\ UNCHANGED status
  /\ UNCHANGED <<now, file, tmp, held, asked, commands, traces>>
Close(w) ==
  /\ At(w, "close") /\ ~Writing(w)
  /\ Left(w, "done")
  /\ UNCHANGED <<now, control, memory, traces, faults>>

\* on_api_request_error; the request may then be made again.
ApiError(w, r) ==
  LET p == status[r].proc IN
  /\ status[r].at = "running" /\ At(w, "idle") /\ Free(p)
  /\ Mishap("api")
  /\ status' = [status EXCEPT ![r].at = "new"]
  /\ IF ReadState.enabled
     THEN LET m == [memory[p] EXCEPT !.files = Located(memory[p], TurnOf[r])] IN
          memory' = [memory EXCEPT ![p] = m] /\ Touch(m.files[TurnOf[r]])
     ELSE UNCHANGED <<memory, traces>>
  /\ UNCHANGED <<now, control, job>>

-----------------------------------------------------------------------------
\* A process ends where it is, and is started again.
Crash(p) ==
  /\ Mishap("crash")
  /\ memory' = [memory EXCEPT ![p] = Fresh]
  /\ held' = [held EXCEPT ![p] = None]
  /\ job' = [w \in Workers |-> IF job[w].proc = p THEN NoJob ELSE job[w]]
  /\ writer' = [a \in Actors |-> IF writer[a].proc = p THEN NoWriter ELSE writer[a]]
  /\ status' = [r \in Requests |-> IF status[r].proc = p /\ status[r].at # "new"
                  THEN [status[r] EXCEPT !.at = "done"] ELSE status[r]]
  /\ UNCHANGED <<now, file, tmp, traces, asked, firm, commands>>

Tick ==
  /\ now < MaxTime /\ now' = now + 1
  /\ UNCHANGED <<control, hooks, faults>>

Write(a) == OpenTemporary(a) \/ FillTemporary(a) \/ Replace(a)
Hook(w) ==
  \/ MaybePrune(w) \/ Stat(w) \/ Unlink(w) \/ Locate(w) \/ WriteRoot(w)
  \/ WriteRequest(w) \/ Notify(w) \/ Deliver(w) \/ Mark(w) \/ WriteResponse(w)
  \/ NotifyPost(w) \/ Close(w) \/ AppendRaises(w)

Next ==
  \/ \E p \in Processes, c \in Commands : Command(p, c)
  \/ \E a \in Actors : Write(a)
  \/ \E w \in Workers : Hook(w)
  \/ \E w \in Workers, r \in Requests : PostRequest(w, r) \/ ApiError(w, r)
  \/ \E w \in Workers, p \in Processes, r \in Requests : PreRequest(w, p, r)
  \/ \E p \in Processes : Crash(p)
  \/ Tick

Spec == Init /\ [][Next]_vars
-----------------------------------------------------------------------------
(* Properties.                                                               *)

WriterSteps == {"none", "open", "fill", "replace"}
HookSteps == {"idle", "prune", "stat", "unlink", "locate", "root", "request",
              "notify", "deliver", "mark", "response", "update", "close"}
Marks == {"off", "metadata", "full"}

\* The lock is held by those who are between two of its steps, and what a
\* process remembers of visible calls stays within its bounds.
TypeOK ==
  /\ now \in 0..MaxTime
  /\ file \in Contents /\ tmp \in Contents
  /\ \A p \in Processes, a \in Actors : held[p] = a <=>
       \/ writer[a].proc = p /\ writer[a].step \in {"fill", "replace"}
       \/ a # Owner /\ job[a].proc = p /\ job[a].step \in {"stat", "unlink"}
  /\ writer \in [Actors -> [step : WriterSteps, proc : Processes \cup {None},
       change : Commands \cup {"none", "disable"}, new : Settings,
       alone : BOOLEAN, open : {"tmp", "file"}]]
  /\ job \in [Workers -> [step : HookSteps, proc : Processes \cup {None},
       req : Requests \cup {None}, seen : Settings, asked : Marks,
       firm : BOOLEAN, listed : SUBSET (DOMAIN OldTraces \cup (Turns \X (0..MaxTime))),
       card : BOOLEAN]]
  /\ status \in [Requests -> [at : {"new", "pre", "running", "post", "done"},
                              proc : Processes \cup {None}]]
  /\ \A p \in Processes : LET m == memory[p] IN
       /\ m.roots \subseteq DOMAIN m.files /\ DOMAIN m.files \subseteq Turns
       /\ m.sent \subseteq Requests /\ m.apis \subseteq Requests
       /\ Cardinality(m.apis) <= ApisMax
       /\ Len(m.times) <= MaxMinute
  /\ asked \in Marks /\ firm \in BOOLEAN
  /\ commands \in 0..MaxCommands /\ faults \in 0..MaxFaults

\* What the owner last asked for with `on` or `off`, in whatever process, is
\* what every hook that begins later acts on, through restarts and crashes at
\* any point of a write, as long as no two writers of the state overlap: no
\* request is traced after `off`, and no bodies after `on` without `full`.
WishKept == \A w \in Workers : LET j == job[w] IN
  (~At(w, "idle") /\ j.firm) =>
    /\ j.asked # "off"
    /\ j.seen.full => j.asked = "full"

\* Said by the module's line 86: "`/llm-monitor off` remains a persistent
\* explicit opt-out": no hook that begins after it traces, whoever writes.
OptOutStands == \A w \in Workers : ~At(w, "idle") => job[w].asked # "off"

\* No turn gets more cards of its own than its budget, whichever threads make
\* its requests, and however often mode and visibility change.
Guardrails == \A p \in Processes, t \in Turns : memory[p].cards[t] <= MaxTurn

\* However its requests overlap, a turn's root is written once by its process.
RootOnce == \A p \in Processes, t \in Turns : memory[p].rooted[t] <= 1

\* A pruning process never deletes a trace of a turn of its own, also when the
\* turn began while it was pruning.
OwnTracesKept == [][\A w \in Workers, t \in Turns :
  (At(w, "unlink") /\ job'[w].step = "locate" /\ t \in DOMAIN Mine(w).files
   /\ Mine(w).files[t] \in DOMAIN traces)
     => Mine(w).files[t] \in DOMAIN traces']_vars
=============================================================================
