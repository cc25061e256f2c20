--------------------------- MODULE LlmMonitorProofs ---------------------------
(***************************************************************************)
(* What holds of the llm-monitor for every number of processes, threads,   *)
(* requests, commands and faults.  The invariant has two halves: the state *)
(* file and its writers, and the hooks with what a process remembers.      *)
(***************************************************************************)
EXTENDS LlmMonitor, SubsequencesProofs, FiniteSetTheorems, TLAPS

-----------------------------------------------------------------------------
(* The state file.                                                         *)

\* A hook that finds these settings does what was asked for.
Says(s, k) == s.enabled => k # "off" /\ (s.full => k = "full")
Answered == {"on", "on_full", "off"}

Writers == [step : {"none", "open", "fill", "replace"}, proc : Processes \cup {None},
            change : CommandNames \cup {"none", "disable"}, new : Settings,
            alone : BOOLEAN, open : {"tmp", "file"}]
FileTypes ==
  /\ file \in Contents /\ tmp \in Contents /\ firm \in BOOLEAN
  /\ writer \in [Actors -> Writers]
  /\ \A a \in Actors : Writing(a) => writer[a].proc \in Processes

\* A writer that has met no other writes what it read with its change applied.
Alone(a) == (Writing(a) /\ writer[a].alone) =>
  /\ \A b \in Actors \ {a} : ~Writing(b)
  /\ writer[a].step = "fill" => writer[a].open = "tmp"
  /\ writer[a].step = "replace" => tmp = writer[a].new
Changed(a) == Writing(a) =>
  /\ writer[a].change = "off" => ~writer[a].new.enabled
  /\ writer[a].change = "on" => ~writer[a].new.full
  /\ a # Owner => writer[a].change = "disable"
Firm == firm =>
  /\ Says(ReadState, asked)
  /\ \A a \in Actors : Writing(a) => writer[a].alone
       /\ (writer[a].change \notin Answered => Says(writer[a].new, asked))

FileInv == FileTypes /\ (\A a \in Actors : Alone(a) /\ Changed(a)) /\ Firm

LEMMA NotAFile == \A s \in Settings : s # Absent /\ s # Torn
BY MonitorAssumption

LEMMA DefaultIs == /\ DefaultState \in Settings /\ DefaultState.enabled
                   /\ ~DefaultState.full
BY DEF DefaultState, Settings

LEMMA ReadIs == ASSUME file \in Contents PROVE ReadState \in Settings
BY DefaultIs DEF ReadState, Contents

LEMMA AppliedIs ==
  ASSUME NEW s \in Settings, NEW c \in CommandNames \cup {"disable"}
  PROVE  /\ Applied(s, c) \in Settings
         /\ c = "off" => ~Applied(s, c).enabled
         /\ c = "on" => ~Applied(s, c).full
         /\ c \notin Answered => /\ (Applied(s, c).enabled <=> s.enabled)
                                 /\ (Applied(s, c).full <=> s.full)
<1>1. CASE c = "on"
  BY <1>1 DEF Applied, Settings, Answered
<1>2. CASE c = "on_full"
  BY <1>2 DEF Applied, Settings, Answered
<1>3. CASE c = "off"
  BY <1>3 DEF Applied, Settings, Answered
<1>4. CASE c = "precall_on"
  BY <1>4 DEF Applied, Settings, Answered
<1>5. CASE c \in {"precall_off", "disable"}
  BY <1>5 DEF Applied, Settings, Answered
<1>6. CASE c = "per_call"
  BY <1>6 DEF Applied, Settings, Answered
<1>7. CASE c = "summary"
  BY <1>7 DEF Applied, Settings, Answered
<1>. QED
  BY <1>1, <1>2, <1>3, <1>4, <1>5, <1>6, <1>7 DEF CommandNames

LEMMA NoWriterIs ==
  /\ NoWriter \in Writers /\ NoWriter.step = "none" /\ NoWriter.proc = None
  /\ NoWriter.change = "none"
BY DefaultIs DEF NoWriter, Writers

\* A thread begins to write.
LEMMA BeginChangeFile ==
  ASSUME FileInv, NEW a \in Actors, NEW p \in Processes,
         NEW c \in CommandNames \cup {"disable"}, a # Owner => c = "disable",
         BeginChange(a, p, c), UNCHANGED <<file, tmp, asked>>
  PROVE  FileInv'
<1>. DEFINE others == {b \in Actors \ {a} : Writing(b)}
            new == Applied(ReadState, c)
            j == [NoWriter EXCEPT !.step = "open", !.proc = p, !.change = c,
                    !.new = new, !.alone = (others = {})]
            k(b) == [writer[b] EXCEPT !.alone = @ /\ ~Writing(b)]
<1>1. /\ writer' = [b \in Actors |-> IF b = a THEN j ELSE k(b)]
      /\ firm' = (firm /\ others = {})
  BY Zenon DEF BeginChange
<1>2. /\ new \in Settings /\ (c = "off" => ~new.enabled) /\ (c = "on" => ~new.full)
      /\ c \notin Answered => (new.enabled <=> ReadState.enabled)
                                /\ (new.full <=> ReadState.full)
  BY ReadIs, AppliedIs DEF FileInv, FileTypes
<1>3. /\ j \in Writers /\ j.step = "open" /\ j.proc = p /\ j.change = c /\ j.new = new
      /\ (j.alone <=> others = {})
  <2>. HIDE DEF new, others
  <2>. QED
    BY <1>2, NoWriterIs DEF NoWriter, Writers
<1>4. \A b \in Actors : /\ k(b) \in Writers /\ k(b).step = writer[b].step
        /\ k(b).proc = writer[b].proc /\ k(b).change = writer[b].change
        /\ k(b).new = writer[b].new /\ k(b).open = writer[b].open
        /\ (k(b).alone <=> writer[b].alone /\ ~Writing(b))
  <2>. TAKE b \in Actors
  <2>1. writer[b] \in Writers
    BY DEF FileInv, FileTypes
  <2>. DEFINE wb == writer[b]
              al == wb.alone /\ ~Writing(b)
  <2>2. al \in BOOLEAN /\ k(b) = [wb EXCEPT !.alone = al]
    BY <2>1 DEF Writers
  <2>. HIDE DEF wb, al, k
  <2>3. /\ k(b) \in Writers /\ k(b).step = wb.step
        /\ k(b).proc = wb.proc /\ k(b).change = wb.change
        /\ k(b).new = wb.new /\ k(b).open = wb.open /\ (k(b).alone <=> al)
    BY <2>1, <2>2 DEF Writers, wb
  <2>. QED
    BY <2>3 DEF wb, al
<1>. HIDE DEF j, k, new
<1>5. writer'[a] = j /\ \A b \in Actors \ {a} : writer'[b] = k(b)
  BY <1>1
<1>6. /\ Writing(a)' /\ \A b \in Actors \ {a} : Writing(b)' <=> Writing(b)
  BY <1>3, <1>4, <1>5 DEF Writing
<1>7. FileTypes'
  BY <1>1, <1>3, <1>4, <1>5, <1>6 DEF FileInv, FileTypes
<1>8. Alone(a)' /\ Changed(a)'
  BY <1>2, <1>3, <1>5, <1>6 DEF Alone, Changed
<1>9. ASSUME NEW b \in Actors \ {a} PROVE Alone(b)' /\ Changed(b)'
  BY <1>4, <1>5, <1>6 DEF Alone, Changed, FileInv
<1>10. Firm'
  <2>1. ReadState' = ReadState /\ asked' = asked
    BY DEF ReadState
  <2>2. firm' => Says(new, asked) \/ c \in Answered
    BY <1>1, <1>2 DEF FileInv, Firm, Says
  <2>3. firm' => \A b \in Actors \ {a} : ~Writing(b)'
    BY <1>1, <1>6
  <2>. QED
    BY <1>1, <1>3, <1>5, <2>1, <2>2, <2>3 DEF Firm, FileInv
<1>. QED
  BY <1>7, <1>8, <1>9, <1>10 DEF FileInv

LEMMA OpenFile ==
  ASSUME FileInv, NEW a \in Actors, OpenTemporary(a)
  PROVE  FileInv'
<1>. DEFINE j == [writer[a] EXCEPT !.step = "fill", !.open = "tmp"]
<1>1. /\ writer[a].step = "open" /\ tmp' = Torn /\ writer' = [writer EXCEPT ![a] = j]
      /\ UNCHANGED <<file, asked, firm>> /\ writer[a] \in Writers
  BY DEF OpenTemporary, FileInv, FileTypes
<1>2. /\ j \in Writers /\ j.step = "fill" /\ j.open = "tmp" /\ j.proc = writer[a].proc
      /\ j.change = writer[a].change /\ j.new = writer[a].new
      /\ j.alone = writer[a].alone
  BY <1>1 DEF Writers
<1>. HIDE DEF j
<1>3. writer'[a] = j /\ \A b \in Actors \ {a} : writer'[b] = writer[b]
  BY <1>1 DEF FileInv, FileTypes
<1>4. Writing(a) /\ \A b \in Actors : Writing(b)' <=> Writing(b)
  BY <1>1, <1>2, <1>3 DEF Writing
<1>5. FileTypes'
  BY <1>1, <1>2, <1>3, <1>4 DEF FileInv, FileTypes, Contents
<1>6. Alone(a)' /\ Changed(a)'
  BY <1>2, <1>3, <1>4 DEF Alone, Changed, FileInv
<1>7. ASSUME NEW b \in Actors \ {a} PROVE Alone(b)' /\ Changed(b)'
  BY <1>3, <1>4 DEF Alone, Changed, FileInv
<1>8. Firm'
  <2>1. ReadState' = ReadState /\ asked' = asked
    BY <1>1 DEF ReadState
  <2>. QED
    BY <1>1, <1>2, <1>3, <1>4, <2>1 DEF Firm, FileInv
<1>. QED
  BY <1>5, <1>6, <1>7, <1>8 DEF FileInv

LEMMA FillFile ==
  ASSUME FileInv, NEW a \in Actors, FillTemporary(a)
  PROVE  FileInv'
<1>. DEFINE j == [writer[a] EXCEPT !.step = "replace"]
<1>1. /\ writer[a].step = "fill" /\ writer' = [writer EXCEPT ![a] = j]
      /\ UNCHANGED <<asked, firm>> /\ writer[a] \in Writers
  BY DEF FillTemporary, FileInv, FileTypes
<1>2. /\ j \in Writers /\ j.step = "replace" /\ j.open = writer[a].open
      /\ j.proc = writer[a].proc
      /\ j.change = writer[a].change /\ j.new = writer[a].new
      /\ j.alone = writer[a].alone
  BY <1>1 DEF Writers
<1>. HIDE DEF j
<1>3. writer'[a] = j /\ \A b \in Actors \ {a} : writer'[b] = writer[b]
  BY <1>1 DEF FileInv, FileTypes
<1>4. Writing(a) /\ \A b \in Actors : Writing(b)' <=> Writing(b)
  BY <1>1, <1>2, <1>3 DEF Writing
<1>5. writer[a].new \in Contents /\ Torn \in Contents
  BY <1>1 DEF Writers, Contents
<1>6. file' \in Contents /\ tmp' \in Contents
  BY <1>5 DEF FillTemporary, FileInv, FileTypes
<1>7. writer[a].alone => tmp' = writer[a].new /\ file' = file
  <2>. SUFFICES ASSUME writer[a].alone PROVE tmp' = writer[a].new /\ file' = file
    OBVIOUS
  <2>1. writer[a].open = "tmp" /\ \A b \in Actors \ {a} : writer[b].step = "none"
    BY <1>1, <1>4 DEF FileInv, Alone, Writing
  <2>. QED
    BY <2>1 DEF FillTemporary
<1>8. FileTypes'
  BY <1>1, <1>2, <1>3, <1>4, <1>6 DEF FileInv, FileTypes
<1>9. Alone(a)' /\ Changed(a)'
  BY <1>2, <1>3, <1>4, <1>7 DEF Alone, Changed, FileInv
<1>10. ASSUME NEW b \in Actors \ {a} PROVE Alone(b)' /\ Changed(b)'
  BY <1>3, <1>4 DEF Alone, Changed, FileInv
<1>11. Firm'
  <2>1. firm => file' = file
    BY <1>4, <1>7 DEF FileInv, Firm
  <2>2. firm => ReadState' = ReadState /\ asked' = asked
    BY <1>1, <2>1 DEF ReadState
  <2>. QED
    BY <1>1, <1>2, <1>3, <1>4, <2>2 DEF Firm, FileInv
<1>. QED
  BY <1>8, <1>9, <1>10, <1>11 DEF FileInv

LEMMA ReplaceFile ==
  ASSUME FileInv, NEW a \in Actors, Replace(a)
  PROVE  FileInv'
<1>. DEFINE k(b) == [writer[b] EXCEPT !.open = "file"]
<1>1. /\ writer[a].step = "replace" /\ tmp' = Absent /\ writer[a] \in Writers
      /\ file' = (IF tmp = Absent THEN file ELSE tmp)
      /\ writer' = [b \in Actors |-> IF b = a THEN NoWriter
            ELSE IF writer[b].step = "fill" /\ tmp # Absent THEN k(b) ELSE writer[b]]
  BY DEF Replace, FileInv, FileTypes
<1>2. \A b \in Actors : /\ k(b) \in Writers /\ k(b).step = writer[b].step
        /\ k(b).proc = writer[b].proc /\ k(b).change = writer[b].change
        /\ k(b).new = writer[b].new /\ k(b).alone = writer[b].alone
  BY DEF FileInv, FileTypes, Writers
<1>. HIDE DEF k
<1>3. /\ writer'[a] = NoWriter /\ writer' = [b \in Actors |-> writer'[b]]
      /\ \A b \in Actors \ {a} : /\ writer'[b] \in Writers /\ writer'[b].step = writer[b].step
           /\ writer'[b].proc = writer[b].proc /\ writer'[b].change = writer[b].change
           /\ writer'[b].new = writer[b].new /\ writer'[b].alone = writer[b].alone
  BY <1>1, <1>2 DEF FileInv, FileTypes
<1>4. Writing(a) /\ ~Writing(a)' /\ \A b \in Actors \ {a} : Writing(b)' <=> Writing(b)
  BY <1>1, <1>3, NoWriterIs DEF Writing
<1>5. FileTypes'
  <2>1. file' \in Contents /\ tmp' \in Contents /\ firm' \in BOOLEAN
    BY <1>1 DEF FileInv, FileTypes, Contents, Replace, Writers
  <2>. QED
    BY <1>3, <1>4, <2>1, NoWriterIs DEF FileInv, FileTypes
<1>6. ASSUME NEW b \in Actors PROVE Alone(b)' /\ Changed(b)'
  <2>1. CASE b = a
    BY <1>4, <2>1 DEF Alone, Changed
  <2>2. CASE b # a
    BY <1>3, <1>4, <2>2 DEF Alone, Changed, FileInv
  <2>. QED
    BY <2>1, <2>2
<1>7. Firm'
  <2>1. writer[a].alone => /\ \A b \in Actors : ~Writing(b)'
                           /\ ReadState' = writer[a].new /\ tmp # Absent
    <3>. SUFFICES ASSUME writer[a].alone
                  PROVE  /\ \A b \in Actors : ~Writing(b)'
                         /\ ReadState' = writer[a].new /\ tmp # Absent
      OBVIOUS
    <3>1. tmp = writer[a].new /\ \A b \in Actors \ {a} : ~Writing(b)
      BY <1>1, <1>4 DEF FileInv, Alone
    <3>2. writer[a].new \in Settings
      BY <1>1 DEF Writers
    <3>. QED
      BY <1>1, <1>4, <3>1, <3>2, NotAFile DEF ReadState
  <2>2. CASE Answers(a)
    <3>1. /\ firm' = writer[a].alone /\ writer[a].change \in Answered
          /\ asked' = (IF writer[a].change = "off" THEN "off"
                       ELSE IF writer[a].change = "on" THEN "metadata" ELSE "full")
      BY <2>2 DEF Replace, Answers, Answered
    <3>2. Says(writer[a].new, asked')
      BY <1>4, <3>1 DEF FileInv, Changed, Says, Answered
    <3>. QED
      BY <2>1, <3>1, <3>2 DEF Firm
  <2>3. CASE ~Answers(a) /\ firm
    <3>1. firm' = firm /\ asked' = asked /\ writer[a].alone
      BY <1>4, <2>3 DEF Replace, FileInv, Firm
    <3>2. writer[a].change \notin Answered
      BY <1>4, <2>1, <2>3, <3>1 DEF Answers, Answered, FileInv, Changed
    <3>3. Says(writer[a].new, asked)
      BY <1>4, <2>3, <3>2 DEF FileInv, Firm
    <3>. QED
      BY <2>1, <3>1, <3>3 DEF Firm
  <2>4. CASE ~Answers(a) /\ ~firm
    BY <2>4 DEF Replace, Firm
  <2>. QED
    BY <2>2, <2>3, <2>4
<1>. QED
  BY <1>5, <1>6, <1>7 DEF FileInv

LEMMA CrashFile ==
  ASSUME FileInv, NEW p \in Processes, Crash(p)
  PROVE  FileInv'
<1>1. /\ UNCHANGED <<file, tmp, asked, firm>>
      /\ writer' = [a \in Actors |-> IF writer[a].proc = p THEN NoWriter ELSE writer[a]]
  BY DEF Crash
<1>2. \A a \in Actors : writer'[a] = NoWriter \/ writer'[a] = writer[a]
  BY <1>1
<1>3. \A a \in Actors : Writing(a)' => Writing(a) /\ writer'[a] = writer[a]
  BY <1>2, NoWriterIs DEF Writing
<1>4. FileTypes'
  BY <1>1, <1>2, <1>3, NoWriterIs DEF FileInv, FileTypes
<1>5. \A a \in Actors : Alone(a)' /\ Changed(a)'
  BY <1>1, <1>3 DEF FileInv, Alone, Changed
<1>6. ReadState' = ReadState /\ asked' = asked
  BY <1>1 DEF ReadState
<1>7. Firm'
  BY <1>1, <1>3, <1>6 DEF FileInv, Firm
<1>. QED
  BY <1>4, <1>5, <1>7 DEF FileInv

LEMMA SameFile ==
  ASSUME FileInv, UNCHANGED <<file, tmp, writer, asked, firm>>
  PROVE  FileInv'
BY DEF FileInv, FileTypes, Alone, Changed, Firm, ReadState, Writing

-----------------------------------------------------------------------------
(* The hooks and what a process remembers.                                 *)

Fits(m) ==
  /\ m = [files |-> m.files, roots |-> m.roots, sent |-> m.sent, spent |-> m.spent,
          times |-> m.times, apis |-> m.apis, stats |-> m.stats, checked |-> m.checked,
          cards |-> m.cards, rooted |-> m.rooted]
  /\ m.spent \in [Turns -> Nat] /\ m.cards \in [Turns -> Nat]
  /\ m.rooted \in [Turns -> Nat]
Busy(j) ==
  /\ j = [step |-> j.step, proc |-> j.proc, req |-> j.req, seen |-> j.seen,
          asked |-> j.asked, firm |-> j.firm, listed |-> j.listed, card |-> j.card]
  /\ j.step # "idle" /\ j.proc \in Processes /\ j.req \in Requests
  /\ j.card \in BOOLEAN
HookTypes ==
  /\ held = [p \in Processes |-> held[p]]
  /\ job = [w \in Workers |-> job[w]] /\ \A w \in Workers : job[w] = NoJob \/ Busy(job[w])
  /\ memory = [p \in Processes |-> memory[p]] /\ \A p \in Processes : Fits(memory[p])
  /\ status \in [Requests -> [at : {"new", "pre", "running", "post", "done"},
                              proc : Processes \cup {None}]]
  /\ \A r \in Requests : status[r].at # "new" => status[r].proc \in Processes
  /\ \A w \in Workers : Busy(job[w]) => status[job[w].req].proc \in Processes

\* Between two steps of the lock it is held.
LockedBy(p, a) ==
  \/ writer[a].proc = p /\ writer[a].step \in {"fill", "replace"}
  \/ a \in Workers /\ job[a].proc = p /\ job[a].step \in {"stat", "unlink"}
Locks == \A p \in Processes, a \in Actors : LockedBy(p, a) <=> held[p] = a
\* A hook that writes the state waits for it.
Waits == \A w \in Workers : Writing(w) =>
  job[w].step \in {"mark", "close"} /\ writer[w].proc = job[w].proc

\* What a hook found when it began.
Seen == \A w \in Workers : (job[w].step # "idle" /\ job[w].firm) =>
  job[w].asked # "off" /\ (job[w].seen.full => job[w].asked = "full")

\* Who is about to write a root has marked it, alone of its process.
Rooting(w, p, t) == job[w].step = "root" /\ job[w].proc = p /\ TurnOf[job[w].req] = t
Roots ==
  /\ \A p \in Processes, t \in Turns :
       memory[p].rooted[t] <= 1 /\ (memory[p].rooted[t] # 0 => t \in memory[p].roots)
  /\ \A w \in Workers, p \in Processes, t \in Turns : Rooting(w, p, t) =>
       t \in memory[p].roots /\ memory[p].rooted[t] = 0
  /\ \A v, w \in Workers, p \in Processes, t \in Turns :
       Rooting(v, p, t) /\ Rooting(w, p, t) => v = w

\* A card that is being delivered is charged.
Delivering(p, t) == {w \in Workers : /\ job[w].step = "deliver" /\ job[w].card = TRUE
                                     /\ job[w].proc = p /\ TurnOf[job[w].req] = t}
Charges == \A p \in Processes, t \in Turns :
  /\ memory[p].cards[t] + Cardinality(Delivering(p, t)) <= memory[p].spent[t]
  /\ memory[p].spent[t] <= MaxTurn

\* What is listed to be deleted holds no trace of a turn of its process.
Spares == \A w \in Workers : job[w].step \in {"stat", "unlink"} =>
  LET m == memory[job[w].proc] IN \A t \in DOMAIN m.files : m.files[t] \notin job[w].listed

HookInv == HookTypes /\ Locks /\ Waits /\ Seen /\ Roots /\ Charges /\ Spares

LEMMA NoJobIs == /\ NoJob.step = "idle" /\ NoJob.proc = None /\ NoJob.listed = {}
                 /\ ~Busy(NoJob)
BY DEF NoJob, Busy

LEMMA HookFacts ==
  ASSUME HookInv, NEW w \in Workers, job[w].step # "idle"
  PROVE  /\ Busy(job[w]) /\ Fits(memory[job[w].proc]) /\ Turn(w) \in Turns
         /\ job[w].proc \in Processes /\ job[w].req \in Requests
         /\ Mine(w) = memory[job[w].proc] /\ w \in Actors
<1>1. Busy(job[w])
  BY NoJobIs DEF HookInv, HookTypes
<1>. QED
  BY <1>1 DEF HookInv, HookTypes, Busy, Turn, Turns, Mine, Actors

\* A step of hook w: its job becomes j, what its process remembers becomes m.
Moves(w, j, m) ==
  /\ job' = [job EXCEPT ![w] = j]
  /\ memory' = [memory EXCEPT ![job[w].proc] = m]
\* The same hook at another step, or none.
Goes(w, j) ==
  \/ j = NoJob
  \/ /\ Busy(j) /\ j.proc = job[w].proc /\ j.req = job[w].req
     /\ j.seen = job[w].seen /\ j.asked = job[w].asked /\ j.firm = job[w].firm

LEMMA MovesIs ==
  ASSUME HookInv, NEW w \in Workers, job[w].step # "idle", NEW j, NEW m, Moves(w, j, m)
  PROVE  /\ job'[w] = j /\ \A v \in Workers \ {w} : job'[v] = job[v]
         /\ job' = [v \in Workers |-> job'[v]]
         /\ memory'[job[w].proc] = m
         /\ \A p \in Processes \ {job[w].proc} : memory'[p] = memory[p]
         /\ memory' = [p \in Processes |-> memory'[p]]
<1>1. job[w].proc \in Processes
  BY HookFacts
<1>. QED
  BY <1>1 DEF Moves, HookInv, HookTypes

\* The requests' states, as far as their processes matter.
StatusKept ==
  \/ status' = status
  \/ \E r \in Requests, s \in {"new", "pre", "running", "post", "done"} :
       /\ status' = [status EXCEPT ![r].at = s]
       /\ s = "new" \/ status[r].proc \in Processes

LEMMA StatusIs ==
  ASSUME HookInv, StatusKept
  PROVE  /\ status' \in [Requests -> [at : {"new", "pre", "running", "post", "done"},
                                      proc : Processes \cup {None}]]
         /\ \A r \in Requests : status'[r].at # "new" => status'[r].proc \in Processes
         /\ \A r \in Requests : status'[r].proc = status[r].proc
<1>1. CASE status' = status
  BY <1>1 DEF HookInv, HookTypes
<1>2. CASE \E r \in Requests, s \in {"new", "pre", "running", "post", "done"} :
       /\ status' = [status EXCEPT ![r].at = s]
       /\ s = "new" \/ status[r].proc \in Processes
  <2>1. PICK r \in Requests, s \in {"new", "pre", "running", "post", "done"} :
       /\ status' = [status EXCEPT ![r].at = s]
       /\ s = "new" \/ status[r].proc \in Processes
    BY <1>2
  <2>2. /\ status'[r].at = s /\ status'[r].proc = status[r].proc
        /\ status'[r] \in [at : {"new", "pre", "running", "post", "done"},
                           proc : Processes \cup {None}]
        /\ \A q \in Requests \ {r} : status'[q] = status[q]
        /\ DOMAIN status' = Requests /\ status' = [q \in Requests |-> status'[q]]
    BY <2>1 DEF HookInv, HookTypes
  <2>. QED
    BY <2>1, <2>2 DEF HookInv, HookTypes
<1>. QED
  BY <1>1, <1>2 DEF StatusKept

\* Types, what was found, and the roots, charges and traces of the others.
LEMMA MovesTypes ==
  ASSUME HookInv, NEW w \in Workers, job[w].step # "idle", NEW j, NEW m, Moves(w, j, m),
         Goes(w, j), Fits(m), StatusKept, held' = [p \in Processes |-> held'[p]]
  PROVE  HookTypes' /\ Seen'
<1>1. /\ job'[w] = j /\ \A v \in Workers \ {w} : job'[v] = job[v]
      /\ job' = [v \in Workers |-> job'[v]]
      /\ memory'[job[w].proc] = m
      /\ \A p \in Processes \ {job[w].proc} : memory'[p] = memory[p]
      /\ memory' = [p \in Processes |-> memory'[p]]
  BY MovesIs
<1>2. \A v \in Workers : job'[v] = NoJob \/ Busy(job'[v])
  BY <1>1 DEF HookInv, HookTypes, Goes
<1>3. \A p \in Processes : Fits(memory'[p])
  BY <1>1 DEF HookInv, HookTypes
<1>4. \A v \in Workers : Busy(job'[v]) => status'[job'[v].req].proc \in Processes
  <2>1. Busy(j) => job[w].req \in Requests /\ j.req = job[w].req /\ Busy(job[w])
    BY HookFacts, NoJobIs DEF Goes
  <2>2. \A v \in Workers : Busy(job[v]) =>
          job[v].req \in Requests /\ status[job[v].req].proc \in Processes
    BY DEF HookInv, HookTypes, Busy
  <2>. QED
    BY <1>1, <2>1, <2>2, StatusIs
<1>5. HookTypes'
  BY <1>1, <1>2, <1>3, <1>4, StatusIs DEF HookTypes
<1>6. Seen'
  BY <1>1, NoJobIs DEF HookInv, Seen, Goes
<1>. QED
  BY <1>5, <1>6

\* What a step does to roots and charges: nothing, or one of the two steps
\* that each of them takes.
RootsMove(w, j, m) ==
  LET n == memory[job[w].proc] IN
  \/ j.step # "root" /\ m.rooted = n.rooted
  \/ /\ j.step = "root" /\ Turn(w) \notin n.roots
     /\ Turn(w) \in m.roots /\ m.rooted = n.rooted
  \/ /\ j.step # "root" /\ job[w].step = "root"
     /\ m.rooted = [n.rooted EXCEPT ![Turn(w)] = @ + 1]
ChargesMove(w, j, m) ==
  LET n == memory[job[w].proc] IN
  \/ /\ ~(j.step = "deliver" /\ j.card = TRUE) /\ m.cards = n.cards
     /\ \A t \in Turns : n.spent[t] <= m.spent[t] /\ m.spent[t] <= MaxTurn
  \/ /\ j.step = "deliver" /\ j.card = TRUE /\ job[w].step # "deliver"
     /\ m.cards = n.cards /\ n.spent[Turn(w)] < MaxTurn
     /\ m.spent = [n.spent EXCEPT ![Turn(w)] = @ + 1]
  \/ /\ j.step # "deliver" /\ job[w].step = "deliver" /\ job[w].card = TRUE
     /\ m.cards = [n.cards EXCEPT ![Turn(w)] = @ + 1] /\ m.spent = n.spent

LEMMA MovesRoots ==
  ASSUME HookInv, NEW w \in Workers, job[w].step # "idle", NEW j, NEW m, Moves(w, j, m),
         Goes(w, j), memory[job[w].proc].roots \subseteq m.roots, RootsMove(w, j, m)
  PROVE  Roots'
<1>. DEFINE p == job[w].proc
            t == Turn(w)
<1>1. /\ job'[w] = j /\ \A v \in Workers \ {w} : job'[v] = job[v]
      /\ memory'[p] = m /\ \A q \in Processes \ {p} : memory'[q] = memory[q]
  BY MovesIs
<1>2. p \in Processes /\ t \in Turns /\ t = TurnOf[job[w].req]
      /\ memory[p].rooted \in [Turns -> Nat]
  BY HookFacts DEF Fits, Turn
<1>3. \A v \in Workers \ {w}, q \in Processes, u \in Turns :
        Rooting(v, q, u)' <=> Rooting(v, q, u)
  BY <1>1 DEF Rooting
<1>4. \A q \in Processes, u \in Turns : Rooting(w, q, u)' => j.step = "root" /\ q = p /\ u = t
  BY <1>1, <1>2, NoJobIs DEF Rooting, Goes
<1>5. \A q \in Processes, u \in Turns : u \in memory[q].roots => u \in memory'[q].roots
  BY <1>1
<1>6. /\ \A q \in Processes, u \in Turns : memory[q].rooted[u] <= 1
           /\ (memory[q].rooted[u] # 0 => u \in memory[q].roots)
      /\ \A v \in Workers, q \in Processes, u \in Turns : Rooting(v, q, u) =>
           u \in memory[q].roots /\ memory[q].rooted[u] = 0
      /\ \A v, x \in Workers, q \in Processes, u \in Turns :
           Rooting(v, q, u) /\ Rooting(x, q, u) => v = x
  BY DEF HookInv, Roots
<1>. HIDE DEF p, t
<1>7. CASE j.step # "root" /\ m.rooted = memory[p].rooted
  <2>1. \A q \in Processes : memory'[q].rooted = memory[q].rooted
    BY <1>1, <1>7
  <2>. QED
    BY <1>3, <1>4, <1>5, <1>6, <1>7, <2>1 DEF Roots
<1>8. CASE /\ j.step = "root" /\ t \notin memory[p].roots
           /\ t \in m.roots /\ m.rooted = memory[p].rooted
  <2>1. \A q \in Processes : memory'[q].rooted = memory[q].rooted
    BY <1>1, <1>8
  <2>2. memory[p].rooted[t] = 0 /\ t \in memory'[p].roots
    BY <1>1, <1>2, <1>6, <1>8
  <2>3. \A v \in Workers : ~Rooting(v, p, t)
    BY <1>2, <1>6, <1>8
  <2>. QED
    BY <1>3, <1>4, <1>5, <1>6, <2>1, <2>2, <2>3 DEF Roots
<1>9. CASE /\ j.step # "root" /\ job[w].step = "root"
           /\ m.rooted = [memory[p].rooted EXCEPT ![t] = @ + 1]
  <2>1. Rooting(w, p, t)
    BY <1>2, <1>9 DEF Rooting, p
  <2>2. memory[p].rooted[t] = 0 /\ t \in memory[p].roots
    BY <1>2, <1>6, <2>1
  <2>3. memory'[p].rooted[t] = 1
    BY <1>1, <1>2, <1>9, <2>2
  <2>4. \A q \in Processes, u \in Turns : (q # p \/ u # t) =>
          memory'[q].rooted[u] = memory[q].rooted[u]
    BY <1>1, <1>2, <1>9
  <2>5. \A v \in Workers \ {w} : ~Rooting(v, p, t)
    BY <1>2, <1>6, <2>1
  <2>6. \A q \in Processes, u \in Turns : memory'[q].rooted[u] <= 1
           /\ (memory'[q].rooted[u] # 0 => u \in memory'[q].roots)
    BY <1>2, <1>5, <1>6, <2>2, <2>3, <2>4
  <2>7. \A v \in Workers, q \in Processes, u \in Turns : Rooting(v, q, u)' =>
          v # w /\ Rooting(v, q, u) /\ (q # p \/ u # t)
    BY <1>3, <1>4, <1>9, <2>5
  <2>8. \A v \in Workers, q \in Processes, u \in Turns : Rooting(v, q, u)' =>
           u \in memory'[q].roots /\ memory'[q].rooted[u] = 0
    BY <1>5, <1>6, <2>4, <2>7
  <2>. QED
    BY <1>6, <2>6, <2>7, <2>8 DEF Roots
<1>. QED
  BY <1>7, <1>8, <1>9 DEF p, t, RootsMove

LEMMA DeliveringIs ==
  ASSUME NEW p, NEW t
  PROVE  IsFiniteSet(Delivering(p, t)) /\ Cardinality(Delivering(p, t)) \in Nat
<1>1. Delivering(p, t) \subseteq Workers
  BY DEF Delivering
<1>. QED
  BY <1>1, MonitorAssumption, FS_Subset, FS_CardinalityType

LEMMA MovesCharges ==
  ASSUME HookInv, NEW w \in Workers, job[w].step # "idle", NEW j, NEW m, Moves(w, j, m),
         Goes(w, j), Fits(m), ChargesMove(w, j, m)
  PROVE  Charges'
<1>. DEFINE p == job[w].proc
            t == Turn(w)
            n == memory[p]
            D(q, u) == Delivering(q, u)
            E(q, u) == {v \in Workers : /\ job'[v].step = "deliver" /\ job'[v].card = TRUE
                                        /\ job'[v].proc = q /\ TurnOf[job'[v].req] = u}
<1>1. /\ job'[w] = j /\ \A v \in Workers \ {w} : job'[v] = job[v]
      /\ memory'[p] = m /\ \A q \in Processes \ {p} : memory'[q] = memory[q]
  BY MovesIs
<1>2. /\ p \in Processes /\ t \in Turns /\ t = TurnOf[job[w].req]
      /\ n.cards \in [Turns -> Nat] /\ n.spent \in [Turns -> Nat]
      /\ m.cards \in [Turns -> Nat] /\ m.spent \in [Turns -> Nat]
      /\ \A q \in Processes, u \in Turns : memory[q].cards[u] \in Nat /\ memory[q].spent[u] \in Nat
  <2>1. p \in Processes /\ t \in Turns /\ t = TurnOf[job[w].req]
    BY HookFacts DEF Turn
  <2>2. \A q \in Processes : memory[q].cards \in [Turns -> Nat] /\ memory[q].spent \in [Turns -> Nat]
    BY DEF HookInv, HookTypes, Fits
  <2>3. m.cards \in [Turns -> Nat] /\ m.spent \in [Turns -> Nat]
    BY DEF Fits
  <2>. QED
    BY <2>1, <2>2, <2>3
<1>3. \A q \in Processes, u \in Turns :
        /\ memory[q].cards[u] + Cardinality(D(q, u)) <= memory[q].spent[u]
        /\ memory[q].spent[u] <= MaxTurn
  BY DEF HookInv, Charges
<1>4. \A q, u : IsFiniteSet(D(q, u)) /\ Cardinality(D(q, u)) \in Nat
  BY DeliveringIs
<1>5. /\ \A q, u : E(q, u) \subseteq D(q, u) \cup {w} /\ D(q, u) \subseteq E(q, u) \cup {w}
      /\ \A q, u : w \in E(q, u) => j.step = "deliver" /\ j.card = TRUE /\ q = p /\ u = t
      /\ \A q, u : w \in D(q, u) => job[w].step = "deliver"
  <2>1. ASSUME NEW q, NEW u
        PROVE  E(q, u) \subseteq D(q, u) \cup {w} /\ D(q, u) \subseteq E(q, u) \cup {w}
    BY <1>1 DEF Delivering
  <2>2. ASSUME NEW q, NEW u, w \in E(q, u)
        PROVE  j.step = "deliver" /\ j.card = TRUE /\ q = p /\ u = t
    <3>1. j.step = "deliver" /\ j.card = TRUE /\ j.proc = q /\ TurnOf[j.req] = u
      BY <1>1, <2>2
    <3>2. j.proc = p /\ j.req = job[w].req
      BY <3>1, NoJobIs DEF Goes
    <3>. QED
      BY <1>2, <3>1, <3>2
  <2>3. ASSUME NEW q, NEW u, w \in D(q, u) PROVE job[w].step = "deliver"
    BY <2>3 DEF Delivering
  <2>. QED
    BY <2>1, <2>2, <2>3
<1>6. \A q, u : Delivering(q, u)' = E(q, u)
  BY DEF Delivering
<1>7. MaxTurn \in Nat
  BY MonitorAssumption
<1>8. (j.step = "deliver" /\ j.card = TRUE) => w \in E(p, t)
  BY <1>1, <1>2, NoJobIs DEF Goes
<1>9. (job[w].step = "deliver" /\ job[w].card = TRUE) => w \in D(p, t)
  BY <1>2 DEF Delivering
<1>. SUFFICES ASSUME NEW q \in Processes, NEW u \in Turns
              PROVE  /\ memory'[q].cards[u] + Cardinality(E(q, u)) <= memory'[q].spent[u]
                     /\ memory'[q].spent[u] <= MaxTurn
  BY <1>6 DEF Charges
<1>. HIDE DEF D, E
<1>10. Cardinality(E(q, u)) \in Nat /\ (w \notin E(q, u) => Cardinality(E(q, u)) <= Cardinality(D(q, u)))
  <2>1. IsFiniteSet(E(q, u)) /\ Cardinality(E(q, u)) \in Nat
    <3>1. IsFiniteSet(D(q, u) \cup {w})
      BY <1>4, FS_AddElement
    <3>. QED
      BY <1>5, <3>1, FS_Subset, FS_CardinalityType
  <2>2. w \notin E(q, u) => E(q, u) \subseteq D(q, u)
    BY <1>5
  <2>. QED
    BY <1>4, <2>1, <2>2, FS_Subset
<1>11. CASE /\ ~(j.step = "deliver" /\ j.card = TRUE) /\ m.cards = n.cards
            /\ \A v \in Turns : n.spent[v] <= m.spent[v] /\ m.spent[v] <= MaxTurn
  <2>1. w \notin E(q, u)
    BY <1>5, <1>11
  <2>2. memory'[q].cards[u] = memory[q].cards[u] /\ memory[q].spent[u] <= memory'[q].spent[u]
        /\ memory'[q].spent[u] <= MaxTurn /\ memory'[q].spent[u] \in Nat
    <3>1. CASE q = p
      BY <1>1, <1>2, <1>11, <3>1
    <3>2. CASE q # p
      <4>1. memory'[q] = memory[q]
        BY <1>1, <3>2
      <4>2. memory[q].spent[u] \in Nat /\ memory[q].spent[u] <= MaxTurn
        BY <1>2, <1>3
      <4>. QED
        BY <4>1, <4>2
    <3>. QED
      BY <3>1, <3>2
  <2>. HIDE DEF n, p, t
  <2>. QED
    BY <1>2, <1>3, <1>4, <1>7, <1>10, <2>1, <2>2
<1>12. CASE /\ j.step = "deliver" /\ j.card = TRUE /\ job[w].step # "deliver"
            /\ m.cards = n.cards /\ n.spent[t] < MaxTurn
            /\ m.spent = [n.spent EXCEPT ![t] = @ + 1]
  <2>1. CASE q = p /\ u = t
    <3>1. E(q, u) = D(q, u) \cup {w} /\ w \notin D(q, u)
      BY <1>5, <1>8, <1>12, <2>1
    <3>2. Cardinality(E(q, u)) = Cardinality(D(q, u)) + 1
      BY <1>4, <3>1, FS_AddElement
    <3>3. /\ memory'[q].cards[u] = memory[q].cards[u]
          /\ memory'[q].spent[u] = memory[q].spent[u] + 1 /\ memory[q].spent[u] < MaxTurn
      BY <1>1, <1>2, <1>12, <2>1
    <3>. HIDE DEF n, p, t
    <3>. QED
      BY <1>2, <1>3, <1>4, <1>7, <3>2, <3>3
  <2>2. CASE q # p \/ u # t
    <3>1. w \notin E(q, u)
      BY <1>5, <2>2
    <3>2. memory'[q].cards[u] = memory[q].cards[u] /\ memory'[q].spent[u] = memory[q].spent[u]
      <4>1. CASE q # p
        BY <1>1, <4>1
      <4>2. CASE q = p
        BY <1>1, <1>2, <1>12, <2>2, <4>2
      <4>. QED
        BY <4>1, <4>2
    <3>. HIDE DEF n, p, t
    <3>. QED
      BY <1>2, <1>3, <1>4, <1>7, <1>10, <3>1, <3>2
  <2>. QED
    BY <2>1, <2>2
<1>13. CASE /\ j.step # "deliver" /\ job[w].step = "deliver" /\ job[w].card = TRUE
            /\ m.cards = [n.cards EXCEPT ![t] = @ + 1] /\ m.spent = n.spent
  <2>0. w \notin E(q, u) /\ memory'[q].spent[u] = memory[q].spent[u]
    BY <1>1, <1>5, <1>13
  <2>1. CASE q = p /\ u = t
    <3>1. w \in D(q, u) /\ E(q, u) = D(q, u) \ {w}
      BY <1>5, <1>9, <1>13, <2>0, <2>1
    <3>2. Cardinality(E(q, u)) = Cardinality(D(q, u)) - 1
      BY <1>4, <3>1, FS_RemoveElement
    <3>3. memory'[q].cards[u] = memory[q].cards[u] + 1
      BY <1>1, <1>2, <1>13, <2>1
    <3>. HIDE DEF n, p, t
    <3>. QED
      BY <1>2, <1>3, <1>4, <1>7, <2>0, <3>2, <3>3
  <2>2. CASE q # p \/ u # t
    <3>1. memory'[q].cards[u] = memory[q].cards[u]
      <4>1. CASE q # p
        BY <1>1, <4>1
      <4>2. CASE q = p
        BY <1>1, <1>2, <1>13, <2>2, <4>2
      <4>. QED
        BY <4>1, <4>2
    <3>. HIDE DEF n, p, t
    <3>. QED
      BY <1>2, <1>3, <1>4, <1>7, <1>10, <2>0, <3>1
  <2>. QED
    BY <2>1, <2>2
<1>. QED
  BY <1>11, <1>12, <1>13 DEF ChargesMove

LEMMA MovesSpares ==
  ASSUME HookInv, NEW w \in Workers, job[w].step # "idle", NEW j, NEW m, Moves(w, j, m),
         Goes(w, j), m.files = memory[job[w].proc].files \/ held[job[w].proc] = None,
         j.step \in {"stat", "unlink"} => \A t \in DOMAIN m.files : m.files[t] \notin j.listed
  PROVE  Spares'
<1>. DEFINE p == job[w].proc
<1>1. /\ job'[w] = j /\ \A v \in Workers \ {w} : job'[v] = job[v]
      /\ memory'[p] = m /\ \A q \in Processes \ {p} : memory'[q] = memory[q]
  BY MovesIs
<1>2. \A v \in Workers : job[v].step \in {"stat", "unlink"} =>
        job[v].proc \in Processes /\ held[job[v].proc] = v /\ v # None
  <2>1. \A v \in Workers : v \in Actors /\ v # None
    BY MonitorAssumption DEF Actors
  <2>2. \A v \in Workers : job[v].step \in {"stat", "unlink"} => job[v].proc \in Processes
    BY HookFacts
  <2>. QED
    BY <2>1, <2>2 DEF HookInv, Locks, LockedBy
<1>3. j.step \in {"stat", "unlink"} => j.proc = p
  BY NoJobIs DEF Goes
<1>4. \A v \in Workers \ {w} : job[v].step \in {"stat", "unlink"} =>
        memory'[job[v].proc].files = memory[job[v].proc].files
  BY <1>1, <1>2
<1>. QED
  BY <1>1, <1>3, <1>4 DEF HookInv, Spares

\* The writers, as far as lock and hooks are concerned.
WritersKept ==
  \A a \in Actors : writer'[a].step = writer[a].step /\ writer'[a].proc = writer[a].proc
Starts(w, j) ==
  /\ \A a \in Actors \ {w} : writer'[a].step = writer[a].step /\ writer'[a].proc = writer[a].proc
  /\ writer[w].step = "none"
  /\ writer'[w].step = "open" /\ writer'[w].proc = job[w].proc
  /\ j.step \in {"mark", "close"}

HeldMoves(w, j) ==
  LET p == job[w].proc IN
  \/ held' = held /\ (j.step \in {"stat", "unlink"} <=> job[w].step \in {"stat", "unlink"})
  \/ held[p] = None /\ held' = [held EXCEPT ![p] = w] /\ j.step \in {"stat", "unlink"}
  \/ /\ held' = [held EXCEPT ![p] = None] /\ job[w].step \in {"stat", "unlink"}
     /\ j.step \notin {"stat", "unlink"}

LEMMA MovesLocks ==
  ASSUME HookInv, NEW w \in Workers, job[w].step # "idle", NEW j, NEW m, Moves(w, j, m),
         Goes(w, j), \A a \in Actors : Writing(a) => writer[a].proc \in Processes,
         (WritersKept /\ ~Writing(w)) \/ Starts(w, j),
         HeldMoves(w, j)
  PROVE  Locks' /\ Waits' /\ held' = [p \in Processes |-> held'[p]]
<1>. DEFINE p == job[w].proc
<1>1. /\ job'[w] = j /\ \A v \in Workers \ {w} : job'[v] = job[v]
      /\ p \in Processes /\ w \in Actors /\ w # None /\ w # Owner
      /\ \A a \in Actors : a # None
  BY MovesIs, HookFacts, MonitorAssumption DEF Actors
<1>2. Waits'
  <2>. SUFFICES ASSUME NEW v \in Workers, Writing(v)'
                PROVE  job'[v].step \in {"mark", "close"} /\ writer'[v].proc = job'[v].proc
    BY DEF Waits
  <2>1. v \in Actors
    BY DEF Actors
  <2>2. Writing(v) => job[v].step \in {"mark", "close"} /\ writer[v].proc = job[v].proc
    BY DEF HookInv, Waits
  <2>3. CASE v = w
    <3>1. Starts(w, j)
      BY <2>1, <2>3 DEF WritersKept, Writing
    <3>. QED
      BY <1>1, <2>3, <3>1, NoJobIs DEF Starts, Goes
  <2>4. CASE v # w
    <3>1. Writing(v) /\ writer'[v].proc = writer[v].proc
      BY <2>1, <2>4 DEF WritersKept, Starts, Writing
    <3>. QED
      BY <1>1, <2>2, <2>4, <3>1
  <2>. QED
    BY <2>3, <2>4
<1>3. \A q \in Processes, a \in Actors \ {w} : LockedBy(q, a)' <=> LockedBy(q, a)
  <2>. SUFFICES ASSUME NEW q \in Processes, NEW a \in Actors \ {w}
                PROVE  LockedBy(q, a)' <=> LockedBy(q, a)
    OBVIOUS
  <2>1. a \in Workers => job'[a] = job[a]
    BY <1>1
  <2>2. writer'[a].proc = writer[a].proc /\ writer'[a].step = writer[a].step
    BY DEF WritersKept, Starts
  <2>. QED
    BY <2>1, <2>2 DEF LockedBy
<1>4. \A q \in Processes : LockedBy(q, w)' <=>
        q = p /\ j.step \in {"stat", "unlink"}
  <2>1. ~(writer'[w].step \in {"fill", "replace"})
    BY <1>1 DEF WritersKept, Starts, Writing
  <2>. QED
    BY <1>1, <2>1, NoJobIs DEF LockedBy, Goes
<1>5. \A q \in Processes, a \in Actors : LockedBy(q, a) <=> held[q] = a
  BY DEF HookInv, Locks
<1>6. \A q \in Processes : held[q] = w <=> q = p /\ job[w].step \in {"stat", "unlink"}
  <2>1. \A q \in Processes : LockedBy(q, w) <=> q = p /\ job[w].step \in {"stat", "unlink"}
    <3>1. writer[w].step \in {"fill", "replace"} => Writing(w)
      BY DEF Writing
    <3>2. Writing(w) => job[w].step \in {"mark", "close"} /\ writer[w].proc = job[w].proc
      BY DEF HookInv, Waits
    <3>3. ~(writer[w].step \in {"fill", "replace"})
      <4>1. CASE WritersKept /\ ~Writing(w)
        BY <3>1, <4>1
      <4>2. CASE Starts(w, j)
        BY <4>2 DEF Starts
      <4>. QED
        BY <4>1, <4>2
    <3>. QED
      BY <1>1, <3>3 DEF LockedBy
  <2>. QED
    BY <1>1, <1>5, <2>1
<1>7. held = [q \in Processes |-> held[q]]
  BY DEF HookInv, HookTypes
<1>. HIDE DEF p
<1>8. \A q \in Processes, a \in Actors : LockedBy(q, a)' <=> held'[q] = a
  <2>. SUFFICES ASSUME NEW q \in Processes, NEW a \in Actors
                PROVE  LockedBy(q, a)' <=> held'[q] = a
    OBVIOUS
  <2>1. CASE a = w
    BY <1>1, <1>4, <1>6, <1>7, <2>1 DEF p, HeldMoves
  <2>2. CASE a # w
    <3>1. LockedBy(q, a)' <=> held[q] = a
      BY <1>3, <1>5, <2>2
    <3>2. held'[q] = a <=> held[q] = a
      BY <1>1, <1>6, <1>7, <2>2 DEF p, HeldMoves
    <3>. QED
      BY <3>1, <3>2
  <2>. QED
    BY <2>1, <2>2
<1>. QED
  BY <1>2, <1>7, <1>8 DEF Locks, p, HeldMoves

-----------------------------------------------------------------------------
(* The steps of a hook.                                                    *)

IInv == FileInv /\ HookInv

\* What must be true of a step that neither writes a root nor delivers a card.
MemoryKept(w, m) ==
  LET n == memory[job[w].proc] IN
  /\ Fits(m) /\ n.roots \subseteq m.roots /\ m.rooted = n.rooted /\ m.cards = n.cards
  /\ m.files = n.files \/ held[job[w].proc] = None
  /\ \A t \in Turns : n.spent[t] <= m.spent[t] /\ m.spent[t] <= MaxTurn

LEMMA MemorySame ==
  ASSUME HookInv, NEW w \in Workers, job[w].step # "idle"
  PROVE  /\ MemoryKept(w, Mine(w))
         /\ memory = [memory EXCEPT ![job[w].proc] = Mine(w)]
<1>1. job[w].proc \in Processes /\ Fits(memory[job[w].proc]) /\ Mine(w) = memory[job[w].proc]
  BY HookFacts
<1>2. \A t \in Turns : Mine(w).spent[t] <= Mine(w).spent[t] /\ Mine(w).spent[t] <= MaxTurn
  <2>1. \A t \in Turns : memory[job[w].proc].spent[t] \in Nat
    BY <1>1 DEF Fits
  <2>. QED
    BY <1>1, <2>1 DEF HookInv, Charges
<1>. QED
  BY <1>1, <1>2 DEF MemoryKept, HookInv, HookTypes

LEMMA StepJob ==
  ASSUME NEW w, NEW s, s # "idle", Busy(job[w])
  PROVE  LET j == [job[w] EXCEPT !.step = s] IN
         Goes(w, j) /\ j.step = s /\ j.listed = job[w].listed /\ j # NoJob
<1>. DEFINE i == job[w]
            j == [i EXCEPT !.step = s]
<1>1. /\ i = [step |-> i.step, proc |-> i.proc, req |-> i.req, seen |-> i.seen,
              asked |-> i.asked, firm |-> i.firm, listed |-> i.listed, card |-> i.card]
      /\ i.proc \in Processes /\ i.req \in Requests /\ i.card \in BOOLEAN
  BY DEF Busy
<1>. HIDE DEF i
<1>2. /\ j = [step |-> s, proc |-> i.proc, req |-> i.req, seen |-> i.seen,
              asked |-> i.asked, firm |-> i.firm, listed |-> i.listed, card |-> i.card]
  BY <1>1
<1>. HIDE DEF j
<1>3. Busy(j) /\ j.proc = i.proc /\ j.req = i.req /\ j.seen = i.seen /\ j.asked = i.asked
      /\ j.firm = i.firm /\ j.step = s /\ j.listed = i.listed
  BY <1>1, <1>2 DEF Busy
<1>. QED
  BY <1>3, NoJobIs DEF Goes, i, j

Relisted(i, s, L) == [i EXCEPT !.step = s, !.listed = L]
Carded(i, s, c) == [i EXCEPT !.step = s, !.card = c]

\* Job j is that of w, at step s, with this listed, or with this card.
Lists(w, j, s, L) == Goes(w, j) /\ j.step = s /\ j.listed = L /\ j # NoJob
Cards(w, j, s, c) == Goes(w, j) /\ j.step = s /\ j.card = c /\ j # NoJob

LEMMA ListJob ==
  ASSUME NEW w, NEW s, NEW L, s # "idle", Busy(job[w])
  PROVE  Lists(w, Relisted(job[w], s, L), s, L)
<1>. DEFINE i == job[w]
            j == Relisted(i, s, L)
<1>1. /\ i = [step |-> i.step, proc |-> i.proc, req |-> i.req, seen |-> i.seen,
              asked |-> i.asked, firm |-> i.firm, listed |-> i.listed, card |-> i.card]
      /\ i.proc \in Processes /\ i.req \in Requests /\ i.card \in BOOLEAN
  BY DEF Busy
<1>. HIDE DEF i
<1>2. /\ j = [step |-> s, proc |-> i.proc, req |-> i.req, seen |-> i.seen,
              asked |-> i.asked, firm |-> i.firm, listed |-> L, card |-> i.card]
  <2>. DEFINE k == [i EXCEPT !.step = s]
  <2>1. k = [step |-> s, proc |-> i.proc, req |-> i.req, seen |-> i.seen,
             asked |-> i.asked, firm |-> i.firm, listed |-> i.listed, card |-> i.card]
    BY <1>1
  <2>2. j = [k EXCEPT !.listed = L]
    BY DEF Relisted
  <2>. HIDE DEF k, j
  <2>. QED
    BY <2>1, <2>2
<1>. HIDE DEF j
<1>3. Busy(j) /\ j.proc = i.proc /\ j.req = i.req /\ j.seen = i.seen /\ j.asked = i.asked
      /\ j.firm = i.firm /\ j.step = s /\ j.listed = L
  BY <1>1, <1>2 DEF Busy
<1>. QED
  BY <1>3, NoJobIs DEF Goes, i, j, Lists

LEMMA CardJob ==
  ASSUME NEW w, NEW s, NEW c \in BOOLEAN, s # "idle", Busy(job[w])
  PROVE  Cards(w, Carded(job[w], s, c), s, c)
<1>. DEFINE i == job[w]
            j == Carded(i, s, c)
<1>1. /\ i = [step |-> i.step, proc |-> i.proc, req |-> i.req, seen |-> i.seen,
              asked |-> i.asked, firm |-> i.firm, listed |-> i.listed, card |-> i.card]
      /\ i.proc \in Processes /\ i.req \in Requests /\ i.card \in BOOLEAN
  BY DEF Busy
<1>. HIDE DEF i
<1>2. /\ j = [step |-> s, proc |-> i.proc, req |-> i.req, seen |-> i.seen,
              asked |-> i.asked, firm |-> i.firm, listed |-> i.listed, card |-> c]
  <2>. DEFINE k == [i EXCEPT !.step = s]
  <2>1. k = [step |-> s, proc |-> i.proc, req |-> i.req, seen |-> i.seen,
             asked |-> i.asked, firm |-> i.firm, listed |-> i.listed, card |-> i.card]
    BY <1>1
  <2>2. j = [k EXCEPT !.card = c]
    BY DEF Carded
  <2>. HIDE DEF k, j
  <2>. QED
    BY <2>1, <2>2
<1>. HIDE DEF j
<1>3. Busy(j) /\ j.proc = i.proc /\ j.req = i.req /\ j.seen = i.seen /\ j.asked = i.asked
      /\ j.firm = i.firm /\ j.step = s /\ j.card = c
  BY <1>1, <1>2 DEF Busy
<1>. QED
  BY <1>3, NoJobIs DEF Goes, i, j, Cards

LEMMA NotWriting ==
  ASSUME HookInv, NEW w \in Workers, job[w].step \notin {"mark", "close"}
  PROVE  ~Writing(w)
BY DEF HookInv, Waits

LEMMA WritersSame ==
  ASSUME writer' = writer
  PROVE  WritersKept
BY DEF WritersKept, Writing

\* A step keeps the invariant if it takes its part in each of the components.
LEMMA MovesHold ==
  ASSUME IInv, NEW w \in Workers, job[w].step # "idle", NEW j, NEW m, Moves(w, j, m),
         Goes(w, j), Fits(m), StatusKept, memory[job[w].proc].roots \subseteq m.roots,
         RootsMove(w, j, m), ChargesMove(w, j, m), HeldMoves(w, j),
         m.files = memory[job[w].proc].files \/ held[job[w].proc] = None,
         j.step \in {"stat", "unlink"} => \A t \in DOMAIN m.files : m.files[t] \notin j.listed,
         (UNCHANGED <<file, tmp, writer, asked, firm>> /\ ~Writing(w))
           \/ (FileInv' /\ Starts(w, j))
  PROVE  IInv'
<1>1. FileInv'
  BY SameFile DEF IInv
<1>2. Roots'
  BY MovesRoots DEF IInv
<1>3. Charges'
  BY MovesCharges DEF IInv
<1>4. Spares'
  BY MovesSpares DEF IInv
<1>5. Locks' /\ Waits' /\ held' = [p \in Processes |-> held'[p]]
  <2>1. \A a \in Actors : Writing(a) => writer[a].proc \in Processes
    BY DEF IInv, FileInv, FileTypes
  <2>2. (WritersKept /\ ~Writing(w)) \/ Starts(w, j)
    BY WritersSame
  <2>. QED
    BY <2>1, <2>2, MovesLocks DEF IInv
<1>6. HookTypes' /\ Seen'
  BY <1>5, MovesTypes DEF IInv
<1>. QED
  BY <1>1, <1>2, <1>3, <1>4, <1>5, <1>6 DEF IInv, HookInv

\* A step to another place, or the end.
LEMMA PlainHolds ==
  ASSUME IInv, NEW w \in Workers, job[w].step # "idle", NEW j, NEW m, Moves(w, j, m),
         Goes(w, j), MemoryKept(w, m), StatusKept,
         j.step \notin {"root", "stat", "unlink"}, ~(j.step = "deliver" /\ j.card = TRUE),
         (UNCHANGED <<file, tmp, writer, asked, firm>> /\ ~Writing(w))
           \/ (FileInv' /\ Starts(w, j)),
         \/ held' = held /\ job[w].step \notin {"stat", "unlink"}
         \/ held' = [held EXCEPT ![job[w].proc] = None] /\ job[w].step \in {"stat", "unlink"}
  PROVE  IInv'
<1>1. RootsMove(w, j, m) /\ ChargesMove(w, j, m)
  BY DEF MemoryKept, RootsMove, ChargesMove
<1>2. HeldMoves(w, j)
  BY DEF HeldMoves
<1>. QED
  BY <1>1, <1>2, MovesHold DEF MemoryKept

LEMMA GotoHolds ==
  ASSUME IInv, NEW w \in Workers,
         job[w].step \notin {"idle", "mark", "close", "stat", "unlink"},
         NEW s, Goto(w, s), s \notin {"idle", "root", "stat", "unlink", "deliver"},
         UNCHANGED <<file, tmp, writer, asked, firm, held, memory, status>>
  PROVE  IInv'
<1>. DEFINE j == [job[w] EXCEPT !.step = s]
<1>1. Busy(job[w]) /\ MemoryKept(w, Mine(w))
      /\ memory = [memory EXCEPT ![job[w].proc] = Mine(w)]
  BY HookFacts, MemorySame DEF IInv
<1>2. Goes(w, j) /\ j.step = s
  BY <1>1, StepJob
<1>3. Moves(w, j, Mine(w))
  BY <1>1 DEF Moves, Goto
<1>. HIDE DEF j
<1>. QED
  BY <1>1, <1>2, <1>3, PlainHolds, NotWriting DEF IInv, StatusKept

\* A hook is over.
LEMMA LeftHolds ==
  ASSUME IInv, NEW w \in Workers, job[w].step # "idle", ~Writing(w),
         NEW s \in {"pre", "running", "post", "done"}, Left(w, s), NEW m,
         memory' = [memory EXCEPT ![job[w].proc] = m], MemoryKept(w, m),
         UNCHANGED <<file, tmp, writer, asked, firm>>,
         \/ held' = held /\ job[w].step \notin {"stat", "unlink"}
         \/ held' = [held EXCEPT ![job[w].proc] = None] /\ job[w].step \in {"stat", "unlink"}
  PROVE  IInv'
<1>1. Moves(w, NoJob, m) /\ Goes(w, NoJob)
  BY DEF Left, Moves, Goes
<1>2. StatusKept
  <2>1. job[w].req \in Requests /\ status[job[w].req].proc \in Processes
    BY HookFacts DEF IInv, HookInv, HookTypes
  <2>. QED
    BY <2>1 DEF Left, StatusKept
<1>3. NoJob.step = "idle"
  BY NoJobIs
<1>. QED
  BY <1>1, <1>2, <1>3, PlainHolds

LEMMA MaybePruneHolds ==
  ASSUME IInv, NEW w \in Workers, MaybePrune(w)
  PROVE  IInv'
<1>1. /\ job[w].step = "prune" /\ held[job[w].proc] = None
      /\ UNCHANGED <<file, tmp, writer, asked, firm, status>>
  BY DEF MaybePrune, Ready, At, Free
<1>2. CASE Goto(w, "locate") /\ UNCHANGED <<held, memory>>
  BY <1>1, <1>2, GotoHolds
<1>3. CASE /\ job' = [job EXCEPT ![w].step = "stat", ![w].listed = Listed(job[w].proc)]
           /\ held' = [held EXCEPT ![job[w].proc] = w]
           /\ Remember(w, [Mine(w) EXCEPT !.checked = now])
  <2>. DEFINE i == job[w]
              n == Mine(w)
              m == [n EXCEPT !.checked = now]
              j == Relisted(i, "stat", Listed(i.proc))
  <2>1. Busy(i) /\ Fits(n) /\ n = memory[i.proc] /\ MemoryKept(w, n)
    BY <1>1, HookFacts, MemorySame DEF IInv
  <2>2. Moves(w, j, m)
    BY <1>3, <2>1 DEF Moves, Relisted, Remember, IInv, HookInv, HookTypes
  <2>3. /\ Fits(m) /\ m.files = n.files /\ m.roots = n.roots /\ m.rooted = n.rooted
        /\ m.cards = n.cards /\ m.spent = n.spent
    <3>. HIDE DEF n
    <3>. QED
      BY <2>1 DEF Fits
  <2>4. Goes(w, j) /\ j.step = "stat" /\ j.listed = Listed(i.proc) /\ j # NoJob
    <3>1. Lists(w, j, "stat", Listed(i.proc))
      BY <2>1, ListJob
    <3>. QED
      BY <3>1 DEF Lists
  <2>5. \A t \in DOMAIN m.files : m.files[t] \notin j.listed
    BY <2>1, <2>3, <2>4 DEF Listed
  <2>6. MemoryKept(w, m) /\ Goes(w, j)
    BY <2>1, <2>3, <2>4 DEF MemoryKept
  <2>. HIDE DEF j, m, n, i
  <2>7. ~Writing(w)
    BY <1>1, NotWriting DEF IInv
  <2>8. RootsMove(w, j, m) /\ ChargesMove(w, j, m) /\ HeldMoves(w, j)
    BY <1>1, <1>3, <2>4, <2>6 DEF RootsMove, ChargesMove, MemoryKept, HeldMoves, i
  <2>. QED
    BY <1>1, <1>3, <2>2, <2>4, <2>5, <2>6, <2>7, <2>8, MovesHold DEF MemoryKept, StatusKept, i
<1>. QED
  BY <1>2, <1>3 DEF MaybePrune

LEMMA StatHolds ==
  ASSUME IInv, NEW w \in Workers, Stat(w)
  PROVE  IInv'
<1>1. /\ job[w].step = "stat" /\ UNCHANGED <<file, tmp, writer, asked, firm, memory>>
  BY DEF Stat, At
<1>2. /\ Busy(job[w]) /\ MemoryKept(w, Mine(w)) /\ Mine(w) = memory[job[w].proc]
      /\ memory = [memory EXCEPT ![job[w].proc] = Mine(w)] /\ ~Writing(w)
  BY <1>1, HookFacts, MemorySame, NotWriting DEF IInv
<1>3. CASE Left(w, "running") /\ held' = [held EXCEPT ![job[w].proc] = None]
  BY <1>1, <1>2, <1>3, LeftHolds
<1>4. CASE /\ \E V \in Victims(job[w].listed) :
                job' = [job EXCEPT ![w].step = "unlink", ![w].listed = V]
           /\ UNCHANGED <<held, status>>
  <2>1. PICK V \in Victims(job[w].listed) :
          job' = [job EXCEPT ![w].step = "unlink", ![w].listed = V]
    BY <1>4
  <2>2. V \subseteq job[w].listed
    BY DEF Victims
  <2>. DEFINE i == job[w]
              m == Mine(w)
              j == Relisted(i, "unlink", V)
  <2>3. Moves(w, j, m)
    BY <1>1, <1>2, <2>1 DEF Moves, Relisted, IInv, HookInv, HookTypes
  <2>4. Goes(w, j) /\ j.step = "unlink" /\ j.listed = V /\ j # NoJob
    <3>1. Lists(w, j, "unlink", V)
      BY <1>2, ListJob
    <3>. QED
      BY <3>1 DEF Lists
  <2>5. \A t \in DOMAIN m.files : m.files[t] \notin j.listed
    BY <1>1, <1>2, <2>2, <2>4 DEF IInv, HookInv, Spares
  <2>6. MemoryKept(w, m) /\ Goes(w, j)
    BY <1>2, <2>4
  <2>. HIDE DEF j, m, i
  <2>7. ~Writing(w)
    BY <1>1, NotWriting DEF IInv
  <2>8. RootsMove(w, j, m) /\ ChargesMove(w, j, m) /\ HeldMoves(w, j)
    BY <1>1, <1>2, <1>4, <2>4, <2>6 DEF RootsMove, ChargesMove, MemoryKept, HeldMoves, i
  <2>. QED
    BY <1>1, <1>2, <1>4, <2>3, <2>4, <2>5, <2>6, <2>7, <2>8, MovesHold DEF MemoryKept, StatusKept, i
<1>. QED
  BY <1>3, <1>4 DEF Stat

LEMMA UnlinkHolds ==
  ASSUME IInv, NEW w \in Workers, Unlink(w)
  PROVE  IInv'
<1>1. /\ job[w].step = "unlink" /\ UNCHANGED <<file, tmp, writer, asked, firm, memory, status>>
      /\ job' = [job EXCEPT ![w].step = "locate", ![w].listed = {}]
      /\ held' = [held EXCEPT ![job[w].proc] = None]
  BY DEF Unlink, At
<1>2. /\ Busy(job[w]) /\ MemoryKept(w, Mine(w))
      /\ memory = [memory EXCEPT ![job[w].proc] = Mine(w)] /\ ~Writing(w)
  BY <1>1, HookFacts, MemorySame, NotWriting DEF IInv
<1>. DEFINE i == job[w]
            j == Relisted(i, "locate", {})
<1>3. Moves(w, j, Mine(w))
  BY <1>1, <1>2 DEF Moves, Relisted, IInv, HookInv, HookTypes
<1>4. Goes(w, j) /\ j.step = "locate"
  <2>1. Lists(w, j, "locate", {})
    BY <1>2, ListJob
  <2>. QED
    BY <2>1 DEF Lists
<1>. HIDE DEF j
<1>. QED
  BY <1>1, <1>2, <1>3, <1>4, PlainHolds DEF StatusKept

\* A turn is located, and its root to be written by the first who does so.
LEMMA LocateHolds ==
  ASSUME IInv, NEW w \in Workers, Locate(w)
  PROVE  IInv'
<1>. DEFINE n == Mine(w)
            t == Turn(w)
            s == IF t \in n.roots THEN "request" ELSE "root"
            F == Located(n, t)
            m == [n EXCEPT !.files = F, !.roots = @ \cup {t}]
            j == [job[w] EXCEPT !.step = s]
<1>1. /\ job[w].step = "locate" /\ held[job[w].proc] = None
      /\ UNCHANGED <<file, tmp, writer, asked, firm, held, status>>
      /\ job' = [job EXCEPT ![w].step = s] /\ memory' = [memory EXCEPT ![job[w].proc] = m]
  BY DEF Locate, Ready, At, Free, control, Remember, Goto
<1>2. /\ Busy(job[w]) /\ Fits(n) /\ n = memory[job[w].proc] /\ MemoryKept(w, n)
      /\ ~Writing(w)
  BY <1>1, HookFacts, MemorySame, NotWriting DEF IInv
<1>3. s \in {"request", "root"} /\ (s = "root" <=> t \notin n.roots) /\ s # "idle"
  OBVIOUS
<1>4. Goes(w, j) /\ j.step = s
  <2>. HIDE DEF s
  <2>. QED
    BY <1>2, <1>3, StepJob
<1>5. /\ Fits(m) /\ m.roots = n.roots \cup {t} /\ m.rooted = n.rooted /\ m.cards = n.cards
      /\ m.spent = n.spent
  <2>. DEFINE k == [n EXCEPT !.files = F]
  <2>. HIDE DEF n, t, F
  <2>1. k = [files |-> F, roots |-> n.roots, sent |-> n.sent, spent |-> n.spent,
          times |-> n.times, apis |-> n.apis, stats |-> n.stats, checked |-> n.checked,
          cards |-> n.cards, rooted |-> n.rooted]
    BY <1>2 DEF Fits
  <2>2. m = [k EXCEPT !.roots = n.roots \cup {t}]
    BY <1>2 DEF Fits
  <2>. HIDE DEF k, m
  <2>3. m = [files |-> F, roots |-> n.roots \cup {t}, sent |-> n.sent, spent |-> n.spent,
          times |-> n.times, apis |-> n.apis, stats |-> n.stats, checked |-> n.checked,
          cards |-> n.cards, rooted |-> n.rooted]
    BY <2>1, <2>2
  <2>. QED
    BY <1>2, <2>3 DEF Fits
<1>6. Moves(w, j, m)
  BY <1>1, <1>2 DEF Moves, IInv, HookInv, HookTypes
<1>. HIDE DEF j, m, s
<1>7. RootsMove(w, j, m) /\ ChargesMove(w, j, m) /\ HeldMoves(w, j)
  BY <1>1, <1>2, <1>3, <1>4, <1>5
  DEF RootsMove, ChargesMove, MemoryKept, HeldMoves
<1>. QED
  BY <1>1, <1>2, <1>3, <1>4, <1>5, <1>6, <1>7, MovesHold DEF StatusKept

LEMMA WriteRootHolds ==
  ASSUME IInv, NEW w \in Workers, WriteRoot(w)
  PROVE  IInv'
<1>. DEFINE n == Mine(w)
            t == Turn(w)
            m == [n EXCEPT !.rooted[t] = @ + 1, !.roots = @ \cup {t}]
            j == [job[w] EXCEPT !.step = "request"]
<1>1. /\ job[w].step = "root"
      /\ UNCHANGED <<file, tmp, writer, asked, firm, held, status>>
      /\ job' = [job EXCEPT ![w].step = "request"]
      /\ memory' = [memory EXCEPT ![job[w].proc] = m]
  BY DEF WriteRoot, Ready, At, control, Remember, Goto
<1>2. /\ Busy(job[w]) /\ Fits(n) /\ n = memory[job[w].proc] /\ MemoryKept(w, n)
      /\ ~Writing(w) /\ t \in Turns
  BY <1>1, HookFacts, MemorySame, NotWriting DEF IInv
<1>4. Goes(w, j) /\ j.step = "request"
  BY <1>2, StepJob
<1>5. /\ Fits(m) /\ m.roots = n.roots \cup {t} /\ m.rooted = [n.rooted EXCEPT ![t] = @ + 1]
      /\ m.cards = n.cards /\ m.spent = n.spent /\ m.files = n.files
  <2>. DEFINE R == [n.rooted EXCEPT ![t] = @ + 1]
              k == [n EXCEPT !.rooted = R]
  <2>0. R \in [Turns -> Nat]
    BY <1>2 DEF Fits
  <2>. HIDE DEF n, t
  <2>1. k = [files |-> n.files, roots |-> n.roots, sent |-> n.sent, spent |-> n.spent,
          times |-> n.times, apis |-> n.apis, stats |-> n.stats, checked |-> n.checked,
          cards |-> n.cards, rooted |-> R]
    BY <1>2 DEF Fits
  <2>2. m = [k EXCEPT !.roots = n.roots \cup {t}]
    BY <1>2 DEF Fits
  <2>. HIDE DEF k, m
  <2>3. m = [files |-> n.files, roots |-> n.roots \cup {t}, sent |-> n.sent, spent |-> n.spent,
          times |-> n.times, apis |-> n.apis, stats |-> n.stats, checked |-> n.checked,
          cards |-> n.cards, rooted |-> R]
    BY <2>1, <2>2
  <2>. HIDE DEF R
  <2>4. Fits(m) /\ m.rooted = R /\ m.roots = n.roots \cup {t}
      /\ m.cards = n.cards /\ m.spent = n.spent /\ m.files = n.files
    BY <1>2, <2>0, <2>3 DEF Fits
  <2>. QED
    BY <2>4 DEF R
<1>6. Moves(w, j, m)
  BY <1>1, <1>2 DEF Moves, IInv, HookInv, HookTypes
<1>. HIDE DEF j, m
<1>7. RootsMove(w, j, m) /\ ChargesMove(w, j, m) /\ HeldMoves(w, j)
  BY <1>1, <1>2, <1>4, <1>5
  DEF RootsMove, ChargesMove, MemoryKept, HeldMoves
<1>. QED
  BY <1>1, <1>2, <1>4, <1>5, <1>6, <1>7, MovesHold DEF StatusKept

LEMMA WriteRequestHolds ==
  ASSUME IInv, NEW w \in Workers, WriteRequest(w)
  PROVE  IInv'
BY GotoHolds DEF WriteRequest, Ready, At, control

LEMMA AppendRaisesHolds ==
  ASSUME IInv, NEW w \in Workers, AppendRaises(w)
  PROVE  IInv'
<1>1. /\ job[w].step \in {"root", "request", "response"} /\ Left(w, After(w))
      /\ UNCHANGED <<file, tmp, writer, asked, firm, held, memory>>
  BY DEF AppendRaises, control
<1>2. ~Writing(w) /\ After(w) \in {"running", "done"} /\ MemoryKept(w, Mine(w))
      /\ memory' = [memory EXCEPT ![job[w].proc] = Mine(w)]
  BY <1>1, NotWriting, MemorySame DEF After, IInv
<1>. QED
  BY <1>1, <1>2, LeftHolds

\* A thread begins to write, and no other does.
OthersWrite(a) ==
  \A b \in Actors \ {a} : writer'[b].step = writer[b].step /\ writer'[b].proc = writer[b].proc

LEMMA BeginChangeIs ==
  ASSUME FileInv, NEW a \in Actors, NEW p \in Processes,
         NEW c \in CommandNames \cup {"disable"}, BeginChange(a, p, c)
  PROVE  OthersWrite(a) /\ writer'[a].step = "open" /\ writer'[a].proc = p
<1>. DEFINE others == {b \in Actors \ {a} : Writing(b)}
            new == Applied(ReadState, c)
            i == [NoWriter EXCEPT !.step = "open", !.proc = p, !.change = c,
                    !.new = new, !.alone = (others = {})]
            k(b) == [writer[b] EXCEPT !.alone = @ /\ ~Writing(b)]
<1>1. writer' = [b \in Actors |-> IF b = a THEN i ELSE k(b)]
  BY Zenon DEF BeginChange
<1>2. i.step = "open" /\ i.proc = p
  <2>. HIDE DEF new, others
  <2>. QED
    BY DEF NoWriter
<1>3. \A b \in Actors : k(b).step = writer[b].step /\ k(b).proc = writer[b].proc
  <2>. TAKE b \in Actors
  <2>1. writer[b] \in Writers
    BY DEF FileInv, FileTypes
  <2>. DEFINE wb == writer[b]
              al == wb.alone /\ ~Writing(b)
  <2>2. k(b) = [wb EXCEPT !.alone = al]
    BY <2>1 DEF Writers
  <2>. HIDE DEF wb, al, k
  <2>3. k(b).step = wb.step /\ k(b).proc = wb.proc
    BY <2>1, <2>2 DEF Writers, wb
  <2>. QED
    BY <2>3 DEF wb
<1>. HIDE DEF i, k
<1>. QED
  BY <1>1, <1>2, <1>3 DEF OthersWrite

LEMMA DisableStarts ==
  ASSUME IInv, NEW w \in Workers, job[w].step # "idle", ~Writing(w),
         BeginChange(w, job[w].proc, "disable"), UNCHANGED <<file, tmp, asked>>,
         NEW j, j.step \in {"mark", "close"}
  PROVE  FileInv' /\ Starts(w, j)
<1>1. w \in Actors /\ w # Owner /\ job[w].proc \in Processes
  BY HookFacts, MonitorAssumption DEF IInv, Actors
<1>2. FileInv'
  BY <1>1, BeginChangeFile DEF IInv
<1>3. OthersWrite(w) /\ writer'[w].step = "open" /\ writer'[w].proc = job[w].proc
  BY <1>1, BeginChangeIs DEF IInv
<1>. QED
  BY <1>2, <1>3 DEF Starts, Writing, OthersWrite

\* What a visible call is charged.
LEMMA ChargedIs ==
  ASSUME NEW n, Fits(n), NEW s \in Settings, NEW t \in Turns,
         \A u \in Turns : n.spent[u] <= MaxTurn
  PROVE  LET m == Charged(n, s, t) IN
         /\ Fits(m) /\ m.files = n.files /\ m.roots = n.roots /\ m.rooted = n.rooted
         /\ m.cards = n.cards /\ m.sent = n.sent
         /\ \A u \in Turns : n.spent[u] <= m.spent[u] /\ m.spent[u] <= MaxTurn
         /\ (s.perCall /\ n.spent[t] < MaxTurn) =>
               m.spent = [n.spent EXCEPT ![t] = @ + 1]
<1>. DEFINE T == Recent(n)
            c == s.perCall /\ n.spent[t] < MaxTurn
            P == [n.spent EXCEPT ![t] = IF c THEN @ + 1 ELSE @]
            k == [n EXCEPT !.times = T]
            m == [k EXCEPT !.spent = P]
<1>1. n.spent \in [Turns -> Nat] /\ MaxTurn \in Nat
  BY MonitorAssumption DEF Fits
<1>2. P \in [Turns -> Nat] /\ (c => P = [n.spent EXCEPT ![t] = @ + 1])
      /\ \A u \in Turns : n.spent[u] <= P[u] /\ P[u] <= MaxTurn
  BY <1>1
<1>. HIDE DEF T, P
<1>3. k = [files |-> n.files, roots |-> n.roots, sent |-> n.sent, spent |-> n.spent,
          times |-> T, apis |-> n.apis, stats |-> n.stats, checked |-> n.checked,
          cards |-> n.cards, rooted |-> n.rooted]
  BY DEF Fits
<1>4. m = [files |-> n.files, roots |-> n.roots, sent |-> n.sent, spent |-> P,
          times |-> T, apis |-> n.apis, stats |-> n.stats, checked |-> n.checked,
          cards |-> n.cards, rooted |-> n.rooted]
  <2>. HIDE DEF k
  <2>. QED
    BY <1>3
<1>5. Charged(n, s, t) = m
  BY DEF Charged, P, T, Fits
<1>. HIDE DEF m, k
<1>6. /\ Fits(m) /\ m.files = n.files /\ m.roots = n.roots /\ m.rooted = n.rooted
      /\ m.cards = n.cards /\ m.sent = n.sent /\ m.spent = P
  BY <1>2, <1>4 DEF Fits
<1>. QED
  BY <1>2, <1>5, <1>6

LEMMA MarkHolds ==
  ASSUME IInv, NEW w \in Workers, Mark(w)
  PROVE  IInv'
<1>1. /\ job[w].step = "mark" /\ Left(w, "running") /\ ~Writing(w)
      /\ UNCHANGED <<file, tmp, writer, asked, firm, held, memory>>
  BY DEF Mark, Ready, At, control
<1>2. MemoryKept(w, Mine(w)) /\ memory' = [memory EXCEPT ![job[w].proc] = Mine(w)]
  BY <1>1, MemorySame DEF IInv
<1>. QED
  BY <1>1, <1>2, LeftHolds

LEMMA CloseHolds ==
  ASSUME IInv, NEW w \in Workers, Close(w)
  PROVE  IInv'
<1>1. /\ job[w].step = "close" /\ Left(w, "done") /\ ~Writing(w)
      /\ UNCHANGED <<file, tmp, writer, asked, firm, held, memory>>
  BY DEF Close, At, control
<1>2. MemoryKept(w, Mine(w)) /\ memory' = [memory EXCEPT ![job[w].proc] = Mine(w)]
  BY <1>1, MemorySame DEF IInv
<1>. QED
  BY <1>1, <1>2, LeftHolds

LEMMA WriteResponseHolds ==
  ASSUME IInv, NEW w \in Workers, WriteResponse(w)
  PROVE  IInv'
<1>. DEFINE n == Mine(w)
            F == Located(n, Turn(w))
            m == [n EXCEPT !.files = F]
            j == [job[w] EXCEPT !.step = "update"]
<1>1. /\ job[w].step = "response" /\ held[job[w].proc] = None
      /\ UNCHANGED <<file, tmp, writer, asked, firm, held, status>>
      /\ job' = [job EXCEPT ![w].step = "update"]
      /\ memory' = [memory EXCEPT ![job[w].proc] = m]
  BY DEF WriteResponse, Ready, At, Free, control, Remember, Goto
<1>2. /\ Busy(job[w]) /\ Fits(n) /\ n = memory[job[w].proc] /\ MemoryKept(w, n)
      /\ ~Writing(w)
  BY <1>1, HookFacts, MemorySame, NotWriting DEF IInv
<1>3. Goes(w, j) /\ j.step = "update"
  BY <1>2, StepJob
<1>4. /\ Fits(m) /\ m.roots = n.roots /\ m.rooted = n.rooted /\ m.cards = n.cards
      /\ m.spent = n.spent
  <2>. HIDE DEF n, F
  <2>1. m = [files |-> F, roots |-> n.roots, sent |-> n.sent, spent |-> n.spent,
          times |-> n.times, apis |-> n.apis, stats |-> n.stats, checked |-> n.checked,
          cards |-> n.cards, rooted |-> n.rooted]
    BY <1>2 DEF Fits
  <2>. HIDE DEF m
  <2>. QED
    BY <1>2, <2>1 DEF Fits
<1>5. Moves(w, j, m)
  BY <1>1, <1>2 DEF Moves, IInv, HookInv, HookTypes
<1>. HIDE DEF j, m
<1>6. MemoryKept(w, m)
  BY <1>1, <1>2, <1>4 DEF MemoryKept
<1>. QED
  BY <1>1, <1>2, <1>3, <1>5, <1>6, PlainHolds DEF StatusKept

\* A visible call is suppressed, known already, or charged and to be delivered.
LEMMA NotifyHolds ==
  ASSUME IInv, NEW w \in Workers, Notify(w)
  PROVE  IInv'
<1>. DEFINE n == Mine(w)
            t == Turn(w)
            s == ReadState
            m == Charged(n, s, t)
            T == Append(m.times, now)
            S == m.sent \cup {job[w].req}
            d == [m EXCEPT !.times = T, !.sent = S]
<1>1. /\ job[w].step = "notify" /\ held[job[w].proc] = None
      /\ UNCHANGED <<file, tmp, writer, asked, firm, held>>
  BY DEF Notify, Ready, At, Free, control
<1>2. /\ Busy(job[w]) /\ Fits(n) /\ n = memory[job[w].proc] /\ MemoryKept(w, n)
      /\ ~Writing(w) /\ t \in Turns /\ s \in Settings /\ job[w].proc \in Processes
  BY <1>1, HookFacts, MemorySame, NotWriting, ReadIs DEF IInv, FileInv, FileTypes
<1>3. /\ Fits(m) /\ m.files = n.files /\ m.roots = n.roots /\ m.rooted = n.rooted
      /\ m.cards = n.cards /\ m.sent = n.sent
      /\ \A u \in Turns : n.spent[u] <= m.spent[u] /\ m.spent[u] <= MaxTurn
      /\ (s.perCall /\ n.spent[t] < MaxTurn) =>
               m.spent = [n.spent EXCEPT ![t] = @ + 1]
  <2>1. \A u \in Turns : n.spent[u] <= MaxTurn
    BY <1>2 DEF MemoryKept
  <2>. HIDE DEF n, t, s
  <2>. QED
    BY <1>2, <2>1, ChargedIs
<1>4. MemoryKept(w, m)
  BY <1>2, <1>3 DEF MemoryKept
<1>5. /\ Fits(d) /\ d.files = m.files /\ d.roots = m.roots /\ d.rooted = m.rooted
      /\ d.cards = m.cards /\ d.spent = m.spent
  <2>. DEFINE k == [m EXCEPT !.times = T]
  <2>. HIDE DEF m, T, S
  <2>1. k = [files |-> m.files, roots |-> m.roots, sent |-> m.sent, spent |-> m.spent,
          times |-> T, apis |-> m.apis, stats |-> m.stats, checked |-> m.checked,
          cards |-> m.cards, rooted |-> m.rooted]
    BY <1>3 DEF Fits
  <2>2. d = [k EXCEPT !.sent = S]
    BY <1>3 DEF Fits
  <2>. HIDE DEF k, d
  <2>3. d = [files |-> m.files, roots |-> m.roots, sent |-> S, spent |-> m.spent,
          times |-> T, apis |-> m.apis, stats |-> m.stats, checked |-> m.checked,
          cards |-> m.cards, rooted |-> m.rooted]
    BY <2>1, <2>2
  <2>. QED
    BY <1>3, <2>3 DEF Fits
<1>6. MemoryKept(w, d)
  BY <1>4, <1>5 DEF MemoryKept
<1>7. d = [m EXCEPT !.times = Append(@, now), !.sent = @ \cup {job[w].req}]
  BY <1>3 DEF Fits
<1>8. CASE Left(w, "running") /\ UNCHANGED memory
  <2>1. memory' = [memory EXCEPT ![job[w].proc] = n]
    BY <1>1, <1>8, MemorySame DEF IInv
  <2>. HIDE DEF n
  <2>. QED
    BY <1>1, <1>2, <1>8, <2>1, LeftHolds
<1>9. CASE Remember(w, m) /\ Goto(w, "mark") /\ UNCHANGED status
  <2>. DEFINE j == [job[w] EXCEPT !.step = "mark"]
  <2>. HIDE DEF m
  <2>1. Goes(w, j) /\ j.step = "mark"
    BY <1>2, StepJob
  <2>2. Moves(w, j, m)
    BY <1>9 DEF Moves, Remember, Goto
  <2>. HIDE DEF j
  <2>. QED
    BY <1>1, <1>2, <1>4, <1>9, <2>1, <2>2, PlainHolds DEF StatusKept
<1>10. CASE Remember(w, d) /\ Left(w, "running")
  <2>1. memory' = [memory EXCEPT ![job[w].proc] = d]
    BY <1>10 DEF Remember
  <2>. HIDE DEF d
  <2>. QED
    BY <1>1, <1>2, <1>6, <1>10, <2>1, LeftHolds
<1>11. CASE /\ Remember(w, d) /\ Allowed(n, s, t) /\ UNCHANGED status
            /\ job' = [job EXCEPT ![w].step = "deliver", ![w].card = s.perCall]
  <2>. DEFINE c == s.perCall
              j == Carded(job[w], "deliver", c)
  <2>1. c \in BOOLEAN
    BY <1>2 DEF Settings
  <2>2. Goes(w, j) /\ j.step = "deliver" /\ j.card = c
    <3>. HIDE DEF c
    <3>1. Cards(w, j, "deliver", c)
      BY <1>2, <2>1, CardJob
    <3>. QED
      BY <3>1 DEF Cards
  <2>3. Moves(w, j, d)
    <3>. HIDE DEF d, s
    <3>. QED
      BY <1>2, <1>11 DEF Moves, Carded, Remember, IInv, HookInv, HookTypes
  <2>4. s.perCall => n.spent[t] < MaxTurn
    BY <1>11 DEF Allowed
  <2>5. ChargesMove(w, j, d)
    <3>1. CASE c = TRUE
      <4>1. d.spent = [n.spent EXCEPT ![t] = @ + 1] /\ n.spent[t] < MaxTurn
        BY <1>3, <1>5, <2>4, <3>1
      <4>2. d.cards = n.cards
        BY <1>3, <1>5
      <4>. HIDE DEF d, j, c
      <4>. QED
        BY <1>1, <1>2, <2>2, <3>1, <4>1, <4>2 DEF ChargesMove
    <3>2. CASE c # TRUE
      <4>1. d.cards = n.cards
        BY <1>3, <1>5
      <4>2. \A u \in Turns : n.spent[u] <= d.spent[u] /\ d.spent[u] <= MaxTurn
        BY <1>3, <1>5
      <4>. HIDE DEF d, j, c
      <4>. QED
        BY <1>1, <1>2, <2>2, <3>2, <4>1, <4>2 DEF ChargesMove
    <3>. QED
      BY <3>1, <3>2
  <2>. HIDE DEF d, j, m, c, s
  <2>6. RootsMove(w, j, d) /\ HeldMoves(w, j)
    BY <1>1, <1>2, <1>3, <1>5, <2>2 DEF RootsMove, HeldMoves
  <2>. QED
    BY <1>1, <1>2, <1>3, <1>5, <1>11, <2>2, <2>3, <2>5, <2>6, MovesHold DEF StatusKept
<1>. HIDE DEF d
<1>. QED
  BY <1>7, <1>8, <1>9, <1>10, <1>11 DEF Notify

\* The marker is taken, and counted if it is a card of its own, or it is not.
LEMMA DeliverHolds ==
  ASSUME IInv, NEW w \in Workers, Deliver(w)
  PROVE  IInv'
<1>. DEFINE n == Mine(w)
            t == Turn(w)
            q == IF job[w].card THEN n.stats ELSE Kept(Counted(n.stats, t), t)
            j == [job[w] EXCEPT !.step = "mark"]
<1>1. /\ job[w].step = "deliver" /\ held[job[w].proc] = None
      /\ UNCHANGED <<file, tmp, asked, held, status>>
      /\ job' = [job EXCEPT ![w].step = "mark"]
  BY DEF Deliver, Ready, At, Free, Goto
<1>2. /\ Busy(job[w]) /\ Fits(n) /\ n = memory[job[w].proc] /\ MemoryKept(w, n)
      /\ ~Writing(w) /\ t \in Turns /\ job[w].proc \in Processes
  BY <1>1, HookFacts, MemorySame, NotWriting DEF IInv
<1>3. Goes(w, j) /\ j.step = "mark"
  BY <1>2, StepJob
<1>. HIDE DEF q
<1>4. ASSUME NEW S, Remember(w, [n EXCEPT !.stats = q, !.apis = S,
                                   !.cards[t] = IF job[w].card THEN @ + 1 ELSE @]),
             UNCHANGED <<writer, firm>>
      PROVE  IInv'
  <2>. DEFINE C == [n.cards EXCEPT ![t] = IF job[w].card THEN @ + 1 ELSE @]
              m == [n EXCEPT !.stats = q, !.apis = S,
                             !.cards[t] = IF job[w].card THEN @ + 1 ELSE @]
  <2>1. C \in [Turns -> Nat]
    BY <1>2 DEF Fits
  <2>2. m = [files |-> n.files, roots |-> n.roots, sent |-> n.sent, spent |-> n.spent,
          times |-> n.times, apis |-> S, stats |-> q, checked |-> n.checked,
          cards |-> C, rooted |-> n.rooted]
    <3>. HIDE DEF n, t
    <3>. DEFINE i == [n EXCEPT !.stats = q]
                k == [i EXCEPT !.apis = S]
    <3>1. i = [files |-> n.files, roots |-> n.roots, sent |-> n.sent, spent |-> n.spent,
             times |-> n.times, apis |-> n.apis, stats |-> q, checked |-> n.checked,
             cards |-> n.cards, rooted |-> n.rooted]
      BY <1>2 DEF Fits
    <3>3. m = [k EXCEPT !.cards[t] = IF job[w].card THEN @ + 1 ELSE @]
      OBVIOUS
    <3>. HIDE DEF i, k, m
    <3>4. k = [files |-> n.files, roots |-> n.roots, sent |-> n.sent, spent |-> n.spent,
             times |-> n.times, apis |-> S, stats |-> q, checked |-> n.checked,
             cards |-> n.cards, rooted |-> n.rooted]
      BY <3>1 DEF k
    <3>5. k.cards = n.cards
      BY <3>4
    <3>6. m = [k EXCEPT !.cards = C]
      BY <3>3, <3>4, <3>5
    <3>. HIDE DEF C
    <3>. QED
      BY <3>4, <3>6
  <2>. HIDE DEF m
  <2>3. /\ Fits(m) /\ m.roots = n.roots /\ m.rooted = n.rooted /\ m.cards = C
        /\ m.spent = n.spent /\ m.files = n.files
    <3>. HIDE DEF C
    <3>. QED
      BY <1>2, <2>1, <2>2 DEF Fits
  <2>4. Moves(w, j, m)
    BY <1>1, <1>4 DEF Moves, Remember, m
  <2>5. ChargesMove(w, j, m)
    <3>1. CASE job[w].card = TRUE
      BY <1>1, <1>2, <1>3, <2>3, <3>1 DEF ChargesMove
    <3>2. CASE job[w].card = FALSE
      <4>1. m.cards = n.cards
        BY <1>2, <2>3, <3>2 DEF Fits
      <4>. HIDE DEF j
      <4>. QED
        BY <1>2, <1>3, <2>3, <4>1 DEF ChargesMove, MemoryKept
    <3>. QED
      BY <1>2, <3>1, <3>2 DEF Busy
  <2>. HIDE DEF j
  <2>6. RootsMove(w, j, m) /\ HeldMoves(w, j)
    BY <1>1, <1>2, <1>3, <2>3 DEF RootsMove, HeldMoves
  <2>. QED
    BY <1>1, <1>2, <1>3, <1>4, <2>3, <2>4, <2>5, <2>6, MovesHold DEF StatusKept
<1>5. ASSUME Remember(w, [n EXCEPT !.stats = q]), BeginChange(w, job[w].proc, "disable")
      PROVE  IInv'
  <2>. DEFINE m == [n EXCEPT !.stats = q]
  <2>1. /\ Fits(m) /\ m.roots = n.roots /\ m.rooted = n.rooted /\ m.cards = n.cards
        /\ m.spent = n.spent /\ m.files = n.files
    <3>. HIDE DEF n
    <3>1. m = [files |-> n.files, roots |-> n.roots, sent |-> n.sent, spent |-> n.spent,
          times |-> n.times, apis |-> n.apis, stats |-> q, checked |-> n.checked,
          cards |-> n.cards, rooted |-> n.rooted]
      BY <1>2 DEF Fits
    <3>. HIDE DEF m
    <3>. QED
      BY <1>2, <3>1 DEF Fits
  <2>2. Moves(w, j, m)
    BY <1>1, <1>5 DEF Moves, Remember
  <2>. HIDE DEF m, j
  <2>3. MemoryKept(w, m)
    BY <1>2, <2>1 DEF MemoryKept
  <2>4. FileInv' /\ Starts(w, j)
    BY <1>1, <1>2, <1>3, <1>5, DisableStarts
  <2>. QED
    BY <1>1, <1>2, <1>3, <2>2, <2>3, <2>4, PlainHolds DEF StatusKept
<1>. QED
  BY <1>4, <1>5 DEF Deliver, q

\* What was announced is completed, or it cannot be.
LEMMA NotifyPostHolds ==
  ASSUME IInv, NEW w \in Workers, NotifyPost(w)
  PROVE  IInv'
<1>. DEFINE n == Mine(w)
            q == Counted(n.stats, Turn(w))
            d == [n EXCEPT !.stats = q]
            m == IF ReadState.perCall THEN n ELSE d
            j == [job[w] EXCEPT !.step = "close"]
<1>1. /\ job[w].step = "update" /\ held[job[w].proc] = None
      /\ UNCHANGED <<file, tmp, asked, held>>
  BY DEF NotifyPost, Ready, At, Free
<1>2. /\ Busy(job[w]) /\ Fits(n) /\ n = memory[job[w].proc] /\ MemoryKept(w, n)
      /\ ~Writing(w) /\ job[w].proc \in Processes
  BY <1>1, HookFacts, MemorySame, NotWriting DEF IInv
<1>3. MemoryKept(w, m)
  <2>1. /\ Fits(d) /\ d.roots = n.roots /\ d.rooted = n.rooted /\ d.cards = n.cards
        /\ d.spent = n.spent /\ d.files = n.files
    <3>. HIDE DEF n, q
    <3>1. d = [files |-> n.files, roots |-> n.roots, sent |-> n.sent, spent |-> n.spent,
          times |-> n.times, apis |-> n.apis, stats |-> q, checked |-> n.checked,
          cards |-> n.cards, rooted |-> n.rooted]
      BY <1>2 DEF Fits
    <3>. HIDE DEF d
    <3>. QED
      BY <1>2, <3>1 DEF Fits
  <2>. HIDE DEF d
  <2>. QED
    BY <1>2, <2>1 DEF MemoryKept
<1>. HIDE DEF m
<1>4. CASE Left(w, "done") /\ UNCHANGED <<writer, firm, memory>>
  <2>1. memory' = [memory EXCEPT ![job[w].proc] = n]
    BY <1>1, <1>4, MemorySame DEF IInv
  <2>. HIDE DEF n
  <2>. QED
    BY <1>1, <1>2, <1>4, <2>1, LeftHolds
<1>5. CASE Remember(w, m) /\ Left(w, "done") /\ UNCHANGED <<writer, firm>>
  <2>1. memory' = [memory EXCEPT ![job[w].proc] = m]
    BY <1>5 DEF Remember
  <2>. QED
    BY <1>1, <1>2, <1>3, <1>5, <2>1, LeftHolds
<1>6. CASE /\ Remember(w, m) /\ BeginChange(w, job[w].proc, "disable")
           /\ Goto(w, "close") /\ UNCHANGED status
  <2>1. Goes(w, j) /\ j.step = "close"
    BY <1>2, StepJob
  <2>2. Moves(w, j, m)
    BY <1>6 DEF Moves, Remember, Goto
  <2>. HIDE DEF j
  <2>3. FileInv' /\ Starts(w, j)
    BY <1>1, <1>2, <1>6, <2>1, DisableStarts
  <2>. QED
    BY <1>1, <1>2, <1>3, <1>6, <2>1, <2>2, <2>3, PlainHolds DEF StatusKept
<1>. QED
  BY <1>4, <1>5, <1>6 DEF NotifyPost, m

-----------------------------------------------------------------------------
(* The other steps.                                                        *)

StatusTypes ==
  /\ status \in [Requests -> [at : {"new", "pre", "running", "post", "done"},
                              proc : Processes \cup {None}]]
  /\ \A r \in Requests : status[r].at # "new" => status[r].proc \in Processes
\* Who runs a request stays known.
StatusGrows == \A r \in Requests : status[r].proc \in Processes => status'[r].proc \in Processes

\* A request begins, ends or fails outside of the hooks; what a process
\* remembers of names may grow while its lock is free.
LEMMA OutsideHolds ==
  ASSUME IInv, UNCHANGED <<file, tmp, held, writer, job, asked, firm>>,
         StatusTypes', StatusGrows,
         memory' = [p \in Processes |-> memory'[p]],
         \A p \in Processes : memory'[p] = memory[p] \/
           /\ held[p] = None /\ Fits(memory'[p]) /\ memory'[p].roots = memory[p].roots
           /\ memory'[p].rooted = memory[p].rooted /\ memory'[p].cards = memory[p].cards
           /\ memory'[p].spent = memory[p].spent
  PROVE  IInv'
<1>1. FileInv'
  BY SameFile DEF IInv
<1>2. HookTypes'
  <2>1. \A w \in Workers : Busy(job[w]) => job[w].req \in Requests
    BY DEF Busy
  <2>. QED
    BY <2>1 DEF IInv, HookInv, HookTypes, StatusTypes, StatusGrows
<1>3. Locks' /\ Waits' /\ Seen'
  <2>1. \A p \in Processes, a \in Actors : LockedBy(p, a)' <=> LockedBy(p, a)
    BY DEF LockedBy
  <2>2. Locks'
    BY <2>1 DEF IInv, HookInv, Locks
  <2>. QED
    BY <2>2 DEF IInv, HookInv, Waits, Writing, Seen
<1>4. \A p \in Processes : /\ memory'[p].roots = memory[p].roots
           /\ memory'[p].rooted = memory[p].rooted /\ memory'[p].cards = memory[p].cards
           /\ memory'[p].spent = memory[p].spent
  OBVIOUS
<1>5. Roots'
  BY <1>4 DEF IInv, HookInv, Roots, Rooting
<1>6. Charges'
  <2>1. \A p, t : Delivering(p, t)' = Delivering(p, t)
    BY DEF Delivering
  <2>. QED
    BY <1>4, <2>1 DEF IInv, HookInv, Charges
<1>7. Spares'
  <2>. SUFFICES ASSUME NEW w \in Workers, job[w].step \in {"stat", "unlink"}
                PROVE  memory'[job[w].proc] = memory[job[w].proc]
    BY DEF IInv, HookInv, Spares
  <2>1. job[w].proc \in Processes /\ w \in Actors /\ w # None
    BY HookFacts, MonitorAssumption DEF IInv, Actors
  <2>2. held[job[w].proc] = w
    BY <2>1 DEF IInv, HookInv, Locks, LockedBy
  <2>. QED
    BY <2>1, <2>2
<1>. QED
  BY <1>1, <1>2, <1>3, <1>5, <1>6, <1>7 DEF IInv, HookInv

Entered(i, s, p, r, e, a, f) ==
  [i EXCEPT !.step = s, !.proc = p, !.req = r, !.seen = e, !.asked = a, !.firm = f]

LEMMA EnteredIs ==
  ASSUME NEW i, NEW s, NEW p, NEW r, NEW e, NEW a, NEW f,
         i = [step |-> i.step, proc |-> i.proc, req |-> i.req, seen |-> i.seen,
              asked |-> i.asked, firm |-> i.firm, listed |-> i.listed, card |-> i.card]
  PROVE  Entered(i, s, p, r, e, a, f) =
           [step |-> s, proc |-> p, req |-> r, seen |-> e, asked |-> a, firm |-> f,
            listed |-> i.listed, card |-> i.card]
<1>. DEFINE j1 == [i EXCEPT !.step = s]
            j2 == [j1 EXCEPT !.proc = p]
            j3 == [j2 EXCEPT !.req = r]
            j4 == [j3 EXCEPT !.seen = e]
            j5 == [j4 EXCEPT !.asked = a]
            j6 == [j5 EXCEPT !.firm = f]
<1>0. Entered(i, s, p, r, e, a, f) = j6
  BY DEF Entered
<1>1. j1 = [step |-> s, proc |-> i.proc, req |-> i.req, seen |-> i.seen,
            asked |-> i.asked, firm |-> i.firm, listed |-> i.listed, card |-> i.card]
  OBVIOUS
<1>. HIDE DEF j1
<1>2. j2 = [step |-> s, proc |-> p, req |-> i.req, seen |-> i.seen,
            asked |-> i.asked, firm |-> i.firm, listed |-> i.listed, card |-> i.card]
  BY <1>1
<1>. HIDE DEF j2
<1>3. j3 = [step |-> s, proc |-> p, req |-> r, seen |-> i.seen,
            asked |-> i.asked, firm |-> i.firm, listed |-> i.listed, card |-> i.card]
  BY <1>2
<1>. HIDE DEF j3
<1>4. j4 = [step |-> s, proc |-> p, req |-> r, seen |-> e,
            asked |-> i.asked, firm |-> i.firm, listed |-> i.listed, card |-> i.card]
  BY <1>3
<1>. HIDE DEF j4
<1>5. j5 = [step |-> s, proc |-> p, req |-> r, seen |-> e,
            asked |-> a, firm |-> i.firm, listed |-> i.listed, card |-> i.card]
  BY <1>4
<1>. HIDE DEF j5
<1>6. j6 = [step |-> s, proc |-> p, req |-> r, seen |-> e,
            asked |-> a, firm |-> f, listed |-> i.listed, card |-> i.card]
  BY <1>5
<1>. HIDE DEF j6
<1>. QED
  BY <1>0, <1>6

LEMMA EnterHolds ==
  ASSUME IInv, NEW w \in Workers, NEW p \in Processes, NEW r \in Requests,
         NEW s \in {"prune", "response"}, Enter(w, p, r, s), ReadState.enabled,
         StatusTypes', StatusGrows, status'[r].proc \in Processes
  PROVE  IInv'
<1>. DEFINE j == [NoJob EXCEPT !.step = s, !.proc = p, !.req = r,
               !.seen = ReadState, !.asked = asked, !.firm = firm]
<1>1. /\ job[w].step = "idle" /\ held[p] = None
      /\ job' = [job EXCEPT ![w] = j]
      /\ UNCHANGED <<file, tmp, held, writer, asked, firm, memory>>
  BY DEF Enter, At, Free, control
<1>2. /\ Busy(j) /\ j.step = s /\ j.proc = p /\ j.req = r /\ j.seen = ReadState
      /\ j.asked = asked /\ j.firm = firm /\ j.card = FALSE
  <2>1. j = Entered(NoJob, s, p, r, ReadState, asked, firm)
    BY DEF Entered
  <2>. HIDE DEF j
  <2>2. /\ NoJob = [step |-> NoJob.step, proc |-> NoJob.proc, req |-> NoJob.req,
               seen |-> NoJob.seen, asked |-> NoJob.asked, firm |-> NoJob.firm,
               listed |-> NoJob.listed, card |-> NoJob.card]
        /\ NoJob.card = FALSE
    BY DEF NoJob
  <2>3. j = [step |-> s, proc |-> p, req |-> r, seen |-> ReadState, asked |-> asked,
             firm |-> firm, listed |-> NoJob.listed, card |-> NoJob.card]
    BY <2>1, <2>2, EnteredIs
  <2>. QED
    BY <2>2, <2>3 DEF Busy
<1>. HIDE DEF j
<1>3. Busy(j) /\ j.step # "root" /\ j.step \notin {"stat", "unlink", "deliver"}
  BY <1>2
<1>4. job[w] = NoJob /\ w \in Actors /\ w # None
  BY <1>1, MonitorAssumption DEF IInv, HookInv, HookTypes, Busy, Actors
<1>5. /\ job'[w] = j /\ \A v \in Workers \ {w} : job'[v] = job[v]
      /\ job' = [v \in Workers |-> job'[v]]
  BY <1>1 DEF IInv, HookInv, HookTypes
<1>6. FileInv'
  BY <1>1, SameFile DEF IInv
<1>7. HookTypes'
  <2>1. \A v \in Workers : job'[v] = NoJob \/ Busy(job'[v])
    BY <1>3, <1>5 DEF IInv, HookInv, HookTypes
  <2>2. \A v \in Workers : Busy(job'[v]) => status'[job'[v].req].proc \in Processes
    <3>1. \A v \in Workers : Busy(job[v]) =>
            job[v].req \in Requests /\ status[job[v].req].proc \in Processes
      BY DEF IInv, HookInv, HookTypes, Busy
    <3>. QED
      BY <1>2, <1>5, <3>1 DEF StatusGrows
  <2>. QED
    BY <1>1, <1>5, <2>1, <2>2 DEF IInv, HookInv, HookTypes, StatusTypes
<1>8. Locks'
  <2>1. ASSUME NEW q \in Processes, NEW a \in Actors
        PROVE  LockedBy(q, a)' <=> LockedBy(q, a)
    BY <1>1, <1>3, <1>5 DEF LockedBy
  <2>. QED
    BY <1>1, <2>1 DEF IInv, HookInv, Locks
<1>9. Waits'
  BY <1>1, <1>5 DEF IInv, HookInv, Waits, Writing
<1>10. Seen'
  <2>1. firm => asked # "off" /\ (ReadState.full => asked = "full")
    BY DEF IInv, FileInv, Firm, Says
  <2>. QED
    BY <1>2, <1>5, <2>1 DEF IInv, HookInv, Seen
<1>11. Roots'
  <2>1. \A v \in Workers, q \in Processes, t \in Turns : Rooting(v, q, t)' => Rooting(v, q, t)
    BY <1>3, <1>5 DEF Rooting
  <2>. QED
    BY <1>1, <2>1 DEF IInv, HookInv, Roots
<1>12. Charges'
  <2>1. \A q, t : Delivering(q, t)' = Delivering(q, t)
    BY <1>1, <1>3, <1>5 DEF Delivering
  <2>. QED
    BY <1>1, <2>1 DEF IInv, HookInv, Charges
<1>13. Spares'
  BY <1>1, <1>3, <1>5 DEF IInv, HookInv, Spares
<1>. QED
  BY <1>6, <1>7, <1>8, <1>9, <1>10, <1>11, <1>12, <1>13 DEF IInv, HookInv

LEMMA MemoryStays ==
  ASSUME IInv, UNCHANGED memory
  PROVE  /\ memory' = [p \in Processes |-> memory'[p]]
         /\ \A p \in Processes : memory'[p] = memory[p]
BY DEF IInv, HookInv, HookTypes

LEMMA PreRequestHolds ==
  ASSUME IInv, NEW w \in Workers, NEW p \in Processes, NEW r \in Requests,
         PreRequest(w, p, r)
  PROVE  IInv'
<1>. DEFINE a == IF ReadState.enabled THEN "pre" ELSE "running"
            i == [proc |-> p, at |-> a]
<1>1. status' = [status EXCEPT ![r] = i]
  BY DEF PreRequest
<1>2. i \in [at : {"new", "pre", "running", "post", "done"}, proc : Processes \cup {None}]
      /\ i.proc \in Processes
  OBVIOUS
<1>. HIDE DEF i
<1>3. StatusTypes' /\ StatusGrows /\ status'[r].proc \in Processes
  BY <1>1, <1>2 DEF StatusTypes, StatusGrows, IInv, HookInv, HookTypes
<1>4. CASE ReadState.enabled
  BY <1>3, <1>4, EnterHolds DEF PreRequest
<1>5. CASE ~ReadState.enabled
  <2>1. UNCHANGED <<file, tmp, held, writer, job, asked, firm, memory>>
    BY <1>5 DEF PreRequest, control
  <2>. QED
    BY <1>3, <2>1, MemoryStays, OutsideHolds
<1>. QED
  BY <1>4, <1>5

LEMMA PostRequestHolds ==
  ASSUME IInv, NEW w \in Workers, NEW r \in Requests, PostRequest(w, r)
  PROVE  IInv'
<1>. DEFINE p == status[r].proc
            a == IF ReadState.enabled THEN "post" ELSE "done"
            i == [status[r] EXCEPT !.at = a]
<1>1. status' = [status EXCEPT ![r] = i] /\ status[r].at = "running"
  BY DEF PostRequest, IInv, HookInv, HookTypes
<1>2. p \in Processes
  BY <1>1 DEF IInv, HookInv, HookTypes
<1>3. i \in [at : {"new", "pre", "running", "post", "done"}, proc : Processes \cup {None}]
      /\ i.proc = p
  BY <1>2 DEF IInv, HookInv, HookTypes
<1>. HIDE DEF i
<1>4. StatusTypes' /\ StatusGrows /\ status'[r].proc \in Processes
  BY <1>1, <1>2, <1>3 DEF StatusTypes, StatusGrows, IInv, HookInv, HookTypes
<1>5. CASE ReadState.enabled
  <2>1. Enter(w, p, r, "response")
    BY <1>5 DEF PostRequest
  <2>. HIDE DEF p
  <2>. QED
    BY <1>2, <1>4, <1>5, <2>1, EnterHolds
<1>6. CASE ~ReadState.enabled
  <2>1. UNCHANGED <<file, tmp, held, writer, job, asked, firm, memory>>
    BY <1>6 DEF PostRequest, control
  <2>. QED
    BY <1>4, <2>1, MemoryStays, OutsideHolds
<1>. QED
  BY <1>5, <1>6

LEMMA ApiErrorHolds ==
  ASSUME IInv, NEW w \in Workers, NEW r \in Requests, ApiError(w, r)
  PROVE  IInv'
<1>. DEFINE p == status[r].proc
            i == [status[r] EXCEPT !.at = "new"]
            n == memory[p]
            F == Located(n, TurnOf[r])
            m == [n EXCEPT !.files = F]
<1>1. /\ status' = [status EXCEPT ![r] = i] /\ status[r].at = "running" /\ held[p] = None
      /\ UNCHANGED <<file, tmp, held, writer, job, asked, firm>>
  BY DEF ApiError, Free, control, IInv, HookInv, HookTypes
<1>2. p \in Processes
  BY <1>1 DEF IInv, HookInv, HookTypes
<1>3. i \in [at : {"new", "pre", "running", "post", "done"}, proc : Processes \cup {None}]
      /\ i.proc = p
  BY <1>2 DEF IInv, HookInv, HookTypes
<1>. HIDE DEF i
<1>4. StatusTypes' /\ StatusGrows
  BY <1>1, <1>2, <1>3 DEF StatusTypes, StatusGrows, IInv, HookInv, HookTypes
<1>5. memory' = memory \/ memory' = [memory EXCEPT ![p] = m]
  BY DEF ApiError
<1>6. /\ Fits(m) /\ m.roots = n.roots /\ m.rooted = n.rooted /\ m.cards = n.cards
      /\ m.spent = n.spent
  <2>1. Fits(n)
    BY <1>2 DEF IInv, HookInv, HookTypes
  <2>. HIDE DEF n, F
  <2>2. m = [files |-> F, roots |-> n.roots, sent |-> n.sent, spent |-> n.spent,
          times |-> n.times, apis |-> n.apis, stats |-> n.stats, checked |-> n.checked,
          cards |-> n.cards, rooted |-> n.rooted]
    BY <2>1 DEF Fits
  <2>. HIDE DEF m
  <2>. QED
    BY <2>1, <2>2 DEF Fits
<1>. HIDE DEF m
<1>7. CASE memory' = memory
  BY <1>1, <1>4, <1>7, MemoryStays, OutsideHolds
<1>8. CASE memory' = [memory EXCEPT ![p] = m]
  <2>1. memory' = [q \in Processes |-> memory'[q]]
        /\ \A q \in Processes : memory'[q] = IF q = p THEN m ELSE memory[q]
    BY <1>2, <1>8 DEF IInv, HookInv, HookTypes
  <2>. QED
    BY <1>1, <1>4, <1>6, <2>1, OutsideHolds
<1>. QED
  BY <1>5, <1>7, <1>8

\* The steps of a writer change neither a hook nor a memory.
LEMMA WriterHolds ==
  ASSUME IInv, NEW a \in Actors, FileInv', UNCHANGED <<job, memory, status>>,
         OthersWrite(a), held' = [p \in Processes |-> held'[p]],
         a = Owner \/ (Writing(a)' => Writing(a) /\ writer'[a].proc = writer[a].proc),
         \A p \in Processes : LockedBy(p, a)' <=> held'[p] = a,
         \A p \in Processes, b \in Actors \ {a} : held'[p] = b <=> held[p] = b
  PROVE  IInv'
<1>1. HookTypes' /\ Seen' /\ Spares'
  BY DEF IInv, HookInv, HookTypes, Seen, Spares
<1>2. Roots'
  BY DEF IInv, HookInv, Roots, Rooting
<1>3. Charges'
  <2>1. \A p, t : Delivering(p, t)' = Delivering(p, t)
    BY DEF Delivering
  <2>. QED
    BY <2>1 DEF IInv, HookInv, Charges
<1>4. Locks'
  <2>1. \A p \in Processes, b \in Actors \ {a} : LockedBy(p, b)' <=> LockedBy(p, b)
    BY DEF LockedBy, OthersWrite
  <2>. QED
    BY <2>1 DEF IInv, HookInv, Locks
<1>5. Waits'
  <2>. SUFFICES ASSUME NEW w \in Workers, Writing(w)'
                PROVE  Writing(w) /\ writer'[w].proc = writer[w].proc
    BY DEF IInv, HookInv, Waits
  <2>1. w \in Actors /\ w # Owner
    BY MonitorAssumption DEF Actors
  <2>. QED
    BY <2>1 DEF OthersWrite, Writing
<1>. QED
  BY <1>1, <1>2, <1>3, <1>4, <1>5 DEF IInv, HookInv

\* Who writes is not at the same time in a hook's part of the lock.
LEMMA WriterLocks ==
  ASSUME IInv, NEW a \in Actors, Writing(a)
  PROVE  /\ ~(a \in Workers /\ job[a].step \in {"stat", "unlink"})
         /\ \A p \in Processes : held[p] = a <=>
              writer[a].proc = p /\ writer[a].step \in {"fill", "replace"}
         /\ writer[a].proc \in Processes /\ a # None
         /\ held = [p \in Processes |-> held[p]]
<1>1. a \in Workers => job[a].step \in {"mark", "close"}
  BY DEF IInv, HookInv, Waits
<1>2. \A p \in Processes : LockedBy(p, a) <=> held[p] = a
  BY DEF IInv, HookInv, Locks
<1>3. a # None /\ writer[a].proc \in Processes /\ held = [p \in Processes |-> held[p]]
  BY MonitorAssumption DEF Actors, IInv, FileInv, FileTypes, HookInv, HookTypes
<1>. QED
  BY <1>1, <1>2, <1>3 DEF LockedBy

LEMMA CommandHolds ==
  ASSUME IInv, NEW p \in Processes, NEW c \in Commands, Command(p, c)
  PROVE  IInv'
<1>1. /\ Owner \in Actors /\ Owner \notin Workers /\ Owner # None /\ c \in CommandNames
  BY MonitorAssumption DEF Actors
<1>2. /\ BeginChange(Owner, p, c) /\ UNCHANGED <<file, tmp, held, asked, job, memory, status>>
      /\ ~Writing(Owner)
  BY DEF Command, hooks
<1>3. FileInv'
  BY <1>1, <1>2, BeginChangeFile DEF IInv
<1>4. OthersWrite(Owner) /\ writer'[Owner].step = "open"
  BY <1>1, <1>2, BeginChangeIs DEF IInv
<1>5. \A q \in Processes : LockedBy(q, Owner)' <=> held'[q] = Owner
  <2>1. \A q \in Processes : LockedBy(q, Owner) <=> held[q] = Owner
    BY <1>1 DEF IInv, HookInv, Locks
  <2>2. \A q : ~LockedBy(q, Owner) /\ ~LockedBy(q, Owner)'
    BY <1>1, <1>2, <1>4 DEF LockedBy, Writing
  <2>. QED
    BY <1>2, <2>1, <2>2
<1>6. held' = [q \in Processes |-> held'[q]]
  BY <1>2 DEF IInv, HookInv, HookTypes
<1>. QED
  BY <1>1, <1>2, <1>3, <1>4, <1>5, <1>6, WriterHolds

LEMMA OpenHolds ==
  ASSUME IInv, NEW a \in Actors, OpenTemporary(a)
  PROVE  IInv'
<1>. DEFINE j == [writer[a] EXCEPT !.step = "fill", !.open = "tmp"]
            p == writer[a].proc
<1>1. /\ writer[a].step = "open" /\ writer' = [writer EXCEPT ![a] = j]
      /\ held[p] = None /\ held' = [held EXCEPT ![p] = a]
      /\ UNCHANGED <<job, memory, status>> /\ writer[a] \in Writers
      /\ writer \in [Actors -> Writers]
  BY DEF OpenTemporary, IInv, FileInv, FileTypes, Free, hooks
<1>2. j.step = "fill" /\ j.proc = p
  BY <1>1 DEF Writers
<1>. HIDE DEF j
<1>3. writer'[a] = j /\ OthersWrite(a)
  BY <1>1 DEF OthersWrite
<1>4. Writing(a)
  BY <1>1 DEF Writing
<1>5. FileInv'
  BY OpenFile DEF IInv
<1>6. /\ ~(a \in Workers /\ job[a].step \in {"stat", "unlink"})
      /\ \A q \in Processes : held[q] # a
      /\ p \in Processes /\ a # None /\ held = [q \in Processes |-> held[q]]
  BY <1>1, <1>4, WriterLocks
<1>7. \A q \in Processes : held'[q] = (IF q = p THEN a ELSE held[q])
  BY <1>1, <1>6
<1>8. \A q \in Processes : LockedBy(q, a)' <=> held'[q] = a
  BY <1>1, <1>2, <1>3, <1>6, <1>7 DEF LockedBy
<1>9. \A q \in Processes, b \in Actors \ {a} : held'[q] = b <=> held[q] = b
  BY <1>1, <1>7, MonitorAssumption DEF Actors
<1>10. held' = [q \in Processes |-> held'[q]]
  BY <1>1, <1>6
<1>. QED
  BY <1>1, <1>2, <1>3, <1>4, <1>5, <1>8, <1>9, <1>10, WriterHolds

LEMMA FillHolds ==
  ASSUME IInv, NEW a \in Actors, FillTemporary(a)
  PROVE  IInv'
<1>. DEFINE j == [writer[a] EXCEPT !.step = "replace"]
            p == writer[a].proc
<1>1. /\ writer[a].step = "fill" /\ writer' = [writer EXCEPT ![a] = j]
      /\ UNCHANGED <<held, job, memory, status>> /\ writer[a] \in Writers
      /\ writer \in [Actors -> Writers]
  BY DEF FillTemporary, IInv, FileInv, FileTypes, hooks
<1>2. j.step = "replace" /\ j.proc = p
  BY <1>1 DEF Writers
<1>. HIDE DEF j
<1>3. writer'[a] = j /\ OthersWrite(a)
  BY <1>1 DEF OthersWrite
<1>4. Writing(a)
  BY <1>1 DEF Writing
<1>5. FileInv'
  BY FillFile DEF IInv
<1>6. /\ ~(a \in Workers /\ job[a].step \in {"stat", "unlink"})
      /\ \A q \in Processes : held[q] = a <=> p = q
      /\ held = [q \in Processes |-> held[q]]
  BY <1>1, <1>4, WriterLocks
<1>7. \A q \in Processes : LockedBy(q, a)' <=> held'[q] = a
  BY <1>1, <1>2, <1>3, <1>6 DEF LockedBy
<1>. QED
  BY <1>1, <1>2, <1>3, <1>4, <1>5, <1>6, <1>7, WriterHolds

LEMMA ReplaceHolds ==
  ASSUME IInv, NEW a \in Actors, Replace(a)
  PROVE  IInv'
<1>. DEFINE k(b) == [writer[b] EXCEPT !.open = "file"]
            p == writer[a].proc
<1>1. /\ writer[a].step = "replace" /\ held' = [held EXCEPT ![p] = None]
      /\ UNCHANGED <<job, memory, status>>
      /\ writer' = [b \in Actors |-> IF b = a THEN NoWriter
            ELSE IF writer[b].step = "fill" /\ tmp # Absent THEN k(b) ELSE writer[b]]
  BY DEF Replace, hooks
<1>2. \A b \in Actors : k(b).step = writer[b].step /\ k(b).proc = writer[b].proc
  BY DEF IInv, FileInv, FileTypes, Writers
<1>. HIDE DEF k
<1>3. writer'[a] = NoWriter /\ OthersWrite(a)
  BY <1>1, <1>2 DEF OthersWrite
<1>4. Writing(a) /\ ~Writing(a)'
  BY <1>1, <1>3, NoWriterIs DEF Writing
<1>5. FileInv'
  BY ReplaceFile DEF IInv
<1>6. /\ ~(a \in Workers /\ job[a].step \in {"stat", "unlink"})
      /\ \A q \in Processes : held[q] = a <=> p = q
      /\ p \in Processes /\ a # None /\ held = [q \in Processes |-> held[q]]
  BY <1>1, <1>4, WriterLocks
<1>7. \A q \in Processes : held'[q] = (IF q = p THEN None ELSE held[q])
  BY <1>1, <1>6
<1>8. \A q \in Processes : LockedBy(q, a)' <=> held'[q] = a
  <2>1. \A q \in Processes : ~LockedBy(q, a)'
    BY <1>1, <1>3, <1>6, NoWriterIs DEF LockedBy
  <2>. QED
    BY <1>6, <1>7, <2>1
<1>9. \A q \in Processes, b \in Actors \ {a} : held'[q] = b <=> held[q] = b
  <2>1. \A b \in Actors : b # None
    BY MonitorAssumption DEF Actors
  <2>. QED
    BY <1>6, <1>7, <2>1
<1>10. held' = [q \in Processes |-> held'[q]]
  BY <1>1, <1>6
<1>. QED
  BY <1>1, <1>3, <1>4, <1>5, <1>8, <1>9, <1>10, WriterHolds

LEMMA FreshIs ==
  /\ Fits(Fresh)
  /\ \A t \in Turns : Fresh.spent[t] = 0 /\ Fresh.cards[t] = 0 /\ Fresh.rooted[t] = 0
  /\ DOMAIN Fresh.files = {}
<1>1. Fresh = [files |-> Fresh.files, roots |-> Fresh.roots, sent |-> Fresh.sent,
               spent |-> Fresh.spent, times |-> Fresh.times, apis |-> Fresh.apis,
               stats |-> Fresh.stats, checked |-> Fresh.checked,
               cards |-> Fresh.cards, rooted |-> Fresh.rooted]
  BY DEF Fresh
<1>2. /\ Fresh.spent = [t \in Turns |-> 0] /\ Fresh.cards = [t \in Turns |-> 0]
      /\ Fresh.rooted = [t \in Turns |-> 0] /\ Fresh.files = << >>
  BY DEF Fresh
<1>. HIDE DEF Fresh
<1>. QED
  BY <1>1, <1>2 DEF Fits

\* A process ends: its hooks, its writes and its memory go, and its lock.
LEMMA CrashHolds ==
  ASSUME IInv, NEW p \in Processes, Crash(p)
  PROVE  IInv'
<1>. DEFINE k(r) == [status[r] EXCEPT !.at = "done"]
<1>1. /\ memory' = [memory EXCEPT ![p] = Fresh] /\ held' = [held EXCEPT ![p] = None]
      /\ job' = [w \in Workers |-> IF job[w].proc = p THEN NoJob ELSE job[w]]
      /\ writer' = [a \in Actors |-> IF writer[a].proc = p THEN NoWriter ELSE writer[a]]
      /\ status' = [r \in Requests |-> IF status[r].proc = p /\ status[r].at # "new"
                      THEN k(r) ELSE status[r]]
  BY DEF Crash
<1>2. FileInv'
  BY CrashFile DEF IInv
<1>3. /\ p # None /\ \A w \in Workers : job'[w] = NoJob \/ (job'[w] = job[w] /\ job[w].proc # p)
      /\ \A a \in Actors : writer'[a] = (IF writer[a].proc = p THEN NoWriter ELSE writer[a])
      /\ \A q \in Processes : memory'[q] = (IF q = p THEN Fresh ELSE memory[q])
      /\ \A q \in Processes : held'[q] = (IF q = p THEN None ELSE held[q])
      /\ memory' = [q \in Processes |-> memory'[q]] /\ held' = [q \in Processes |-> held'[q]]
      /\ job' = [w \in Workers |-> job'[w]]
  BY <1>1, MonitorAssumption DEF IInv, HookInv, HookTypes
<1>4. /\ status' \in [Requests -> [at : {"new", "pre", "running", "post", "done"},
                                  proc : Processes \cup {None}]]
      /\ \A r \in Requests : status'[r].proc = status[r].proc
           /\ (status'[r].at # "new" => status[r].at # "new")
  <2>1. \A r \in Requests : status[r] \in
          [at : {"new", "pre", "running", "post", "done"}, proc : Processes \cup {None}]
    BY DEF IInv, HookInv, HookTypes
  <2>2. \A r \in Requests : /\ k(r) \in [at : {"new", "pre", "running", "post", "done"},
                                         proc : Processes \cup {None}]
                            /\ k(r).proc = status[r].proc
    BY <2>1
  <2>. HIDE DEF k
  <2>. QED
    BY <1>1, <2>1, <2>2
<1>5. HookTypes'
  <2>1. \A w \in Workers : job'[w] = NoJob \/ Busy(job'[w])
    BY <1>3 DEF IInv, HookInv, HookTypes
  <2>2. \A q \in Processes : Fits(memory'[q])
    BY <1>3, FreshIs DEF IInv, HookInv, HookTypes
  <2>3. \A r \in Requests : status'[r].at # "new" => status'[r].proc \in Processes
    BY <1>4 DEF IInv, HookInv, HookTypes
  <2>4. \A w \in Workers : Busy(job'[w]) => status'[job'[w].req].proc \in Processes
    <3>1. \A w \in Workers : Busy(job[w]) =>
            job[w].req \in Requests /\ status[job[w].req].proc \in Processes
      BY DEF IInv, HookInv, HookTypes, Busy
    <3>. QED
      BY <1>3, <1>4, <3>1, NoJobIs
  <2>. QED
    BY <1>3, <1>4, <2>1, <2>2, <2>3, <2>4 DEF HookTypes
<1>6. Locks'
  <2>. SUFFICES ASSUME NEW q \in Processes, NEW a \in Actors
                PROVE  LockedBy(q, a)' <=> held'[q] = a
    BY DEF Locks
  <2>1. a # None /\ (LockedBy(q, a) <=> held[q] = a)
    BY MonitorAssumption DEF Actors, IInv, HookInv, Locks
  <2>2. CASE q = p
    BY <1>3, <2>1, <2>2, NoWriterIs, NoJobIs DEF LockedBy
  <2>3. CASE q # p
    <3>1. writer'[a].proc = q /\ writer'[a].step \in {"fill", "replace"}
            <=> writer[a].proc = q /\ writer[a].step \in {"fill", "replace"}
      BY <1>3, <2>3, NoWriterIs
    <3>2. a \in Workers =>
            (job'[a].proc = q /\ job'[a].step \in {"stat", "unlink"}
              <=> job[a].proc = q /\ job[a].step \in {"stat", "unlink"})
      <4>1. a \in Workers => job'[a] = (IF job[a].proc = p THEN NoJob ELSE job[a])
        BY <1>1
      <4>. QED
        BY <2>3, <4>1, NoJobIs, MonitorAssumption
    <3>. QED
      BY <1>3, <2>1, <2>3, <3>1, <3>2 DEF LockedBy
  <2>. QED
    BY <2>2, <2>3
<1>7. Waits'
  <2>. SUFFICES ASSUME NEW w \in Workers, Writing(w)'
                PROVE  job'[w].step \in {"mark", "close"} /\ writer'[w].proc = job'[w].proc
    BY DEF Waits
  <2>1. w \in Actors
    BY DEF Actors
  <2>2. writer[w].proc # p /\ writer'[w] = writer[w] /\ Writing(w)
    BY <1>3, <2>1, NoWriterIs DEF Writing
  <2>3. job[w].step \in {"mark", "close"} /\ writer[w].proc = job[w].proc
    BY <2>2 DEF IInv, HookInv, Waits
  <2>4. job'[w] = job[w]
    BY <1>1, <2>2, <2>3
  <2>. QED
    BY <2>2, <2>3, <2>4
<1>8. Seen'
  BY <1>3, NoJobIs DEF IInv, HookInv, Seen
<1>9. Roots'
  <2>1. \A w \in Workers, q \in Processes, t \in Turns :
          Rooting(w, q, t)' => Rooting(w, q, t) /\ q # p
    BY <1>3, NoJobIs DEF Rooting
  <2>2. \A q \in Processes, t \in Turns : q # p => memory'[q] = memory[q]
    BY <1>3
  <2>3. \A t \in Turns : memory'[p].rooted[t] = 0
    BY <1>3, FreshIs
  <2>4. \A q \in Processes, t \in Turns :
       memory'[q].rooted[t] <= 1 /\ (memory'[q].rooted[t] # 0 => t \in memory'[q].roots)
    BY <2>2, <2>3 DEF IInv, HookInv, Roots
  <2>. QED
    BY <2>1, <2>2, <2>4 DEF IInv, HookInv, Roots
<1>10. Charges'
  <2>. SUFFICES ASSUME NEW q \in Processes, NEW t \in Turns
                PROVE  /\ memory'[q].cards[t] + Cardinality(Delivering(q, t)') <= memory'[q].spent[t]
                       /\ memory'[q].spent[t] <= MaxTurn
    BY DEF Charges
  <2>1. CASE q = p
    <3>1. Delivering(q, t)' = {}
      BY <1>3, <2>1, NoJobIs DEF Delivering
    <3>. QED
      BY <1>3, <2>1, <3>1, FreshIs, FS_EmptySet, MonitorAssumption
  <2>2. CASE q # p
    <3>1. ASSUME NEW w \in Workers
          PROVE  w \in Delivering(q, t)' <=> w \in Delivering(q, t)
      <4>1. job'[w] = (IF job[w].proc = p THEN NoJob ELSE job[w])
        BY <1>1
      <4>. QED
        BY <2>2, <4>1, NoJobIs DEF Delivering
    <3>2. Delivering(q, t)' = Delivering(q, t)
      <4>1. Delivering(q, t)' \subseteq Workers /\ Delivering(q, t) \subseteq Workers
        BY DEF Delivering
      <4>. QED
        BY <3>1, <4>1
    <3>. QED
      BY <1>3, <2>2, <3>2 DEF IInv, HookInv, Charges
  <2>. QED
    BY <2>1, <2>2
<1>11. Spares'
  <2>. SUFFICES ASSUME NEW w \in Workers, job'[w].step \in {"stat", "unlink"}
                PROVE  job'[w] = job[w] /\ memory'[job[w].proc] = memory[job[w].proc]
    BY DEF IInv, HookInv, Spares
  <2>1. job'[w] = job[w] /\ job[w].proc # p
    BY <1>3, NoJobIs
  <2>2. job[w].proc \in Processes
    BY <2>1, HookFacts DEF IInv
  <2>. QED
    BY <1>3, <2>1, <2>2
<1>. QED
  BY <1>2, <1>5, <1>6, <1>7, <1>8, <1>9, <1>10, <1>11 DEF IInv, HookInv

\* Nothing of what the invariant speaks of changes.
LEMMA StillHolds ==
  ASSUME IInv, UNCHANGED <<control, hooks>>
  PROVE  IInv'
<1>1. UNCHANGED <<file, tmp, held, writer, job, asked, firm, status, memory>>
  BY DEF control, hooks
<1>2. StatusTypes' /\ StatusGrows
  BY <1>1 DEF IInv, HookInv, HookTypes, StatusTypes, StatusGrows
<1>. QED
  BY <1>1, <1>2, MemoryStays, OutsideHolds

-----------------------------------------------------------------------------
(* The theorems.                                                           *)

LEMMA InitHolds ==
  ASSUME Init
  PROVE  IInv
<1>1. /\ \A a \in Actors : writer[a] = NoWriter
      /\ \A w \in Workers : job[w] = NoJob
      /\ \A p \in Processes : memory[p] = Fresh /\ held[p] = None
      /\ \A r \in Requests : status[r] = [at |-> "new", proc |-> None]
      /\ writer = [a \in Actors |-> NoWriter] /\ job = [w \in Workers |-> NoJob]
      /\ memory = [p \in Processes |-> Fresh] /\ held = [p \in Processes |-> None]
      /\ status = [r \in Requests |-> [at |-> "new", proc |-> None]]
      /\ file \in InitialFiles /\ tmp = Absent /\ firm = TRUE /\ asked = "metadata"
  BY DEF Init
<1>2. \A a \in Actors : ~Writing(a) /\ a # None
  BY <1>1, NoWriterIs, MonitorAssumption DEF Writing, Actors
<1>3. FileInv
  <2>1. file \in {Absent, Torn} \cup {s \in Settings : ~s.full}
    BY <1>1, MonitorAssumption
  <2>2. FileTypes
    BY <1>1, <1>2, <2>1, NoWriterIs DEF FileTypes, Contents
  <2>3. ~ReadState.full
    BY <2>1, DefaultIs DEF ReadState
  <2>4. Firm
    BY <1>1, <1>2, <2>3 DEF Firm, Says
  <2>. QED
    BY <1>2, <2>2, <2>4 DEF FileInv, Alone, Changed
<1>4. HookTypes
  <2>1. \A r \in Requests : status[r].at = "new"
    BY <1>1
  <2>2. status \in [Requests -> [at : {"new", "pre", "running", "post", "done"},
                                 proc : Processes \cup {None}]]
    BY <1>1
  <2>. QED
    BY <1>1, <2>1, <2>2, FreshIs, NoJobIs DEF HookTypes
<1>5. Locks
  BY <1>1, <1>2, NoWriterIs, NoJobIs DEF Locks, LockedBy
<1>6. Waits /\ Seen /\ Spares
  <2>1. \A w \in Workers : ~Writing(w)
    BY <1>2 DEF Actors
  <2>. QED
    BY <1>1, <2>1, NoJobIs DEF Waits, Seen, Spares
<1>7. Roots
  BY <1>1, FreshIs, NoJobIs DEF Roots, Rooting
<1>8. Charges
  <2>1. \A p, t : Delivering(p, t) = {}
    BY <1>1, NoJobIs DEF Delivering
  <2>. QED
    BY <1>1, <2>1, FreshIs, FS_EmptySet, MonitorAssumption DEF Charges
<1>. QED
  BY <1>3, <1>4, <1>5, <1>6, <1>7, <1>8 DEF IInv, HookInv

LEMMA HookHolds ==
  ASSUME IInv, NEW w \in Workers, Hook(w)
  PROVE  IInv'
<1>1. CASE MaybePrune(w)
  BY <1>1, MaybePruneHolds
<1>2. CASE Stat(w)
  BY <1>2, StatHolds
<1>3. CASE Unlink(w)
  BY <1>3, UnlinkHolds
<1>4. CASE Locate(w)
  BY <1>4, LocateHolds
<1>5. CASE WriteRoot(w)
  BY <1>5, WriteRootHolds
<1>6. CASE WriteRequest(w)
  BY <1>6, WriteRequestHolds
<1>7. CASE Notify(w)
  BY <1>7, NotifyHolds
<1>8. CASE Deliver(w)
  BY <1>8, DeliverHolds
<1>9. CASE Mark(w)
  BY <1>9, MarkHolds
<1>10. CASE WriteResponse(w)
  BY <1>10, WriteResponseHolds
<1>11. CASE NotifyPost(w)
  BY <1>11, NotifyPostHolds
<1>12. CASE Close(w)
  BY <1>12, CloseHolds
<1>13. CASE AppendRaises(w)
  BY <1>13, AppendRaisesHolds
<1>. QED
  BY <1>1, <1>2, <1>3, <1>4, <1>5, <1>6, <1>7, <1>8, <1>9, <1>10, <1>11, <1>12, <1>13
  DEF Hook

LEMMA NextHolds ==
  ASSUME IInv, [Next]_vars
  PROVE  IInv'
<1>1. CASE \E p \in Processes, c \in Commands : Command(p, c)
  BY <1>1, CommandHolds
<1>2. CASE \E a \in Actors : Write(a)
  BY <1>2, OpenHolds, FillHolds, ReplaceHolds DEF Write
<1>3. CASE \E w \in Workers : Hook(w)
  BY <1>3, HookHolds
<1>4. CASE \E w \in Workers, r \in Requests : PostRequest(w, r) \/ ApiError(w, r)
  BY <1>4, PostRequestHolds, ApiErrorHolds
<1>5. CASE \E w \in Workers, p \in Processes, r \in Requests : PreRequest(w, p, r)
  BY <1>5, PreRequestHolds
<1>6. CASE \E p \in Processes : Crash(p)
  BY <1>6, CrashHolds
<1>7. CASE Tick
  BY <1>7, StillHolds DEF Tick
<1>8. CASE UNCHANGED vars
  BY <1>8, StillHolds DEF vars
<1>. QED
  BY <1>1, <1>2, <1>3, <1>4, <1>5, <1>6, <1>7, <1>8 DEF Next

\* What every hook has seen of the settings, its turn and its trace, and what
\* the tables of a process hold, is so in every reachable state.
THEOREM Invariant == Spec => []IInv
BY InitHolds, NextHolds, PTL DEF Spec

\* What the owner last asked for with `on` or `off` is what every later hook
\* acts on, in any process and through any crash, unless writers overlap.
THEOREM WishIsKept == Spec => []WishKept
<1>1. IInv => WishKept
  BY DEF IInv, HookInv, Seen, WishKept, At
<1>. QED
  BY <1>1, Invariant, PTL

\* No turn is shown more cards of its own than its budget allows.
THEOREM GuardrailsHold == Spec => []Guardrails
<1>1. IInv => Guardrails
  <2>. SUFFICES ASSUME IInv, NEW p \in Processes, NEW t \in Turns
                PROVE  memory[p].cards[t] <= MaxTurn
    BY DEF Guardrails
  <2>1. /\ memory[p].cards[t] + Cardinality(Delivering(p, t)) <= memory[p].spent[t]
        /\ memory[p].spent[t] <= MaxTurn
    BY DEF IInv, HookInv, Charges
  <2>2. memory[p].cards[t] \in Nat /\ memory[p].spent[t] \in Nat
    BY DEF IInv, HookInv, HookTypes, Fits
  <2>. QED
    BY <2>1, <2>2, DeliveringIs, MonitorAssumption
<1>. QED
  BY <1>1, Invariant, PTL

\* A process writes the root of a turn at most once, also when two of the
\* turn's requests are on their way together.
THEOREM RootIsWrittenOnce == Spec => []RootOnce
<1>1. IInv => RootOnce
  BY DEF IInv, HookInv, Roots, RootOnce
<1>. QED
  BY <1>1, Invariant, PTL

\* Another hook's step leaves job w alone.
LEMMA OnlyItsJob ==
  ASSUME IInv, NEW v \in Workers, Hook(v), NEW w \in Workers \ {v}
  PROVE  job'[w] = job[w]
<1>1. job = [u \in Workers |-> job[u]]
  BY DEF IInv, HookInv, HookTypes
<1>2. CASE MaybePrune(v)
  <2>1. \/ Goto(v, "locate")
        \/ job' = [job EXCEPT ![v].step = "stat", ![v].listed = Listed(job[v].proc)]
    BY <1>2 DEF MaybePrune
  <2>2. ASSUME job' = [job EXCEPT ![v].step = "stat", ![v].listed = Listed(job[v].proc)]
        PROVE  job' = [job EXCEPT ![v] = Relisted(job[v], "stat", Listed(job[v].proc))]
    BY <1>1, <2>2 DEF Relisted
  <2>. QED
    BY <1>1, <2>1, <2>2 DEF Goto
<1>3. CASE Stat(v)
  <2>1. \/ Left(v, "running")
        \/ \E V : job' = [job EXCEPT ![v].step = "unlink", ![v].listed = V]
    BY Zenon, <1>3 DEF Stat
  <2>2. ASSUME NEW V, job' = [job EXCEPT ![v].step = "unlink", ![v].listed = V]
        PROVE  job' = [job EXCEPT ![v] = Relisted(job[v], "unlink", V)]
    BY <1>1, <2>2 DEF Relisted
  <2>. QED
    BY <1>1, <2>1, <2>2 DEF Left
<1>4. CASE Unlink(v) \/ Locate(v) \/ WriteRoot(v) \/ WriteRequest(v)
  BY <1>1, <1>4 DEF Unlink, Locate, WriteRoot, WriteRequest, Goto
<1>5. CASE Notify(v)
  BY <1>1, <1>5 DEF Notify, Goto, Left
<1>6. CASE Deliver(v) \/ WriteResponse(v)
  <2>1. Goto(v, "mark") \/ Goto(v, "update")
    BY Zenon, <1>6 DEF Deliver, WriteResponse
  <2>. QED
    BY <1>1, <2>1 DEF Goto
<1>7. CASE NotifyPost(v)
  BY <1>1, <1>7 DEF NotifyPost, Goto, Left
<1>8. CASE Mark(v) \/ Close(v) \/ AppendRaises(v)
  BY <1>1, <1>8 DEF Mark, Close, AppendRaises, Left
<1>. QED
  BY <1>2, <1>3, <1>4, <1>5, <1>6, <1>7, <1>8 DEF Hook

LEMMA OnlyEnters ==
  ASSUME IInv, NEW v \in Workers, NEW p, NEW r, NEW s, Enter(v, p, r, s),
         NEW w \in Workers \ {v}
  PROVE  job'[w] = job[w]
<1>. DEFINE j == [NoJob EXCEPT !.step = s, !.proc = p, !.req = r,
               !.seen = ReadState, !.asked = asked, !.firm = firm]
<1>1. job' = [job EXCEPT ![v] = j]
  BY DEF Enter
<1>. HIDE DEF j
<1>. QED
  BY <1>1 DEF IInv, HookInv, HookTypes

\* Only the deletion itself goes on from where it is.
LEMMA OnlyUnlinks ==
  ASSUME IInv, [Next]_vars, NEW w \in Workers, At(w, "unlink"), job'[w].step = "locate"
  PROVE  Unlink(w)
<1>0. job'[w] # job[w] /\ job'[w] # NoJob
  BY NoJobIs DEF At
<1>1. CASE \E p \in Processes, c \in Commands : Command(p, c)
  BY <1>0, <1>1 DEF Command, hooks
<1>2. CASE \E a \in Actors : Write(a)
  BY <1>0, <1>2 DEF Write, OpenTemporary, FillTemporary, Replace, hooks
<1>3. CASE \E v \in Workers : Hook(v)
  <2>1. Hook(w)
    BY <1>0, <1>3, OnlyItsJob
  <2>2. ~Mark(w) /\ ~Close(w) /\ ~AppendRaises(w) /\ ~MaybePrune(w) /\ ~Stat(w)
    BY DEF At, Mark, Close, AppendRaises, MaybePrune, Stat, Ready
  <2>3. ~Locate(w) /\ ~WriteRoot(w) /\ ~WriteRequest(w) /\ ~Notify(w) /\ ~Deliver(w)
        /\ ~WriteResponse(w) /\ ~NotifyPost(w)
    BY DEF At, Locate, WriteRoot, WriteRequest, Notify, Deliver, WriteResponse, NotifyPost,
       Ready
  <2>. QED
    BY <2>1, <2>2, <2>3 DEF Hook
<1>4. CASE \E v \in Workers, r \in Requests : PostRequest(v, r) \/ ApiError(v, r)
  <2>1. PICK v \in Workers, r \in Requests : PostRequest(v, r) \/ ApiError(v, r)
    BY <1>4
  <2>2. At(v, "idle") /\ v # w
    BY <2>1 DEF PostRequest, Enter, ApiError, At
  <2>. QED
    BY <1>0, <2>1, <2>2, OnlyEnters DEF PostRequest, ApiError
<1>5. CASE \E v \in Workers, p \in Processes, r \in Requests : PreRequest(v, p, r)
  <2>1. PICK v \in Workers, p \in Processes, r \in Requests : PreRequest(v, p, r)
    BY <1>5
  <2>2. At(v, "idle") /\ v # w
    BY <2>1 DEF PreRequest, Enter, At
  <2>. QED
    BY <1>0, <2>1, <2>2, OnlyEnters DEF PreRequest
<1>6. CASE \E p \in Processes : Crash(p)
  BY <1>0, <1>6 DEF Crash
<1>7. CASE Tick \/ UNCHANGED vars
  BY <1>0, <1>7 DEF Tick, vars, hooks
<1>. QED
  BY <1>1, <1>2, <1>3, <1>4, <1>5, <1>6, <1>7 DEF Next

\* A pruning process never deletes a trace of a turn of its own.
THEOREM OwnTracesAreKept == Spec => OwnTracesKept
<1>1. IInv /\ [Next]_vars => [\A w \in Workers, t \in Turns :
         (At(w, "unlink") /\ job'[w].step = "locate" /\ t \in DOMAIN Mine(w).files
          /\ Mine(w).files[t] \in DOMAIN traces)
            => Mine(w).files[t] \in DOMAIN traces']_vars
  <2>. SUFFICES ASSUME IInv, [Next]_vars, NEW w \in Workers, NEW t \in Turns,
                       At(w, "unlink"), job'[w].step = "locate", t \in DOMAIN Mine(w).files,
                       Mine(w).files[t] \in DOMAIN traces
                PROVE  Mine(w).files[t] \in DOMAIN traces'
    OBVIOUS
  <2>1. Mine(w).files[t] \notin job[w].listed
    BY DEF IInv, HookInv, Spares, At, Mine
  <2>2. DOMAIN traces' = DOMAIN traces \ job[w].listed
    BY OnlyUnlinks DEF Unlink
  <2>. QED
    BY <2>1, <2>2
<1>. QED
  BY <1>1, Invariant, PTL DEF Spec, OwnTracesKept

-----------------------------------------------------------------------------
(* Where hooks and memories can be: what TypeOK says beyond the invariant. *)

TraceNames == DOMAIN OldTraces \cup (Turns \X (0..MaxTime))
Jobs == [step : HookSteps, proc : Processes \cup {None}, req : Requests \cup {None},
         seen : Settings, asked : Marks, firm : BOOLEAN, listed : SUBSET TraceNames,
         card : BOOLEAN]

\* What a process remembers is within its bounds, and a root it has marked is
\* one of a turn it has named a trace for.
Tidy(m) ==
  /\ DOMAIN m.files \subseteq Turns
  /\ \A t \in DOMAIN m.files : m.files[t] \in Turns \X (0..MaxTime)
  /\ m.roots \subseteq DOMAIN m.files /\ m.sent \subseteq Requests
  /\ m.apis \subseteq Requests /\ IsFiniteSet(m.apis)
  /\ Cardinality(m.apis) <= ApisMax
  /\ m.times \in Seq(Nat) /\ Len(m.times) <= MaxMinute

\* A hook at one of these steps has named the trace of its turn.
Named == {"root", "request", "notify", "deliver", "mark", "update", "close"}
HasTrace(w) == job[w].step \in Named => Turn(w) \in DOMAIN memory[job[w].proc].files

CountersInv ==
  /\ now \in 0..MaxTime /\ asked \in Marks
  /\ commands \in 0..MaxCommands /\ faults \in 0..MaxFaults
ChangesInv == \A a \in Actors : writer[a].change \in Commands \cup {"none", "disable"}
TracesInv == DOMAIN traces \subseteq TraceNames
PlacesInv ==
  /\ job \in [Workers -> Jobs] /\ (\A p \in Processes : Tidy(memory[p]))
  /\ \A w \in Workers : HasTrace(w)
TypesInv == CountersInv /\ ChangesInv /\ TracesInv /\ PlacesInv

LEMMA TypesSuffice == IInv /\ TypesInv => TypeOK
<1>. SUFFICES ASSUME IInv, TypesInv PROVE TypeOK
  OBVIOUS
<1>1. \A p \in Processes, a \in Actors : held[p] = a <=>
       \/ writer[a].proc = p /\ writer[a].step \in {"fill", "replace"}
       \/ a # Owner /\ job[a].proc = p /\ job[a].step \in {"stat", "unlink"}
  <2>1. \A a \in Actors : a \in Workers <=> a # Owner
    BY MonitorAssumption DEF Actors
  <2>. QED
    BY <2>1 DEF IInv, HookInv, Locks, LockedBy
<1>2. writer \in [Actors -> [step : WriterSteps, proc : Processes \cup {None},
       change : Commands \cup {"none", "disable"}, new : Settings,
       alone : BOOLEAN, open : {"tmp", "file"}]]
  <2>1. ASSUME NEW a \in Actors
        PROVE  writer[a] \in [step : WriterSteps, proc : Processes \cup {None},
                 change : Commands \cup {"none", "disable"}, new : Settings,
                 alone : BOOLEAN, open : {"tmp", "file"}]
    <3>1. /\ writer[a] \in Writers
          /\ writer[a].change \in Commands \cup {"none", "disable"}
      BY DEF IInv, FileInv, FileTypes, TypesInv, ChangesInv
    <3>. QED
      BY <3>1 DEF Writers, WriterSteps
  <2>2. writer = [a \in Actors |-> writer[a]]
    BY DEF IInv, FileInv, FileTypes
  <2>. QED
    BY <2>1, <2>2
<1>3. /\ job \in [Workers -> [step : HookSteps, proc : Processes \cup {None},
           req : Requests \cup {None}, seen : Settings, asked : Marks,
           firm : BOOLEAN,
           listed : SUBSET (DOMAIN OldTraces \cup (Turns \X (0..MaxTime))),
           card : BOOLEAN]]
  BY DEF TypesInv, PlacesInv, Jobs, TraceNames
<1>4. \A p \in Processes : LET m == memory[p] IN
       /\ m.roots \subseteq DOMAIN m.files /\ DOMAIN m.files \subseteq Turns
       /\ m.sent \subseteq Requests /\ m.apis \subseteq Requests
       /\ Cardinality(m.apis) <= ApisMax
       /\ Len(m.times) <= MaxMinute
  BY DEF TypesInv, PlacesInv, Tidy
<1>5. /\ file \in Contents /\ tmp \in Contents /\ firm \in BOOLEAN
      /\ status \in [Requests -> [at : {"new", "pre", "running", "post", "done"},
                                  proc : Processes \cup {None}]]
  BY DEF IInv, FileInv, FileTypes, HookInv, HookTypes
<1>. QED
  BY <1>1, <1>2, <1>3, <1>4, <1>5 DEF TypeOK, TypesInv, CountersInv

LEMMA CountersStep ==
  ASSUME IInv, TypesInv, [Next]_vars
  PROVE  CountersInv'
<1>0. /\ now \in 0..MaxTime /\ asked \in Marks
      /\ commands \in 0..MaxCommands /\ faults \in 0..MaxFaults
      /\ MaxTime \in Nat /\ MaxCommands \in Nat /\ MaxFaults \in Nat
  BY MonitorAssumption DEF TypesInv, CountersInv
<1>1. \A f : Mishap(f) => faults' \in 0..MaxFaults
  BY <1>0 DEF Mishap
<1>2. ASSUME NEW p \in Processes, NEW c \in Commands, Command(p, c)
      PROVE  CountersInv'
  BY <1>0, <1>2 DEF Command, CountersInv, hooks
<1>3. ASSUME NEW a \in Actors, Write(a) PROVE CountersInv'
  <2>1. UNCHANGED <<now, commands, faults>>
    BY <1>3 DEF Write, OpenTemporary, FillTemporary, Replace
  <2>2. asked' \in Marks
    BY <1>0, <1>3 DEF Write, OpenTemporary, FillTemporary, Replace, Marks
  <2>. QED
    BY <1>0, <2>1, <2>2 DEF CountersInv
<1>4. ASSUME NEW w \in Workers, Hook(w)
      PROVE  UNCHANGED <<now, asked, commands>> /\ faults' \in 0..MaxFaults
  <2>1. CASE MaybePrune(w) \/ Stat(w) \/ Unlink(w) \/ Locate(w) \/ WriteRoot(w)
               \/ WriteRequest(w) \/ Notify(w)
    <3>1. UNCHANGED <<now, asked, commands, faults>>
      BY <2>1 DEF MaybePrune, Stat, Unlink, Locate, WriteRoot, WriteRequest, Notify,
                  control
    <3>. QED
      BY <1>0, <3>1
  <2>2. CASE Deliver(w)
    BY <1>0, <1>1, <2>2 DEF Deliver
  <2>3. CASE Mark(w)
    BY <1>0, <1>1, <2>3 DEF Mark, control
  <2>4. CASE WriteResponse(w) \/ Close(w)
    BY <1>0, <2>4 DEF WriteResponse, Close, control
  <2>5. CASE NotifyPost(w)
    BY <1>0, <1>1, <2>5 DEF NotifyPost
  <2>6. CASE AppendRaises(w)
    BY <1>0, <1>1, <2>6 DEF AppendRaises, control
  <2>. QED
    BY <1>4, <2>1, <2>2, <2>3, <2>4, <2>5, <2>6 DEF Hook
<1>5. ASSUME NEW w \in Workers, NEW r \in Requests, PostRequest(w, r) \/ ApiError(w, r)
      PROVE  UNCHANGED <<now, asked, commands>> /\ faults' \in 0..MaxFaults
  BY <1>0, <1>1, <1>5 DEF PostRequest, ApiError, Enter, control
<1>6. ASSUME NEW w \in Workers, NEW p \in Processes, NEW r \in Requests, PreRequest(w, p, r)
      PROVE  UNCHANGED <<now, asked, commands>> /\ faults' \in 0..MaxFaults
  BY <1>0, <1>6 DEF PreRequest, Enter, control
<1>7. ASSUME NEW p \in Processes, Crash(p)
      PROVE  UNCHANGED <<now, asked, commands>> /\ faults' \in 0..MaxFaults
  BY <1>0, <1>1, <1>7 DEF Crash
<1>8. CASE Tick \/ UNCHANGED vars
  BY <1>0, <1>8 DEF Tick, vars, control, CountersInv
<1>. QED
  BY <1>0, <1>2, <1>3, <1>4, <1>5, <1>6, <1>7, <1>8 DEF Next, CountersInv

LEMMA ChangesStep ==
  ASSUME IInv, TypesInv, [Next]_vars
  PROVE  ChangesInv'
<1>. DEFINE C == Commands \cup {"none", "disable"}
<1>0. /\ writer \in [Actors -> Writers] /\ \A a \in Actors : writer[a].change \in C
      /\ NoWriter.change \in C
  BY DEF IInv, FileInv, FileTypes, TypesInv, ChangesInv, NoWriter
<1>1. ASSUME NEW a \in Actors, NEW p, NEW c \in C, BeginChange(a, p, c)
      PROVE  ChangesInv'
  <2>. DEFINE o == {b \in Actors \ {a} : Writing(b)}
              i == [NoWriter EXCEPT !.step = "open", !.proc = p, !.change = c,
                      !.new = Applied(ReadState, c), !.alone = (o = {})]
              k(b) == [writer[b] EXCEPT !.alone = @ /\ ~Writing(b)]
  <2>1. writer' = [b \in Actors |-> IF b = a THEN i ELSE k(b)]
    BY Zenon, <1>1 DEF BeginChange
  <2>2. i.change = c
    <3>. HIDE DEF o
    <3>. QED
      BY DEF NoWriter
  <2>3. \A b \in Actors : k(b).change = writer[b].change
    <3>. TAKE b \in Actors
    <3>1. writer[b] \in Writers
      BY <1>0
    <3>. DEFINE x == writer[b].alone /\ ~Writing(b)
    <3>2. k(b) = [writer[b] EXCEPT !.alone = x]
      BY <3>1 DEF Writers
    <3>. HIDE DEF k, x
    <3>. QED
      BY <3>1, <3>2 DEF Writers
  <2>. HIDE DEF i, k
  <2>. QED
    BY <1>0, <1>1, <2>1, <2>2, <2>3 DEF ChangesInv
<1>2. ASSUME NEW p \in Processes, NEW c \in Commands, Command(p, c)
      PROVE  ChangesInv'
  BY <1>1, <1>2 DEF Command, Actors
<1>3. ASSUME NEW a \in Actors, OpenTemporary(a) PROVE ChangesInv'
  <2>1. writer' = [writer EXCEPT ![a] = [writer[a] EXCEPT !.step = "fill", !.open = "tmp"]]
    BY <1>0, <1>3 DEF OpenTemporary
  <2>2. [writer[a] EXCEPT !.step = "fill", !.open = "tmp"].change = writer[a].change
    BY <1>0 DEF Writers
  <2>. QED
    BY <1>0, <2>1, <2>2 DEF ChangesInv
<1>4. ASSUME NEW a \in Actors, FillTemporary(a) PROVE ChangesInv'
  <2>1. writer' = [writer EXCEPT ![a].step = "replace"]
    BY <1>4 DEF FillTemporary
  <2>. QED
    BY <1>0, <2>1 DEF ChangesInv, Writers
<1>5. ASSUME NEW a \in Actors, Replace(a) PROVE ChangesInv'
  <2>. DEFINE k(b) == [writer[b] EXCEPT !.open = "file"]
  <2>1. writer' = [b \in Actors |-> IF b = a THEN NoWriter
          ELSE IF writer[b].step = "fill" /\ tmp # Absent THEN k(b) ELSE writer[b]]
    BY <1>5 DEF Replace
  <2>2. \A b \in Actors : k(b).change = writer[b].change
    BY <1>0 DEF Writers
  <2>. HIDE DEF k
  <2>. QED
    BY <1>0, <2>1, <2>2 DEF ChangesInv
<1>6. ASSUME UNCHANGED writer PROVE ChangesInv'
  BY <1>0, <1>6 DEF ChangesInv
<1>7. ASSUME NEW w \in Workers, Hook(w) PROVE ChangesInv'
  <2>1. UNCHANGED writer \/ \E p : BeginChange(w, p, "disable")
    <3>1. CASE MaybePrune(w) \/ Stat(w) \/ Unlink(w) \/ Locate(w) \/ WriteRoot(w)
                 \/ WriteRequest(w) \/ Notify(w) \/ Mark(w) \/ WriteResponse(w)
                 \/ Close(w) \/ AppendRaises(w)
      BY <3>1 DEF MaybePrune, Stat, Unlink, Locate, WriteRoot, WriteRequest, Notify,
                  Mark, WriteResponse, Close, AppendRaises, control
    <3>2. CASE Deliver(w)
      BY <3>2 DEF Deliver
    <3>3. CASE NotifyPost(w)
      BY <3>3 DEF NotifyPost
    <3>. QED
      BY <1>7, <3>1, <3>2, <3>3 DEF Hook
  <2>. QED
    BY <1>1, <1>6, <2>1 DEF Actors
<1>8. ASSUME NEW w \in Workers, NEW r \in Requests,
             PostRequest(w, r) \/ ApiError(w, r)
               \/ \E p \in Processes : PreRequest(w, p, r)
      PROVE  UNCHANGED writer
  BY <1>8 DEF PostRequest, ApiError, PreRequest, Enter, control
<1>9. ASSUME NEW p \in Processes, Crash(p) PROVE ChangesInv'
  BY <1>0, <1>9 DEF Crash, ChangesInv
<1>10. CASE Tick \/ UNCHANGED vars
  BY <1>6, <1>10 DEF Tick, vars, control
<1>. QED
  BY <1>2, <1>3, <1>4, <1>5, <1>6, <1>7, <1>8, <1>9, <1>10 DEF Next, Write

\* What a hook's step makes of its job and of what its process remembers.
LEMMA MovesPlaces ==
  ASSUME IInv, TypesInv, NEW w \in Workers, job[w].step # "idle", NEW j, NEW m,
         Moves(w, j, m), j \in Jobs, Tidy(m),
         DOMAIN memory[job[w].proc].files \subseteq DOMAIN m.files,
         j.step \in Named => /\ j.proc = job[w].proc /\ j.req = job[w].req
                             /\ Turn(w) \in DOMAIN m.files
  PROVE  PlacesInv'
<1>1. /\ job'[w] = j /\ \A v \in Workers \ {w} : job'[v] = job[v]
      /\ job' = [v \in Workers |-> job'[v]]
      /\ memory'[job[w].proc] = m
      /\ \A p \in Processes \ {job[w].proc} : memory'[p] = memory[p]
  BY MovesIs DEF IInv
<1>2. job' \in [Workers -> Jobs] /\ \A p \in Processes : Tidy(memory'[p])
  BY <1>1 DEF TypesInv, PlacesInv
<1>3. HasTrace(w)'
  BY <1>1 DEF HasTrace, Turn
<1>4. ASSUME NEW v \in Workers \ {w} PROVE HasTrace(v)'
  <2>1. HasTrace(v) /\ job'[v] = job[v]
    BY <1>1 DEF TypesInv, PlacesInv
  <2>2. job[v].step \in Named => job[v].proc \in Processes
    BY HookFacts DEF IInv, Named
  <2>. QED
    BY <1>1, <2>1, <2>2 DEF HasTrace, Turn
<1>. QED
  BY <1>2, <1>3, <1>4 DEF PlacesInv

\* What a hook at work can rely on.
LEMMA PlaceFacts ==
  ASSUME IInv, TypesInv, NEW w \in Workers, job[w].step # "idle"
  PROVE  /\ job[w] \in Jobs /\ Tidy(Mine(w)) /\ Fits(Mine(w)) /\ Turn(w) \in Turns
         /\ job[w].proc \in Processes /\ job[w].req \in Requests
         /\ Mine(w) = memory[job[w].proc]
         /\ memory = [memory EXCEPT ![job[w].proc] = Mine(w)]
         /\ job = [v \in Workers |-> job[v]]
         /\ job[w].step \in Named => /\ Turn(w) \in DOMAIN Mine(w).files
                                     /\ Mine(w).files[Turn(w)] \in TraceNames
<1>1. /\ Fits(Mine(w)) /\ Turn(w) \in Turns /\ job[w].proc \in Processes
      /\ job[w].req \in Requests /\ Mine(w) = memory[job[w].proc]
      /\ memory = [memory EXCEPT ![job[w].proc] = Mine(w)]
  BY HookFacts, MemorySame DEF IInv
<1>2. job[w] \in Jobs /\ Tidy(Mine(w)) /\ HasTrace(w) /\ job = [v \in Workers |-> job[v]]
  BY <1>1 DEF TypesInv, PlacesInv
<1>. QED
  BY <1>1, <1>2 DEF HasTrace, Tidy, TraceNames

LEMMA NoJobFits == NoJob \in Jobs /\ NoJob.step \notin Named
BY DefaultIs DEF NoJob, Jobs, Named, HookSteps, Marks

\* A step that changes the memory as little as its turn's trace.
LEMMA KeptPlaces ==
  ASSUME IInv, TypesInv, NEW w \in Workers, job[w].step # "idle", NEW j,
         Moves(w, j, Mine(w)), j \in Jobs,
         j.step \in Named => /\ j.proc = job[w].proc /\ j.req = job[w].req
                             /\ job[w].step \in Named
  PROVE  PlacesInv'
BY PlaceFacts, MovesPlaces

LEMMA RelistedFits ==
  ASSUME NEW i \in Jobs, NEW s \in HookSteps, NEW L \in SUBSET TraceNames
  PROVE  /\ [i EXCEPT !.step = s, !.listed = L] \in Jobs
         /\ [i EXCEPT !.step = s, !.listed = L].step = s
<1>. DEFINE k == [i EXCEPT !.step = s]
            j == [i EXCEPT !.step = s, !.listed = L]
<1>1. k \in Jobs /\ k.step = s /\ j = [k EXCEPT !.listed = L]
  BY DEF Jobs
<1>. HIDE DEF k, j
<1>2. j \in Jobs /\ j.step = s
  BY <1>1 DEF Jobs
<1>. QED
  BY <1>2 DEF j

LEMMA GotoPlaces ==
  ASSUME IInv, TypesInv, NEW w \in Workers, job[w].step # "idle", NEW s \in HookSteps,
         Goto(w, s), memory' = memory, s \in Named => job[w].step \in Named
  PROVE  PlacesInv'
<1>. DEFINE j == [job[w] EXCEPT !.step = s]
<1>1. j \in Jobs /\ j.step = s /\ j.proc = job[w].proc /\ j.req = job[w].req
  BY PlaceFacts DEF Jobs
<1>2. Moves(w, j, Mine(w))
  BY PlaceFacts DEF Moves, Goto
<1>. HIDE DEF j
<1>. QED
  BY <1>1, <1>2, KeptPlaces

LEMMA LeftPlaces ==
  ASSUME IInv, TypesInv, NEW w \in Workers, job[w].step # "idle", NEW s, Left(w, s),
         memory' = memory
  PROVE  PlacesInv'
<1>1. Moves(w, NoJob, Mine(w))
  BY PlaceFacts DEF Moves, Left
<1>. QED
  BY <1>1, NoJobFits, KeptPlaces

\* A trace of the turn is written.
LEMMA TouchTraces ==
  ASSUME TypesInv, NEW d \in TraceNames, Touch(d)
  PROVE  TracesInv'
BY DEF Touch, TypesInv, TracesInv

LEMMA LocatedIs ==
  ASSUME TypesInv, NEW m, Tidy(m), NEW t \in Turns
  PROVE  /\ DOMAIN Located(m, t) = DOMAIN m.files \cup {t}
         /\ \A u \in DOMAIN Located(m, t) : /\ Located(m, t)[u] \in Turns \X (0..MaxTime)
                                            /\ Located(m, t)[u] \in TraceNames
<1>1. now \in 0..MaxTime
  BY DEF TypesInv, CountersInv
<1>2. /\ DOMAIN Located(m, t) = DOMAIN m.files \cup {t}
      /\ \A u \in DOMAIN Located(m, t) : Located(m, t)[u] \in Turns \X (0..MaxTime)
  BY <1>1 DEF Located, Tidy
<1>. QED
  BY <1>2 DEF TraceNames

\* Room is made for a name, and nothing else is.
Renamed(n, m, F) ==
  /\ m.files = F /\ m.sent = n.sent /\ m.apis = n.apis /\ m.times = n.times

LEMMA RenamedTidy ==
  ASSUME TypesInv, NEW n, Tidy(n), NEW t \in Turns, NEW m,
         Renamed(n, m, Located(n, t)), m.roots \in {n.roots, n.roots \cup {t}}
  PROVE  Tidy(m) /\ DOMAIN n.files \subseteq DOMAIN m.files /\ t \in DOMAIN m.files
<1>. DEFINE F == Located(n, t)
<1>1. /\ DOMAIN F = DOMAIN n.files \cup {t}
      /\ \A u \in DOMAIN F : F[u] \in Turns \X (0..MaxTime)
  BY LocatedIs
<1>. HIDE DEF F
<1>. QED
  BY <1>1 DEF Tidy, Renamed, F

LEMMA MaybePrunePlaces ==
  ASSUME IInv, TypesInv, NEW w \in Workers, MaybePrune(w)
  PROVE  PlacesInv' /\ TracesInv'
<1>. DEFINE n == Mine(w)
            p == job[w].proc
<1>1. /\ job[w].step = "prune" /\ traces' = traces
      /\ \/ Goto(w, "locate") /\ memory' = memory
         \/ /\ job' = [job EXCEPT ![w].step = "stat", ![w].listed = Listed(p)]
            /\ Remember(w, [n EXCEPT !.checked = now])
  BY DEF MaybePrune, Ready, At
<1>2. TracesInv'
  BY <1>1 DEF TypesInv, TracesInv
<1>3. CASE Goto(w, "locate") /\ memory' = memory
  <2>1. "locate" \in HookSteps /\ "locate" \notin Named
    BY DEF HookSteps, Named
  <2>. QED
    BY <1>1, <1>2, <1>3, <2>1, GotoPlaces
<1>4. CASE /\ job' = [job EXCEPT ![w].step = "stat", ![w].listed = Listed(p)]
           /\ Remember(w, [n EXCEPT !.checked = now])
  <2>. DEFINE L == Listed(p)
              j == [job[w] EXCEPT !.step = "stat", !.listed = L]
              m == [n EXCEPT !.checked = now]
  <2>0. job[w] \in Jobs
    BY <1>1, PlaceFacts
  <2>1. L \subseteq TraceNames
    BY DEF Listed, TypesInv, TracesInv
  <2>2. j \in Jobs /\ j.step = "stat" /\ j.step \notin Named
    <3>1. "stat" \in HookSteps /\ "stat" \notin Named
      BY DEF HookSteps, Named
    <3>. HIDE DEF L
    <3>. QED
      BY <2>1, <2>0, <3>1, RelistedFits
  <2>3. Moves(w, j, m)
    BY <1>1, <1>4, PlaceFacts DEF Moves, Remember
  <2>4. m.files = n.files /\ m.roots = n.roots /\ Renamed(n, m, n.files)
    <3>1. Fits(n)
      BY <1>1, PlaceFacts
    <3>. HIDE DEF n
    <3>. QED
      BY <3>1 DEF Fits, Renamed
  <2>. HIDE DEF j, m
  <2>5. Tidy(m)
    BY <1>1, <2>4, PlaceFacts DEF Tidy, Renamed
  <2>. QED
    BY <1>1, <1>2, <2>2, <2>3, <2>4, <2>5, PlaceFacts, MovesPlaces
<1>. QED
  BY <1>1, <1>3, <1>4

LEMMA StatPlaces ==
  ASSUME IInv, TypesInv, NEW w \in Workers, Stat(w)
  PROVE  PlacesInv' /\ TracesInv'
<1>1. job[w].step = "stat" /\ traces' = traces /\ memory' = memory
  BY DEF Stat, At
<1>2. TracesInv'
  BY <1>1 DEF TypesInv, TracesInv
<1>3. ASSUME NEW V \in Victims(job[w].listed),
             job' = [job EXCEPT ![w].step = "unlink", ![w].listed = V]
      PROVE  PlacesInv'
  <2>. DEFINE j == [job[w] EXCEPT !.step = "unlink", !.listed = V]
  <2>0. job[w] \in Jobs
    BY <1>1, PlaceFacts
  <2>1. V \subseteq TraceNames
    <3>1. V \subseteq job[w].listed
      BY <1>3 DEF Victims
    <3>2. job[w].listed \subseteq TraceNames
      BY <1>1, PlaceFacts DEF Jobs
    <3>. QED
      BY <3>1, <3>2
  <2>2. j \in Jobs /\ j.step = "unlink" /\ j.step \notin Named
    <3>1. "unlink" \in HookSteps /\ "unlink" \notin Named
      BY DEF HookSteps, Named
    <3>. QED
      BY <2>1, <2>0, <3>1, RelistedFits
  <2>3. Moves(w, j, Mine(w))
    BY <1>1, <1>3, PlaceFacts DEF Moves
  <2>. HIDE DEF j
  <2>. QED
    BY <1>1, <2>2, <2>3, KeptPlaces
<1>4. CASE Left(w, "running")
  BY <1>1, <1>2, <1>4, LeftPlaces
<1>5. \/ \E V \in Victims(job[w].listed) :
          job' = [job EXCEPT ![w].step = "unlink", ![w].listed = V]
      \/ Left(w, "running")
  <2>1. CASE job[w].listed \subseteq DOMAIN traces
    <3>1. \E V \in Victims(job[w].listed) :
            job' = [job EXCEPT ![w].step = "unlink", ![w].listed = V]
      BY Zenon, <2>1 DEF Stat
    <3>. QED
      BY Zenon, <3>1
  <2>2. CASE ~(job[w].listed \subseteq DOMAIN traces)
    BY Zenon, <2>2 DEF Stat
  <2>. QED
    BY <2>1, <2>2
<1>. QED
  BY <1>2, <1>3, <1>4, <1>5

LEMMA UnlinkPlaces ==
  ASSUME IInv, TypesInv, NEW w \in Workers, Unlink(w)
  PROVE  PlacesInv' /\ TracesInv'
<1>. DEFINE j == [job[w] EXCEPT !.step = "locate", !.listed = {}]
<1>1. /\ job[w].step = "unlink" /\ memory' = memory
      /\ traces' = [d \in DOMAIN traces \ job[w].listed |-> traces[d]]
      /\ job' = [job EXCEPT ![w].step = "locate", ![w].listed = {}]
  BY DEF Unlink, At
<1>2. TracesInv'
  BY <1>1 DEF TypesInv, TracesInv
<1>3. j \in Jobs /\ j.step = "locate" /\ j.step \notin Named
  <2>0. job[w] \in Jobs
    BY <1>1, PlaceFacts
  <2>1. "locate" \in HookSteps /\ "locate" \notin Named /\ {} \subseteq TraceNames
    BY DEF HookSteps, Named
  <2>. QED
    BY <2>0, <2>1, RelistedFits
<1>4. Moves(w, j, Mine(w))
  BY <1>1, PlaceFacts DEF Moves
<1>. HIDE DEF j
<1>. QED
  BY <1>1, <1>2, <1>3, <1>4, KeptPlaces

LEMMA LocatePlaces ==
  ASSUME IInv, TypesInv, NEW w \in Workers, Locate(w)
  PROVE  PlacesInv' /\ TracesInv'
<1>. DEFINE n == Mine(w)
            t == Turn(w)
            s == IF t \in n.roots THEN "request" ELSE "root"
            F == Located(n, t)
            m == [n EXCEPT !.files = F, !.roots = @ \cup {t}]
            j == [job[w] EXCEPT !.step = s]
<1>1. /\ job[w].step = "locate" /\ traces' = traces
      /\ job' = [job EXCEPT ![w].step = s] /\ memory' = [memory EXCEPT ![job[w].proc] = m]
  BY DEF Locate, Ready, At, Remember, Goto
<1>2. TracesInv'
  BY <1>1 DEF TypesInv, TracesInv
<1>3. /\ job[w] \in Jobs /\ Tidy(n) /\ Fits(n) /\ t \in Turns /\ n = memory[job[w].proc]
      /\ job = [v \in Workers |-> job[v]]
  BY <1>1, PlaceFacts
<1>4. Renamed(n, m, F) /\ m.roots = n.roots \cup {t}
  <2>. HIDE DEF n, t, F
  <2>. QED
    BY <1>3 DEF Fits, Renamed
<1>5. j \in Jobs /\ j.step = s /\ j.proc = job[w].proc /\ j.req = job[w].req
  <2>1. s \in HookSteps
    BY DEF HookSteps
  <2>. HIDE DEF s
  <2>. QED
    BY <1>3, <2>1 DEF Jobs
<1>6. Moves(w, j, m)
  <2>. HIDE DEF s, m
  <2>. QED
    BY <1>1, <1>3 DEF Moves
<1>. HIDE DEF j, m, s
<1>7. Tidy(m) /\ DOMAIN n.files \subseteq DOMAIN m.files /\ t \in DOMAIN m.files
  <2>. HIDE DEF n, t
  <2>. QED
    BY <1>3, <1>4, RenamedTidy
<1>. QED
  BY <1>1, <1>2, <1>3, <1>5, <1>6, <1>7, MovesPlaces

LEMMA WriteRootPlaces ==
  ASSUME IInv, TypesInv, NEW w \in Workers, WriteRoot(w)
  PROVE  PlacesInv' /\ TracesInv'
<1>. DEFINE n == Mine(w)
            t == Turn(w)
            m == [n EXCEPT !.rooted[t] = @ + 1, !.roots = @ \cup {t}]
            j == [job[w] EXCEPT !.step = "request"]
<1>1. /\ job[w].step = "root" /\ Touch(n.files[t])
      /\ job' = [job EXCEPT ![w].step = "request"]
      /\ memory' = [memory EXCEPT ![job[w].proc] = m]
  BY DEF WriteRoot, Ready, At, Remember, Goto
<1>2. /\ job[w] \in Jobs /\ Tidy(n) /\ Fits(n) /\ t \in Turns /\ n = memory[job[w].proc]
      /\ job = [v \in Workers |-> job[v]]
      /\ t \in DOMAIN n.files /\ n.files[t] \in TraceNames
  BY <1>1, PlaceFacts DEF Named
<1>3. TracesInv'
  BY <1>1, <1>2, TouchTraces
<1>4. Renamed(n, m, n.files) /\ m.roots = n.roots \cup {t}
  <2>. HIDE DEF n, t
  <2>. QED
    BY <1>2 DEF Fits, Renamed
<1>5. j \in Jobs /\ j.step = "request" /\ j.proc = job[w].proc /\ j.req = job[w].req
  BY <1>2 DEF Jobs, HookSteps
<1>6. Moves(w, j, m)
  <2>. HIDE DEF m
  <2>. QED
    BY <1>1, <1>2 DEF Moves
<1>. HIDE DEF j, m
<1>7. Tidy(m)
  BY <1>2, <1>4 DEF Tidy, Renamed
<1>8. DOMAIN n.files \subseteq DOMAIN m.files /\ t \in DOMAIN m.files
  BY <1>2, <1>4 DEF Renamed
<1>. QED
  BY <1>1, <1>2, <1>3, <1>5, <1>6, <1>7, <1>8, MovesPlaces

LEMMA WriteRequestPlaces ==
  ASSUME IInv, TypesInv, NEW w \in Workers, WriteRequest(w)
  PROVE  PlacesInv' /\ TracesInv'
<1>1. /\ job[w].step = "request" /\ memory' = memory /\ Goto(w, "notify")
      /\ Touch(Mine(w).files[Turn(w)])
  BY DEF WriteRequest, Ready, At
<1>2. "notify" \in HookSteps /\ job[w].step \in Named
  BY <1>1 DEF HookSteps, Named
<1>. QED
  BY <1>1, <1>2, GotoPlaces, PlaceFacts, TouchTraces

LEMMA SwallowedPlaces ==
  ASSUME IInv, TypesInv, NEW w \in Workers, AppendRaises(w) \/ Close(w)
  PROVE  PlacesInv' /\ TracesInv'
<1>1. /\ job[w].step # "idle" /\ memory' = memory /\ traces' = traces
      /\ \E s : Left(w, s)
  BY DEF AppendRaises, Close, At
<1>2. TracesInv'
  BY <1>1 DEF TypesInv, TracesInv
<1>. QED
  BY <1>1, <1>2, LeftPlaces

LEMMA MarkPlaces ==
  ASSUME IInv, TypesInv, NEW w \in Workers, Mark(w)
  PROVE  PlacesInv' /\ TracesInv'
<1>1. /\ job[w].step = "mark" /\ memory' = memory /\ Left(w, "running")
      /\ Touch(Mine(w).files[Turn(w)]) \/ traces' = traces
  BY DEF Mark, Ready, At
<1>2. Mine(w).files[Turn(w)] \in TraceNames
  BY <1>1, PlaceFacts DEF Named
<1>3. TracesInv'
  BY <1>1, <1>2, TouchTraces DEF TypesInv, TracesInv
<1>. QED
  BY <1>1, <1>3, LeftPlaces

LEMMA WriteResponsePlaces ==
  ASSUME IInv, TypesInv, NEW w \in Workers, WriteResponse(w)
  PROVE  PlacesInv' /\ TracesInv'
<1>. DEFINE n == Mine(w)
            t == Turn(w)
            F == Located(n, t)
            m == [n EXCEPT !.files = F]
            j == [job[w] EXCEPT !.step = "update"]
<1>1. /\ job[w].step = "response" /\ Touch(m.files[t])
      /\ job' = [job EXCEPT ![w].step = "update"]
      /\ memory' = [memory EXCEPT ![job[w].proc] = m]
  BY DEF WriteResponse, Ready, At, Remember, Goto
<1>2. /\ job[w] \in Jobs /\ Tidy(n) /\ Fits(n) /\ t \in Turns /\ n = memory[job[w].proc]
      /\ job = [v \in Workers |-> job[v]]
  BY <1>1, PlaceFacts
<1>3. Renamed(n, m, F) /\ m.roots = n.roots
  <2>. HIDE DEF n, t, F
  <2>. QED
    BY <1>2 DEF Fits, Renamed
<1>4. j \in Jobs /\ j.step = "update" /\ j.proc = job[w].proc /\ j.req = job[w].req
  BY <1>2 DEF Jobs, HookSteps
<1>5. Moves(w, j, m)
  <2>. HIDE DEF m
  <2>. QED
    BY <1>1, <1>2 DEF Moves
<1>6. F[t] \in TraceNames
  <2>. HIDE DEF n, t
  <2>. QED
    BY <1>2, LocatedIs
<1>. HIDE DEF j, m
<1>7. Tidy(m) /\ DOMAIN n.files \subseteq DOMAIN m.files /\ t \in DOMAIN m.files
  <2>. HIDE DEF n, t
  <2>. QED
    BY <1>2, <1>3, RenamedTidy
<1>8. TracesInv'
  BY <1>1, <1>3, <1>6, TouchTraces DEF Renamed
<1>. QED
  BY <1>1, <1>2, <1>4, <1>5, <1>7, <1>8, MovesPlaces

LEMMA ReadIsSettings == ASSUME IInv PROVE ReadState \in Settings
BY ReadIs DEF IInv, FileInv, FileTypes

\* The calls of the last minute are some of those remembered.
LEMMA RecentIs ==
  ASSUME NEW m, m.times \in Seq(Nat), Len(m.times) <= MaxMinute
  PROVE  Recent(m) \in Seq(Nat) /\ Len(Recent(m)) <= MaxMinute
<1>. DEFINE T == m.times
            I == {i \in 1..Len(T) : T[i] >= now - Window}
<1>1. T \in Seq(Nat) /\ Len(T) \in Nat /\ I \in SUBSET (1..Len(T)) /\ MaxMinute \in Nat
  BY LenProperties, MonitorAssumption
<1>2. Recent(m) = Subsequence(T, I)
  BY DEF Recent
<1>. HIDE DEF T, I
<1>3. /\ Subsequence(T, I) \in Seq(Nat)
      /\ Len(Subsequence(T, I)) \in 0..Len(T)
  BY <1>1, SubsequenceIs
<1>. QED
  BY <1>1, <1>2, <1>3 DEF T

LEMMA NotifyPlaces ==
  ASSUME IInv, TypesInv, NEW w \in Workers, Notify(w)
  PROVE  PlacesInv' /\ TracesInv'
<1>. DEFINE n == Mine(w)
            t == Turn(w)
            s == ReadState
            m == Charged(n, s, t)
            d == [m EXCEPT !.times = Append(@, now), !.sent = @ \cup {job[w].req}]
<1>1. job[w].step = "notify" /\ traces' = traces
  BY DEF Notify, Ready, At
<1>2. TracesInv'
  BY <1>1 DEF TypesInv, TracesInv
<1>3. /\ job[w] \in Jobs /\ Tidy(n) /\ Fits(n) /\ t \in Turns /\ n = memory[job[w].proc]
      /\ job = [v \in Workers |-> job[v]] /\ t \in DOMAIN n.files /\ s \in Settings
      /\ job[w].req \in Requests /\ now \in Nat
  <2>1. now \in Nat
    BY MonitorAssumption DEF TypesInv, CountersInv
  <2>. QED
    BY <1>1, <2>1, PlaceFacts, ReadIsSettings DEF Named
<1>4. /\ m.files = n.files /\ m.roots = n.roots /\ m.sent = n.sent
      /\ m.apis = n.apis /\ m.times = Recent(n) /\ Fits(m)
  <2>1. \A u \in Turns : n.spent[u] <= MaxTurn
    BY <1>1, MemorySame DEF IInv, MemoryKept
  <2>2. Fits(m)
    <3>. HIDE DEF n, t, s
    <3>. QED
      BY <1>3, <2>1, ChargedIs
  <2>3. /\ m.files = n.files /\ m.roots = n.roots /\ m.sent = n.sent
        /\ m.apis = n.apis /\ m.times = Recent(n)
    <3>. DEFINE T == Recent(n)
    <3>. HIDE DEF n, t, s, T
    <3>1. m = [n EXCEPT !.times = T, !.spent[t] = IF s.perCall /\ n.spent[t] < MaxTurn
                                                   THEN @ + 1 ELSE @]
      BY DEF Charged, T
    <3>. HIDE DEF m
    <3>2. /\ m.files = n.files /\ m.roots = n.roots /\ m.sent = n.sent
          /\ m.apis = n.apis /\ m.times = T
      BY <1>3, <3>1 DEF Fits
    <3>. QED
      BY <3>2 DEF T
  <2>. QED
    BY <2>2, <2>3
<1>5. m.times \in Seq(Nat) /\ Len(m.times) <= MaxMinute
  BY <1>3, <1>4, RecentIs DEF Tidy
<1>6. Tidy(m)
  <2>. HIDE DEF m, n
  <2>. QED
    BY <1>3, <1>4, <1>5 DEF Tidy
<1>7. ASSUME Len(m.times) < MaxMinute
      PROVE  Tidy(d) /\ d.files = n.files
  <2>. DEFINE T == Append(m.times, now)
              S == m.sent \cup {job[w].req}
  <2>1. /\ d.files = m.files /\ d.roots = m.roots /\ d.apis = m.apis
        /\ d.times = T /\ d.sent = S
    <3>1. d = [m EXCEPT !.times = T, !.sent = S]
      BY <1>4 DEF Fits
    <3>. HIDE DEF d, m, T, S
    <3>. QED
      BY <1>4, <3>1 DEF Fits
  <2>2. T \in Seq(Nat) /\ Len(T) = Len(m.times) + 1
    <3>. HIDE DEF m
    <3>. QED
      BY <1>3, <1>5, AppendProperties
  <2>3. Len(T) <= MaxMinute
    <3>1. Len(m.times) \in Nat /\ MaxMinute \in Nat
      BY <1>5, LenProperties, MonitorAssumption
    <3>. QED
      BY <1>7, <2>2, <3>1
  <2>4. S \subseteq Requests
    BY <1>3, <1>4 DEF Tidy
  <2>. HIDE DEF d, m, n, T, S
  <2>. QED
    BY <1>4, <1>6, <2>1, <2>2, <2>3, <2>4 DEF Tidy
<1>8. CASE Left(w, "running") /\ memory' = memory
  BY <1>1, <1>2, <1>8, LeftPlaces
<1>9. CASE Remember(w, m) /\ Goto(w, "mark")
  <2>. DEFINE j == [job[w] EXCEPT !.step = "mark"]
  <2>1. j \in Jobs /\ j.step = "mark" /\ j.proc = job[w].proc /\ j.req = job[w].req
    BY <1>3 DEF Jobs, HookSteps
  <2>2. Moves(w, j, m)
    <3>. HIDE DEF m
    <3>. QED
      BY <1>3, <1>9 DEF Moves, Remember, Goto
  <2>. HIDE DEF j, m
  <2>. QED
    BY <1>1, <1>2, <1>3, <1>4, <1>6, <2>1, <2>2, MovesPlaces
<1>10. CASE Allowed(n, s, t) /\ Remember(w, d) /\ Left(w, "running")
  <2>1. Tidy(d) /\ d.files = n.files
    BY <1>4, <1>7, <1>10 DEF Allowed
  <2>2. Moves(w, NoJob, d)
    <3>. HIDE DEF d
    <3>. QED
      BY <1>10 DEF Moves, Remember, Left
  <2>. HIDE DEF d
  <2>. QED
    BY <1>1, <1>2, <1>3, <2>1, <2>2, NoJobFits, MovesPlaces
<1>11. CASE /\ Allowed(n, s, t) /\ Remember(w, d)
            /\ job' = [job EXCEPT ![w].step = "deliver", ![w].card = s.perCall]
  <2>. DEFINE j == [job[w] EXCEPT !.step = "deliver", !.card = s.perCall]
  <2>1. Tidy(d) /\ d.files = n.files
    BY <1>4, <1>7, <1>11 DEF Allowed
  <2>2. j \in Jobs /\ j.step = "deliver" /\ j.proc = job[w].proc /\ j.req = job[w].req
    <3>. DEFINE c == s.perCall
                k == [job[w] EXCEPT !.step = "deliver"]
    <3>1. c \in BOOLEAN
      BY <1>3 DEF Settings
    <3>2. k \in Jobs /\ k.step = "deliver" /\ k.proc = job[w].proc /\ k.req = job[w].req
          /\ j = [k EXCEPT !.card = c]
      BY <1>3 DEF Jobs, HookSteps
    <3>. HIDE DEF c, k, j
    <3>. QED
      BY <3>1, <3>2 DEF Jobs
  <2>3. Moves(w, j, d)
    <3>. HIDE DEF d, s
    <3>. QED
      BY <1>3, <1>11 DEF Moves, Remember
  <2>. HIDE DEF d, j
  <2>. QED
    BY <1>1, <1>2, <1>3, <2>1, <2>2, <2>3, MovesPlaces
<1>. HIDE DEF d, m
<1>. QED
  BY <1>8, <1>9, <1>10, <1>11 DEF Notify, m, d

\* Past their bound some are forgotten, and there is one too many at most.
LEMMA RememberedIs ==
  ASSUME NEW A, IsFiniteSet(A), Cardinality(A) <= ApisMax, NEW r,
         NEW S \in Remembered(A \cup {r})
  PROVE  S \subseteq A \cup {r} /\ IsFiniteSet(S) /\ Cardinality(S) <= ApisMax
<1>. DEFINE B == A \cup {r}
<1>1. /\ IsFiniteSet(B) /\ Cardinality(B) \in Nat /\ Cardinality(A) \in Nat
      /\ Cardinality(B) <= Cardinality(A) + 1
      /\ ApisMax \in Nat /\ Drop \in Nat \ {0}
  <2>1. /\ IsFiniteSet(B)
        /\ Cardinality(B) = IF r \in A THEN Cardinality(A) ELSE Cardinality(A) + 1
    BY FS_AddElement
  <2>2. ApisMax \in Nat /\ Drop \in Nat \ {0}
    BY MonitorAssumption
  <2>. HIDE DEF B
  <2>3. Cardinality(B) \in Nat /\ Cardinality(A) \in Nat
    BY <2>1, FS_CardinalityType
  <2>. QED
    BY <2>1, <2>2, <2>3
<1>. HIDE DEF B
<1>2. CASE Cardinality(B) <= ApisMax
  BY <1>1, <1>2 DEF Remembered, B
<1>3. CASE ~(Cardinality(B) <= ApisMax)
  <2>1. S \in SUBSET B /\ Cardinality(S) = Cardinality(B) - Drop
    BY <1>3 DEF Remembered, B
  <2>2. IsFiniteSet(S)
    BY <1>1, <2>1, FS_Subset
  <2>. QED
    BY <1>1, <2>1, <2>2 DEF B
<1>. QED
  BY <1>2, <1>3

LEMMA DeliverPlaces ==
  ASSUME IInv, TypesInv, NEW w \in Workers, Deliver(w)
  PROVE  PlacesInv' /\ TracesInv'
<1>. DEFINE n == Mine(w)
            t == Turn(w)
            q == IF job[w].card THEN n.stats ELSE Kept(Counted(n.stats, t), t)
            j == [job[w] EXCEPT !.step = "mark"]
<1>1. /\ job[w].step = "deliver" /\ traces' = traces
      /\ job' = [job EXCEPT ![w].step = "mark"]
  BY DEF Deliver, Ready, At, Goto
<1>2. TracesInv'
  BY <1>1 DEF TypesInv, TracesInv
<1>3. /\ job[w] \in Jobs /\ Tidy(n) /\ Fits(n) /\ n = memory[job[w].proc]
      /\ job = [v \in Workers |-> job[v]] /\ t \in DOMAIN n.files
      /\ job[w].req \in Requests
  BY <1>1, PlaceFacts DEF Named
<1>4. j \in Jobs /\ j.step = "mark" /\ j.proc = job[w].proc /\ j.req = job[w].req
  BY <1>3 DEF Jobs, HookSteps
<1>. HIDE DEF q
<1>5. ASSUME NEW m, Remember(w, m), m.files = n.files, Tidy(m) PROVE PlacesInv'
  <2>1. Moves(w, j, m)
    BY <1>1, <1>3, <1>5 DEF Moves, Remember
  <2>. HIDE DEF j
  <2>. QED
    BY <1>1, <1>3, <1>4, <1>5, <2>1, MovesPlaces
<1>6. ASSUME NEW S \in Remembered(n.apis \cup {job[w].req}),
             Remember(w, [n EXCEPT !.stats = q, !.apis = S,
                            !.cards[t] = IF job[w].card THEN @ + 1 ELSE @])
      PROVE  PlacesInv'
  <2>. DEFINE m == [n EXCEPT !.stats = q, !.apis = S,
                             !.cards[t] = IF job[w].card THEN @ + 1 ELSE @]
  <2>1. S \subseteq Requests /\ IsFiniteSet(S) /\ Cardinality(S) <= ApisMax
    <3>. DEFINE A == n.apis
    <3>1. A \subseteq Requests /\ IsFiniteSet(A) /\ Cardinality(A) <= ApisMax
      BY <1>3 DEF Tidy
    <3>2. S \in Remembered(A \cup {job[w].req})
      BY <1>6
    <3>. HIDE DEF A
    <3>3. S \subseteq A \cup {job[w].req} /\ IsFiniteSet(S) /\ Cardinality(S) <= ApisMax
      BY <3>1, <3>2, RememberedIs
    <3>. QED
      BY <1>3, <3>1, <3>3
  <2>2. /\ m.files = n.files /\ m.roots = n.roots /\ m.sent = n.sent
        /\ m.times = n.times /\ m.apis = S
    <3>. HIDE DEF n, t
    <3>. QED
      BY <1>3 DEF Fits
  <2>. HIDE DEF m
  <2>3. Tidy(m)
    BY <1>3, <2>1, <2>2 DEF Tidy
  <2>. QED
    BY <1>5, <1>6, <2>2, <2>3 DEF m
<1>7. ASSUME Remember(w, [n EXCEPT !.stats = q]) PROVE PlacesInv'
  <2>. DEFINE m == [n EXCEPT !.stats = q]
  <2>1. /\ m.files = n.files /\ m.roots = n.roots /\ m.sent = n.sent
        /\ m.times = n.times /\ m.apis = n.apis
    <3>. HIDE DEF n
    <3>. QED
      BY <1>3 DEF Fits
  <2>. HIDE DEF m
  <2>2. Tidy(m)
    BY <1>3, <2>1 DEF Tidy
  <2>. QED
    BY <1>5, <1>7, <2>1, <2>2 DEF m
<1>. QED
  BY <1>2, <1>6, <1>7 DEF Deliver, q

LEMMA NotifyPostPlaces ==
  ASSUME IInv, TypesInv, NEW w \in Workers, NotifyPost(w)
  PROVE  PlacesInv' /\ TracesInv'
<1>. DEFINE n == Mine(w)
            d == [n EXCEPT !.stats = Counted(@, Turn(w))]
            m == IF ReadState.perCall THEN n ELSE d
            j == [job[w] EXCEPT !.step = "close"]
<1>1. job[w].step = "update" /\ traces' = traces
  BY DEF NotifyPost, Ready, At
<1>2. TracesInv'
  BY <1>1 DEF TypesInv, TracesInv
<1>3. /\ job[w] \in Jobs /\ Tidy(n) /\ Fits(n) /\ n = memory[job[w].proc]
      /\ job = [v \in Workers |-> job[v]] /\ Turn(w) \in DOMAIN n.files
  BY <1>1, PlaceFacts DEF Named
<1>4. m.files = n.files /\ Tidy(m)
  <2>1. /\ d.files = n.files /\ d.roots = n.roots /\ d.sent = n.sent
        /\ d.times = n.times /\ d.apis = n.apis
    <3>. HIDE DEF n
    <3>. QED
      BY <1>3 DEF Fits
  <2>. HIDE DEF d
  <2>2. Tidy(d)
    BY <1>3, <2>1 DEF Tidy
  <2>. QED
    BY <1>3, <2>1, <2>2
<1>. HIDE DEF m
<1>5. CASE Left(w, "done") /\ memory' = memory
  BY <1>1, <1>2, <1>5, LeftPlaces
<1>6. CASE Left(w, "done") /\ Remember(w, m)
  <2>1. Moves(w, NoJob, m)
    BY <1>6 DEF Moves, Remember, Left
  <2>. QED
    BY <1>1, <1>2, <1>3, <1>4, <2>1, NoJobFits, MovesPlaces
<1>7. CASE Goto(w, "close") /\ Remember(w, m)
  <2>1. j \in Jobs /\ j.step = "close" /\ j.proc = job[w].proc /\ j.req = job[w].req
    BY <1>3 DEF Jobs, HookSteps
  <2>2. Moves(w, j, m)
    BY <1>3, <1>7 DEF Moves, Remember, Goto
  <2>. HIDE DEF j
  <2>. QED
    BY <1>1, <1>2, <1>3, <1>4, <2>1, <2>2, MovesPlaces
<1>. QED
  BY <1>5, <1>6, <1>7 DEF NotifyPost, m

\* A hook begins.
LEMMA EnterPlaces ==
  ASSUME IInv, TypesInv, NEW w \in Workers, NEW p \in Processes, NEW r \in Requests,
         NEW s \in {"prune", "response"}, Enter(w, p, r, s)
  PROVE  PlacesInv' /\ TracesInv'
<1>. DEFINE j == [NoJob EXCEPT !.step = s, !.proc = p, !.req = r,
               !.seen = ReadState, !.asked = asked, !.firm = firm]
<1>1. /\ job[w].step = "idle" /\ job' = [job EXCEPT ![w] = j]
      /\ memory' = memory /\ traces' = traces
  BY DEF Enter, At
<1>2. j \in Jobs /\ j.step \notin Named
  <2>1. j = Entered(NoJob, s, p, r, ReadState, asked, firm)
    BY DEF Entered
  <2>. HIDE DEF j
  <2>2. /\ NoJob = [step |-> NoJob.step, proc |-> NoJob.proc, req |-> NoJob.req,
               seen |-> NoJob.seen, asked |-> NoJob.asked, firm |-> NoJob.firm,
               listed |-> NoJob.listed, card |-> NoJob.card]
        /\ NoJob.card = FALSE /\ NoJob.listed = {}
    BY DEF NoJob
  <2>3. j = [step |-> s, proc |-> p, req |-> r, seen |-> ReadState, asked |-> asked,
             firm |-> firm, listed |-> NoJob.listed, card |-> NoJob.card]
    BY <2>1, <2>2, EnteredIs
  <2>4. ReadState \in Settings /\ asked \in Marks /\ firm \in BOOLEAN
    BY ReadIsSettings DEF IInv, FileInv, FileTypes, TypesInv, CountersInv
  <2>5. s \in HookSteps /\ s \notin Named
    BY DEF HookSteps, Named
  <2>. QED
    BY <2>2, <2>3, <2>4, <2>5 DEF Jobs
<1>. HIDE DEF j
<1>3. TracesInv'
  BY <1>1 DEF TypesInv, TracesInv
<1>4. job' \in [Workers -> Jobs] /\ job'[w] = j /\ \A v \in Workers \ {w} : job'[v] = job[v]
  BY <1>1, <1>2 DEF TypesInv, PlacesInv
<1>5. \A q \in Processes : Tidy(memory'[q])
  BY <1>1 DEF TypesInv, PlacesInv
<1>6. \A v \in Workers : HasTrace(v)'
  BY <1>1, <1>2, <1>4 DEF TypesInv, PlacesInv, HasTrace, Turn
<1>. QED
  BY <1>3, <1>4, <1>5, <1>6 DEF PlacesInv

LEMMA OutsidePlaces ==
  ASSUME IInv, TypesInv, UNCHANGED <<job, memory, traces>>
  PROVE  PlacesInv' /\ TracesInv'
BY DEF TypesInv, PlacesInv, TracesInv, HasTrace, Turn

LEMMA RequestPlaces ==
  ASSUME IInv, TypesInv, NEW w \in Workers, NEW r \in Requests,
         PostRequest(w, r) \/ \E p \in Processes : PreRequest(w, p, r)
  PROVE  PlacesInv' /\ TracesInv'
<1>1. CASE PostRequest(w, r)
  <2>. DEFINE p == status[r].proc
  <2>1. p \in Processes
    BY <1>1 DEF PostRequest, IInv, HookInv, HookTypes
  <2>2. CASE ReadState.enabled
    <3>1. Enter(w, p, r, "response")
      BY <1>1, <2>2 DEF PostRequest
    <3>. HIDE DEF p
    <3>. QED
      BY <2>1, <3>1, EnterPlaces
  <2>3. CASE ~ReadState.enabled
    BY <1>1, <2>3, OutsidePlaces DEF PostRequest
  <2>. QED
    BY <2>2, <2>3
<1>2. ASSUME NEW p \in Processes, PreRequest(w, p, r)
      PROVE  PlacesInv' /\ TracesInv'
  <2>1. CASE ReadState.enabled
    BY <1>2, <2>1, EnterPlaces DEF PreRequest
  <2>2. CASE ~ReadState.enabled
    BY <1>2, <2>2, OutsidePlaces DEF PreRequest
  <2>. QED
    BY <2>1, <2>2
<1>. QED
  BY <1>1, <1>2

LEMMA ApiErrorPlaces ==
  ASSUME IInv, TypesInv, NEW w \in Workers, NEW r \in Requests, ApiError(w, r)
  PROVE  PlacesInv' /\ TracesInv'
<1>. DEFINE p == status[r].proc
            n == memory[p]
            t == TurnOf[r]
            F == Located(n, t)
            m == [n EXCEPT !.files = F]
<1>1. /\ status[r].at = "running" /\ job' = job
      /\ \/ UNCHANGED <<memory, traces>>
         \/ memory' = [memory EXCEPT ![p] = m] /\ Touch(m.files[t])
  BY DEF ApiError
<1>2. p \in Processes /\ t \in Turns
  BY <1>1 DEF IInv, HookInv, HookTypes, Turns
<1>3. CASE UNCHANGED <<memory, traces>>
  BY <1>1, <1>3, OutsidePlaces
<1>4. CASE memory' = [memory EXCEPT ![p] = m] /\ Touch(m.files[t])
  <2>1. Tidy(n) /\ Fits(n) /\ memory = [q \in Processes |-> memory[q]]
    BY <1>2 DEF TypesInv, PlacesInv, IInv, HookInv, HookTypes
  <2>2. Renamed(n, m, F) /\ m.roots = n.roots
    <3>. HIDE DEF n, F
    <3>. QED
      BY <2>1 DEF Fits, Renamed
  <2>3. F[t] \in TraceNames
    <3>. HIDE DEF n, t
    <3>. QED
      BY <1>2, <2>1, LocatedIs
  <2>. HIDE DEF m
  <2>4. Tidy(m) /\ DOMAIN n.files \subseteq DOMAIN m.files
    <3>. HIDE DEF n, t
    <3>. QED
      BY <1>2, <2>1, <2>2, RenamedTidy
  <2>5. TracesInv'
    BY <1>4, <2>2, <2>3, TouchTraces DEF Renamed
  <2>6. \A q \in Processes : memory'[q] = IF q = p THEN m ELSE memory[q]
    BY <1>2, <1>4, <2>1
  <2>7. \A q \in Processes : Tidy(memory'[q])
    BY <2>4, <2>6 DEF TypesInv, PlacesInv
  <2>8. ASSUME NEW v \in Workers PROVE HasTrace(v)'
    <3>1. HasTrace(v) /\ (job[v].step \in Named => job[v].proc \in Processes)
      BY HookFacts DEF TypesInv, PlacesInv, IInv, Named
    <3>. HIDE DEF p
    <3>. QED
      BY <1>1, <2>4, <2>6, <3>1 DEF HasTrace, Turn
  <2>. QED
    BY <1>1, <2>5, <2>7, <2>8 DEF TypesInv, PlacesInv
<1>. QED
  BY <1>1, <1>3, <1>4

LEMMA FreshTidy == Tidy(Fresh)
<1>1. /\ DOMAIN Fresh.files = {} /\ Fresh.roots = {} /\ Fresh.sent = {}
      /\ Fresh.apis = {} /\ Fresh.times = << >>
  BY DEF Fresh
<1>2. << >> \in Seq(Nat) /\ Len(<< >>) = 0 /\ IsFiniteSet({}) /\ Cardinality({}) = 0
  BY FS_EmptySet, EmptySeq
<1>3. ApisMax \in Nat /\ MaxMinute \in Nat
  BY MonitorAssumption
<1>. HIDE DEF Fresh
<1>. QED
  BY <1>1, <1>2, <1>3 DEF Tidy

LEMMA CrashPlaces ==
  ASSUME IInv, TypesInv, NEW p \in Processes, Crash(p)
  PROVE  PlacesInv' /\ TracesInv'
<1>1. /\ memory' = [memory EXCEPT ![p] = Fresh] /\ traces' = traces
      /\ job' = [w \in Workers |-> IF job[w].proc = p THEN NoJob ELSE job[w]]
  BY DEF Crash
<1>2. TracesInv'
  BY <1>1 DEF TypesInv, TracesInv
<1>3. \A q \in Processes : memory'[q] = IF q = p THEN Fresh ELSE memory[q]
  BY <1>1 DEF IInv, HookInv, HookTypes
<1>4. \A q \in Processes : Tidy(memory'[q])
  BY <1>3, FreshTidy DEF TypesInv, PlacesInv
<1>5. job' \in [Workers -> Jobs]
  BY <1>1, NoJobFits DEF TypesInv, PlacesInv
<1>6. ASSUME NEW w \in Workers PROVE HasTrace(w)'
  <2>1. CASE job[w].proc = p
    BY <1>1, <2>1, NoJobFits DEF HasTrace
  <2>2. CASE job[w].proc # p
    <3>1. HasTrace(w) /\ (job[w].step \in Named => job[w].proc \in Processes)
      BY HookFacts DEF TypesInv, PlacesInv, IInv, Named
    <3>. QED
      BY <1>1, <1>3, <2>2, <3>1 DEF HasTrace, Turn
  <2>. QED
    BY <2>1, <2>2
<1>. QED
  BY <1>2, <1>4, <1>5, <1>6 DEF PlacesInv

LEMMA InitTypes == Init => TypesInv
<1>. SUFFICES ASSUME Init PROVE TypesInv
  OBVIOUS
<1>1. CountersInv
  BY MonitorAssumption DEF Init, CountersInv, Marks
<1>2. ChangesInv
  BY DEF Init, ChangesInv, NoWriter
<1>3. TracesInv
  BY DEF Init, TracesInv, TraceNames
<1>4. PlacesInv
  <2>1. /\ job = [w \in Workers |-> NoJob] /\ memory = [p \in Processes |-> Fresh]
    BY DEF Init
  <2>2. \A w \in Workers : HasTrace(w)
    BY <2>1, NoJobFits DEF HasTrace
  <2>. QED
    BY <2>1, <2>2, NoJobFits, FreshTidy DEF PlacesInv
<1>. QED
  BY <1>1, <1>2, <1>3, <1>4 DEF TypesInv

LEMMA TypesStep ==
  ASSUME IInv, TypesInv, [Next]_vars
  PROVE  TypesInv'
<1>1. CASE UNCHANGED <<job, memory, traces>>
  BY <1>1, OutsidePlaces, CountersStep, ChangesStep DEF TypesInv
<1>2. ASSUME NEW w \in Workers, Hook(w) PROVE PlacesInv' /\ TracesInv'
  BY <1>2, MaybePrunePlaces, StatPlaces, UnlinkPlaces, LocatePlaces, WriteRootPlaces,
     WriteRequestPlaces, NotifyPlaces, DeliverPlaces, MarkPlaces, WriteResponsePlaces,
     NotifyPostPlaces, SwallowedPlaces
  DEF Hook
<1>3. ASSUME NEW w \in Workers, NEW r \in Requests,
             PostRequest(w, r) \/ ApiError(w, r)
               \/ \E p \in Processes : PreRequest(w, p, r)
      PROVE  PlacesInv' /\ TracesInv'
  BY <1>3, RequestPlaces, ApiErrorPlaces
<1>4. ASSUME NEW p \in Processes, Crash(p) PROVE PlacesInv' /\ TracesInv'
  BY <1>4, CrashPlaces
<1>5. CASE \/ \E p \in Processes, c \in Commands : Command(p, c)
           \/ \E a \in Actors : Write(a)
           \/ Tick \/ UNCHANGED vars
  BY <1>1, <1>5
  DEF Command, Write, OpenTemporary, FillTemporary, Replace, Tick, vars, hooks
<1>6. PlacesInv' /\ TracesInv'
  BY <1>2, <1>3, <1>4, <1>5, OutsidePlaces DEF Next, TypesInv
<1>. QED
  BY <1>6, CountersStep, ChangesStep DEF TypesInv

\* TypeOK for every run: the lock of a process is held exactly by those between
\* two of its steps (_LOCK), what it remembers of announced requests and of the
\* last minute stays within its bounds (llm-monitor/__init__.py:735, :762), and
\* a root it has marked is one of a trace it has named, through crashes, failed
\* writes and any order of its threads.
THEOREM TypesHold == Spec => []TypeOK
<1>1. Init => IInv /\ TypesInv
  BY InitHolds, InitTypes
<1>2. IInv /\ TypesInv /\ [Next]_vars => IInv' /\ TypesInv'
  BY NextHolds, TypesStep
<1>. QED
  BY <1>1, <1>2, TypesSuffice, PTL DEF Spec
=============================================================================
