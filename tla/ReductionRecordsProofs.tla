----------------------- MODULE ReductionRecordsProofs -----------------------
(***************************************************************************)
(* What holds of the report files and of the event log for every number of *)
(* processes, threads, sources and rotations, and every fault; and what    *)
(* its readers make of the log.                                            *)
(***************************************************************************)
EXTENDS ReductionRecords, SubsequencesProofs

-----------------------------------------------------------------------------
(* What a worker carries.                                                  *)

FileNames == Nat \X Parts
Events == [kind : EventKinds, key : EventKeys, new : BOOLEAN]
Jobs == [step : Steps, event : Events, group : Nat, listed : SUBSET FileNames,
         found : SUBSET FileNames, at : Int, open : (0..Rotations) \cup {Gone},
         alone : BOOLEAN]

Good(j) ==
  /\ j.step # "idle" => j.event.kind # "none"
  /\ j.event.new => j.event.kind = "compressed"
  /\ j.event.kind = "compressed" => \E s \in Sources : j.event.key = <<s>>
  /\ j.step \notin Locked => j.at = 0
  /\ j.step = "search" => j.at \in 0..Rotations
  /\ j.step = "shift" => j.at \in 1..(Rotations - 1)

JobsInv ==
  /\ job \in [Workers -> Jobs]
  /\ \A w \in Workers : Good(job[w])

\* Fields of a job that i and j have in common.
SameEvent(i, j) ==
  j.event.kind = i.event.kind /\ j.event.key = i.event.key /\ j.alone = i.alone
SameFiles(i, j) == j.group = i.group /\ j.listed = i.listed /\ j.found = i.found

LEMMA Numbers ==
  /\ Rotations \in Nat \ {0} /\ LinesMax \in Nat \ {0} /\ FilesMax \in Nat
  /\ Retention \in Nat /\ Interval \in Nat /\ MaxReports \in Nat
  /\ MaxRecords \in Nat /\ MaxPins \in Nat /\ MaxTime \in Nat
  /\ MaxFaults \in Nat /\ Budget \in Nat
BY RecordsAssumption

LEMMA NoEventType == NoEvent \in Events /\ ~NoEvent.new /\ NoEvent.kind = "none"
<1>1. <<0>> \in EventKeys
  BY DEF EventKeys
<1>. QED
  BY <1>1 DEF NoEvent, Events, EventKinds

LEMMA NoJobType ==
  /\ NoJob \in Jobs /\ Good(NoJob)
  /\ NoJob.step = "idle" /\ NoJob.at = 0 /\ NoJob.event = NoEvent
<1>1. 0 \in 0..Rotations
  BY Numbers
<1>2. NoJob \in Jobs
  BY <1>1, NoEventType DEF NoJob, Jobs, Steps, FileNames
<1>. QED
  BY <1>2, NoEventType DEF NoJob, Good, Locked

LEMMA InitJobs == Init => JobsInv
BY NoJobType DEF Init, JobsInv

LEMMA JobMove ==
  ASSUME JobsInv, NEW w \in Workers, NEW j \in Jobs, Good(j),
         job' = [job EXCEPT ![w] = j]
  PROVE  JobsInv' /\ job'[w] = j /\ \A v \in Workers \ {w} : job'[v] = job[v]
BY DEF JobsInv

LEMMA JobSame == JobsInv /\ UNCHANGED job => JobsInv'
BY DEF JobsInv

\* A job of which one field changes.
LEMMA StepSet ==
  ASSUME NEW i \in Jobs, NEW s \in Steps
  PROVE  LET j == [i EXCEPT !.step = s] IN
         /\ j \in Jobs /\ j.step = s /\ j.event = i.event /\ j.at = i.at
         /\ j.open = i.open /\ j.alone = i.alone /\ SameFiles(i, j)
BY DEF Jobs, SameFiles

LEMMA AtSet ==
  ASSUME NEW i \in Jobs, NEW n \in Int
  PROVE  LET j == [i EXCEPT !.at = n] IN
         /\ j \in Jobs /\ j.step = i.step /\ j.event = i.event /\ j.at = n
         /\ j.open = i.open /\ j.alone = i.alone /\ SameFiles(i, j)
BY DEF Jobs, SameFiles

LEMMA OpenSet ==
  ASSUME NEW i \in Jobs, NEW o \in (0..Rotations) \cup {Gone}
  PROVE  LET j == [i EXCEPT !.open = o] IN
         /\ j \in Jobs /\ j.step = i.step /\ j.event = i.event /\ j.at = i.at
         /\ j.open = o /\ j.alone = i.alone /\ SameFiles(i, j)
BY DEF Jobs, SameFiles

LEMMA AloneSet ==
  ASSUME NEW i \in Jobs, NEW b \in BOOLEAN
  PROVE  LET j == [i EXCEPT !.alone = b] IN
         /\ j \in Jobs /\ j.step = i.step /\ j.event = i.event /\ j.at = i.at
         /\ j.open = i.open /\ j.alone = b /\ SameFiles(i, j)
BY DEF Jobs, SameFiles

LEMMA NewSet ==
  ASSUME NEW i \in Jobs, NEW b \in BOOLEAN
  PROVE  LET j == [i EXCEPT !.event.new = b] IN
         /\ j \in Jobs /\ j.step = i.step /\ j.at = i.at /\ j.open = i.open
         /\ j.alone = i.alone /\ SameFiles(i, j)
         /\ j.event \in Events /\ j.event.new = b
         /\ j.event.kind = i.event.kind /\ j.event.key = i.event.key
<1>. DEFINE e == [i.event EXCEPT !.new = b]
<1>1. i.event \in Events
  BY DEF Jobs
<1>2. e \in Events /\ e.new = b /\ e.kind = i.event.kind /\ e.key = i.event.key
  BY <1>1 DEF Events
<1>3. [i EXCEPT !.event.new = b] = [i EXCEPT !.event = e]
  OBVIOUS
<1>. HIDE DEF e
<1>. QED
  BY <1>2, <1>3 DEF Jobs, SameFiles

LEMMA ListedSet ==
  ASSUME NEW i \in Jobs, NEW L \in SUBSET FileNames
  PROVE  LET j == [i EXCEPT !.listed = L] IN
         /\ j \in Jobs /\ j.step = i.step /\ j.event = i.event /\ j.at = i.at
         /\ j.open = i.open /\ j.alone = i.alone
         /\ j.group = i.group /\ j.listed = L /\ j.found = i.found
BY DEF Jobs

LEMMA FoundSet ==
  ASSUME NEW i \in Jobs, NEW F \in SUBSET FileNames
  PROVE  LET j == [i EXCEPT !.found = F] IN
         /\ j \in Jobs /\ j.step = i.step /\ j.event = i.event /\ j.at = i.at
         /\ j.open = i.open /\ j.alone = i.alone
         /\ j.group = i.group /\ j.listed = i.listed /\ j.found = F
BY DEF Jobs

-----------------------------------------------------------------------------
(* What each step makes of the jobs.  Outside the lock of the event log.   *)

LEMMA ReduceJob ==
  ASSUME JobsInv, NEW w \in Workers, NEW s \in Sources, Reduce(w, s), begun \in Nat
  PROVE  \E j \in Jobs :
           /\ job' = [job EXCEPT ![w] = j] /\ Good(j)
           /\ j.step \in {"inventory", "source"} /\ j.group = begun + 1
           /\ job[w].step = "idle"
<1>. DEFINE due == now - pruned[Home[w]] >= Interval
            step == IF due THEN "inventory" ELSE "source"
            event == [kind |-> "compressed", key |-> <<s>>, new |-> TRUE]
            group == begun + 1
            j == [NoJob EXCEPT !.group = group, !.step = step, !.event = event]
<1>1. event \in Events
  BY DEF Events, EventKinds, EventKeys
<1>2. event.kind = "compressed" /\ event.key = <<s>>
  OBVIOUS
<1>3. job' = [job EXCEPT ![w] = j] /\ job[w].step = "idle"
  BY DEF Reduce, At
<1>. HIDE DEF event, due
<1>4. step \in Steps /\ step \in {"inventory", "source"} /\ group \in Nat
  BY DEF Steps
<1>. HIDE DEF step, group, j
<1>5. j \in Jobs /\ j.step = step /\ j.event = event /\ j.at = 0 /\ j.group = group
  BY <1>1, <1>4, NoJobType DEF Jobs, NoJob, j
<1>6. Good(j)
  BY <1>2, <1>4, <1>5 DEF Good, Locked
<1>. QED
  BY <1>3, <1>4, <1>5, <1>6 DEF group

LEMMA InventoryJob ==
  ASSUME JobsInv, NEW w \in Workers, Inventory(w), DOMAIN files \subseteq FileNames
  PROVE  \E j \in Jobs, G \in Selected(files) :
           /\ job' = [job EXCEPT ![w] = j] /\ Good(j)
           /\ j.step \in {"source", "unlink"} /\ j.group = job[w].group
           /\ j.listed = OfGroups(DOMAIN files, G) /\ j.found = DOMAIN files
           /\ job[w].step = "inventory"
<1>1. PICK G \in Selected(files) :
        LET doomed == OfGroups(DOMAIN files, G) IN
        job' = [job EXCEPT ![w].listed = doomed, ![w].found = DOMAIN files,
                  ![w].step = IF doomed = {} THEN "source" ELSE "unlink"]
  BY DEF Inventory
<1>. DEFINE doomed == OfGroups(DOMAIN files, G)
            step == IF doomed = {} THEN "source" ELSE "unlink"
            i == [job[w] EXCEPT !.listed = doomed]
            k == [i EXCEPT !.found = DOMAIN files]
            j == [k EXCEPT !.step = step]
<1>2. job' = [job EXCEPT ![w] = j]
  BY <1>1 DEF JobsInv
<1>3. job[w] \in Jobs /\ Good(job[w]) /\ job[w].step = "inventory"
  BY DEF JobsInv, Inventory, At
<1>4. doomed \in SUBSET FileNames /\ step \in Steps /\ step \in {"source", "unlink"}
  BY DEF OfGroups, Steps
<1>. HIDE DEF doomed, step, j
<1>5. /\ i \in Jobs /\ i.event = job[w].event /\ i.at = job[w].at
      /\ i.group = job[w].group /\ i.listed = doomed
  BY <1>3, <1>4, ListedSet
<1>. HIDE DEF i
<1>6. /\ k \in Jobs /\ k.event = i.event /\ k.at = i.at
      /\ k.group = i.group /\ k.listed = i.listed /\ k.found = DOMAIN files
  BY <1>5, FoundSet
<1>. HIDE DEF k
<1>7. /\ j \in Jobs /\ j.event = k.event /\ j.at = k.at /\ j.step = step
      /\ j.group = k.group /\ j.listed = k.listed /\ j.found = k.found
  BY <1>4, <1>6, StepSet DEF SameFiles, j
<1>8. Good(j)
  BY <1>3, <1>4, <1>5, <1>6, <1>7 DEF Good, Locked
<1>. QED
  BY <1>1, <1>2, <1>3, <1>4, <1>5, <1>6, <1>7, <1>8 DEF doomed

LEMMA UnlinkJob ==
  ASSUME JobsInv, NEW w \in Workers, Unlink(w)
  PROVE  \E j \in Jobs, f \in job[w].listed :
           /\ job' = [job EXCEPT ![w] = j] /\ Good(j)
           /\ j.step \in {"source", "unlink"} /\ j.group = job[w].group
           /\ j.listed = job[w].listed \ {f} /\ j.found = job[w].found
           /\ job[w].step = "unlink"
           /\ files' = files \/ files' = [h \in DOMAIN files \ {f} |-> files[h]]
<1>1. PICK f \in job[w].listed :
        /\ job' = [job EXCEPT ![w].listed = job[w].listed \ {f},
             ![w].step = IF job[w].listed \ {f} = {} THEN "source" ELSE "unlink"]
        /\ files' = files \/ files' = [h \in DOMAIN files \ {f} |-> files[h]]
  BY DEF Unlink
<1>. DEFINE left == job[w].listed \ {f}
            step == IF left = {} THEN "source" ELSE "unlink"
            i == [job[w] EXCEPT !.listed = left]
            j == [i EXCEPT !.step = step]
<1>2. job' = [job EXCEPT ![w] = j]
  BY <1>1 DEF JobsInv
<1>3. job[w] \in Jobs /\ Good(job[w]) /\ job[w].step = "unlink"
  BY DEF JobsInv, Unlink, At
<1>4. left \in SUBSET FileNames /\ step \in Steps /\ step \in {"source", "unlink"}
  BY <1>3 DEF Steps, Jobs
<1>. HIDE DEF left, step, j
<1>5. /\ i \in Jobs /\ i.event = job[w].event /\ i.at = job[w].at
      /\ i.group = job[w].group /\ i.listed = left /\ i.found = job[w].found
  BY <1>3, <1>4, ListedSet
<1>. HIDE DEF i
<1>6. /\ j \in Jobs /\ j.event = i.event /\ j.at = i.at /\ j.step = step
      /\ j.group = i.group /\ j.listed = i.listed /\ j.found = i.found
  BY <1>4, <1>5, StepSet DEF SameFiles, j
<1>7. Good(j)
  BY <1>3, <1>4, <1>5, <1>6 DEF Good, Locked
<1>. QED
  BY <1>1, <1>2, <1>3, <1>4, <1>5, <1>6, <1>7 DEF left

LEMMA WritePartJob ==
  ASSUME JobsInv, NEW w \in Workers, WriteSource(w) \/ WriteReport(w)
  PROVE  \E j \in Jobs, part \in {"source", "report"} :
           /\ job' = [job EXCEPT ![w] = j] /\ Good(j)
           /\ job[w].step = part
           /\ j.step = IF part = "source" THEN "report" ELSE "lock"
           /\ j.group = job[w].group
           /\ files' = [f \in DOMAIN files \cup {<<job[w].group, part>>} |->
                          IF f = <<job[w].group, part>> THEN now ELSE files[f]]
<1>1. PICK part \in {"source", "report"} :
        WritePart(w, part, IF part = "source" THEN "report" ELSE "lock")
  BY DEF WriteSource, WriteReport
<1>. DEFINE step == IF part = "source" THEN "report" ELSE "lock"
            i == [job[w] EXCEPT !.step = step]
            j == [i EXCEPT !.found = {}]
<1>2. job' = [job EXCEPT ![w] = j]
  BY <1>1 DEF JobsInv, WritePart
<1>3. job[w] \in Jobs /\ Good(job[w]) /\ job[w].step = part
  BY <1>1 DEF JobsInv, WritePart, At
<1>4. {} \in SUBSET FileNames /\ step \in Steps /\ step \in {"report", "lock"}
  BY DEF Steps
<1>. HIDE DEF step, j
<1>5. /\ i \in Jobs /\ i.event = job[w].event /\ i.at = job[w].at
      /\ i.group = job[w].group /\ i.step = step
  BY <1>3, <1>4, StepSet DEF SameFiles
<1>. HIDE DEF i
<1>6. /\ j \in Jobs /\ j.event = i.event /\ j.at = i.at /\ j.step = step
      /\ j.group = i.group
  BY <1>4, <1>5, FoundSet DEF SameFiles, j
<1>7. Good(j)
  BY <1>3, <1>4, <1>5, <1>6 DEF Good, Locked
<1>. QED
  BY <1>1, <1>2, <1>3, <1>4, <1>5, <1>6, <1>7 DEF step, WritePart

LEMMA RecordJob ==
  ASSUME JobsInv, NEW w \in Workers,
         \/ \E s \in Sources : Reuse(w, s)
         \/ \E s \in Sources, c \in Calls : Retrieve(w, s, c)
         \/ \E t \in Turns : CompleteTurn(w, t)
  PROVE  \E j \in Jobs :
           /\ job' = [job EXCEPT ![w] = j] /\ Good(j)
           /\ job[w].step = "idle" /\ j.step = "lock"
           /\ asked < MaxRecords /\ asked' = asked + 1
           /\ UNCHANGED <<now, reports, events, marked, faults>>
<1>1. PICK e \in Events :
        /\ Record(w, e) /\ ~e.new /\ e.kind # "none"
        /\ e.kind = "compressed" => \E s \in Sources : e.key = <<s>>
  <2>1. CASE \E s \in Sources : Reuse(w, s)
    <3>1. PICK s \in Sources :
            Record(w, [kind |-> "compressed", key |-> <<s>>, new |-> FALSE])
      BY <2>1 DEF Reuse
    <3>. DEFINE e == [kind |-> "compressed", key |-> <<s>>, new |-> FALSE]
    <3>2. e \in Events /\ ~e.new /\ e.kind = "compressed" /\ e.key = <<s>>
      BY DEF Events, EventKinds, EventKeys
    <3>. HIDE DEF e
    <3>. QED
      BY <3>1, <3>2 DEF e
  <2>2. CASE \E s \in Sources, c \in Calls : Retrieve(w, s, c)
    <3>1. PICK s \in Sources, c \in Calls :
            Record(w, [kind |-> "retrieval", key |-> <<s, c>>, new |-> FALSE])
      BY <2>2 DEF Retrieve
    <3>. DEFINE e == [kind |-> "retrieval", key |-> <<s, c>>, new |-> FALSE]
    <3>2. e \in Events /\ ~e.new /\ e.kind = "retrieval"
      BY DEF Events, EventKinds, EventKeys
    <3>. QED
      BY <3>1, <3>2
  <2>3. CASE \E t \in Turns : CompleteTurn(w, t)
    <3>1. PICK t \in Turns :
            Record(w, [kind |-> "turn", key |-> <<t>>, new |-> FALSE])
      BY <2>3 DEF CompleteTurn
    <3>. DEFINE e == [kind |-> "turn", key |-> <<t>>, new |-> FALSE]
    <3>2. e \in Events /\ ~e.new /\ e.kind = "turn"
      BY DEF Events, EventKinds, EventKeys
    <3>. QED
      BY <3>1, <3>2
  <2>. QED
    BY <2>1, <2>2, <2>3
<1>. DEFINE j == [NoJob EXCEPT !.step = "lock", !.event = e]
<1>2. /\ job' = [job EXCEPT ![w] = j] /\ job[w].step = "idle"
      /\ asked < MaxRecords /\ asked' = asked + 1
      /\ UNCHANGED <<now, reports, events, marked, faults>>
  BY <1>1 DEF Record, At
<1>3. "lock" \in Steps
  BY DEF Steps
<1>4. j \in Jobs /\ j.step = "lock" /\ j.event = e /\ j.at = 0
  BY <1>1, <1>3, NoJobType DEF Jobs, NoJob
<1>5. Good(j)
  BY <1>1, <1>4 DEF Good, Locked
<1>. HIDE DEF j
<1>. QED
  BY <1>2, <1>4, <1>5

-----------------------------------------------------------------------------
(* Inside the lock of the event log.                                       *)

LEMMA LockJob ==
  ASSUME JobsInv, NEW w \in Workers, Lock(w)
  PROVE  LET busy == {v \in Others(w) : job[v].step \in Locked} IN
         /\ JobsInv'
         /\ job[w].step = "lock" /\ job'[w].event = job[w].event
         /\ job'[w].step = IF job[w].event.new THEN "search" ELSE "rotate"
         /\ job'[w].at = 0
         /\ job'[w].alone = (busy = {})
         /\ SameFiles(job[w], job'[w])
         /\ \A v \in Workers \ {w} :
              /\ job'[v].step = job[v].step /\ job'[v].event = job[v].event
              /\ job'[v].at = job[v].at /\ job'[v].open = job[v].open
              /\ job'[v].alone = (job[v].alone /\ v \notin busy)
              /\ SameFiles(job[v], job'[v])
<1>. DEFINE busy == {v \in Others(w) : job[v].step \in Locked}
            step == IF job[w].event.new THEN "search" ELSE "rotate"
            i == [job[w] EXCEPT !.alone = (busy = {})]
            j == [i EXCEPT !.step = step]
            Other(v) == [job[v] EXCEPT !.alone = @ /\ v \notin busy]
<1>1. job' = [v \in Workers |-> IF v = w THEN j ELSE Other(v)]
  BY DEF Lock, Locking
<1>2. /\ \A v \in Workers : job[v] \in Jobs /\ Good(job[v])
      /\ job[w].step = "lock"
  BY DEF JobsInv, Lock, At
<1>3. /\ i \in Jobs /\ i.event = job[w].event /\ i.at = job[w].at
      /\ i.alone = (busy = {}) /\ SameFiles(job[w], i)
  <2>. DEFINE none == (busy = {})
  <2>1. none \in BOOLEAN /\ i = [job[w] EXCEPT !.alone = none]
    OBVIOUS
  <2>. HIDE DEF none, i
  <2>2. /\ i \in Jobs /\ i.event = job[w].event /\ i.at = job[w].at
        /\ i.alone = none /\ SameFiles(job[w], i)
    BY <1>2, <2>1, AloneSet
  <2>. QED
    BY <2>2 DEF none
<1>. HIDE DEF i
<1>4. step \in Steps /\ step \in {"search", "rotate"}
  BY DEF Steps, Locked
<1>. HIDE DEF step, j
<1>5. /\ j \in Jobs /\ j.event = i.event /\ j.at = i.at /\ j.step = step
      /\ j.alone = i.alone /\ SameFiles(i, j)
  BY <1>3, <1>4, StepSet DEF j
<1>6. Good(j)
  BY <1>2, <1>3, <1>4, <1>5, Numbers DEF Good, Locked
<1>7. ASSUME NEW v \in Workers
      PROVE  /\ Other(v) \in Jobs /\ Good(Other(v))
             /\ Other(v).step = job[v].step /\ Other(v).event = job[v].event
             /\ Other(v).at = job[v].at /\ Other(v).open = job[v].open
             /\ Other(v).alone = (job[v].alone /\ v \notin busy)
             /\ SameFiles(job[v], Other(v))
  <2>. DEFINE b == (job[v].alone /\ v \notin busy)
  <2>1. b \in BOOLEAN /\ job[v] \in Jobs /\ Good(job[v])
    BY <1>2
  <2>2. Other(v) = [job[v] EXCEPT !.alone = b]
    OBVIOUS
  <2>. HIDE DEF b, Other
  <2>3. /\ Other(v) \in Jobs
        /\ Other(v).step = job[v].step /\ Other(v).event = job[v].event
        /\ Other(v).at = job[v].at /\ Other(v).open = job[v].open
        /\ Other(v).alone = b /\ SameFiles(job[v], Other(v))
    BY <2>1, <2>2, AloneSet
  <2>4. Good(Other(v))
    BY <2>1, <2>3 DEF Good
  <2>. QED
    BY <2>3, <2>4 DEF b
<1>. HIDE DEF Other, busy
<1>8. JobsInv'
  BY <1>1, <1>5, <1>6, <1>7 DEF JobsInv
<1>9. job'[w] = j /\ \A v \in Workers \ {w} : job'[v] = Other(v)
  BY <1>1
<1>10. j.at = 0 /\ j.event = job[w].event /\ SameFiles(job[w], j)
  BY <1>2, <1>3, <1>5 DEF Good, Locked, SameFiles
<1>. QED
  BY <1>2, <1>3, <1>5, <1>7, <1>8, <1>9, <1>10 DEF busy, step

LEMMA SearchJob ==
  ASSUME JobsInv, NEW w \in Workers, Search(w)
  PROVE  LET hit == Has(job[w].at, job[w].event.key) IN
         \E j \in Jobs :
           /\ job' = [job EXCEPT ![w] = j] /\ Good(j) /\ job[w].step = "search"
           /\ SameEvent(job[w], j) /\ SameFiles(job[w], j)
           /\ \/ hit /\ j.step = "rotate" /\ ~j.event.new
              \/ /\ ~hit /\ j.step = "rotate" /\ j.event = job[w].event
                 /\ job[w].at = Rotations
              \/ /\ ~hit /\ j.step = "search" /\ j.event = job[w].event
                 /\ j.at = job[w].at + 1
<1>1. /\ job[w] \in Jobs /\ Good(job[w]) /\ job[w].step = "search"
      /\ job[w].at \in 0..Rotations
  BY DEF JobsInv, Search, At, Good
<1>. DEFINE hit == Has(job[w].at, job[w].event.key)
            i == [job[w] EXCEPT !.step = "rotate"]
<1>2. /\ i \in Jobs /\ i.step = "rotate" /\ i.event = job[w].event
      /\ i.at = job[w].at /\ i.alone = job[w].alone /\ SameFiles(job[w], i)
  BY <1>1, StepSet DEF Steps, Locked
<1>3. CASE hit
  <2>. DEFINE j == [i EXCEPT !.event.new = FALSE]
  <2>1. job' = [job EXCEPT ![w] = j]
    BY <1>3 DEF Search, JobsInv
  <2>. HIDE DEF i, j
  <2>2. /\ j \in Jobs /\ j.step = i.step /\ j.at = i.at /\ j.alone = i.alone
        /\ SameFiles(i, j) /\ ~j.event.new
        /\ j.event.kind = i.event.kind /\ j.event.key = i.event.key
    BY <1>2, NewSet DEF j
  <2>3. Good(j)
    BY <1>1, <1>2, <2>2 DEF Good, Locked
  <2>4. SameEvent(job[w], j) /\ SameFiles(job[w], j) /\ j.step = "rotate"
    BY <1>2, <2>2 DEF SameEvent, SameFiles
  <2>. QED
    BY <1>1, <1>3, <2>1, <2>2, <2>3, <2>4
<1>4. CASE ~hit /\ job[w].at = Rotations
  <2>1. job' = [job EXCEPT ![w] = i]
    BY <1>4 DEF Search, JobsInv
  <2>. HIDE DEF i
  <2>2. Good(i) /\ SameEvent(job[w], i)
    BY <1>1, <1>2 DEF Good, Locked, SameEvent
  <2>. QED
    BY <1>1, <1>2, <1>4, <2>1, <2>2
<1>5. CASE ~hit /\ job[w].at # Rotations
  <2>. DEFINE n == job[w].at + 1
              j == [job[w] EXCEPT !.at = n]
  <2>1. job' = [job EXCEPT ![w] = j]
    BY <1>5 DEF Search, JobsInv
  <2>2. n \in Int /\ n \in 0..Rotations
    BY <1>1, <1>5, Numbers
  <2>. HIDE DEF n, j
  <2>3. /\ j \in Jobs /\ j.step = "search" /\ j.at = n /\ j.alone = job[w].alone
        /\ SameFiles(job[w], j) /\ j.event = job[w].event
    BY <1>1, <2>2, AtSet DEF j
  <2>4. Good(j) /\ SameEvent(job[w], j)
    BY <1>1, <2>2, <2>3 DEF Good, Locked, SameEvent
  <2>. QED
    BY <1>1, <1>5, <2>1, <2>3, <2>4 DEF n
<1>. QED
  BY <1>3, <1>4, <1>5

\* A step that leaves the file the worker is at alone.
LEMMA GotoJob ==
  ASSUME JobsInv, NEW w \in Workers, NEW s \in {"drop", "open"}, Goto(w, s),
         job[w].step \in Locked \ {"search"}
  PROVE  \E j \in Jobs :
           /\ job' = [job EXCEPT ![w] = j] /\ Good(j) /\ j.step = s
           /\ j.event = job[w].event /\ j.alone = job[w].alone
           /\ SameFiles(job[w], j)
<1>. DEFINE j == [job[w] EXCEPT !.step = s]
<1>1. job[w] \in Jobs /\ Good(job[w])
  BY DEF JobsInv
<1>2. job' = [job EXCEPT ![w] = j]
  BY DEF Goto, JobsInv
<1>3. s \in Steps
  BY DEF Steps, Locked
<1>. HIDE DEF j
<1>4. /\ j \in Jobs /\ j.step = s /\ j.event = job[w].event /\ j.at = job[w].at
      /\ j.alone = job[w].alone /\ SameFiles(job[w], j)
  BY <1>1, <1>3, StepSet DEF j
<1>5. Good(j)
  BY <1>1, <1>4 DEF Good, Locked
<1>. QED
  BY <1>2, <1>4, <1>5

LEMMA OpenJob ==
  ASSUME JobsInv, NEW w \in Workers, Open(w)
  PROVE  \E j \in Jobs :
           /\ job' = [job EXCEPT ![w] = j] /\ Good(j)
           /\ job[w].step = "open" /\ j.step = "write" /\ j.open = 0
           /\ j.event = job[w].event /\ j.alone = job[w].alone
           /\ SameFiles(job[w], j)
<1>. DEFINE i == [job[w] EXCEPT !.step = "write"]
            j == [i EXCEPT !.open = 0]
<1>1. job[w] \in Jobs /\ Good(job[w]) /\ job[w].step = "open"
  BY DEF JobsInv, Open, At
<1>2. job' = [job EXCEPT ![w] = j]
  BY DEF Open, JobsInv
<1>3. "write" \in Steps /\ 0 \in 0..Rotations
  BY Numbers DEF Steps, Locked
<1>. HIDE DEF j
<1>4. /\ i \in Jobs /\ i.step = "write" /\ i.event = job[w].event
      /\ i.at = job[w].at /\ i.alone = job[w].alone /\ SameFiles(job[w], i)
  BY <1>1, <1>3, StepSet
<1>. HIDE DEF i
<1>5. /\ j \in Jobs /\ j.step = i.step /\ j.event = i.event /\ j.at = i.at
      /\ j.alone = i.alone /\ j.open = 0 /\ SameFiles(i, j)
  BY <1>3, <1>4, OpenSet DEF j
<1>6. Good(j)
  BY <1>1, <1>4, <1>5 DEF Good, Locked
<1>. QED
  BY <1>1, <1>2, <1>4, <1>5, <1>6 DEF SameFiles

\* The next file is gone to, whether or not one was moved.
Advanced(j, s, n) == [j EXCEPT !.step = s, !.at = n]

LEMMA NextFile ==
  ASSUME NEW j \in Jobs, Good(j), j.step \in {"drop", "shift", "roll"},
         NEW s \in {"shift", "roll", "open"}, NEW n \in Int,
         s = "shift" => n \in 1..(Rotations - 1)
  PROVE  LET k == Advanced(j, s, n) IN
         /\ k \in Jobs /\ Good(k) /\ k.step = s /\ k.at = n
         /\ k.event = j.event /\ k.alone = j.alone /\ k.open = j.open
         /\ SameFiles(j, k)
<1>. DEFINE i == [j EXCEPT !.step = s]
            k == Advanced(j, s, n)
<1>1. s \in Steps
  BY DEF Steps, Locked
<1>2. /\ i \in Jobs /\ i.step = s /\ i.event = j.event /\ i.open = j.open
      /\ i.alone = j.alone /\ SameFiles(j, i)
  BY <1>1, StepSet
<1>3. k = [i EXCEPT !.at = n]
  BY DEF Advanced
<1>. HIDE DEF i, k
<1>4. /\ k \in Jobs /\ k.step = i.step /\ k.event = i.event /\ k.at = n
      /\ k.open = i.open /\ k.alone = i.alone /\ SameFiles(i, k)
  BY <1>2, <1>3, AtSet
<1>5. Good(k)
  BY <1>2, <1>4 DEF Good, Locked
<1>6. SameFiles(j, k)
  BY <1>2, <1>4 DEF SameFiles
<1>. QED
  BY <1>2, <1>4, <1>5, <1>6 DEF k, i

\* Which file a step of the rotation is at, and what comes next.
MoveAt(w, i, s) ==
  /\ i \in 0..Rotations /\ s \in {"shift", "roll", "open"}
  /\ s = "shift" => i - 1 \in 1..(Rotations - 1)
  /\ s = "roll" => i = 1
  /\ s = "open" => i = 0
  /\ \/ At(w, "drop") /\ i = Rotations
     \/ At(w, "shift") /\ i = job[w].at
     \/ At(w, "roll") /\ i = 0

LEMMA MoveCases ==
  ASSUME JobsInv, NEW w \in Workers, Drop(w) \/ Shift(w) \/ Roll(w)
  PROVE  \E i \in 0..Rotations, s \in {"shift", "roll", "open"} :
           MoveAt(w, i, s) /\ Move(w, i, s)
<1>1. CASE Drop(w)
  <2>. DEFINE s == IF Rotations > 1 THEN "shift" ELSE "roll"
  <2>1. Move(w, Rotations, s) /\ At(w, "drop") /\ MoveAt(w, Rotations, s)
    BY <1>1, Numbers DEF Drop, MoveAt
  <2>. QED
    BY <2>1 DEF MoveAt
<1>2. CASE Shift(w)
  <2>. DEFINE i == job[w].at
              s == IF i > 1 THEN "shift" ELSE "roll"
  <2>1. i \in 1..(Rotations - 1)
    BY <1>2 DEF Shift, At, JobsInv, Good
  <2>2. Move(w, i, s) /\ At(w, "shift") /\ MoveAt(w, i, s)
    BY <1>2, <2>1, Numbers DEF Shift, MoveAt
  <2>. QED
    BY <2>2 DEF MoveAt
<1>3. CASE Roll(w)
  <2>1. Move(w, 0, "open") /\ MoveAt(w, 0, "open")
    BY <1>3, Numbers DEF Roll, MoveAt
  <2>. QED
    BY <2>1 DEF MoveAt
<1>. QED
  BY <1>1, <1>2, <1>3

\* What the name of an open file becomes when the file at i is moved.
Renamed(o, i) ==
  IF o = i + 1 THEN Gone ELSE IF o = i /\ i < Rotations THEN i + 1
  ELSE IF o = i THEN Gone ELSE o

LEMMA RenamedType ==
  ASSUME NEW o \in (0..Rotations) \cup {Gone}, NEW i \in 0..Rotations
  PROVE  Renamed(o, i) \in (0..Rotations) \cup {Gone}
BY Numbers DEF Renamed

LEMMA MovedJobs ==
  ASSUME JobsInv, NEW w \in Workers, NEW i \in 0..Rotations,
         NEW s \in {"shift", "roll", "open"}, MoveAt(w, i, s), job' = Then(w, s, i)
  PROVE  /\ JobsInv'
         /\ job'[w].step = s /\ job'[w].at = i - 1
         /\ \A v \in Workers :
              /\ job'[v].event = job[v].event /\ job'[v].alone = job[v].alone
              /\ SameFiles(job[v], job'[v])
         /\ \A v \in Workers \ {w} :
              /\ job'[v].step = job[v].step /\ job'[v].at = job[v].at
              /\ job[v].step = "write" => job'[v].open = Renamed(job[v].open, i)
<1>1. \A v \in Workers : job[v] \in Jobs /\ Good(job[v])
  BY DEF JobsInv
<1>. DEFINE k == Advanced(job[w], s, i - 1)
            re == Reopened(i)
<1>2. job[w].step \in {"drop", "shift", "roll"} /\ re[w] = job[w]
  BY DEF MoveAt, Reopened, At
<1>3. job' = [re EXCEPT ![w] = k]
  BY <1>2 DEF Then, Reopened, Advanced
<1>4. /\ k \in Jobs /\ Good(k) /\ k.step = s /\ k.at = i - 1
      /\ k.event = job[w].event /\ k.alone = job[w].alone
      /\ SameFiles(job[w], k)
  <2>. DEFINE n == i - 1
  <2>1. n \in Int /\ (s = "shift" => n \in 1..(Rotations - 1))
    BY DEF MoveAt
  <2>2. k = Advanced(job[w], s, n)
    OBVIOUS
  <2>. HIDE DEF n, k
  <2>3. /\ k \in Jobs /\ Good(k) /\ k.step = s /\ k.at = n
        /\ k.event = job[w].event /\ k.alone = job[w].alone
        /\ SameFiles(job[w], k)
    BY <1>1, <1>2, <2>1, <2>2, NextFile
  <2>. QED
    BY <2>3 DEF n
<1>5. ASSUME NEW v \in Workers
      PROVE  /\ re[v] \in Jobs /\ Good(re[v])
             /\ re[v].event = job[v].event /\ re[v].alone = job[v].alone
             /\ SameFiles(job[v], re[v])
             /\ re[v].step = job[v].step /\ re[v].at = job[v].at
             /\ job[v].step = "write" => re[v].open = Renamed(job[v].open, i)
  <2>. DEFINE o == Renamed(job[v].open, i)
              c == [job[v] EXCEPT !.open = o]
  <2>1. o \in (0..Rotations) \cup {Gone}
    BY <1>1, RenamedType DEF Jobs
  <2>2. /\ c \in Jobs /\ c.step = job[v].step /\ c.event = job[v].event
        /\ c.at = job[v].at /\ c.open = o /\ c.alone = job[v].alone
        /\ SameFiles(job[v], c)
    <3>. HIDE DEF o
    <3>. QED
      BY <1>1, <2>1, OpenSet
  <2>3. Good(c)
    <3>. HIDE DEF c
    <3>. QED
      BY <1>1, <2>2 DEF Good
  <2>4. SameFiles(job[v], job[v])
    BY DEF SameFiles
  <2>5. CASE job[v].step # "write"
    BY <1>1, <2>4, <2>5 DEF Reopened, At
  <2>6. CASE job[v].step = "write" /\ o # job[v].open
    <3>1. re[v] = c
      BY <2>6 DEF Reopened, At, Renamed
    <3>. HIDE DEF re, c, o
    <3>. QED
      BY <2>2, <2>3, <3>1 DEF o
  <2>7. CASE job[v].step = "write" /\ o = job[v].open
    <3>1. re[v] = job[v] \/ re[v] = c
      BY <2>7 DEF Reopened, At, Renamed
    <3>. HIDE DEF re, c
    <3>. QED
      BY <1>1, <2>2, <2>3, <2>4, <2>7, <3>1
  <2>. QED
    BY <2>5, <2>6, <2>7
<1>6. DOMAIN re = Workers
  BY DEF Reopened
<1>. HIDE DEF re, k
<1>7. job'[w] = k /\ \A v \in Workers \ {w} : job'[v] = re[v]
  BY <1>3, <1>6
<1>8. JobsInv'
  <2>1. \A v \in Workers : job'[v] \in Jobs /\ Good(job'[v])
    BY <1>4, <1>5, <1>7
  <2>2. job' = [v \in Workers |-> job'[v]]
    BY <1>3, <1>6
  <2>. QED
    BY <2>1, <2>2 DEF JobsInv
<1>. QED
  BY <1>4, <1>5, <1>7, <1>8

\* A job of the rotation goes on to the next file, for there is none at i.
Skipped(w, s, i) == job' = [job EXCEPT ![w].step = s, ![w].at = i - 1]

LEMMA SkippedJob ==
  ASSUME JobsInv, NEW w \in Workers, NEW i \in 0..Rotations,
         NEW s \in {"shift", "roll", "open"}, MoveAt(w, i, s), Skipped(w, s, i)
  PROVE  \E j \in Jobs :
           /\ job' = [job EXCEPT ![w] = j] /\ Good(j) /\ j.step = s
           /\ j.at = i - 1
           /\ j.event = job[w].event /\ j.alone = job[w].alone
           /\ SameFiles(job[w], j)
<1>. DEFINE n == i - 1
            k == Advanced(job[w], s, n)
<1>1. /\ job[w] \in Jobs /\ Good(job[w])
      /\ job[w].step \in {"drop", "shift", "roll"}
  BY DEF JobsInv, MoveAt, At
<1>2. job' = [job EXCEPT ![w] = k]
  BY DEF JobsInv, Advanced, Skipped
<1>3. n \in Int /\ (s = "shift" => n \in 1..(Rotations - 1))
  BY DEF MoveAt
<1>. HIDE DEF n
<1>4. /\ k \in Jobs /\ Good(k) /\ k.step = s /\ k.at = n
      /\ k.event = job[w].event /\ k.alone = job[w].alone
      /\ SameFiles(job[w], k)
  BY <1>1, <1>3, NextFile
<1>. HIDE DEF k
<1>. QED
  BY <1>2, <1>4 DEF n

LEMMA CrashJobs ==
  ASSUME JobsInv, NEW p \in Processes, Crash(p)
  PROVE  /\ JobsInv'
         /\ \A v \in Workers : job'[v] = IF Home[v] = p THEN NoJob ELSE job[v]
BY NoJobType DEF Crash, JobsInv

-----------------------------------------------------------------------------
(* The report files.  A writer that removes files removes those of groups  *)
(* that were not pinned when it made its list.                             *)

Writing == {"inventory", "unlink", "source", "report"}

FilesInv ==
  /\ now \in 0..MaxTime /\ begun \in 0..MaxReports /\ pins \in 0..MaxPins
  /\ \A f \in DOMAIN files : f \in (1..begun) \X Parts /\ files[f] \in 0..now
  /\ \A w \in Workers :
       /\ job[w].step \in Writing => job[w].group \in 1..begun
       /\ job[w].step = "unlink" =>
            \A f \in job[w].listed : ~Pinned(job[w].found, f[1])

LEMMA FileNamesType == FilesInv => DOMAIN files \subseteq FileNames
<1>. SUFFICES ASSUME FilesInv, NEW f \in DOMAIN files PROVE f \in FileNames
  OBVIOUS
<1>1. f \in (1..begun) \X Parts /\ begun \in Nat
  BY Numbers DEF FilesInv
<1>. QED
  BY <1>1 DEF FileNames

\* The steps that write a record or move one, and those of nobody.
Logging(w) ==
  \/ Lock(w) \/ Search(w) \/ Rotate(w) \/ Drop(w) \/ Shift(w) \/ Roll(w)
  \/ RotateFails(w) \/ Open(w) \/ Write(w) \/ LogFails(w)
Asking(w) ==
  \/ \E s \in Sources : Reuse(w, s)
  \/ \E s \in Sources, c \in Calls : Retrieve(w, s, c)
  \/ \E t \in Turns : CompleteTurn(w, t)
Reporting(w) ==
  \/ \E s \in Sources : Reduce(w, s)
  \/ Inventory(w) \/ Unlink(w) \/ WriteSource(w) \/ WriteReport(w)
Aside == Tick \/ (\E g \in 1..MaxReports : Pin(g)) \/ UNCHANGED vars

LEMMA Steps4 ==
  ASSUME [Next]_vars
  PROVE  \/ \E w \in Workers : Logging(w) \/ Asking(w) \/ Reporting(w)
         \/ Aside
         \/ \E p \in Processes : Crash(p)
BY DEF Next, Work, Logging, Asking, Reporting, Aside

\* A job inside the lock goes on, moves a file or ends.
LEMMA LoggingJobs ==
  ASSUME JobsInv, NEW w \in Workers, Logging(w)
  PROVE  /\ JobsInv'
         /\ job[w].step \in Locked \cup {"lock"}
         /\ job'[w].step \in Locked \/ job'[w] = NoJob
         /\ \A v \in Workers \ {w} :
              job'[v].step = job[v].step /\ SameFiles(job[v], job'[v])
<1>. DEFINE Goal ==
        /\ JobsInv'
        /\ job[w].step \in Locked \cup {"lock"}
        /\ job'[w].step \in Locked \/ job'[w] = NoJob
        /\ \A v \in Workers \ {w} :
             job'[v].step = job[v].step /\ SameFiles(job[v], job'[v])
<1>1. ASSUME NEW j \in Jobs, Good(j), job' = [job EXCEPT ![w] = j],
             j.step \in Locked \/ j = NoJob, job[w].step \in Locked
      PROVE  Goal
  BY <1>1, JobMove DEF SameFiles
<1>2. CASE Lock(w)
  BY <1>2, LockJob DEF Locked
<1>3. CASE Search(w)
  BY <1>1, <1>3, SearchJob DEF Locked
<1>4. ASSUME NEW s \in {"drop", "open"}, Goto(w, s),
             job[w].step \in Locked \ {"search"}
      PROVE  Goal
  BY <1>1, <1>4, GotoJob DEF Locked
<1>5. CASE Rotate(w) \/ RotateFails(w)
  BY <1>4, <1>5 DEF Rotate, RotateFails, At, Locked
<1>6. CASE Drop(w) \/ Shift(w) \/ Roll(w)
  <2>1. PICK i \in 0..Rotations, s \in {"shift", "roll", "open"} :
          MoveAt(w, i, s) /\ Move(w, i, s)
    BY <1>6, MoveCases
  <2>2. job[w].step \in {"drop", "shift", "roll"} /\ s \in Locked
    BY <2>1 DEF MoveAt, At, Locked
  <2>3. CASE job' = Then(w, s, i)
    BY <2>1, <2>2, <2>3, MovedJobs DEF Locked
  <2>4. CASE Skipped(w, s, i)
    BY <1>1, <2>1, <2>2, <2>4, SkippedJob DEF Locked
  <2>5. CASE Goto(w, "open")
    BY <1>4, <2>2, <2>5 DEF Locked
  <2>. QED
    BY <2>1, <2>3, <2>4, <2>5 DEF Move, Skipped
<1>7. CASE Open(w)
  BY <1>1, <1>7, OpenJob DEF Locked
<1>8. CASE Write(w) \/ LogFails(w)
  <2>1. job' = [job EXCEPT ![w] = NoJob] /\ job[w].step \in Locked
    BY <1>8 DEF Write, LogFails, Done, At, Locked
  <2>. QED
    BY <1>1, <2>1, NoJobType
<1>. QED
  BY <1>2, <1>3, <1>5, <1>6, <1>7, <1>8 DEF Logging

LEMMA LoggingFiles ==
  ASSUME NEW w \in Workers, Logging(w)
  PROVE  UNCHANGED <<now, files, pruned, begun, pins>>
<1>1. CASE Lock(w)
  BY <1>1 DEF Lock, Locking, reports
<1>2. CASE Drop(w) \/ Shift(w) \/ Roll(w)
  BY <1>2 DEF Drop, Shift, Roll, Move, reports
<1>. QED
  BY <1>1, <1>2
  DEF Logging, Search, Rotate, RotateFails, Open, Write, LogFails, reports

LEMMA SelectedUnpinned ==
  ASSUME NEW G \in Selected(files), NEW f \in OfGroups(DOMAIN files, G)
  PROVE  ~Pinned(DOMAIN files, f[1])
<1>. DEFINE all == {h[1] : h \in DOMAIN files}
            free == all \ Keeping(files)
<1>1. G \subseteq free
  BY DEF Selected, Prunable
<1>2. f[1] \in G
  BY DEF OfGroups
<1>. QED
  BY <1>1, <1>2 DEF Keeping

LEMMA FilesStep ==
  ASSUME JobsInv, FilesInv, [Next]_vars
  PROVE  JobsInv' /\ FilesInv'
<1>0. DOMAIN files \subseteq FileNames /\ begun \in Nat /\ now \in Nat /\ pins \in Nat
  BY FileNamesType, Numbers DEF FilesInv
<1>1. ASSUME NEW w \in Workers, NEW j \in Jobs, Good(j),
             job' = [job EXCEPT ![w] = j], UNCHANGED <<now, files, pins>>,
             begun' \in {begun, begun + 1}, begun' \in 0..MaxReports,
             j.step \in Writing => j.group \in 1..begun',
             j.step = "unlink" => \A f \in j.listed : ~Pinned(j.found, f[1])
      PROVE  JobsInv' /\ FilesInv'
  <2>1. /\ JobsInv' /\ job'[w] = j
        /\ \A v \in Workers \ {w} : job'[v] = job[v]
    BY <1>1, JobMove
  <2>2. 1..begun \subseteq 1..begun'
    BY <1>0, <1>1
  <2>. QED
    BY <1>1, <2>1, <2>2 DEF FilesInv
<1>2. ASSUME NEW w \in Workers, NEW s \in Sources, Reduce(w, s)
      PROVE  JobsInv' /\ FilesInv'
  <2>1. /\ UNCHANGED <<now, files, pins>> /\ begun' = begun + 1
        /\ begun < MaxReports
    BY <1>2 DEF Reduce
  <2>2. begun' \in 0..MaxReports /\ begun + 1 \in 1..begun'
    BY <1>0, <2>1, Numbers
  <2>. QED
    BY <1>0, <1>1, <1>2, <2>1, <2>2, ReduceJob
<1>3. ASSUME NEW w \in Workers, Inventory(w) PROVE JobsInv' /\ FilesInv'
  <2>1. UNCHANGED <<now, files, pins, begun>>
    BY <1>3 DEF Inventory, reports
  <2>2. PICK j \in Jobs, G \in Selected(files) :
           /\ job' = [job EXCEPT ![w] = j] /\ Good(j)
           /\ j.step \in {"source", "unlink"} /\ j.group = job[w].group
           /\ j.listed = OfGroups(DOMAIN files, G) /\ j.found = DOMAIN files
           /\ job[w].step = "inventory"
    BY <1>0, <1>3, InventoryJob
  <2>3. \A f \in j.listed : ~Pinned(j.found, f[1])
    BY <2>2, SelectedUnpinned
  <2>4. j.group \in 1..begun' /\ begun' \in 0..MaxReports
    BY <2>1, <2>2 DEF FilesInv, Writing
  <2>. QED
    BY <1>1, <2>1, <2>2, <2>3, <2>4
<1>4. ASSUME NEW w \in Workers, Unlink(w) PROVE JobsInv' /\ FilesInv'
  <2>1. UNCHANGED <<now, pins, begun>>
    BY <1>4 DEF Unlink
  <2>2. PICK j \in Jobs, f \in job[w].listed :
           /\ job' = [job EXCEPT ![w] = j] /\ Good(j)
           /\ j.step \in {"source", "unlink"} /\ j.group = job[w].group
           /\ j.listed = job[w].listed \ {f} /\ j.found = job[w].found
           /\ job[w].step = "unlink"
           /\ files' = files \/ files' = [h \in DOMAIN files \ {f} |-> files[h]]
    BY <1>4, UnlinkJob
  <2>3. /\ JobsInv' /\ job'[w] = j
        /\ \A v \in Workers \ {w} : job'[v] = job[v]
    BY <2>2, JobMove
  <2>4. \A h \in DOMAIN files' : h \in DOMAIN files /\ files'[h] = files[h]
    BY <2>2
  <2>5. /\ j.group \in 1..begun
        /\ \A h \in j.listed : ~Pinned(j.found, h[1])
    BY <2>2 DEF FilesInv, Writing
  <2>. QED
    BY <2>1, <2>3, <2>4, <2>5 DEF FilesInv
<1>5. ASSUME NEW w \in Workers, WriteSource(w) \/ WriteReport(w)
      PROVE  JobsInv' /\ FilesInv'
  <2>1. UNCHANGED <<now, pins, begun>>
    BY <1>5 DEF WriteSource, WriteReport, WritePart
  <2>2. PICK j \in Jobs, part \in {"source", "report"} :
           /\ job' = [job EXCEPT ![w] = j] /\ Good(j)
           /\ job[w].step = part
           /\ j.step = IF part = "source" THEN "report" ELSE "lock"
           /\ j.group = job[w].group
           /\ files' = [f \in DOMAIN files \cup {<<job[w].group, part>>} |->
                          IF f = <<job[w].group, part>> THEN now ELSE files[f]]
    BY <1>5, WritePartJob
  <2>3. /\ JobsInv' /\ job'[w] = j
        /\ \A v \in Workers \ {w} : job'[v] = job[v]
    BY <2>2, JobMove
  <2>4. job[w].group \in 1..begun /\ part \in Parts
    BY <2>2 DEF FilesInv, Writing, Parts
  <2>5. \A f \in DOMAIN files' : f \in (1..begun) \X Parts /\ files'[f] \in 0..now
    BY <1>0, <2>2, <2>4 DEF FilesInv
  <2>6. /\ j.step \in Writing => j.group \in 1..begun
        /\ j.step # "unlink"
    BY <2>2, <2>4
  <2>. QED
    BY <2>1, <2>3, <2>5, <2>6 DEF FilesInv
<1>6. ASSUME NEW w \in Workers, Asking(w) PROVE JobsInv' /\ FilesInv'
  <2>1. PICK j \in Jobs :
           /\ job' = [job EXCEPT ![w] = j] /\ Good(j)
           /\ job[w].step = "idle" /\ j.step = "lock"
           /\ UNCHANGED <<now, reports>>
    BY <1>6, RecordJob DEF Asking
  <2>2. UNCHANGED <<now, files, pins, begun>> /\ begun' \in 0..MaxReports
    BY <2>1 DEF reports, FilesInv
  <2>. QED
    BY <1>1, <2>1, <2>2 DEF Writing
<1>7. ASSUME NEW w \in Workers, Logging(w) PROVE JobsInv' /\ FilesInv'
  <2>1. /\ JobsInv'
        /\ job'[w].step \in Locked \/ job'[w] = NoJob
        /\ \A v \in Workers \ {w} :
             job'[v].step = job[v].step /\ SameFiles(job[v], job'[v])
    BY <1>7, LoggingJobs
  <2>2. UNCHANGED <<now, files, begun, pins>>
    BY <1>7, LoggingFiles
  <2>3. job'[w].step \notin Writing /\ job'[w].step # "unlink"
    BY <2>1, NoJobType DEF Locked, Writing
  <2>. QED
    BY <2>1, <2>2, <2>3 DEF FilesInv, SameFiles
<1>8. CASE Aside
  <2>1. CASE UNCHANGED vars
    BY <2>1 DEF vars, reports, JobsInv, FilesInv
  <2>2. CASE Tick
    <3>1. /\ UNCHANGED <<files, begun, pins, job>> /\ now' = now + 1
          /\ now < MaxTime
      BY <2>2 DEF Tick, reports
    <3>2. now' \in 0..MaxTime /\ 0..now \subseteq 0..now'
      BY <1>0, <3>1, Numbers
    <3>. QED
      BY <3>1, <3>2 DEF FilesInv, JobsInv
  <2>3. ASSUME NEW g \in 1..MaxReports, Pin(g) PROVE JobsInv' /\ FilesInv'
    <3>1. /\ UNCHANGED <<now, begun, job>> /\ pins' = pins + 1 /\ pins < MaxPins
          /\ files' = [f \in DOMAIN files \cup {<<g, "keep">>} |->
                         IF f = <<g, "keep">> THEN now ELSE files[f]]
      BY <2>3 DEF Pin
    <3>2. PICK f \in DOMAIN files : f[1] = g
      BY <2>3 DEF Pin
    <3>3. g \in 1..begun /\ "keep" \in Parts
      BY <3>2 DEF FilesInv, Parts
    <3>4. pins' \in 0..MaxPins
      BY <1>0, <3>1, Numbers
    <3>5. \A h \in DOMAIN files' : h \in (1..begun) \X Parts /\ files'[h] \in 0..now
      BY <1>0, <3>1, <3>3 DEF FilesInv
    <3>. QED
      BY <3>1, <3>4, <3>5 DEF FilesInv, JobsInv
  <2>. QED
    BY <1>8, <2>1, <2>2, <2>3 DEF Aside
<1>9. ASSUME NEW p \in Processes, Crash(p) PROVE JobsInv' /\ FilesInv'
  <2>1. /\ JobsInv'
        /\ \A v \in Workers : job'[v] = IF Home[v] = p THEN NoJob ELSE job[v]
    BY <1>9, CrashJobs
  <2>2. UNCHANGED <<now, files, begun, pins>> /\ NoJob.step = "idle"
    BY <1>9, NoJobType DEF Crash
  <2>. QED
    BY <2>1, <2>2 DEF FilesInv, Writing
<1>. QED
  BY <1>2, <1>3, <1>4, <1>5, <1>6, <1>7, <1>8, <1>9, Steps4 DEF Reporting

LEMMA InitFiles == Init => FilesInv
BY Numbers, NoJobType DEF Init, FilesInv, Writing

\* PinnedKept for every number of processes and reports: pruning
\* (retention.py:113) removes no file of a group that was pinned when the
\* pruning writer looked.
THEOREM PinnedIsKept == Spec => PinnedKept
<1>1. JobsInv /\ FilesInv /\ [Next]_vars =>
        [\A f \in DOMAIN files \ DOMAIN files' :
           Pinned(DOMAIN files, f[1]) =>
             \E w \in Workers : At(w, "unlink") /\ ~Pinned(job[w].found, f[1])]_vars
  <2>. SUFFICES ASSUME JobsInv, FilesInv, Next, NEW f \in DOMAIN files \ DOMAIN files'
                PROVE  \E w \in Workers :
                         At(w, "unlink") /\ ~Pinned(job[w].found, f[1])
    OBVIOUS
  <2>1. CASE DOMAIN files \subseteq DOMAIN files'
    BY <2>1
  <2>2. ASSUME NEW w \in Workers, Unlink(w)
        PROVE  At(w, "unlink") /\ ~Pinned(job[w].found, f[1])
    <3>1. PICK g \in job[w].listed :
            \/ files' = files
            \/ files' = [h \in DOMAIN files \ {g} |-> files[h]]
      BY <2>2, UnlinkJob
    <3>2. f = g
      BY <3>1
    <3>. QED
      BY <2>2, <3>2 DEF Unlink, At, FilesInv
  <2>3. ASSUME NEW w \in Workers, Reporting(w), ~Unlink(w)
        PROVE  DOMAIN files \subseteq DOMAIN files'
    BY <2>3 DEF Reporting, Reduce, Inventory, WriteSource, WriteReport, WritePart,
                reports
  <2>4. ASSUME NEW w \in Workers, Logging(w) PROVE files' = files
    BY <2>4, LoggingFiles
  <2>5. ASSUME NEW w \in Workers, Asking(w) PROVE files' = files
    BY <2>5, RecordJob DEF Asking, reports
  <2>6. CASE Aside
    BY <2>1, <2>6 DEF Aside, Tick, Pin, vars, reports
  <2>7. ASSUME NEW p \in Processes, Crash(p) PROVE files' = files
    BY <2>7 DEF Crash
  <2>. QED
    BY <2>1, <2>2, <2>3, <2>4, <2>5, <2>6, <2>7, Steps4
<1>2. JobsInv /\ FilesInv /\ [Next]_vars => (JobsInv /\ FilesInv)'
  BY FilesStep
<1>. QED
  BY <1>1, <1>2, InitJobs, InitFiles, PTL DEF Spec, PinnedKept

-----------------------------------------------------------------------------
(* The lock of the event log: one thread of a process holds it, and two    *)
(* that hold the locks of two processes know that they are not alone.      *)

InLock(w) == job[w].step \in Locked

LocksInv ==
  /\ held \subseteq Processes
  /\ \A p \in Processes : p \in held <=> \E w \in Workers : Home[w] = p /\ InLock(w)
  /\ \A v, w \in Workers : v # w /\ InLock(v) /\ InLock(w) =>
       Home[v] # Home[w] /\ ~job[v].alone /\ ~job[w].alone

\* The steps between taking the lock and writing.
Inside(w) ==
  \/ Search(w) \/ Rotate(w) \/ Drop(w) \/ Shift(w) \/ Roll(w)
  \/ RotateFails(w) \/ Open(w)

LEMMA InsideJobs ==
  ASSUME JobsInv, NEW w \in Workers, Inside(w)
  PROVE  /\ JobsInv' /\ InLock(w) /\ InLock(w)'
         /\ \A v \in Workers : SameEvent(job[v], job'[v])
         /\ \A v \in Workers \ {w} :
              /\ job'[v].step = job[v].step /\ job'[v].at = job[v].at
              /\ job'[v].event = job[v].event
         /\ job'[w].event.new => job[w].event.new
         /\ ~Search(w) => job'[w].step # "search" /\ job'[w].event = job[w].event
         /\ UNCHANGED <<now, reports, held, written, marked, asked>>
<1>. DEFINE Goal ==
       /\ InLock(w) /\ InLock(w)'
       /\ \A v \in Workers : SameEvent(job[v], job'[v])
       /\ \A v \in Workers \ {w} :
            /\ job'[v].step = job[v].step /\ job'[v].at = job[v].at
            /\ job'[v].event = job[v].event
       /\ job'[w].event.new => job[w].event.new
       /\ ~Search(w) => job'[w].step # "search" /\ job'[w].event = job[w].event
<1>0. JobsInv'
  BY LoggingJobs DEF Inside, Logging
<1>1. UNCHANGED <<now, reports, held, written, marked, asked>>
  BY DEF Inside, Search, Rotate, Drop, Shift, Roll, Move, RotateFails, Open, events
<1>2. ASSUME NEW j \in Jobs, Good(j), job' = [job EXCEPT ![w] = j],
             j.step \in Locked \ {"search"}, InLock(w),
             j.event = job[w].event, j.alone = job[w].alone
      PROVE  Goal
  <2>1. job'[w] = j /\ \A v \in Workers \ {w} : job'[v] = job[v]
    BY <1>2, JobMove
  <2>. QED
    BY <1>2, <2>1 DEF InLock, SameEvent
<1>3. CASE Search(w)
  <2>1. PICK j \in Jobs :
          /\ job' = [job EXCEPT ![w] = j] /\ Good(j) /\ job[w].step = "search"
          /\ SameEvent(job[w], j) /\ j.step \in {"search", "rotate"}
          /\ j.event.new => job[w].event.new
    BY <1>3, SearchJob
  <2>2. job'[w] = j /\ \A v \in Workers \ {w} : job'[v] = job[v]
    BY <2>1, JobMove
  <2>. QED
    BY <1>0, <1>1, <1>3, <2>1, <2>2 DEF InLock, Locked, SameEvent
<1>4. ASSUME NEW s \in {"drop", "open"}, Goto(w, s), InLock(w),
             job[w].step # "search"
      PROVE  Goal
  BY <1>2, <1>4, GotoJob DEF Locked, InLock
<1>5. CASE Rotate(w) \/ RotateFails(w)
  BY <1>0, <1>1, <1>4, <1>5 DEF Rotate, RotateFails, At, Locked, InLock
<1>6. CASE Drop(w) \/ Shift(w) \/ Roll(w)
  <2>1. PICK i \in 0..Rotations, s \in {"shift", "roll", "open"} :
          MoveAt(w, i, s) /\ Move(w, i, s)
    BY <1>6, MoveCases
  <2>2. /\ job[w].step \in {"drop", "shift", "roll"} /\ s \in Locked \ {"search"}
        /\ InLock(w)
    BY <2>1 DEF MoveAt, At, Locked, InLock
  <2>3. CASE job' = Then(w, s, i)
    BY <1>0, <1>1, <2>1, <2>2, <2>3, MovedJobs DEF InLock, SameEvent
  <2>4. CASE Skipped(w, s, i)
    BY <1>0, <1>1, <1>2, <2>1, <2>2, <2>4, SkippedJob
  <2>5. CASE Goto(w, "open")
    BY <1>0, <1>1, <1>4, <2>2, <2>5
  <2>. QED
    BY <2>1, <2>3, <2>4, <2>5 DEF Move, Skipped
<1>7. CASE Open(w)
  BY <1>0, <1>1, <1>2, <1>7, OpenJob DEF Locked, InLock
<1>. QED
  BY <1>3, <1>5, <1>6, <1>7 DEF Inside

LEMMA OutsideJobs ==
  ASSUME JobsInv, FilesInv, NEW w \in Workers, Asking(w) \/ Reporting(w)
  PROVE  /\ ~InLock(w) /\ ~InLock(w)' /\ job'[w].step # "idle"
         /\ \A v \in Workers \ {w} : job'[v] = job[v]
         /\ UNCHANGED events
<1>0. DOMAIN files \subseteq FileNames /\ begun \in Nat
  BY FileNamesType, Numbers DEF FilesInv
<1>1. UNCHANGED events
  <2>1. CASE Asking(w)
    BY <2>1, RecordJob DEF Asking
  <2>2. CASE Reporting(w)
    BY <2>2 DEF Reporting, Reduce, Inventory, Unlink, WriteSource, WriteReport,
                WritePart
  <2>. QED
    BY <2>1, <2>2
<1>2. \E j \in Jobs : /\ job' = [job EXCEPT ![w] = j] /\ Good(j)
                      /\ job[w].step \notin Locked /\ j.step \notin Locked \cup {"idle"}
  <2>1. CASE Asking(w)
    <3>1. PICK j \in Jobs :
            /\ job' = [job EXCEPT ![w] = j] /\ Good(j)
            /\ job[w].step = "idle" /\ j.step = "lock"
      BY <2>1, RecordJob DEF Asking
    <3>. QED
      BY <3>1 DEF Locked
  <2>2. ASSUME NEW s \in Sources, Reduce(w, s)
        PROVE  \E j \in Jobs :
                 /\ job' = [job EXCEPT ![w] = j] /\ Good(j)
                 /\ job[w].step \notin Locked /\ j.step \notin Locked \cup {"idle"}
    BY <1>0, <2>2, ReduceJob DEF Locked
  <2>3. CASE Inventory(w)
    BY <1>0, <2>3, InventoryJob DEF Locked
  <2>4. CASE Unlink(w)
    BY <2>4, UnlinkJob DEF Locked
  <2>5. CASE WriteSource(w) \/ WriteReport(w)
    BY <2>5, WritePartJob DEF Locked
  <2>. QED
    BY <2>1, <2>2, <2>3, <2>4, <2>5 DEF Reporting
<1>3. PICK j \in Jobs : /\ job' = [job EXCEPT ![w] = j] /\ Good(j)
                        /\ job[w].step \notin Locked /\ j.step \notin Locked \cup {"idle"}
  BY <1>2
<1>4. job'[w] = j /\ \A v \in Workers \ {w} : job'[v] = job[v]
  BY <1>3, JobMove
<1>. QED
  BY <1>1, <1>3, <1>4 DEF InLock

\* A worker that ends, or all workers of a process that crashes.
Ends(w) == Write(w) \/ LogFails(w)

LEMMA EndsJobs ==
  ASSUME JobsInv, NEW w \in Workers, Ends(w)
  PROVE  /\ job'[w] = NoJob /\ \A v \in Workers \ {w} : job'[v] = job[v]
         /\ job[w].step \in {"open", "write"} /\ InLock(w) /\ ~InLock(w)'
         /\ held' = held \ {Home[w]} /\ crowded' = crowded
<1>1. job' = [job EXCEPT ![w] = NoJob] /\ held' = held \ {Home[w]}
      /\ job[w].step \in {"open", "write"} /\ crowded' = crowded
  BY DEF Ends, Write, LogFails, Done, At
<1>2. job'[w] = NoJob /\ \A v \in Workers \ {w} : job'[v] = job[v]
  BY <1>1, NoJobType, JobMove
<1>. QED
  BY <1>1, <1>2, NoJobType DEF InLock, Locked

LEMMA LocksStep ==
  ASSUME JobsInv, FilesInv, LocksInv, [Next]_vars
  PROVE  LocksInv'
<1>1. ASSUME held' = held,
             \A v \in Workers : InLock(v)' <=> InLock(v),
             \A v \in Workers : InLock(v) => job'[v].alone = job[v].alone
      PROVE  LocksInv'
  <2>1. \A p \in Processes : p \in held' <=> \E w \in Workers : Home[w] = p /\ InLock(w)'
    BY <1>1 DEF LocksInv
  <2>2. \A v, w \in Workers : v # w /\ InLock(v)' /\ InLock(w)' =>
          Home[v] # Home[w] /\ ~job'[v].alone /\ ~job'[w].alone
    BY <1>1 DEF LocksInv
  <2>3. held' \subseteq Processes
    BY <1>1 DEF LocksInv
  <2>. QED
    BY <2>1, <2>2, <2>3 DEF LocksInv
<1>2. ASSUME NEW p \in Processes, held' = held \ {p},
             \A v \in Workers : InLock(v)' <=> (InLock(v) /\ Home[v] # p),
             \A v \in Workers : InLock(v)' => job'[v].alone = job[v].alone
      PROVE  LocksInv'
  <2>1. \A q \in Processes : q \in held' <=> \E w \in Workers : Home[w] = q /\ InLock(w)'
    BY <1>2 DEF LocksInv
  <2>2. \A v, w \in Workers : v # w /\ InLock(v)' /\ InLock(w)' =>
          Home[v] # Home[w] /\ ~job'[v].alone /\ ~job'[w].alone
    BY <1>2 DEF LocksInv
  <2>3. held' \subseteq Processes
    BY <1>2 DEF LocksInv
  <2>. QED
    BY <2>1, <2>2, <2>3 DEF LocksInv
<1>3. ASSUME NEW w \in Workers, Lock(w) PROVE LocksInv'
  <2>. DEFINE busy == {v \in Others(w) : job[v].step \in Locked}
  <2>1. /\ ~InLock(w) /\ InLock(w)'
        /\ Home[w] \notin held /\ held' = held \cup {Home[w]}
        /\ job'[w].alone = (busy = {})
        /\ \A v \in Workers \ {w} :
             /\ InLock(v)' <=> InLock(v)
             /\ job'[v].alone = (job[v].alone /\ v \notin busy)
    <3>1. Home[w] \notin held /\ held' = held \cup {Home[w]}
      BY <1>3 DEF Lock, Locking
    <3>2. /\ job[w].step = "lock" /\ job'[w].step \in {"search", "rotate"}
          /\ job'[w].alone = (busy = {})
      BY <1>3, LockJob
    <3>3. \A v \in Workers \ {w} :
            /\ job'[v].step = job[v].step
            /\ job'[v].alone = (job[v].alone /\ v \notin busy)
      BY <1>3, LockJob
    <3>. QED
      BY <3>1, <3>2, <3>3 DEF InLock, Locked
  <2>2. Home[w] \in Processes
    BY DEF Processes
  <2>3. \A v \in Workers : InLock(v) => Home[v] # Home[w] /\ v \in busy
    <3>. SUFFICES ASSUME NEW v \in Workers, InLock(v)
                  PROVE  Home[v] # Home[w] /\ v \in busy
      OBVIOUS
    <3>1. Home[v] \in Processes
      BY DEF Processes
    <3>2. Home[v] \in held
      BY <3>1 DEF LocksInv
    <3>. QED
      BY <2>1, <3>2 DEF Others, InLock
  <2>. HIDE DEF busy
  <2>4. \A p \in Processes : p \in held' <=> \E v \in Workers : Home[v] = p /\ InLock(v)'
    BY <2>1 DEF LocksInv
  <2>5. \A u, v \in Workers : u # v /\ InLock(u)' /\ InLock(v)' =>
          Home[u] # Home[v] /\ ~job'[u].alone /\ ~job'[v].alone
    <3>1. ASSUME NEW u \in Workers, InLock(u)', u # w
          PROVE  Home[u] # Home[w] /\ ~job'[u].alone /\ ~job'[w].alone
      BY <2>1, <2>3, <3>1
    <3>2. ASSUME NEW u \in Workers, NEW v \in Workers, u # v, u # w, v # w,
                 InLock(u)', InLock(v)'
          PROVE  Home[u] # Home[v]
      BY <2>1, <3>2 DEF LocksInv
    <3>. QED
      BY <3>1, <3>2
  <2>6. held' \subseteq Processes
    BY <2>1, <2>2 DEF LocksInv
  <2>. QED
    BY <2>4, <2>5, <2>6 DEF LocksInv
<1>4. ASSUME NEW w \in Workers, Inside(w) PROVE LocksInv'
  <2>1. /\ InLock(w) /\ InLock(w)' /\ held' = held
        /\ \A v \in Workers : SameEvent(job[v], job'[v])
        /\ \A v \in Workers \ {w} : job'[v].step = job[v].step
    BY <1>4, InsideJobs
  <2>. QED
    BY <1>1, <2>1 DEF SameEvent, InLock
<1>5. ASSUME NEW w \in Workers, Ends(w) PROVE LocksInv'
  <2>1. /\ job'[w] = NoJob /\ \A v \in Workers \ {w} : job'[v] = job[v]
        /\ InLock(w) /\ ~InLock(w)' /\ held' = held \ {Home[w]}
    BY <1>5, EndsJobs
  <2>2. Home[w] \in Processes
    BY DEF Processes
  <2>3. \A v \in Workers \ {w} : InLock(v) => Home[v] # Home[w]
    BY <2>1 DEF LocksInv
  <2>4. \A v \in Workers : InLock(v)' <=> (InLock(v) /\ Home[v] # Home[w])
    BY <2>1, <2>3 DEF InLock
  <2>5. \A v \in Workers : InLock(v)' => job'[v].alone = job[v].alone
    BY <2>1
  <2>. QED
    BY <1>2, <2>1, <2>2, <2>4, <2>5
<1>6. ASSUME NEW w \in Workers, Asking(w) \/ Reporting(w) PROVE LocksInv'
  <2>1. /\ ~InLock(w) /\ ~InLock(w)' /\ held' = held
        /\ \A v \in Workers \ {w} : job'[v] = job[v]
    BY <1>6, OutsideJobs DEF events
  <2>. QED
    BY <1>1, <2>1 DEF InLock
<1>7. CASE Aside
  <2>1. UNCHANGED <<job, held>>
    BY <1>7 DEF Aside, Tick, Pin, vars, events
  <2>. QED
    BY <1>1, <2>1 DEF InLock
<1>8. ASSUME NEW p \in Processes, Crash(p) PROVE LocksInv'
  <2>1. \A v \in Workers : job'[v] = IF Home[v] = p THEN NoJob ELSE job[v]
    BY <1>8, CrashJobs
  <2>2. held' = held \ {p}
    BY <1>8 DEF Crash
  <2>3. NoJob.step \notin Locked
    BY NoJobType DEF Locked
  <2>4. /\ \A v \in Workers : InLock(v)' <=> (InLock(v) /\ Home[v] # p)
        /\ \A v \in Workers : InLock(v)' => job'[v].alone = job[v].alone
    BY <2>1, <2>3 DEF InLock
  <2>. QED
    BY <1>2, <2>2, <2>4
<1>. QED
  BY <1>3, <1>4, <1>5, <1>6, <1>7, <1>8, Steps4 DEF Logging, Inside, Ends

LEMMA InitLocks == Init => LocksInv
BY NoJobType DEF Init, LocksInv, InLock, Locked

-----------------------------------------------------------------------------
(* The files of the event log and what is in them.                         *)

Sound(e) == e.kind # "none" /\ (e.new => e.kind = "compressed")

LogInv ==
  /\ written \in Nat
  /\ log \in [0..Rotations -> Seq(Entry) \cup {Absent}]
  /\ \A i \in 0..Rotations : log[i] # Absent =>
       \A n \in 1..Len(log[i]) : Sound(log[i][n]) /\ log[i][n].id \in 1..written
  /\ \A w \in Workers : job[w].step = "write" =>
       job[w].open = Gone \/ log[job[w].open] # Absent

LEMMA LogTypes ==
  ASSUME LogInv, NEW i \in 0..Rotations, log[i] # Absent
  PROVE  log[i] \in Seq(Entry) /\ Len(log[i]) \in Nat
BY DEF LogInv

\* Event n of file i after a step was there before, in i or in a file before it.
Old(i, n) ==
  \E h \in 0..i : log[h] # Absent /\ n \in 1..Len(log[h]) /\ log[h][n] = log'[i][n]

LEMMA ShiftedLog ==
  ASSUME LogInv, NEW k \in 0..Rotations, log[k] # Absent, log' = Shifted(k)
  PROVE  /\ log' \in [0..Rotations -> Seq(Entry) \cup {Absent}]
         /\ log'[k] = Absent
         /\ k < Rotations => log'[k + 1] = log[k] /\ k + 1 \in 0..Rotations
         /\ \A i \in 0..Rotations : i # k /\ i # k + 1 => log'[i] = log[i]
<1>1. k \in Nat /\ Rotations \in Nat
  BY Numbers
<1>2. \A i \in 0..Rotations :
        log'[i] = IF i = k THEN Absent ELSE IF i = k + 1 THEN log[k] ELSE log[i]
  BY DEF Shifted
<1>3. log'[k] = Absent /\ \A i \in 0..Rotations : i # k /\ i # k + 1 => log'[i] = log[i]
  BY <1>2
<1>4. k < Rotations => log'[k + 1] = log[k] /\ k + 1 \in 0..Rotations
  BY <1>1, <1>2
<1>5. log' \in [0..Rotations -> Seq(Entry) \cup {Absent}]
  BY DEF Shifted, LogInv
<1>. QED
  BY <1>3, <1>4, <1>5

LEMMA ShiftedOld ==
  ASSUME LogInv, NEW k \in 0..Rotations, log[k] # Absent, log' = Shifted(k),
         NEW i \in 0..Rotations, log'[i] # Absent, NEW n \in 1..Len(log'[i])
  PROVE  Old(i, n)
<1>1. k \in Nat /\ Rotations \in Nat /\ i \in Nat
  BY Numbers
<1>2. CASE i = k + 1
  <2>1. k < Rotations
    BY <1>1, <1>2
  <2>2. log'[i] = log[k] /\ k \in 0..i
    BY <1>1, <1>2, <2>1, ShiftedLog
  <2>. QED
    BY <2>2 DEF Old
<1>3. CASE i # k + 1
  <2>1. log'[i] = log[i] /\ i \in 0..i
    BY <1>1, <1>3, ShiftedLog
  <2>. QED
    BY <2>1 DEF Old
<1>. QED
  BY <1>2, <1>3

\* What the steps inside the lock do to the files: nothing, create the first
\* or move one.
Stays(w) ==
  /\ UNCHANGED <<log, crowded>>
  /\ \E j \in Jobs :
       /\ job' = [job EXCEPT ![w] = j] /\ Good(j)
       /\ \/ j.step \in {"search", "rotate", "drop"}
          \/ j.step = "open" /\ (crowded \/ ~Full \/ RotateFails(w))
          \/ \E k \in 0..Rotations, s \in {"shift", "roll", "open"} :
               MoveAt(w, k, s) /\ log[k] = Absent /\ j.step = s /\ j.at = k - 1
Opens(w) ==
  /\ crowded' = crowded /\ At(w, "open")
  /\ log' = IF log[0] = Absent THEN [log EXCEPT ![0] = << >>] ELSE log
  /\ \E j \in Jobs : /\ job' = [job EXCEPT ![w] = j] /\ Good(j)
                     /\ j.step = "write" /\ j.open = 0
Moves(w) == \E k \in 0..Rotations, s \in {"shift", "roll", "open"} :
  /\ MoveAt(w, k, s) /\ log[k] # Absent
  /\ log' = Shifted(k) /\ Crowd(w) /\ job' = Then(w, s, k)

LEMMA InsideLog ==
  ASSUME JobsInv, NEW w \in Workers, Inside(w)
  PROVE  Stays(w) \/ Opens(w) \/ Moves(w)
<1>1. CASE Search(w)
  <2>1. UNCHANGED <<log, crowded>>
    BY <1>1 DEF Search, events
  <2>2. PICK j \in Jobs : /\ job' = [job EXCEPT ![w] = j] /\ Good(j)
                          /\ j.step \in {"search", "rotate"}
    BY <1>1, SearchJob
  <2>. QED
    BY <2>1, <2>2 DEF Stays
<1>2. ASSUME NEW s \in {"drop", "open"}, Goto(w, s),
             job[w].step \in Locked \ {"search"}, UNCHANGED <<log, crowded>>,
             s = "open" => crowded \/ ~Full \/ RotateFails(w)
      PROVE  Stays(w)
  <2>1. PICK j \in Jobs : /\ job' = [job EXCEPT ![w] = j] /\ Good(j) /\ j.step = s
    BY <1>2, GotoJob
  <2>. QED
    BY <1>2, <2>1 DEF Stays
<1>3. CASE Rotate(w) \/ RotateFails(w)
  <2>1. UNCHANGED <<log, crowded>>
    BY <1>3 DEF Rotate, RotateFails, events
  <2>2. CASE Rotate(w)
    BY <1>2, <2>1, <2>2 DEF Rotate, At, Locked
  <2>3. CASE RotateFails(w)
    <3>1. Goto(w, "open") /\ job[w].step \in Locked \ {"search"}
      BY <2>3 DEF RotateFails, Locked
    <3>. QED
      BY <1>2, <2>1, <2>3, <3>1
  <2>. QED
    BY <1>3, <2>2, <2>3
<1>4. CASE Drop(w) \/ Shift(w) \/ Roll(w)
  <2>1. PICK k \in 0..Rotations, s \in {"shift", "roll", "open"} :
          MoveAt(w, k, s) /\ Move(w, k, s)
    BY <1>4, MoveCases
  <2>2. job[w].step \in Locked \ {"search"}
    BY <2>1 DEF MoveAt, At, Locked
  <2>3. CASE log[k] # Absent
    BY <2>1, <2>3 DEF Move, Moves
  <2>4. CASE log[k] = Absent /\ Skipped(w, s, k) /\ UNCHANGED <<log, crowded>>
    <3>1. PICK j \in Jobs : /\ job' = [job EXCEPT ![w] = j] /\ Good(j)
                            /\ j.step = s /\ j.at = k - 1
      BY <2>1, <2>4, SkippedJob
    <3>. QED
      BY <2>1, <2>4, <3>1 DEF Stays
  <2>5. CASE crowded /\ Goto(w, "open") /\ UNCHANGED <<log, crowded>>
    BY <1>2, <2>2, <2>5
  <2>. QED
    BY <2>1, <2>3, <2>4, <2>5 DEF Move, Skipped
<1>5. CASE Open(w)
  <2>1. PICK j \in Jobs : /\ job' = [job EXCEPT ![w] = j] /\ Good(j)
                          /\ j.step = "write" /\ j.open = 0
    BY <1>5, OpenJob
  <2>. QED
    BY <1>5, <2>1 DEF Open, Opens
<1>. QED
  BY <1>1, <1>3, <1>4, <1>5 DEF Inside

LEMMA InsideOld ==
  ASSUME JobsInv, LogInv, NEW w \in Workers, Inside(w),
         NEW i \in 0..Rotations, log'[i] # Absent, NEW n \in 1..Len(log'[i])
  PROVE  Old(i, n)
<1>1. i \in 0..i
  BY Numbers
<1>2. CASE log' = log
  BY <1>1, <1>2 DEF Old
<1>3. CASE log' = [log EXCEPT ![0] = << >>]
  <2>1. i # 0
    BY <1>3, Numbers DEF LogInv
  <2>2. log'[i] = log[i]
    BY <1>3, <2>1 DEF LogInv
  <2>. QED
    BY <1>1, <2>2 DEF Old
<1>4. ASSUME NEW k \in 0..Rotations, log[k] # Absent, log' = Shifted(k)
      PROVE  Old(i, n)
  BY <1>4, ShiftedOld
<1>. QED
  BY <1>2, <1>3, <1>4, InsideLog DEF Stays, Opens, Moves

LEMMA InsideLogType ==
  ASSUME JobsInv, LogInv, NEW w \in Workers, Inside(w)
  PROVE  log' \in [0..Rotations -> Seq(Entry) \cup {Absent}]
<1>1. << >> \in Seq(Entry)
  OBVIOUS
<1>2. ASSUME NEW k \in 0..Rotations, log[k] # Absent, log' = Shifted(k)
      PROVE  log' \in [0..Rotations -> Seq(Entry) \cup {Absent}]
  BY <1>2, ShiftedLog
<1>. QED
  BY <1>1, <1>2, InsideLog DEF LogInv, Stays, Opens, Moves

LEMMA LineType ==
  ASSUME JobsInv, written \in Nat, NEW w \in Workers
  PROVE  /\ Line(w) \in Entry
         /\ Line(w).id = written + 1 /\ Line(w).by = Home[w]
         /\ Line(w).alone = job[w].alone /\ Line(w).kind = job[w].event.kind
         /\ Line(w).key = job[w].event.key /\ Line(w).new = job[w].event.new
<1>1. job[w] \in Jobs /\ job[w].event \in Events
  BY DEF JobsInv, Jobs
<1>2. /\ Home[w] \in Processes /\ job[w].alone \in BOOLEAN
      /\ job[w].event.kind \in EventKinds /\ job[w].event.key \in EventKeys
      /\ job[w].event.new \in BOOLEAN /\ written + 1 \in Nat
  BY <1>1 DEF Processes, Jobs, Events
<1>. QED
  BY <1>2 DEF Line, Entry

\* An event that reaches a file is its last one.
LEMMA WriteLog ==
  ASSUME JobsInv, LogInv, NEW w \in Workers, Write(w), job[w].open # Gone
  PROVE  LET o == job[w].open IN
         /\ o \in 0..Rotations /\ log[o] # Absent /\ log'[o] # Absent
         /\ log' \in [0..Rotations -> Seq(Entry) \cup {Absent}]
         /\ \A i \in 0..Rotations : i # o => log'[i] = log[i]
         /\ Len(log'[o]) = Len(log[o]) + 1
         /\ log'[o][Len(log[o]) + 1] = Line(w)
         /\ \A n \in 1..Len(log[o]) : log'[o][n] = log[o][n]
<1>. DEFINE o == job[w].open
            s == log[o]
            e == Line(w)
<1>1. o \in 0..Rotations /\ s # Absent
  BY DEF Write, At, JobsInv, Jobs, LogInv
<1>2. s \in Seq(Entry) /\ e \in Entry
  BY <1>1, LineType DEF LogInv
<1>3. log' = [log EXCEPT ![o] = Append(s, e)]
  BY DEF Write
<1>. HIDE DEF o, s, e
<1>4. /\ Append(s, e) \in Seq(Entry) /\ Len(Append(s, e)) = Len(s) + 1
      /\ Append(s, e)[Len(s) + 1] = e
      /\ \A n \in 1..Len(s) : Append(s, e)[n] = s[n]
  BY <1>2, AppendProperties
<1>5. Append(s, e) # Absent
  BY <1>4, RecordsAssumption
<1>6. /\ log' \in [0..Rotations -> Seq(Entry) \cup {Absent}]
      /\ log'[o] = Append(s, e)
      /\ \A i \in 0..Rotations : i # o => log'[i] = log[i]
  BY <1>1, <1>3, <1>4 DEF LogInv
<1>. QED
  BY <1>1, <1>4, <1>5, <1>6 DEF o, s, e

LEMMA WriteOld ==
  ASSUME JobsInv, LogInv, NEW w \in Workers, Write(w),
         NEW i \in 0..Rotations, log'[i] # Absent, NEW n \in 1..Len(log'[i])
  PROVE  \/ log[i] # Absent /\ n \in 1..Len(log[i]) /\ log'[i][n] = log[i][n]
         \/ log'[i][n] = Line(w)
<1>1. CASE log' = log
  BY <1>1
<1>2. CASE job[w].open # Gone
  <2>. DEFINE o == job[w].open
  <2>1. /\ o \in 0..Rotations /\ log[o] # Absent
        /\ \A h \in 0..Rotations : h # o => log'[h] = log[h]
        /\ Len(log'[o]) = Len(log[o]) + 1
        /\ log'[o][Len(log[o]) + 1] = Line(w)
        /\ \A m \in 1..Len(log[o]) : log'[o][m] = log[o][m]
    BY <1>2, WriteLog
  <2>. HIDE DEF o
  <2>2. Len(log[o]) \in Nat
    BY <2>1, LogTypes
  <2>3. CASE i # o
    BY <2>1, <2>3
  <2>4. CASE i = o
    <3>1. n = Len(log[o]) + 1 \/ n \in 1..Len(log[o])
      BY <2>1, <2>2, <2>4
    <3>. QED
      BY <2>1, <2>4, <3>1
  <2>. QED
    BY <2>3, <2>4
<1>. QED
  BY <1>1, <1>2 DEF Write

\* Who has a file open has one that is there, under the name it has now.
LEMMA InsideOpen ==
  ASSUME JobsInv, LogInv, NEW w \in Workers, Inside(w), NEW v \in Workers,
         job'[v].step = "write"
  PROVE  job'[v].open = Gone \/ log'[job'[v].open] # Absent
<1>1. \A o \in 0..Rotations : o # Gone
  BY RecordsAssumption
<1>2. CASE Stays(w)
  <2>1. PICK j \in Jobs : job' = [job EXCEPT ![w] = j] /\ Good(j) /\ j.step # "write"
    BY <1>2 DEF Stays
  <2>2. job'[v] = job[v] /\ log' = log
    BY <1>2, <2>1, JobMove DEF Stays
  <2>. QED
    BY <2>2 DEF LogInv
<1>3. CASE Opens(w)
  <2>1. PICK j \in Jobs : job' = [job EXCEPT ![w] = j] /\ Good(j) /\ j.open = 0
    BY <1>3 DEF Opens
  <2>2. job'[w].open = 0 /\ (v # w => job'[v] = job[v])
    BY <2>1, JobMove
  <2>3. << >> # Absent /\ 0 \in 0..Rotations
    <3>1. << >> \in Seq(Entry)
      OBVIOUS
    <3>2. Absent \notin Seq(Entry)
      BY RecordsAssumption
    <3>3. << >> # Absent
      BY <3>1, <3>2, Zenon
    <3>. QED
      BY <3>3, Numbers
  <2>4. \A i \in 0..Rotations : i = 0 \/ log[i] # Absent => log'[i] # Absent
    BY <1>3, <2>3 DEF Opens, LogInv
  <2>5. job[v] \in Jobs
    BY DEF JobsInv
  <2>. QED
    BY <2>2, <2>3, <2>4, <2>5 DEF LogInv, Jobs
<1>4. CASE Moves(w)
  <2>1. PICK k \in 0..Rotations, s \in {"shift", "roll", "open"} :
          /\ MoveAt(w, k, s) /\ log[k] # Absent
          /\ log' = Shifted(k) /\ job' = Then(w, s, k)
    BY <1>4 DEF Moves
  <2>2. v # w /\ job[v].step = "write" /\ job'[v].open = Renamed(job[v].open, k)
    BY <2>1, MovedJobs
  <2>3. /\ k < Rotations => log'[k + 1] = log[k]
        /\ \A i \in 0..Rotations : i # k /\ i # k + 1 => log'[i] = log[i]
    BY <2>1, ShiftedLog
  <2>4. job[v].open = Gone \/ (job[v].open \in 0..Rotations /\ log[job[v].open] # Absent)
    BY <2>2 DEF LogInv, JobsInv, Jobs
  <2>. QED
    BY <1>1, <2>1, <2>2, <2>3, <2>4 DEF Renamed
<1>. QED
  BY <1>2, <1>3, <1>4, InsideLog

LEMMA LogStep ==
  ASSUME JobsInv, FilesInv, LogInv, [Next]_vars
  PROVE  LogInv'
<1>0. written \in Nat
  BY DEF LogInv
<1>1. ASSUME UNCHANGED <<log, written>>,
             \A v \in Workers : job'[v].step = "write" =>
               job[v].step = "write" /\ job'[v].open = job[v].open
      PROVE  LogInv'
  BY <1>1 DEF LogInv
<1>2. ASSUME NEW w \in Workers, Inside(w) PROVE LogInv'
  <2>1. /\ log' \in [0..Rotations -> Seq(Entry) \cup {Absent}]
        /\ written' = written
    BY <1>2, InsideLogType, InsideJobs
  <2>2. ASSUME NEW i \in 0..Rotations, log'[i] # Absent, NEW n \in 1..Len(log'[i])
        PROVE  Sound(log'[i][n]) /\ log'[i][n].id \in 1..written'
    <3>1. PICK h \in 0..i : /\ log[h] # Absent /\ n \in 1..Len(log[h])
                            /\ log[h][n] = log'[i][n]
      BY <1>2, <2>2, InsideOld DEF Old
    <3>2. h \in 0..Rotations
      BY Numbers
    <3>. QED
      BY <2>1, <3>1, <3>2 DEF LogInv
  <2>3. \A v \in Workers : job'[v].step = "write" =>
          job'[v].open = Gone \/ log'[job'[v].open] # Absent
    BY <1>2, InsideOpen
  <2>. QED
    BY <1>0, <2>1, <2>2, <2>3 DEF LogInv
<1>3. ASSUME NEW w \in Workers, Write(w) PROVE LogInv'
  <2>1. written' = written + 1 /\ At(w, "write")
    BY <1>3 DEF Write
  <2>2. log' \in [0..Rotations -> Seq(Entry) \cup {Absent}]
    BY <1>3, WriteLog DEF Write, LogInv
  <2>3. /\ Sound(Line(w)) /\ Line(w).id = written + 1
    <3>1. Good(job[w]) /\ job[w].step # "idle"
      BY <2>1 DEF JobsInv, At
    <3>. QED
      BY <1>0, <3>1, LineType DEF Good, Sound
  <2>4. ASSUME NEW i \in 0..Rotations, log'[i] # Absent, NEW n \in 1..Len(log'[i])
        PROVE  Sound(log'[i][n]) /\ log'[i][n].id \in 1..written'
    <3>1. CASE log'[i][n] = Line(w)
      BY <1>0, <2>1, <2>3, <3>1
    <3>2. CASE /\ log[i] # Absent /\ n \in 1..Len(log[i])
               /\ log'[i][n] = log[i][n]
      <4>1. /\ log[i][n] \in Entry /\ log[i][n].id \in 1..written
            /\ Sound(log[i][n])
        BY <3>2, LogTypes DEF LogInv
      <4>2. log[i][n].id \in Nat
        BY <4>1 DEF Entry
      <4>. QED
        BY <1>0, <2>1, <3>2, <4>1, <4>2
    <3>. QED
      BY <1>3, <2>4, <3>1, <3>2, WriteOld
  <2>5. ASSUME NEW v \in Workers, job'[v].step = "write"
        PROVE  job'[v].open = Gone \/ log'[job'[v].open] # Absent
    <3>1. job'[v] = job[v]
      BY <1>3, <2>5, EndsJobs, NoJobType DEF Ends
    <3>2. \A i \in 0..Rotations : log[i] # Absent => log'[i] # Absent
      BY <1>3, WriteLog DEF Write
    <3>3. job[v] \in Jobs
      BY DEF JobsInv
    <3>. QED
      BY <2>5, <3>1, <3>2, <3>3 DEF LogInv, Jobs
  <2>. QED
    BY <1>0, <2>1, <2>2, <2>4, <2>5 DEF LogInv
<1>4. ASSUME NEW w \in Workers, LogFails(w) PROVE LogInv'
  <2>1. UNCHANGED <<log, written>>
    BY <1>4 DEF LogFails
  <2>. QED
    BY <1>1, <1>4, <2>1, EndsJobs, NoJobType DEF Ends
<1>5. ASSUME NEW w \in Workers, Lock(w) PROVE LogInv'
  <2>1. UNCHANGED <<log, written>>
    BY <1>5 DEF Lock, Locking
  <2>2. \A v \in Workers : job'[v].step = "write" =>
          job[v].step = "write" /\ job'[v].open = job[v].open
    BY <1>5, LockJob
  <2>. QED
    BY <1>1, <2>1, <2>2
<1>6. ASSUME NEW w \in Workers, Asking(w) \/ Reporting(w) PROVE LogInv'
  <2>1. /\ ~InLock(w)' /\ UNCHANGED <<log, written>>
        /\ \A v \in Workers \ {w} : job'[v] = job[v]
    BY <1>6, OutsideJobs DEF events
  <2>. QED
    BY <1>1, <2>1 DEF InLock, Locked
<1>7. CASE Aside
  <2>1. UNCHANGED <<job, log, written>>
    BY <1>7 DEF Aside, Tick, Pin, vars, events
  <2>. QED
    BY <1>1, <2>1
<1>8. ASSUME NEW p \in Processes, Crash(p) PROVE LogInv'
  <2>1. UNCHANGED <<log, written>>
    BY <1>8 DEF Crash
  <2>. QED
    BY <1>1, <1>8, <2>1, CrashJobs, NoJobType
<1>. QED
  BY <1>2, <1>3, <1>4, <1>5, <1>6, <1>7, <1>8, Steps4 DEF Logging, Inside

LEMMA InitLog == Init => LogInv
BY NoJobType DEF Init, LogInv

-----------------------------------------------------------------------------
(* New savings.  Whoever holds the lock and is about to write an event of  *)
(* new savings has found no event of its source, or has yet to look at     *)
(* where it is, or will write it while another process holds its lock, as  *)
(* that one did.  A moved file never passes a worker that searches.        *)

Rivals(e, w) == e.by # Home[w] /\ ~e.alone /\ ~job[w].alone

Cleared(e, i, w) ==
  e.kind = "compressed" /\ e.key = job[w].event.key =>
    (job[w].step = "search" /\ i >= job[w].at) \/ Rivals(e, w)

NewInv ==
  \A w \in Workers : InLock(w) /\ job[w].event.new =>
    \A i \in 0..Rotations : log[i] # Absent =>
      \A n \in 1..Len(log[i]) : Cleared(log[i][n], i, w)

Once(e, f) == e.id # f.id /\ e.key = f.key /\ e.new /\ f.new =>
                e.by # f.by /\ ~e.alone /\ ~f.alone

OnceInv ==
  \A i, h \in 0..Rotations : log[i] # Absent /\ log[h] # Absent =>
    \A n \in 1..Len(log[i]), m \in 1..Len(log[h]) : Once(log[i][n], log[h][m])

LEMMA SearchNew ==
  ASSUME JobsInv, LogInv, NewInv, NEW w \in Workers, Search(w)
  PROVE  NewInv'
<1>1. log' = log
  BY DEF Search, events
<1>2. PICK j \in Jobs :
         /\ job' = [job EXCEPT ![w] = j] /\ Good(j) /\ job[w].step = "search"
         /\ SameEvent(job[w], j)
         /\ \/ j.step = "rotate" /\ ~j.event.new
            \/ /\ ~Has(job[w].at, job[w].event.key) /\ j.step = "rotate"
               /\ j.event = job[w].event /\ job[w].at = Rotations
            \/ /\ ~Has(job[w].at, job[w].event.key) /\ j.step = "search"
               /\ j.event = job[w].event /\ j.at = job[w].at + 1
  BY SearchJob
<1>3. /\ job'[w] = j /\ \A v \in Workers \ {w} : job'[v] = job[v]
  BY <1>2, JobMove
<1>4. ASSUME NEW v \in Workers, v # w, InLock(v)', job'[v].event.new,
             NEW i \in 0..Rotations, log'[i] # Absent, NEW n \in 1..Len(log'[i])
      PROVE  Cleared(log[i][n], i, v)'
  BY <1>1, <1>3, <1>4 DEF NewInv, Cleared, Rivals, InLock
<1>5. ASSUME j.event.new, NEW i \in 0..Rotations, log[i] # Absent,
             NEW n \in 1..Len(log[i])
      PROVE  Cleared(log[i][n], i, w)'
  <2>. DEFINE e == log[i][n]
  <2>1. /\ InLock(w) /\ j.event = job[w].event /\ job[w].at \in 0..Rotations
        /\ ~Has(job[w].at, job[w].event.key)
    BY <1>2, <1>5 DEF InLock, Locked, JobsInv, Good
  <2>2. SUFFICES ASSUME e.kind = "compressed", e.key = job[w].event.key, ~Rivals(e, w)
                 PROVE  j.step = "search" /\ i >= j.at
    BY <1>1, <1>2, <1>3, <2>1 DEF Cleared, Rivals, SameEvent
  <2>3. i >= job[w].at
    BY <1>2, <1>5, <2>1, <2>2 DEF NewInv, Cleared
  <2>4. i # job[w].at
    BY <1>5, <2>1, <2>2 DEF Has
  <2>5. job[w].at # Rotations /\ i >= job[w].at + 1
    BY <2>1, <2>3, <2>4, Numbers
  <2>. QED
    BY <1>2, <1>5, <2>5
<1>. QED
  BY <1>1, <1>3, <1>4, <1>5 DEF NewInv

LEMMA InsideNew ==
  ASSUME JobsInv, LogInv, NewInv, NEW w \in Workers, Inside(w), ~Search(w)
  PROVE  NewInv'
<1>. SUFFICES ASSUME NEW v \in Workers, InLock(v)', job'[v].event.new,
                     NEW i \in 0..Rotations, log'[i] # Absent,
                     NEW n \in 1..Len(log'[i])
              PROVE  Cleared(log[i][n], i, v)'
  BY DEF NewInv
<1>1. /\ InLock(v) /\ SameEvent(job[v], job'[v])
      /\ job[v].event.new
      /\ job[v].step = "search" =>
           job'[v].step = "search" /\ job'[v].at = job[v].at
  <2>1. /\ InLock(w) /\ SameEvent(job[v], job'[v])
        /\ v # w => job'[v].step = job[v].step /\ job'[v].at = job[v].at
                      /\ job'[v].event = job[v].event
        /\ job'[w].event = job[w].event
    BY InsideJobs
  <2>2. job[w].step # "search"
    BY DEF Inside, Search, Rotate, Drop, Shift, Roll, RotateFails, Open, At
  <2>. QED
    BY <2>1, <2>2 DEF InLock
<1>2. PICK h \in 0..i : /\ log[h] # Absent /\ n \in 1..Len(log[h])
                        /\ log[h][n] = log'[i][n]
  BY InsideOld DEF Old
<1>3. h \in 0..Rotations /\ h <= i /\ h \in Int /\ i \in Int
  BY Numbers
<1>4. Cleared(log[h][n], h, v)
  BY <1>1, <1>2, <1>3 DEF NewInv
<1>5. job[v].at \in Int
  BY DEF JobsInv, Jobs
<1>6. i >= h
  BY <1>3
<1>7. h >= job[v].at => i >= job[v].at
  BY <1>3, <1>5, <1>6
<1>. QED
  BY <1>1, <1>2, <1>4, <1>7 DEF Cleared, Rivals, SameEvent

LEMMA LockNew ==
  ASSUME JobsInv, LogInv, NewInv, NEW w \in Workers, Lock(w)
  PROVE  NewInv'
<1>. SUFFICES ASSUME NEW v \in Workers, InLock(v)', job'[v].event.new,
                     NEW i \in 0..Rotations, log'[i] # Absent,
                     NEW n \in 1..Len(log'[i])
              PROVE  Cleared(log[i][n], i, v)'
  BY DEF NewInv
<1>1. log' = log
  BY DEF Lock, Locking
<1>2. CASE v = w
  <2>1. /\ job'[w].event = job[w].event
        /\ job'[w].step = IF job[w].event.new THEN "search" ELSE "rotate"
        /\ job'[w].at = 0
    BY LockJob
  <2>2. i >= 0
    BY Numbers
  <2>. QED
    BY <1>2, <2>1, <2>2 DEF Cleared
<1>3. CASE v # w
  <2>1. /\ job'[v].step = job[v].step /\ job'[v].event = job[v].event
        /\ job'[v].at = job[v].at /\ (job'[v].alone => job[v].alone)
    BY <1>3, LockJob
  <2>2. Cleared(log[i][n], i, v)
    BY <1>1, <2>1 DEF NewInv, InLock
  <2>. QED
    BY <1>1, <2>1, <2>2 DEF Cleared, Rivals
<1>. QED
  BY <1>2, <1>3

\* What a worker writes, others know of: they hold locks of other processes.
LEMMA WriteNew ==
  ASSUME JobsInv, LogInv, LocksInv, NewInv, NEW w \in Workers, Write(w)
  PROVE  NewInv'
<1>. SUFFICES ASSUME NEW v \in Workers, InLock(v)', job'[v].event.new,
                     NEW i \in 0..Rotations, log'[i] # Absent,
                     NEW n \in 1..Len(log'[i])
              PROVE  Cleared(log[i][n], i, v)'
  BY DEF NewInv
<1>1. v # w /\ job'[v] = job[v] /\ InLock(v) /\ InLock(w)
  BY EndsJobs DEF Ends, InLock
<1>2. CASE log[i] # Absent /\ n \in 1..Len(log[i]) /\ log'[i][n] = log[i][n]
  <2>1. Cleared(log[i][n], i, v)
    BY <1>1, <1>2 DEF NewInv
  <2>. QED
    BY <1>1, <1>2, <2>1 DEF Cleared, Rivals
<1>3. CASE log'[i][n] = Line(w)
  <2>1. Home[v] # Home[w] /\ ~job[v].alone /\ ~job[w].alone
    BY <1>1 DEF LocksInv
  <2>2. Line(w).by = Home[w] /\ ~Line(w).alone
    BY <2>1, LineType DEF LogInv
  <2>. QED
    BY <1>1, <1>3, <2>1, <2>2 DEF Cleared, Rivals
<1>. QED
  BY <1>2, <1>3, WriteOld

LEMMA NewStep ==
  ASSUME JobsInv, FilesInv, LogInv, LocksInv, NewInv, [Next]_vars
  PROVE  NewInv'
<1>1. ASSUME log' = log,
             \A v \in Workers : InLock(v)' => job'[v] = job[v]
      PROVE  NewInv'
  BY <1>1 DEF NewInv, Cleared, Rivals, InLock
<1>2. ASSUME NEW w \in Workers, LogFails(w) PROVE NewInv'
  <2>1. log' = log
    BY <1>2 DEF LogFails
  <2>. QED
    BY <1>1, <1>2, <2>1, EndsJobs DEF Ends
<1>3. ASSUME NEW w \in Workers, Asking(w) \/ Reporting(w) PROVE NewInv'
  <2>1. ~InLock(w)' /\ log' = log /\ \A v \in Workers \ {w} : job'[v] = job[v]
    BY <1>3, OutsideJobs DEF events
  <2>. QED
    BY <1>1, <2>1
<1>4. CASE Aside
  BY <1>1, <1>4 DEF Aside, Tick, Pin, vars, events
<1>5. ASSUME NEW p \in Processes, Crash(p) PROVE NewInv'
  <2>1. log' = log /\ NoJob.step \notin Locked
    BY <1>5, NoJobType DEF Crash, Locked
  <2>. QED
    BY <1>1, <1>5, <2>1, CrashJobs DEF InLock
<1>. QED
  BY <1>2, <1>3, <1>4, <1>5, SearchNew, InsideNew, LockNew, WriteNew, Steps4
  DEF Logging, Inside

LEMMA OnceStep ==
  ASSUME JobsInv, FilesInv, LogInv, NewInv, OnceInv, [Next]_vars
  PROVE  OnceInv'
<1>1. CASE log' = log
  BY <1>1 DEF OnceInv
<1>2. ASSUME NEW w \in Workers, Inside(w) PROVE OnceInv'
  <2>1. \A i \in 0..Rotations : log'[i] # Absent => \A n \in 1..Len(log'[i]) :
          \E h \in 0..Rotations : /\ log[h] # Absent /\ n \in 1..Len(log[h])
                                  /\ log[h][n] = log'[i][n]
    <3>1. \A i \in 0..Rotations : 0..i \subseteq 0..Rotations
      BY Numbers
    <3>2. ASSUME NEW i \in 0..Rotations, log'[i] # Absent, NEW n \in 1..Len(log'[i])
          PROVE  \E h \in 0..i : /\ log[h] # Absent /\ n \in 1..Len(log[h])
                                 /\ log[h][n] = log'[i][n]
      BY <1>2, <3>2, InsideOld DEF Old
    <3>. QED
      BY <3>1, <3>2
  <2>. SUFFICES ASSUME NEW i \in 0..Rotations, NEW h \in 0..Rotations,
                       log'[i] # Absent, log'[h] # Absent,
                       NEW n \in 1..Len(log'[i]), NEW m \in 1..Len(log'[h])
                PROVE  Once(log'[i][n], log'[h][m])
    BY DEF OnceInv, Once
  <2>2. PICK a \in 0..Rotations : /\ log[a] # Absent /\ n \in 1..Len(log[a])
                                  /\ log[a][n] = log'[i][n]
    BY <2>1
  <2>3. PICK b \in 0..Rotations : /\ log[b] # Absent /\ m \in 1..Len(log[b])
                                  /\ log[b][m] = log'[h][m]
    BY <2>1
  <2>. QED
    BY <2>2, <2>3 DEF OnceInv
<1>3. ASSUME NEW w \in Workers, Write(w) PROVE OnceInv'
  <2>1. /\ InLock(w) /\ job[w].step = "write"
        /\ Line(w).by = Home[w] /\ Line(w).alone = job[w].alone
        /\ Line(w).new = job[w].event.new /\ Line(w).key = job[w].event.key
    BY <1>3, LineType DEF Write, At, InLock, Locked, LogInv
  <2>2. ASSUME NEW i \in 0..Rotations, log[i] # Absent, NEW n \in 1..Len(log[i]),
               log[i][n].key = Line(w).key, log[i][n].new, Line(w).new
        PROVE  log[i][n].by # Line(w).by /\ ~log[i][n].alone /\ ~Line(w).alone
    <3>1. log[i][n].kind = "compressed"
      BY <2>2 DEF LogInv, Sound
    <3>2. Cleared(log[i][n], i, w)
      BY <2>1, <2>2 DEF NewInv
    <3>. QED
      BY <2>1, <2>2, <3>1, <3>2 DEF Cleared, Rivals
  <2>. SUFFICES ASSUME NEW i \in 0..Rotations, NEW h \in 0..Rotations,
                       log'[i] # Absent, log'[h] # Absent,
                       NEW n \in 1..Len(log'[i]), NEW m \in 1..Len(log'[h])
                PROVE  Once(log'[i][n], log'[h][m])
    BY DEF OnceInv, Once
  <2>3. \/ log[i] # Absent /\ n \in 1..Len(log[i]) /\ log'[i][n] = log[i][n]
        \/ log'[i][n] = Line(w)
    BY <1>3, WriteOld
  <2>4. \/ log[h] # Absent /\ m \in 1..Len(log[h]) /\ log'[h][m] = log[h][m]
        \/ log'[h][m] = Line(w)
    BY <1>3, WriteOld
  <2>5. ASSUME NEW g \in 0..Rotations, log[g] # Absent, NEW l \in 1..Len(log[g])
        PROVE  Once(log[g][l], Line(w)) /\ Once(Line(w), log[g][l])
    <3>1. ASSUME log[g][l].key = Line(w).key, log[g][l].new, Line(w).new
          PROVE  log[g][l].by # Line(w).by /\ ~log[g][l].alone /\ ~Line(w).alone
      BY <2>2, <2>5, <3>1
    <3>. QED
      BY <3>1 DEF Once
  <2>6. Once(Line(w), Line(w))
    BY DEF Once
  <2>7. ASSUME log[i] # Absent, n \in 1..Len(log[i]), log[h] # Absent,
               m \in 1..Len(log[h])
        PROVE  Once(log[i][n], log[h][m])
    BY <2>7 DEF OnceInv
  <2>8. CASE log'[i][n] = Line(w)
    BY <2>4, <2>5, <2>6, <2>8
  <2>9. CASE log'[h][m] = Line(w)
    BY <2>3, <2>5, <2>6, <2>9
  <2>. QED
    BY <2>3, <2>4, <2>7, <2>8, <2>9
<1>4. ASSUME NEW w \in Workers,
             Lock(w) \/ LogFails(w) \/ Asking(w) \/ Reporting(w)
      PROVE  log' = log
  BY <1>4, OutsideJobs DEF Lock, Locking, LogFails, events
<1>5. ASSUME Aside \/ \E p \in Processes : Crash(p) PROVE log' = log
  BY <1>5 DEF Aside, Tick, Pin, Crash, vars, events
<1>. QED
  BY <1>1, <1>2, <1>3, <1>4, <1>5, Steps4 DEF Logging, Inside

RecordsInv == JobsInv /\ FilesInv /\ LocksInv /\ LogInv /\ NewInv /\ OnceInv

LEMMA InitRecords == Init => RecordsInv
<1>. SUFFICES ASSUME Init PROVE RecordsInv
  OBVIOUS
<1>1. NewInv /\ OnceInv
  BY DEF Init, NewInv, OnceInv
<1>. QED
  BY <1>1, InitJobs, InitFiles, InitLocks, InitLog DEF RecordsInv

LEMMA RecordsStep == RecordsInv /\ [Next]_vars => RecordsInv'
BY FilesStep, LocksStep, LogStep, NewStep, OnceStep DEF RecordsInv

\* NewOnce for every number of processes, threads and rotations: of what is
\* retained no source is new savings twice (observability.py:260), but for
\* two processes that held their locks at the same time.
THEOREM NewSavingsOnce == Spec => []NewOnce
<1>1. RecordsInv => NewOnce
  <2>. SUFFICES ASSUME RecordsInv, NEW e \in Retained, NEW f \in Retained,
                       e.id # f.id, e.key = f.key, e.new, f.new
                PROVE  e.by # f.by /\ ~e.alone /\ ~f.alone
    BY DEF NewOnce
  <2>1. PICK i \in 0..Rotations : log[i] # Absent /\ \E n \in 1..Len(log[i]) : e = log[i][n]
    BY DEF Retained
  <2>2. PICK h \in 0..Rotations : log[h] # Absent /\ \E m \in 1..Len(log[h]) : f = log[h][m]
    BY DEF Retained
  <2>. QED
    BY <2>1, <2>2 DEF RecordsInv, OnceInv, Once
<1>. QED
  BY <1>1, InitRecords, RecordsStep, PTL DEF Spec

-----------------------------------------------------------------------------
(* The order of what is retained.  Until two processes rename at once, a   *)
(* file is only moved to a name that is free, the oldest is the one that   *)
(* is dropped, and who writes has the newest one open.                     *)

Slots ==
  \A w \in Workers :
    /\ job[w].step = "write" => job[w].open = 0
    /\ job[w].step = "shift" => log[job[w].at + 1] = Absent
    /\ job[w].step = "roll" => log[1] = Absent

Before(i, m, h, n) == i > h \/ (i = h /\ m < n)

Ordered ==
  \A i, h \in 0..Rotations : log[i] # Absent /\ log[h] # Absent =>
    \A m \in 1..Len(log[i]), n \in 1..Len(log[h]) :
      Before(i, m, h, n) => log[i][m].id < log[h][n].id

Have(k) == \E i \in 0..Rotations : log[i] # Absent
             /\ \E n \in 1..Len(log[i]) : log[i][n].id = k

Complete ==
  \A i \in 0..Rotations : log[i] # Absent =>
    \A n \in 1..Len(log[i]) : \A k \in log[i][n].id..written : Have(k)

OrderInv ==
  /\ crowded \in BOOLEAN
  /\ crowded \/ (Slots /\ Ordered /\ Complete)

LEMMA IdType ==
  ASSUME LogInv, NEW i \in 0..Rotations, log[i] # Absent, NEW n \in 1..Len(log[i])
  PROVE  log[i][n] \in Entry /\ log[i][n].id \in Nat /\ log[i][n].id <= written
<1>1. log[i] \in Seq(Entry)
  BY LogTypes
<1>2. log[i][n] \in Entry
  BY <1>1
<1>. QED
  BY <1>2 DEF Entry, LogInv

\* The file a moved file was, and the file that another one is now.
From(k, i) == IF i = k + 1 THEN k ELSE i

LEMMA ShiftedFrom ==
  ASSUME LogInv, NEW k \in 0..Rotations, log[k] # Absent, log' = Shifted(k),
         NEW i \in 0..Rotations, log'[i] # Absent
  PROVE  /\ From(k, i) \in 0..Rotations /\ log[From(k, i)] = log'[i]
         /\ i # k /\ (k = Rotations => From(k, i) # k)
<1>1. k \in Nat /\ Rotations \in Nat /\ i \in Nat /\ i <= Rotations /\ k <= Rotations
  BY Numbers
<1>2. /\ log'[k] = Absent /\ (k < Rotations => log'[k + 1] = log[k])
      /\ \A h \in 0..Rotations : h # k /\ h # k + 1 => log'[h] = log[h]
  BY ShiftedLog
<1>3. CASE i = k + 1
  BY <1>1, <1>2, <1>3 DEF From
<1>4. CASE i # k + 1
  BY <1>1, <1>2, <1>4 DEF From
<1>. QED
  BY <1>3, <1>4

LEMMA ShiftedOrder ==
  ASSUME LogInv, Ordered, NEW k \in 0..Rotations, log[k] # Absent,
         log' = Shifted(k)
  PROVE  Ordered'
<1>. SUFFICES ASSUME NEW i \in 0..Rotations, NEW h \in 0..Rotations,
                     log'[i] # Absent, log'[h] # Absent,
                     NEW m \in 1..Len(log'[i]), NEW n \in 1..Len(log'[h]),
                     Before(i, m, h, n)
              PROVE  log'[i][m].id < log'[h][n].id
  BY DEF Ordered
<1>. DEFINE a == From(k, i)
            b == From(k, h)
<1>1. /\ a \in 0..Rotations /\ log[a] = log'[i] /\ i # k
      /\ b \in 0..Rotations /\ log[b] = log'[h] /\ h # k
  BY ShiftedFrom
<1>2. Before(a, m, b, n)
  BY <1>1, Numbers DEF Before, From
<1>. HIDE DEF a, b
<1>. QED
  BY <1>1, <1>2 DEF Ordered

LEMMA ShiftedComplete ==
  ASSUME LogInv, Ordered, Complete, NEW k \in 0..Rotations, log[k] # Absent,
         log' = Shifted(k), k < Rotations => log[k + 1] = Absent,
         written' = written
  PROVE  Complete'
<1>. SUFFICES ASSUME NEW i \in 0..Rotations, log'[i] # Absent,
                     NEW n \in 1..Len(log'[i]), NEW c \in log'[i][n].id..written
              PROVE  Have(c)'
  BY DEF Complete
<1>. DEFINE a == From(k, i)
<1>1. /\ a \in 0..Rotations /\ log[a] = log'[i] /\ (k = Rotations => a # k)
  BY ShiftedFrom
<1>. HIDE DEF a
<1>2. Have(c)
  BY <1>1 DEF Complete
<1>3. PICK g \in 0..Rotations, m \in Nat :
         log[g] # Absent /\ m \in 1..Len(log[g]) /\ log[g][m].id = c
  BY <1>2, LogTypes DEF Have
<1>4. /\ k < Rotations => log'[k + 1] = log[k] /\ k + 1 \in 0..Rotations
      /\ \A h \in 0..Rotations : h # k /\ h # k + 1 => log'[h] = log[h]
  BY ShiftedLog
<1>5. CASE g = k /\ k < Rotations
  <2>1. /\ k + 1 \in 0..Rotations /\ log'[k + 1] = log[k] /\ log'[k + 1] # Absent
        /\ m \in 1..Len(log'[k + 1]) /\ log'[k + 1][m].id = c
    BY <1>3, <1>4, <1>5
  <2>. QED
    BY <2>1 DEF Have
<1>6. CASE g = k /\ k = Rotations
  <2>1. Before(g, m, a, n)
    BY <1>1, <1>6, Numbers DEF Before
  <2>2. log[g][m].id < log[a][n].id
    BY <1>1, <1>3, <2>1 DEF Ordered
  <2>3. log[a][n].id \in Nat
    BY <1>1, IdType
  <2>. QED
    BY <1>1, <1>3, <2>2, <2>3, IdType
<1>7. CASE g # k
  <2>1. log'[g] = log[g]
    BY <1>3, <1>4, <1>7, Numbers
  <2>. QED
    BY <1>3, <2>1 DEF Have
<1>. QED
  BY <1>5, <1>6, <1>7, Numbers

\* A step that leaves the files there are as they are, or adds an empty one.
LEMMA SameOrder ==
  ASSUME LogInv, Ordered, Complete, written' = written,
         log' = log \/ (log[0] = Absent /\ log' = [log EXCEPT ![0] = << >>])
  PROVE  Ordered' /\ Complete'
<1>1. ASSUME NEW i \in 0..Rotations, log'[i] # Absent, NEW n \in 1..Len(log'[i])
      PROVE  log[i] = log'[i]
  <2>1. CASE i = 0 /\ log' # log
    <3>1. log'[i] = << >>
      BY <2>1, Numbers DEF LogInv
    <3>. QED
      BY <1>1, <3>1
  <2>2. CASE i # 0 \/ log' = log
    BY <2>2 DEF LogInv
  <2>. QED
    BY <2>1, <2>2
<1>2. ASSUME NEW i \in 0..Rotations, log[i] # Absent PROVE log'[i] = log[i]
  BY <1>2 DEF LogInv
<1>3. Ordered'
  <2>. SUFFICES ASSUME NEW i \in 0..Rotations, NEW h \in 0..Rotations,
                       log'[i] # Absent, log'[h] # Absent,
                       NEW m \in 1..Len(log'[i]), NEW n \in 1..Len(log'[h]),
                       Before(i, m, h, n)
                PROVE  log'[i][m].id < log'[h][n].id
    BY DEF Ordered
  <2>1. log[i] = log'[i] /\ log[h] = log'[h]
    BY <1>1
  <2>. QED
    BY <2>1 DEF Ordered
<1>4. Complete'
  <2>. SUFFICES ASSUME NEW i \in 0..Rotations, log'[i] # Absent,
                       NEW n \in 1..Len(log'[i]), NEW c \in log'[i][n].id..written
                PROVE  Have(c)'
    BY DEF Complete
  <2>1. log[i] = log'[i]
    BY <1>1
  <2>2. Have(c)
    BY <2>1 DEF Complete
  <2>. QED
    BY <1>2, <2>2 DEF Have
<1>. QED
  BY <1>3, <1>4

\* The next event is the newest of all, at the end of the newest file.
LEMMA WriteOrder ==
  ASSUME JobsInv, LogInv, Ordered, Complete, NEW w \in Workers, Write(w),
         job[w].open = 0
  PROVE  Ordered' /\ Complete'
<1>. DEFINE L == Len(log[0])
            e == Line(w)
<1>1. 0 \in 0..Rotations /\ 0 # Gone
  BY Numbers, RecordsAssumption
<1>2. /\ log[0] # Absent /\ log'[0] # Absent
      /\ \A i \in 0..Rotations : i # 0 => log'[i] = log[i]
      /\ Len(log'[0]) = L + 1 /\ log'[0][L + 1] = e
      /\ \A n \in 1..L : log'[0][n] = log[0][n]
  BY <1>1, WriteLog
<1>3. L \in Nat /\ written \in Nat /\ written' = written + 1 /\ e.id = written + 1
  BY <1>1, <1>2, LogTypes, LineType DEF LogInv, Write
<1>. HIDE DEF e
<1>4. ASSUME NEW i \in 0..Rotations, log[i] # Absent, NEW n \in 1..Len(log[i])
      PROVE  log'[i] # Absent /\ n \in 1..Len(log'[i]) /\ log'[i][n] = log[i][n]
  <2>1. CASE i = 0
    BY <1>2, <1>3, <1>4, <2>1
  <2>2. CASE i # 0
    BY <1>2, <1>4, <2>2
  <2>. QED
    BY <2>1, <2>2
<1>5. ASSUME NEW i \in 0..Rotations, log'[i] # Absent, NEW n \in 1..Len(log'[i])
      PROVE  \/ i = 0 /\ n = L + 1 /\ log'[i][n] = e
             \/ /\ log[i] # Absent /\ n \in 1..Len(log[i])
                /\ log'[i][n] = log[i][n] /\ (i = 0 => n <= L)
  <2>1. CASE i = 0
    BY <1>2, <1>3, <1>5, <2>1
  <2>2. CASE i # 0
    BY <1>2, <1>5, <2>2
  <2>. QED
    BY <2>1, <2>2
<1>6. Ordered'
  <2>. SUFFICES ASSUME NEW i \in 0..Rotations, NEW h \in 0..Rotations,
                       log'[i] # Absent, log'[h] # Absent,
                       NEW m \in 1..Len(log'[i]), NEW n \in 1..Len(log'[h]),
                       Before(i, m, h, n)
                PROVE  log'[i][m].id < log'[h][n].id
    BY DEF Ordered
  <2>1. ~(i = 0 /\ m = L + 1)
    <3>. SUFFICES ASSUME i = 0, m = L + 1 PROVE FALSE
      OBVIOUS
    <3>1. h = 0 /\ n > m
      BY Numbers DEF Before
    <3>. QED
      BY <1>2, <1>3, <3>1
  <2>2. /\ log[i] # Absent /\ m \in 1..Len(log[i]) /\ log'[i][m] = log[i][m]
    BY <1>5, <2>1
  <2>3. log[i][m].id \in Nat /\ log[i][m].id <= written
    BY <2>2, IdType
  <2>4. CASE log'[h][n] = e
    BY <1>3, <2>2, <2>3, <2>4
  <2>5. CASE /\ log[h] # Absent /\ n \in 1..Len(log[h])
             /\ log'[h][n] = log[h][n]
    BY <2>2, <2>5 DEF Ordered
  <2>. QED
    BY <1>5, <2>4, <2>5
<1>7. Complete'
  <2>. SUFFICES ASSUME NEW i \in 0..Rotations, log'[i] # Absent,
                       NEW n \in 1..Len(log'[i]), NEW c \in log'[i][n].id..written'
                PROVE  Have(c)'
    BY DEF Complete
  <2>1. CASE c = written + 1
    <3>1. /\ 0 \in 0..Rotations /\ log'[0] # Absent /\ L + 1 \in 1..Len(log'[0])
          /\ log'[0][L + 1].id = c
      BY <1>1, <1>2, <1>3, <2>1
    <3>. QED
      BY <3>1 DEF Have
  <2>2. CASE c # written + 1
    <3>1. CASE log'[i][n] = e
      BY <1>3, <2>2, <3>1
    <3>2. CASE /\ log[i] # Absent /\ n \in 1..Len(log[i])
               /\ log'[i][n] = log[i][n]
      <4>1. log[i][n].id \in Nat
        BY <3>2, IdType
      <4>2. c \in log[i][n].id..written
        BY <1>3, <2>2, <3>2, <4>1
      <4>3. Have(c)
        BY <3>2, <4>2 DEF Complete
      <4>. QED
        BY <1>4, <4>3 DEF Have
    <3>. QED
      BY <1>5, <3>1, <3>2
  <2>. QED
    BY <2>1, <2>2
<1>. QED
  BY <1>6, <1>7

\* A worker that moves no file and opens none leaves the names as they are.
LEMMA SameSlots ==
  ASSUME Slots, log' = log,
         \A w \in Workers : job'[w].step \in {"write", "shift", "roll"} =>
           job'[w].step = job[w].step /\ job'[w].at = job[w].at
           /\ job'[w].open = job[w].open
  PROVE  Slots'
BY DEF Slots

LEMMA InsideSlots ==
  ASSUME JobsInv, LocksInv, LogInv, Slots, NEW w \in Workers, Inside(w), ~crowded'
  PROVE  Slots'
<1>1. CASE Stays(w)
  <2>1. PICK j \in Jobs :
          /\ job' = [job EXCEPT ![w] = j] /\ Good(j)
          /\ \/ j.step \in {"search", "rotate", "drop", "open"}
             \/ \E k \in 0..Rotations, s \in {"shift", "roll", "open"} :
                  MoveAt(w, k, s) /\ log[k] = Absent /\ j.step = s /\ j.at = k - 1
    BY <1>1 DEF Stays
  <2>2. job'[w] = j /\ log' = log /\ \A v \in Workers \ {w} : job'[v] = job[v]
    BY <1>1, <2>1, JobMove DEF Stays
  <2>3. CASE j.step \in {"search", "rotate", "drop", "open"}
    BY <2>2, <2>3 DEF Slots
  <2>4. ASSUME NEW k \in 0..Rotations, NEW s \in {"shift", "roll", "open"},
               MoveAt(w, k, s), log[k] = Absent, j.step = s, j.at = k - 1
        PROVE  Slots'
    <3>1. (s = "roll" => k = 1) /\ j.at + 1 = k
      BY <2>4, Numbers DEF MoveAt
    <3>. QED
      BY <2>2, <2>4, <3>1 DEF Slots
  <2>. QED
    BY <2>1, <2>3, <2>4
<1>2. CASE Opens(w)
  <2>1. PICK j \in Jobs : /\ job' = [job EXCEPT ![w] = j] /\ Good(j)
                          /\ j.step = "write" /\ j.open = 0
    BY <1>2 DEF Opens
  <2>2. job'[w] = j /\ \A v \in Workers \ {w} : job'[v] = job[v]
    BY <2>1, JobMove
  <2>3. \A i \in 0..Rotations : i # 0 => log'[i] = log[i]
    BY <1>2 DEF Opens, LogInv
  <2>4. \A v \in Workers : Good(job[v])
    BY DEF JobsInv
  <2>5. ASSUME NEW v \in Workers \ {w}, job[v].step = "shift"
        PROVE  log'[job[v].at + 1] = Absent
    <3>1. job[v].at + 1 \in 0..Rotations /\ job[v].at + 1 # 0
      BY <2>4, <2>5, Numbers DEF Good
    <3>. QED
      BY <2>3, <2>5, <3>1 DEF Slots
  <2>6. ASSUME NEW v \in Workers \ {w}, job[v].step = "roll"
        PROVE  log'[1] = Absent
    BY <2>3, <2>6, Numbers DEF Slots
  <2>. QED
    BY <2>1, <2>2, <2>5, <2>6 DEF Slots
<1>3. CASE Moves(w)
  <2>1. PICK k \in 0..Rotations, s \in {"shift", "roll", "open"} :
          /\ MoveAt(w, k, s) /\ log[k] # Absent
          /\ log' = Shifted(k) /\ Crowd(w) /\ job' = Then(w, s, k)
    BY <1>3 DEF Moves
  <2>2. /\ job'[w].step = s /\ job'[w].at = k - 1 /\ InLock(w)
        /\ \A v \in Workers \ {w} : job'[v].step = job[v].step
    BY <2>1, MovedJobs DEF MoveAt, At, InLock, Locked
  <2>3. log'[k] = Absent
    BY <2>1, ShiftedLog
  <2>4. ASSUME NEW v \in Workers \ {w}
        PROVE  job'[v].step \notin {"write", "shift", "roll"}
    <3>. SUFFICES ASSUME job[v].step \in {"write", "shift", "roll"} PROVE FALSE
      BY <2>2
    <3>1. InLock(v) /\ job[v].step \in Moving
      BY DEF InLock, Locked, Moving
    <3>2. v \in Others(w)
      BY <2>2, <3>1 DEF LocksInv, Others
    <3>. QED
      BY <2>1, <3>1, <3>2 DEF Crowd
  <2>5. (s = "roll" => k = 1) /\ k - 1 + 1 = k
    BY <2>1, Numbers DEF MoveAt
  <2>. QED
    BY <2>2, <2>3, <2>4, <2>5 DEF Slots
<1>. QED
  BY <1>1, <1>2, <1>3, InsideLog

LEMMA InsideOrder ==
  ASSUME JobsInv, LocksInv, LogInv, OrderInv, NEW w \in Workers, Inside(w)
  PROVE  OrderInv'
<1>1. crowded' \in BOOLEAN /\ (crowded => crowded')
  BY InsideLog DEF Stays, Opens, Moves, Crowd, OrderInv
<1>. SUFFICES ASSUME ~crowded' PROVE Slots' /\ Ordered' /\ Complete'
  BY <1>1 DEF OrderInv
<1>2. Slots /\ Ordered /\ Complete /\ written' = written
  BY <1>1, InsideJobs DEF OrderInv
<1>3. Slots'
  BY <1>2, InsideSlots
<1>4. CASE Stays(w) \/ Opens(w)
  <2>1. log' = log \/ (log[0] = Absent /\ log' = [log EXCEPT ![0] = << >>])
    BY <1>4 DEF Stays, Opens
  <2>. QED
    BY <1>2, <1>3, <2>1, SameOrder
<1>5. CASE Moves(w)
  <2>1. PICK k \in 0..Rotations, s \in {"shift", "roll", "open"} :
          MoveAt(w, k, s) /\ log[k] # Absent /\ log' = Shifted(k)
    BY <1>5 DEF Moves
  <2>2. k < Rotations => log[k + 1] = Absent
    BY <1>2, <2>1 DEF MoveAt, Slots, At
  <2>. QED
    BY <1>2, <1>3, <2>1, <2>2, ShiftedOrder, ShiftedComplete
<1>. QED
  BY <1>4, <1>5, InsideLog

LEMMA OrderStep ==
  ASSUME JobsInv, FilesInv, LocksInv, LogInv, OrderInv, [Next]_vars
  PROVE  OrderInv'
<1>1. ASSUME UNCHANGED <<log, written, crowded>>,
             \A v \in Workers : job'[v].step \in {"write", "shift", "roll"} =>
               job'[v].step = job[v].step /\ job'[v].at = job[v].at
               /\ job'[v].open = job[v].open
      PROVE  OrderInv'
  BY <1>1, SameSlots, SameOrder DEF OrderInv
<1>2. ASSUME NEW w \in Workers, Inside(w) PROVE OrderInv'
  BY <1>2, InsideOrder
<1>3. ASSUME NEW w \in Workers, Write(w) PROVE OrderInv'
  <2>1. /\ job[w].step = "write" /\ crowded' = crowded
        /\ job'[w] = NoJob /\ \A v \in Workers \ {w} : job'[v] = job[v]
    BY <1>3, EndsJobs DEF Ends, Write, At
  <2>. SUFFICES ASSUME ~crowded PROVE Slots' /\ Ordered' /\ Complete'
    BY <2>1 DEF OrderInv
  <2>2. Slots /\ Ordered /\ Complete /\ job[w].open = 0
    BY <2>1 DEF OrderInv, Slots
  <2>3. Ordered' /\ Complete'
    BY <1>3, <2>2, WriteOrder
  <2>4. \A i \in 0..Rotations : i # 0 => log'[i] = log[i]
    BY <1>3, <2>2, WriteLog DEF Write
  <2>5. ASSUME NEW v \in Workers \ {w}
        PROVE  /\ job[v].step = "shift" => log'[job[v].at + 1] = Absent
               /\ job[v].step = "roll" => log'[1] = Absent
    <3>1. job[v].step = "shift" => job[v].at + 1 \in 0..Rotations /\ job[v].at + 1 # 0
      BY Numbers DEF JobsInv, Good
    <3>. QED
      BY <2>2, <2>4, <3>1, Numbers DEF Slots
  <2>6. Slots'
    BY <2>1, <2>2, <2>5, NoJobType DEF Slots
  <2>. QED
    BY <2>3, <2>6
<1>4. ASSUME NEW w \in Workers, LogFails(w) PROVE OrderInv'
  <2>1. UNCHANGED <<log, written, crowded>>
    BY <1>4 DEF LogFails
  <2>. QED
    BY <1>1, <1>4, <2>1, EndsJobs, NoJobType DEF Ends
<1>5. ASSUME NEW w \in Workers, Lock(w) PROVE OrderInv'
  <2>1. UNCHANGED <<log, written, crowded>>
    BY <1>5 DEF Lock, Locking
  <2>2. /\ job'[w].step \in {"search", "rotate"}
        /\ \A v \in Workers \ {w} :
             /\ job'[v].step = job[v].step
             /\ job'[v].at = job[v].at /\ job'[v].open = job[v].open
    BY <1>5, LockJob
  <2>. QED
    BY <1>1, <2>1, <2>2
<1>6. ASSUME NEW w \in Workers, Asking(w) \/ Reporting(w) PROVE OrderInv'
  <2>1. /\ ~InLock(w)' /\ UNCHANGED <<log, written, crowded>>
        /\ \A v \in Workers \ {w} : job'[v] = job[v]
    BY <1>6, OutsideJobs DEF events
  <2>. QED
    BY <1>1, <2>1 DEF InLock, Locked
<1>7. CASE Aside
  <2>1. UNCHANGED <<job, log, written, crowded>>
    BY <1>7 DEF Aside, Tick, Pin, vars, events
  <2>. QED
    BY <1>1, <2>1
<1>8. ASSUME NEW p \in Processes, Crash(p) PROVE OrderInv'
  <2>1. UNCHANGED <<log, written, crowded>>
    BY <1>8 DEF Crash
  <2>. QED
    BY <1>1, <1>8, <2>1, CrashJobs, NoJobType
<1>. QED
  BY <1>2, <1>3, <1>4, <1>5, <1>6, <1>7, <1>8, Steps4 DEF Logging, Inside

LEMMA InitOrder == Init => OrderInv
BY NoJobType DEF Init, OrderInv, Slots, Ordered, Complete

\* OldestGoFirst for every number of processes, threads and rotations: the log
\* and its rotations are the last events there were, in their order
\* (observability.py:300), until two processes rename at once.
THEOREM OldestAreLost == Spec => []OldestGoFirst
<1>1. LogInv /\ OrderInv => OldestGoFirst
  <2>. SUFFICES ASSUME LogInv, Slots, Ordered, Complete PROVE OldestGoFirst
    BY DEF OrderInv, OldestGoFirst
  <2>1. ASSUME NEW e \in Retained, NEW k \in e.id..written
        PROVE  \E f \in Retained : f.id = k
    <3>1. PICK i \in 0..Rotations : log[i] # Absent /\ \E n \in 1..Len(log[i]) : e = log[i][n]
      BY DEF Retained
    <3>2. PICK n \in 1..Len(log[i]) : e = log[i][n]
      BY <3>1
    <3>3. Have(k)
      BY <2>1, <3>1, <3>2 DEF Complete
    <3>4. PICK h \in 0..Rotations : log[h] # Absent /\ \E m \in 1..Len(log[h]) : log[h][m].id = k
      BY <3>3 DEF Have
    <3>5. PICK m \in 1..Len(log[h]) : log[h][m].id = k
      BY <3>4
    <3>6. log[h][m] \in Retained
      <4>. DEFINE S == {log[h][l] : l \in 1..Len(log[h])}
      <4>1. log[h][m] \in S /\ h \in {j \in 0..Rotations : log[j] # Absent}
        BY <3>4
      <4>2. S \in {{log[i1][n1] : n1 \in 1..Len(log[i1])} :
                     i1 \in {j \in 0..Rotations : log[j] # Absent}}
        BY <4>1
      <4>. HIDE DEF S
      <4>. QED
        BY <4>1, <4>2 DEF Retained
    <3>. QED
      BY <3>5, <3>6
  <2>2. ASSUME NEW i \in 0..Rotations, NEW j \in 0..Rotations,
               log[i] # Absent, log[j] # Absent,
               NEW m \in 1..Len(log[i]), NEW n \in 1..Len(log[j]),
               i > j \/ (i = j /\ m < n)
        PROVE  log[i][m].id < log[j][n].id
    BY <2>2 DEF Ordered, Before
  <2>. QED
    BY <2>1, <2>2 DEF OldestGoFirst
<1>2. RecordsInv /\ OrderInv /\ [Next]_vars => (RecordsInv /\ OrderInv)'
  BY RecordsStep, OrderStep DEF RecordsInv
<1>3. RecordsInv => LogInv
  BY DEF RecordsInv
<1>. QED
  BY <1>1, <1>2, <1>3, InitRecords, InitOrder, PTL DEF Spec

-----------------------------------------------------------------------------
(* The bounds.  Whoever is at work will write one event at most, which has *)
(* been asked for; and a log that is not full when it is looked at grows   *)
(* past its bound by what the processes that write have under way.         *)

Busy == {w \in Workers : job[w].step # "idle"}

CountInv ==
  /\ asked \in 0..MaxRecords /\ faults \in 0..MaxFaults /\ marked \subseteq Sources
  /\ written + Cardinality(Busy) <= begun + asked

LEMMA BusyFinite == IsFiniteSet(Busy) /\ Cardinality(Busy) \in Nat
<1>1. IsFiniteSet(Workers) /\ Busy \in SUBSET Workers
  BY RecordsAssumption DEF Busy
<1>2. IsFiniteSet(Busy)
  BY <1>1, FS_Subset
<1>. QED
  BY <1>2, FS_CardinalityType

LEMMA BusyNext == IsFiniteSet(Busy') /\ Cardinality(Busy') \in Nat
<1>1. IsFiniteSet(Workers) /\ Busy' \in SUBSET Workers
  BY RecordsAssumption DEF Busy
<1>2. IsFiniteSet(Busy')
  BY <1>1, FS_Subset
<1>. QED
  BY <1>2, FS_CardinalityType

LEMMA ProcessesFinite == IsFiniteSet(Processes) /\ Cardinality(Processes) \in Nat
<1>. DEFINE h == [w \in Workers |-> Home[w]]
<1>1. h \in Surjection(Workers, Processes)
  BY DEF Surjection, Processes
<1>2. IsFiniteSet(Workers)
  BY RecordsAssumption
<1>. HIDE DEF h
<1>3. IsFiniteSet(Processes)
  BY <1>1, <1>2, FS_Surjection
<1>. QED
  BY <1>3, FS_CardinalityType

LEMMA FaultsStep ==
  ASSUME [Next]_vars
  PROVE  faults' = faults \/ (faults < MaxFaults /\ faults' = faults + 1)
<1>1. ASSUME NEW w \in Workers, Logging(w)
      PROVE  faults' = faults \/ (faults < MaxFaults /\ faults' = faults + 1)
  BY <1>1 DEF Logging, Lock, Locking, Search, Rotate, Drop, Shift, Roll, Move,
              RotateFails, Open, Write, LogFails, Mishap
<1>2. ASSUME NEW w \in Workers, Asking(w) PROVE faults' = faults
  BY <1>2 DEF Asking, Reuse, Retrieve, CompleteTurn, Record
<1>3. ASSUME NEW w \in Workers, Reporting(w)
      PROVE  faults' = faults \/ (faults < MaxFaults /\ faults' = faults + 1)
  BY <1>3 DEF Reporting, Reduce, Inventory, Unlink, WriteSource, WriteReport,
              WritePart, Mishap
<1>4. CASE Aside
  BY <1>4 DEF Aside, Tick, Pin, vars
<1>5. ASSUME NEW p \in Processes, Crash(p)
      PROVE  faults < MaxFaults /\ faults' = faults + 1
  BY <1>5 DEF Crash, Mishap
<1>. QED
  BY <1>1, <1>2, <1>3, <1>4, <1>5, Steps4

LEMMA MarkedStep ==
  ASSUME JobsInv, marked \subseteq Sources, [Next]_vars
  PROVE  marked' \subseteq Sources
<1>1. ASSUME NEW w \in Workers, Done(w) PROVE marked' \subseteq Sources
  <2>1. Good(job[w])
    BY DEF JobsInv
  <2>. QED
    BY <1>1, <2>1 DEF Done, Good
<1>2. ASSUME NEW w \in Workers, Logging(w) PROVE marked' = marked \/ Done(w)
  BY <1>2 DEF Logging, Lock, Locking, Search, Rotate, Drop, Shift, Roll, Move,
              RotateFails, Open, Write, LogFails
<1>3. ASSUME NEW w \in Workers, Asking(w) PROVE marked' = marked
  BY <1>3 DEF Asking, Reuse, Retrieve, CompleteTurn, Record
<1>4. ASSUME NEW w \in Workers, Reporting(w) PROVE marked' = marked
  BY <1>4 DEF Reporting, Reduce, Inventory, Unlink, WriteSource, WriteReport,
              WritePart
<1>5. CASE Aside
  BY <1>5 DEF Aside, Tick, Pin, vars
<1>6. ASSUME NEW p \in Processes, Crash(p) PROVE marked' = marked
  BY <1>6 DEF Crash
<1>. QED
  BY <1>1, <1>2, <1>3, <1>4, <1>5, <1>6, Steps4

\* What is asked for and what is under way, together.
LEMMA CountStep ==
  ASSUME JobsInv, FilesInv, LogInv, CountInv, [Next]_vars
  PROVE  CountInv'
<1>1. faults' \in 0..MaxFaults /\ marked' \subseteq Sources
  BY FaultsStep, MarkedStep, Numbers DEF CountInv
<1>2. /\ begun \in Nat /\ asked \in Nat /\ written \in Nat
      /\ IsFiniteSet(Busy) /\ Cardinality(Busy) \in Nat
      /\ IsFiniteSet(Busy') /\ Cardinality(Busy') \in Nat
  BY BusyFinite, BusyNext, Numbers DEF FilesInv, LogInv, CountInv
<1>. DEFINE Goal == /\ asked' \in 0..MaxRecords
                    /\ written' + Cardinality(Busy') <= begun' + asked'
<1>3. ASSUME Busy' \subseteq Busy, UNCHANGED <<begun, asked, written>> PROVE Goal
  <2>1. Cardinality(Busy') <= Cardinality(Busy)
    BY <1>2, <1>3, FS_Subset
  <2>. QED
    BY <1>2, <1>3, <2>1 DEF CountInv
<1>4. ASSUME NEW w \in Workers, Inside(w) \/ Lock(w) PROVE Goal
  <2>1. Logging(w)
    BY <1>4 DEF Inside, Logging
  <2>2. job[w].step # "idle" /\ \A v \in Workers \ {w} : job'[v].step = job[v].step
    BY <2>1, LoggingJobs DEF Locked
  <2>3. UNCHANGED <<begun, asked, written>>
    BY <1>4, <2>1, InsideJobs, LoggingFiles DEF Lock, Locking
  <2>. QED
    BY <1>3, <2>2, <2>3 DEF Busy
<1>5. ASSUME NEW w \in Workers, Ends(w) PROVE Goal
  <2>1. /\ job'[w].step = "idle" /\ job[w].step # "idle"
        /\ \A v \in Workers \ {w} : job'[v] = job[v]
    BY <1>5, EndsJobs, NoJobType
  <2>2. Busy' = Busy \ {w} /\ w \in Busy
    BY <2>1 DEF Busy
  <2>3. Cardinality(Busy') = Cardinality(Busy) - 1
    BY <1>2, <2>2, FS_RemoveElement
  <2>4. (written' = written \/ written' = written + 1) /\ asked' = asked
    BY <1>5 DEF Ends, Write, LogFails
  <2>5. begun' = begun
    BY <1>5, LoggingFiles DEF Ends, Logging
  <2>. QED
    BY <1>2, <2>3, <2>4, <2>5 DEF CountInv
<1>6. ASSUME NEW w \in Workers, job[w].step # "idle", UNCHANGED <<begun, asked, written>>,
             \A v \in Workers \ {w} : job'[v] = job[v]
      PROVE  Goal
  BY <1>3, <1>6 DEF Busy
<1>7. ASSUME NEW w \in Workers, job[w].step = "idle", written' = written,
             \A v \in Workers \ {w} : job'[v] = job[v],
             asked' \in 0..MaxRecords, begun' + asked' = begun + asked + 1
      PROVE  Goal
  <2>1. Busy' \in SUBSET (Busy \cup {w}) /\ w \notin Busy
    BY <1>7 DEF Busy
  <2>2. /\ IsFiniteSet(Busy \cup {w})
        /\ Cardinality(Busy \cup {w}) = Cardinality(Busy) + 1
    BY <1>2, <2>1, FS_AddElement
  <2>3. Cardinality(Busy') <= Cardinality(Busy) + 1
    BY <2>1, <2>2, FS_Subset
  <2>. QED
    BY <1>2, <1>7, <2>3 DEF CountInv
<1>8. ASSUME NEW w \in Workers, Asking(w) PROVE Goal
  <2>1. /\ job[w].step = "idle" /\ asked < MaxRecords /\ asked' = asked + 1
        /\ UNCHANGED <<begun, written>>
    BY <1>8, RecordJob DEF Asking, reports, events
  <2>2. \A v \in Workers \ {w} : job'[v] = job[v]
    BY <1>8, OutsideJobs
  <2>3. asked' \in 0..MaxRecords /\ begun' + asked' = begun + asked + 1
    BY <1>2, <2>1, Numbers
  <2>. QED
    BY <1>7, <2>1, <2>2, <2>3
<1>9. ASSUME NEW w \in Workers, Reporting(w) PROVE Goal
  <2>1. \A v \in Workers \ {w} : job'[v] = job[v]
    BY <1>9, OutsideJobs
  <2>2. ASSUME NEW s \in Sources, Reduce(w, s) PROVE Goal
    <3>1. job[w].step = "idle" /\ begun' = begun + 1 /\ asked' = asked /\ written' = written
      BY <2>2 DEF Reduce, At, events
    <3>2. asked' \in 0..MaxRecords /\ begun' + asked' = begun + asked + 1
      BY <1>2, <3>1 DEF CountInv
    <3>. QED
      BY <1>7, <2>1, <3>1, <3>2
  <2>3. CASE Inventory(w) \/ Unlink(w) \/ WriteSource(w) \/ WriteReport(w)
    <3>1. job[w].step # "idle" /\ UNCHANGED <<begun, asked, written>>
      BY <2>3 DEF Inventory, Unlink, WriteSource, WriteReport, WritePart, At,
                  reports, events
    <3>. QED
      BY <1>6, <2>1, <3>1
  <2>. QED
    BY <1>9, <2>2, <2>3 DEF Reporting
<1>10. ASSUME Aside PROVE Goal
  <2>1. UNCHANGED <<job, begun, asked, written>>
    BY <1>10 DEF Aside, Tick, Pin, vars, reports, events
  <2>2. Busy' \subseteq Busy
    BY <2>1 DEF Busy
  <2>. QED
    BY <1>3, <2>1, <2>2
<1>11. ASSUME NEW p \in Processes, Crash(p) PROVE Goal
  <2>1. UNCHANGED <<begun, asked, written>>
    BY <1>11 DEF Crash
  <2>2. \A v \in Workers : job'[v] = NoJob \/ job'[v] = job[v]
    BY <1>11, CrashJobs
  <2>3. Busy' \subseteq Busy
    BY <2>2, NoJobType DEF Busy
  <2>. QED
    BY <1>3, <2>1, <2>3
<1>12. Goal
  BY <1>4, <1>5, <1>8, <1>9, <1>10, <1>11, Steps4 DEF Logging, Inside, Ends
<1>. QED
  BY <1>1, <1>12 DEF CountInv

LEMMA InitCount == Init => CountInv
<1>. SUFFICES ASSUME Init PROVE CountInv
  OBVIOUS
<1>1. Busy = {}
  BY NoJobType DEF Init, Busy
<1>2. Cardinality(Busy) = 0
  BY <1>1, FS_EmptySet
<1>. QED
  BY <1>2, Numbers DEF Init, CountInv

\* The processes of which a thread has the newest file open, or will open it.
Writers == {p \in Processes : \E w \in Workers :
              Home[w] = p /\ job[w].step \in {"open", "write"}}
Bound == LinesMax + Cardinality(Processes) - 1 + faults

LengthInv == crowded \/
  /\ log[0] # Absent => Len(log[0]) + Cardinality(Writers) <= Bound
  /\ \A i \in 0..Rotations : log[i] # Absent => Len(log[i]) <= Bound

LEMMA WritersFinite ==
  /\ IsFiniteSet(Writers) /\ Cardinality(Writers) \in Nat
  /\ Cardinality(Writers) <= Cardinality(Processes)
<1>1. Writers \in SUBSET Processes
  BY DEF Writers
<1>2. IsFiniteSet(Writers) /\ Cardinality(Writers) <= Cardinality(Processes)
  BY <1>1, ProcessesFinite, FS_Subset
<1>. QED
  BY <1>2, FS_CardinalityType

LEMMA WritersNext ==
  /\ IsFiniteSet(Writers') /\ Cardinality(Writers') \in Nat
  /\ Cardinality(Writers') <= Cardinality(Processes)
<1>1. Writers' \in SUBSET Processes
  BY DEF Writers
<1>2. IsFiniteSet(Writers') /\ Cardinality(Writers') <= Cardinality(Processes)
  BY <1>1, ProcessesFinite, FS_Subset
<1>. QED
  BY <1>2, FS_CardinalityType

LEMMA BoundTypes ==
  ASSUME CountInv, [Next]_vars
  PROVE  /\ Bound \in Nat /\ Bound' \in Nat /\ Bound <= Bound'
         /\ faults' = faults + 1 => Bound' = Bound + 1
         /\ LinesMax + Cardinality(Processes) - 1 <= Bound
<1>1. faults \in Nat /\ LinesMax \in Nat \ {0} /\ Cardinality(Processes) \in Nat
  BY ProcessesFinite, Numbers DEF CountInv
<1>2. faults' = faults \/ faults' = faults + 1
  BY FaultsStep
<1>. QED
  BY <1>1, <1>2 DEF Bound

\* What a step does to the newest file: it has not grown, and no more processes
\* are about to write; or one more, if a fault let it; or it is not full; or it
\* is gone.
LEMMA NewestBounded ==
  ASSUME LogInv, LengthInv, CountInv, [Next]_vars, ~crowded, log'[0] # Absent,
         \/ /\ log'[0] = log[0]
            /\ \/ Writers' \subseteq Writers
               \/ \E p \in Processes : Writers' \subseteq Writers \cup {p}
                                       /\ faults' = faults + 1
               \/ ~Full
         \/ log'[0] = << >>
  PROVE  Len(log'[0]) + Cardinality(Writers') <= Bound'
<1>1. /\ Bound \in Nat /\ Bound' \in Nat /\ Bound <= Bound'
      /\ faults' = faults + 1 => Bound' = Bound + 1
      /\ LinesMax + Cardinality(Processes) - 1 <= Bound
      /\ LinesMax \in Nat \ {0} /\ Cardinality(Processes) \in Nat
  BY BoundTypes, ProcessesFinite, Numbers
<1>2. /\ IsFiniteSet(Writers) /\ Cardinality(Writers) \in Nat
      /\ Cardinality(Writers') \in Nat
      /\ Cardinality(Writers') <= Cardinality(Processes)
  BY WritersFinite, WritersNext
<1>3. 0 \in 0..Rotations
  BY Numbers
<1>4. CASE log'[0] = << >>
  BY <1>1, <1>2, <1>4
<1>5. CASE log'[0] = log[0] /\ log'[0] # << >>
  <2>1. Len(log[0]) \in Nat /\ log[0] # Absent
    BY <1>3, <1>5, LogTypes
  <2>2. Len(log[0]) + Cardinality(Writers) <= Bound
    BY <2>1 DEF LengthInv
  <2>3. CASE Writers' \subseteq Writers
    <3>1. Cardinality(Writers') <= Cardinality(Writers)
      BY <1>2, <2>3, FS_Subset
    <3>. QED
      BY <1>1, <1>2, <1>5, <2>1, <2>2, <3>1
  <2>4. ASSUME NEW p \in Processes, Writers' \subseteq Writers \cup {p},
               faults' = faults + 1
        PROVE  Len(log'[0]) + Cardinality(Writers') <= Bound'
    <3>1. /\ IsFiniteSet(Writers \cup {p})
          /\ Cardinality(Writers \cup {p}) <= Cardinality(Writers) + 1
      <4>1. /\ IsFiniteSet(Writers \cup {p})
            /\ Cardinality(Writers \cup {p}) =
                 IF p \in Writers THEN Cardinality(Writers) ELSE Cardinality(Writers) + 1
        BY <1>2, FS_AddElement
      <4>. QED
        BY <1>2, <4>1
    <3>2. Cardinality(Writers') <= Cardinality(Writers \cup {p})
      BY <2>4, <3>1, FS_Subset
    <3>3. Cardinality(Writers \cup {p}) \in Nat
      BY <3>1, FS_CardinalityType
    <3>. QED
      BY <1>1, <1>2, <1>5, <2>1, <2>2, <2>4, <3>1, <3>2, <3>3
  <2>5. CASE ~Full
    <3>1. Len(log[0]) < LinesMax
      BY <1>1, <2>1, <2>5 DEF Full
    <3>. QED
      BY <1>1, <1>2, <1>5, <2>1, <3>1
  <2>. QED
    BY <1>5, <2>3, <2>4, <2>5
<1>. QED
  BY <1>4, <1>5

LEMMA SameWriters ==
  ASSUME \A v \in Workers : job'[v].step \in {"open", "write"} =>
           job[v].step \in {"open", "write"}
  PROVE  Writers' \subseteq Writers
BY DEF Writers

LEMMA MoreWriters ==
  ASSUME NEW w \in Workers, \A v \in Workers \ {w} : job'[v].step = job[v].step
  PROVE  Writers' \subseteq Writers \cup {Home[w]} /\ Home[w] \in Processes
BY DEF Writers, Processes

\* What there is after a step inside the lock was there before, or is empty.
LEMMA InsideFrom ==
  ASSUME JobsInv, LogInv, NEW w \in Workers, Inside(w),
         NEW i \in 0..Rotations, log'[i] # Absent
  PROVE  \/ log'[i] = << >>
         \/ \E h \in 0..Rotations : log[h] # Absent /\ log'[i] = log[h]
<1>1. CASE Stays(w)
  BY <1>1 DEF Stays
<1>2. CASE Opens(w)
  BY <1>2 DEF Opens, LogInv
<1>3. CASE Moves(w)
  <2>1. PICK k \in 0..Rotations, s \in {"shift", "roll", "open"} :
          log[k] # Absent /\ log' = Shifted(k)
    BY <1>3 DEF Moves
  <2>. QED
    BY <2>1, ShiftedFrom
<1>. QED
  BY <1>1, <1>2, <1>3, InsideLog

LEMMA InsideNewest ==
  ASSUME JobsInv, LogInv, NEW w \in Workers, Inside(w), ~crowded',
         log'[0] # Absent
  PROVE  \/ /\ log'[0] = log[0]
            /\ \/ Writers' \subseteq Writers
               \/ \E p \in Processes : Writers' \subseteq Writers \cup {p}
                                       /\ faults' = faults + 1
               \/ ~Full
         \/ log'[0] = << >>
<1>1. \A v \in Workers \ {w} : job'[v].step = job[v].step
  BY InsideJobs
<1>2. ASSUME job'[w].step \notin {"open", "write"} PROVE Writers' \subseteq Writers
  BY <1>1, <1>2, SameWriters
<1>3. CASE Stays(w)
  <2>1. log' = log /\ ~crowded
    BY <1>3 DEF Stays
  <2>2. PICK j \in Jobs :
          /\ job' = [job EXCEPT ![w] = j] /\ Good(j)
          /\ \/ j.step \in {"search", "rotate", "drop"}
             \/ j.step = "open" /\ (crowded \/ ~Full \/ RotateFails(w))
             \/ \E k \in 0..Rotations, s \in {"shift", "roll", "open"} :
                  MoveAt(w, k, s) /\ log[k] = Absent /\ j.step = s /\ j.at = k - 1
    BY <1>3 DEF Stays
  <2>3. job'[w] = j
    BY <2>2, JobMove
  <2>4. CASE RotateFails(w)
    BY <1>1, <2>1, <2>4, MoreWriters DEF RotateFails, Mishap
  <2>5. CASE j.step \in {"search", "rotate", "drop", "shift", "roll"}
    BY <1>2, <2>1, <2>3, <2>5
  <2>6. ASSUME NEW k \in 0..Rotations, MoveAt(w, k, "open"), log[k] = Absent
        PROVE  FALSE
    BY <2>1, <2>6 DEF MoveAt
  <2>. QED
    BY <2>1, <2>2, <2>4, <2>5, <2>6
<1>4. CASE Opens(w)
  <2>1. log'[0] = log[0] \/ log'[0] = << >>
    BY <1>4, Numbers DEF Opens, LogInv
  <2>2. Writers' \subseteq Writers
    BY <1>1, <1>4, SameWriters DEF Opens, At
  <2>. QED
    BY <2>1, <2>2
<1>5. CASE Moves(w)
  <2>1. PICK k \in 0..Rotations, s \in {"shift", "roll", "open"} :
          /\ MoveAt(w, k, s) /\ log[k] # Absent
          /\ log' = Shifted(k) /\ job' = Then(w, s, k)
    BY <1>5 DEF Moves
  <2>2. k # 0
    BY <2>1, ShiftedLog
  <2>3. log'[0] = log[0]
    BY <2>1, <2>2, ShiftedLog, Numbers
  <2>4. job'[w].step = s /\ s # "open"
    BY <2>1, <2>2, MovedJobs DEF MoveAt
  <2>. QED
    BY <1>2, <2>3, <2>4
<1>. QED
  BY <1>3, <1>4, <1>5, InsideLog

LEMMA LengthStep ==
  ASSUME JobsInv, FilesInv, LocksInv, LogInv, OrderInv, CountInv, LengthInv, [Next]_vars
  PROVE  LengthInv'
<1>0. /\ Bound \in Nat /\ Bound' \in Nat /\ Bound <= Bound'
      /\ 0 \in 0..Rotations /\ crowded \in BOOLEAN
  BY BoundTypes, Numbers DEF OrderInv
<1>1. ASSUME NEW i \in 0..Rotations, ~crowded, log'[i] # Absent,
             \/ log'[i] = << >>
             \/ \E h \in 0..Rotations : log[h] # Absent /\ log'[i] = log[h]
      PROVE  Len(log'[i]) <= Bound'
  <2>1. CASE log'[i] = << >>
    BY <1>0, <2>1
  <2>2. ASSUME NEW h \in 0..Rotations, log[h] # Absent, log'[i] = log[h]
        PROVE  Len(log'[i]) <= Bound'
    <3>1. Len(log[h]) \in Nat /\ Len(log[h]) <= Bound
      BY <1>1, <2>2, LogTypes DEF LengthInv
    <3>. QED
      BY <1>0, <2>2, <3>1
  <2>. QED
    BY <1>1, <2>1, <2>2
<1>2. ASSUME UNCHANGED <<log, crowded>>, Writers' \subseteq Writers
      PROVE  LengthInv'
  <2>. SUFFICES ASSUME ~crowded
                PROVE  /\ log'[0] # Absent => Len(log'[0]) + Cardinality(Writers') <= Bound'
                       /\ \A i \in 0..Rotations : log'[i] # Absent => Len(log'[i]) <= Bound'
    BY <1>2 DEF LengthInv
  <2>1. log'[0] # Absent => Len(log'[0]) + Cardinality(Writers') <= Bound'
    BY <1>2, NewestBounded
  <2>2. \A i \in 0..Rotations : log'[i] # Absent => Len(log'[i]) <= Bound'
    BY <1>1, <1>2
  <2>. QED
    BY <2>1, <2>2
<1>3. ASSUME NEW w \in Workers, Inside(w) PROVE LengthInv'
  <2>. SUFFICES ASSUME ~crowded'
                PROVE  /\ log'[0] # Absent => Len(log'[0]) + Cardinality(Writers') <= Bound'
                       /\ \A i \in 0..Rotations : log'[i] # Absent => Len(log'[i]) <= Bound'
    BY DEF LengthInv
  <2>0. ~crowded
    BY <1>3, InsideLog DEF Stays, Opens, Moves, Crowd
  <2>1. log'[0] # Absent => Len(log'[0]) + Cardinality(Writers') <= Bound'
    <3>. SUFFICES ASSUME log'[0] # Absent
                  PROVE  Len(log'[0]) + Cardinality(Writers') <= Bound'
      OBVIOUS
    <3>1. \/ /\ log'[0] = log[0]
             /\ \/ Writers' \subseteq Writers
                \/ \E p \in Processes : Writers' \subseteq Writers \cup {p}
                                        /\ faults' = faults + 1
                \/ ~Full
          \/ log'[0] = << >>
      BY <1>3, InsideNewest
    <3>. QED
      BY <2>0, <3>1, NewestBounded
  <2>2. \A i \in 0..Rotations : log'[i] # Absent => Len(log'[i]) <= Bound'
    BY <1>1, <1>3, <2>0, InsideFrom
  <2>. QED
    BY <2>1, <2>2
<1>4. ASSUME NEW w \in Workers, Write(w) PROVE LengthInv'
  <2>0. /\ job[w].step = "write" /\ job'[w] = NoJob /\ crowded' = crowded
        /\ InLock(w) /\ \A v \in Workers \ {w} : job'[v] = job[v]
    BY <1>4, EndsJobs DEF Ends, Write, At
  <2>. SUFFICES ASSUME ~crowded
                PROVE  /\ log'[0] # Absent => Len(log'[0]) + Cardinality(Writers') <= Bound'
                       /\ \A i \in 0..Rotations : log'[i] # Absent => Len(log'[i]) <= Bound'
    BY <2>0 DEF LengthInv
  <2>1. job[w].open = 0 /\ 0 # Gone
    BY <1>0, <2>0, RecordsAssumption DEF OrderInv, Slots
  <2>2. /\ log[0] # Absent /\ Len(log'[0]) = Len(log[0]) + 1
        /\ \A i \in 0..Rotations : i # 0 => log'[i] = log[i]
    BY <1>4, <2>1, WriteLog
  <2>3. Home[w] \in Writers /\ Writers' \subseteq Writers \ {Home[w]}
    <3>1. Home[w] \in Writers
      BY <2>0 DEF Writers, Processes
    <3>2. ASSUME NEW v \in Workers, job'[v].step \in {"open", "write"}
          PROVE  Home[v] \in Writers /\ Home[v] # Home[w]
      <4>1. v # w /\ job'[v] = job[v]
        BY <2>0, <3>2, NoJobType
      <4>2. InLock(v)
        BY <3>2, <4>1 DEF InLock, Locked
      <4>. QED
        BY <2>0, <3>2, <4>1, <4>2 DEF LocksInv, Writers, Processes
    <3>. QED
      BY <3>1, <3>2 DEF Writers
  <2>4. Cardinality(Writers') <= Cardinality(Writers) - 1
    <3>1. /\ IsFiniteSet(Writers \ {Home[w]})
          /\ Cardinality(Writers \ {Home[w]}) = Cardinality(Writers) - 1
      BY <2>3, WritersFinite, FS_RemoveElement
    <3>2. Cardinality(Writers') <= Cardinality(Writers \ {Home[w]})
      BY <2>3, <3>1, FS_Subset
    <3>. QED
      BY <3>1, <3>2
  <2>5. Len(log[0]) + Cardinality(Writers) <= Bound /\ Len(log[0]) \in Nat
    BY <1>0, <2>2, LogTypes DEF LengthInv
  <2>6. Len(log'[0]) + Cardinality(Writers') <= Bound' /\ Len(log'[0]) <= Bound'
    BY <1>0, <2>2, <2>4, <2>5, WritersFinite, WritersNext
  <2>7. ASSUME NEW i \in 0..Rotations, log'[i] # Absent, i # 0
        PROVE  Len(log'[i]) <= Bound'
    BY <1>1, <2>2, <2>7
  <2>. QED
    BY <2>6, <2>7
<1>5. ASSUME NEW w \in Workers, LogFails(w) PROVE LengthInv'
  <2>1. Writers' \subseteq Writers
    BY <1>5, EndsJobs, SameWriters, NoJobType DEF Ends
  <2>. QED
    BY <1>2, <1>5, <2>1 DEF LogFails
<1>6. ASSUME NEW w \in Workers, Lock(w) PROVE LengthInv'
  <2>1. Writers' \subseteq Writers
    BY <1>6, LockJob, SameWriters
  <2>. QED
    BY <1>2, <1>6, <2>1 DEF Lock, Locking
<1>7. ASSUME NEW w \in Workers, Asking(w) \/ Reporting(w) PROVE LengthInv'
  <2>1. UNCHANGED <<log, crowded>> /\ ~InLock(w)'
        /\ \A v \in Workers \ {w} : job'[v] = job[v]
    BY <1>7, OutsideJobs DEF events
  <2>2. Writers' \subseteq Writers
    BY <2>1, SameWriters DEF InLock, Locked
  <2>. QED
    BY <1>2, <2>1, <2>2
<1>8. ASSUME Aside PROVE LengthInv'
  <2>1. UNCHANGED <<job, log, crowded>>
    BY <1>8 DEF Aside, Tick, Pin, vars, events
  <2>2. Writers' \subseteq Writers
    BY <2>1, SameWriters
  <2>. QED
    BY <1>2, <2>1, <2>2
<1>9. ASSUME NEW p \in Processes, Crash(p) PROVE LengthInv'
  <2>1. Writers' \subseteq Writers
    BY <1>9, CrashJobs, SameWriters, NoJobType
  <2>. QED
    BY <1>2, <1>9, <2>1 DEF Crash
<1>. QED
  BY <1>3, <1>4, <1>5, <1>6, <1>7, <1>8, <1>9, Steps4 DEF Logging, Inside

LEMMA InitLength == Init => LengthInv
BY Numbers DEF Init, LengthInv

BoundsInv == RecordsInv /\ OrderInv /\ CountInv /\ LengthInv

\* TypeOK for every number of processes, threads and rotations, the bounds of a
\* run included: with it, that the lock of a process has one holder
\* (observability.py:243) and that the log grows past its bound by no more than
\* what the other processes have under way and by one line for each fault.
THEOREM TypeCorrect == Spec => []TypeOK
<1>1. Init => BoundsInv
  BY InitRecords, InitOrder, InitCount, InitLength DEF BoundsInv
<1>2. BoundsInv /\ [Next]_vars => BoundsInv'
  BY RecordsStep, OrderStep, CountStep, LengthStep DEF BoundsInv, RecordsInv
<1>3. BoundsInv => TypeOK
  <2>. SUFFICES ASSUME BoundsInv PROVE TypeOK
    OBVIOUS
  <2>. USE DEF BoundsInv, RecordsInv
  <2>1. /\ now \in 0..MaxTime /\ begun \in 0..MaxReports /\ pins \in 0..MaxPins
        /\ \A f \in DOMAIN files : f \in (1..begun) \X Parts /\ files[f] \in 0..now
    BY DEF FilesInv
  <2>2. written \in 0..(MaxReports + MaxRecords) /\ crowded \in BOOLEAN
    <3>1. /\ begun \in 0..MaxReports /\ asked \in 0..MaxRecords
          /\ written \in Nat /\ written + Cardinality(Busy) <= begun + asked
      BY DEF FilesInv, CountInv, LogInv
    <3>. QED
      BY <3>1, BusyFinite, Numbers DEF OrderInv
  <2>3. ASSUME NEW i \in 0..Rotations, log[i] # Absent, NEW n \in 1..Len(log[i])
        PROVE  /\ log[i][n].id \in 1..written /\ log[i][n].by \in Processes
               /\ log[i][n].kind \in EventKinds \ {"none"} /\ log[i][n].new \in BOOLEAN
    <3>1. log[i][n] \in Entry
      BY <2>3, IdType
    <3>. QED
      BY <2>3, <3>1 DEF LogInv, Entry, Sound
  <2>4. ASSUME NEW i \in 0..Rotations, log[i] # Absent
        PROVE  crowded \/ Len(log[i]) <= LinesMax + Cardinality(Processes) - 1 + faults
    BY <2>4 DEF LengthInv, Bound
  <2>5. \A p \in Processes : p \in held <=>
          \E w \in Workers : Home[w] = p /\ job[w].step \in Locked
    BY DEF LocksInv, InLock
  <2>6. \A v, w \in Workers : v # w /\ Home[v] = Home[w] =>
          ~(job[v].step \in Locked /\ job[w].step \in Locked)
    BY DEF LocksInv, InLock
  <2>7. \A w \in Workers : job[w].step \in Steps /\ job[w].event.kind \in EventKinds
    BY DEF JobsInv, Jobs, Events
  <2>8. marked \subseteq Sources /\ faults \in 0..MaxFaults
    BY DEF CountInv
  <2>. QED
    BY <2>1, <2>2, <2>3, <2>4, <2>5, <2>6, <2>7, <2>8 DEF TypeOK
<1>. QED
  BY <1>1, <1>2, <1>3, PTL DEF Spec

-----------------------------------------------------------------------------
(* What the readers make of a log, whatever lines stand in it.             *)

ReaderKinds == EventKinds \ {"none"}
Ids == ReaderKinds \X EventKeys
\* The keys of a kind among the ids that were read.
KeysIn(ids, kind) == {k \in EventKeys : <<kind, k>> \in ids}
Ledgers == [seen : SUBSET Ids, gross : Nat, back : {0}, turns : Nat,
            pending : Seq(EventKeys)]

\* A list that holds each element of K once.
Lists(q, K) ==
  /\ \A n \in 1..Len(q) : q[n] \in K
  /\ \A k \in K : \E n \in 1..Len(q) : q[n] = k
  /\ \A m, n \in 1..Len(q) : q[m] = q[n] => m = n

Counted(l) ==
  /\ l \in Ledgers /\ IsFiniteSet(l.seen)
  /\ l.gross = Cardinality(KeysIn(l.seen, "compressed"))
  /\ l.turns = Cardinality(KeysIn(l.seen, "turn"))
  /\ Lists(l.pending, KeysIn(l.seen, "retrieval"))

LEMMA KeysAreFinite ==
  ASSUME NEW ids \in SUBSET Ids, IsFiniteSet(ids), NEW kind \in ReaderKinds
  PROVE  /\ IsFiniteSet(KeysIn(ids, kind))
         /\ Cardinality(KeysIn(ids, kind)) \in Nat
<1>. DEFINE K == KeysIn(ids, kind)
            R == {i \in ids : i[1] = kind}
            f == [i \in R |-> i[2]]
<1>1. R \subseteq ids /\ IsFiniteSet(R)
  BY FS_Subset
<1>2. f \in Surjection(R, K)
  <2>1. \A i \in R : i[2] \in EventKeys /\ i = <<kind, i[2]>>
    BY DEF Ids
  <2>2. f \in [R -> K]
    BY <2>1 DEF KeysIn
  <2>3. \A k \in K : <<kind, k>> \in R /\ f[<<kind, k>>] = k
    BY DEF KeysIn
  <2>. HIDE DEF f, R, K
  <2>. QED
    BY <2>2, <2>3 DEF Surjection
<1>. HIDE DEF f, R, K
<1>3. IsFiniteSet(K) /\ Cardinality(K) \in Nat
  BY <1>1, <1>2, FS_Surjection, FS_CardinalityType
<1>. QED
  BY <1>3 DEF K

\* A line that was not read before adds its key to the keys of its kind alone.
Adds(ids, new, kind, key) ==
  /\ new \in SUBSET Ids /\ IsFiniteSet(new)
  /\ key \notin KeysIn(ids, kind)
  /\ KeysIn(new, kind) = KeysIn(ids, kind) \cup {key}
  /\ Cardinality(KeysIn(new, kind)) = Cardinality(KeysIn(ids, kind)) + 1
  /\ \A other \in ReaderKinds \ {kind} : KeysIn(new, other) = KeysIn(ids, other)

LEMMA OneMoreKey ==
  ASSUME NEW ids \in SUBSET Ids, IsFiniteSet(ids), NEW kind \in ReaderKinds,
         NEW key \in EventKeys, <<kind, key>> \notin ids
  PROVE  Adds(ids, ids \cup {<<kind, key>>}, kind, key)
<1>. DEFINE new == ids \cup {<<kind, key>>}
<1>1. new \in SUBSET Ids
  BY DEF Ids
<1>2. IsFiniteSet(new)
  BY FS_AddElement
<1>3. key \notin KeysIn(ids, kind) /\ KeysIn(new, kind) = KeysIn(ids, kind) \cup {key}
  BY DEF KeysIn
<1>4. \A other \in ReaderKinds \ {kind} : KeysIn(new, other) = KeysIn(ids, other)
  BY DEF KeysIn
<1>5. Cardinality(KeysIn(new, kind)) = Cardinality(KeysIn(ids, kind)) + 1
  BY <1>3, KeysAreFinite, FS_AddElement
<1>. QED
  BY <1>1, <1>2, <1>3, <1>4, <1>5 DEF Adds

LEMMA OneMoreListed ==
  ASSUME NEW A, NEW q \in Seq(A), NEW K \in SUBSET A, Lists(q, K), NEW k \in A, k \notin K
  PROVE  Append(q, k) \in Seq(A) /\ Lists(Append(q, k), K \cup {k})
<1>. DEFINE r == Append(q, k)
<1>1. /\ r \in Seq(A) /\ Len(r) = Len(q) + 1 /\ Len(q) \in Nat
      /\ \A n \in 1..Len(q) : r[n] = q[n]
      /\ r[Len(q) + 1] = k
  BY AppendProperties, LenProperties
<1>. HIDE DEF r
<1>2. \A n \in 1..Len(r) : n \in 1..Len(q) \/ n = Len(q) + 1
  BY <1>1
<1>3. \A n \in 1..Len(q) : n \in 1..Len(r) /\ n # Len(q) + 1
  BY <1>1
<1>4. Len(q) + 1 \in 1..Len(r)
  BY <1>1
<1>5. \A n \in 1..Len(r) : r[n] \in K \cup {k}
  BY <1>1, <1>2 DEF Lists
<1>6. \A j \in K \cup {k} : \E n \in 1..Len(r) : r[n] = j
  BY <1>1, <1>3, <1>4 DEF Lists
<1>7. ASSUME NEW m \in 1..Len(r), NEW n \in 1..Len(r), r[m] = r[n] PROVE m = n
  <2>1. CASE m \in 1..Len(q) /\ n \in 1..Len(q)
    BY <1>1, <1>7, <2>1 DEF Lists
  <2>2. \A j \in 1..Len(q) : r[j] # k
    BY <1>1 DEF Lists
  <2>. QED
    BY <1>1, <1>2, <1>7, <2>1, <2>2
<1>8. Lists(r, K \cup {k})
  BY <1>5, <1>6, <1>7 DEF Lists
<1>. QED
  BY <1>1, <1>8 DEF r

LEMMA TakenCounts ==
  ASSUME NEW l, Counted(l), NEW e, e.kind \in ReaderKinds, e.key \in EventKeys
  PROVE  Counted(Taken(l, e)) /\ Taken(l, e).seen = l.seen \cup {<<e.kind, e.key>>}
<1>. DEFINE id == <<e.kind, e.key>>
            m == [l EXCEPT !.seen = @ \cup {id}]
<1>1. l \in Ledgers /\ l.seen \in SUBSET Ids /\ IsFiniteSet(l.seen)
  BY DEF Counted, Ledgers
<1>2. CASE id \in l.seen
  BY <1>2 DEF Taken
<1>3. ASSUME id \notin l.seen
      PROVE  Counted(Taken(l, e)) /\ Taken(l, e).seen = l.seen \cup {id}
  <2>. DEFINE new == l.seen \cup {id}
  <2>1. /\ new \in SUBSET Ids /\ IsFiniteSet(new)
        /\ e.key \notin KeysIn(l.seen, e.kind)
        /\ KeysIn(new, e.kind) = KeysIn(l.seen, e.kind) \cup {e.key}
        /\ Cardinality(KeysIn(new, e.kind)) = Cardinality(KeysIn(l.seen, e.kind)) + 1
        /\ \A other \in ReaderKinds \ {e.kind} : KeysIn(new, other) = KeysIn(l.seen, other)
    <3>1. Adds(l.seen, new, e.kind, e.key)
      BY <1>1, <1>3, OneMoreKey
    <3>. QED
      BY <3>1 DEF Adds
  <2>2. {"compressed", "retrieval", "turn"} = ReaderKinds
    BY DEF ReaderKinds, EventKinds
  <2>3. m \in Ledgers /\ m.seen = new /\ m.gross = l.gross /\ m.turns = l.turns
        /\ m.pending = l.pending
    <3>. HIDE DEF new
    <3>1. m = [l EXCEPT !.seen = new]
      BY DEF new
    <3>. HIDE DEF m
    <3>. QED
      BY <1>1, <2>1, <3>1 DEF Ledgers
  <2>. HIDE DEF m, new
  <2>4. CASE e.kind = "compressed"
    <3>1. Taken(l, e) = [m EXCEPT !.gross = @ + 1]
      BY <1>3, <2>4 DEF Taken, m
    <3>2. /\ Taken(l, e) \in Ledgers /\ Taken(l, e).seen = new
          /\ Taken(l, e).gross = l.gross + 1 /\ Taken(l, e).turns = l.turns
          /\ Taken(l, e).pending = l.pending
      BY <2>3, <3>1 DEF Ledgers
    <3>3. /\ KeysIn(new, "turn") = KeysIn(l.seen, "turn")
          /\ KeysIn(new, "retrieval") = KeysIn(l.seen, "retrieval")
      BY <2>1, <2>2, <2>4
    <3>. QED
      BY <2>1, <2>4, <3>2, <3>3 DEF Counted, new
  <2>5. CASE e.kind = "retrieval"
    <3>1. Taken(l, e) = [m EXCEPT !.pending = Append(@, e.key)]
      BY <1>3, <2>5 DEF Taken, m
    <3>2. l.pending \in Seq(EventKeys) /\ KeysIn(l.seen, "retrieval") \in SUBSET EventKeys
      BY <1>1 DEF Ledgers, KeysIn
    <3>3. /\ Append(l.pending, e.key) \in Seq(EventKeys)
          /\ Lists(Append(l.pending, e.key), KeysIn(l.seen, "retrieval") \cup {e.key})
      BY <2>1, <2>5, <3>2, OneMoreListed DEF Counted
    <3>4. /\ Taken(l, e) \in Ledgers /\ Taken(l, e).seen = new
          /\ Taken(l, e).gross = l.gross /\ Taken(l, e).turns = l.turns
          /\ Taken(l, e).pending = Append(l.pending, e.key)
      BY <2>3, <3>1, <3>3 DEF Ledgers
    <3>5. /\ KeysIn(new, "turn") = KeysIn(l.seen, "turn")
          /\ KeysIn(new, "compressed") = KeysIn(l.seen, "compressed")
      BY <2>1, <2>2, <2>5
    <3>. QED
      BY <2>1, <2>5, <3>3, <3>4, <3>5 DEF Counted, new
  <2>6. CASE e.kind = "turn"
    <3>1. Taken(l, e) = [m EXCEPT !.turns = @ + 1]
      BY <1>3, <2>6 DEF Taken, m
    <3>2. /\ Taken(l, e) \in Ledgers /\ Taken(l, e).seen = new
          /\ Taken(l, e).gross = l.gross /\ Taken(l, e).turns = l.turns + 1
          /\ Taken(l, e).pending = l.pending
      BY <2>3, <3>1 DEF Ledgers
    <3>3. /\ KeysIn(new, "compressed") = KeysIn(l.seen, "compressed")
          /\ KeysIn(new, "retrieval") = KeysIn(l.seen, "retrieval")
      BY <2>1, <2>2, <2>6
    <3>. QED
      BY <2>1, <2>6, <3>2, <3>3 DEF Counted, new
  <2>. QED
    BY <2>2, <2>4, <2>5, <2>6
<1>. QED
  BY <1>2, <1>3

\* The loop of build_net_ledger is an iteration over the lines.
After(lines) == CHOOSE f : f = [n \in 0..Len(lines) |->
                  IF n = 0 THEN NoLedger ELSE Taken(f[n - 1], lines[n])]

LEMMA ReadIsAfter == \A lines : Read(lines) = After(lines)[Len(lines)]
BY DEF Read, After

Readable(e) == e.kind \in ReaderKinds /\ e.key \in EventKeys

LEMMA NothingCounted == Counted(NoLedger)
<1>1. NoLedger \in Ledgers /\ NoLedger.seen = {} /\ NoLedger.pending = << >>
      /\ NoLedger.gross = 0 /\ NoLedger.turns = 0
  BY EmptySeq DEF NoLedger, Ledgers
<1>2. \A kind : KeysIn({}, kind) = {}
  BY DEF KeysIn
<1>3. Lists(<< >>, {})
  BY EmptySeq DEF Lists
<1>. QED
  BY <1>1, <1>2, <1>3, FS_EmptySet DEF Counted

LEMMA AfterIs ==
  ASSUME NEW lines, Len(lines) \in Nat, \A n \in 1..Len(lines) : Readable(lines[n])
  PROVE  /\ After(lines)[0] = NoLedger
         /\ \A n \in 1..Len(lines) :
              After(lines)[n] = Taken(After(lines)[n - 1], lines[n])
<1>. DEFINE N == Len(lines)
            S == {l \in Ledgers : Counted(l)}
            step == [p \in S \X (1..N) |-> Taken(p[1], lines[p[2]])]
<1>1. step \in [S \X (1..N) -> S]
  <2>1. ASSUME NEW l \in S, NEW n \in 1..N PROVE Taken(l, lines[n]) \in S
    BY TakenCounts DEF Readable, Counted
  <2>. HIDE DEF S, N
  <2>2. \A p \in S \X (1..N) : Taken(p[1], lines[p[2]]) \in S
    BY <2>1
  <2>. QED
    BY <2>2
<1>2. NoLedger \in S
  BY NothingCounted DEF Counted
<1>3. PICK f : Iterates(f, N, S, NoLedger, step)
  <2>. HIDE DEF S, step
  <2>. QED
    BY <1>1, <1>2, IterationExists
<1>4. \A n \in 1..N : f[n] = Taken(f[n - 1], lines[n])
  <2>. SUFFICES ASSUME NEW n \in 1..N PROVE f[n] = Taken(f[n - 1], lines[n])
    OBVIOUS
  <2>1. n - 1 \in 0..N
    OBVIOUS
  <2>2. f[n - 1] \in S /\ f[n] = step[<<f[n - 1], n>>]
    BY <1>3, <2>1 DEF Iterates
  <2>. HIDE DEF S
  <2>3. step[<<f[n - 1], n>>] = Taken(f[n - 1], lines[n])
    BY <2>2
  <2>. QED
    BY <2>2, <2>3
<1>5. f = [n \in 0..N |-> IF n = 0 THEN NoLedger ELSE Taken(f[n - 1], lines[n])]
  <2>1. f = [n \in 0..N |-> f[n]] /\ f[0] = NoLedger
    BY <1>3 DEF Iterates
  <2>2. \A n \in 0..N : f[n] = IF n = 0 THEN NoLedger ELSE Taken(f[n - 1], lines[n])
    BY <1>4, <2>1
  <2>. QED
    BY <2>1, <2>2
<1>6. After(lines) = [n \in 0..N |-> IF n = 0 THEN NoLedger
                        ELSE Taken(After(lines)[n - 1], lines[n])]
  BY <1>5 DEF After
<1>. QED
  BY <1>6

LineIds(lines, n) == {<<lines[m].kind, lines[m].key>> : m \in 1..n}

\* What is read is counted, and what is counted was read.
LEMMA ReadCounts ==
  ASSUME NEW lines, Len(lines) \in Nat, \A n \in 1..Len(lines) : Readable(lines[n])
  PROVE  Counted(Read(lines)) /\ Read(lines).seen = LineIds(lines, Len(lines))
<1>. DEFINE N == Len(lines)
            a == After(lines)
            T == {n \in 0..N : Counted(a[n]) /\ a[n].seen = LineIds(lines, n)}
<1>1. a[0] = NoLedger /\ \A n \in 1..N : a[n] = Taken(a[n - 1], lines[n])
  BY AfterIs
<1>. HIDE DEF a
<1>2. 0 \in T
  <2>1. LineIds(lines, 0) = {} /\ NoLedger.seen = {}
    BY DEF LineIds, NoLedger
  <2>2. Counted(a[0]) /\ a[0].seen = LineIds(lines, 0)
    BY <1>1, <2>1, NothingCounted
  <2>3. 0 \in 0..N
    OBVIOUS
  <2>. QED
    BY <2>2, <2>3
<1>3. ASSUME NEW k \in 1..N, k - 1 \in T PROVE k \in T
  <2>1. Counted(a[k - 1]) /\ a[k - 1].seen = LineIds(lines, k - 1) /\ Readable(lines[k])
    BY <1>3
  <2>2. /\ Counted(a[k])
        /\ a[k].seen = a[k - 1].seen \cup {<<lines[k].kind, lines[k].key>>}
    BY <1>1, <2>1, TakenCounts DEF Readable
  <2>3. LineIds(lines, k) = LineIds(lines, k - 1) \cup {<<lines[k].kind, lines[k].key>>}
    <3>1. 1..k = (1..(k - 1)) \cup {k}
      OBVIOUS
    <3>. QED
      BY <3>1 DEF LineIds
  <2>4. k \in 0..N
    OBVIOUS
  <2>. QED
    BY <2>1, <2>2, <2>3, <2>4
<1>. HIDE DEF T
<1>4. 0..N \subseteq T
  BY <1>2, <1>3, PlaceByPlace
<1>5. N \in T
  BY <1>4
<1>. QED
  BY <1>5, ReadIsAfter DEF T, a

\* What stands in a list once is counted at its places.
LEMMA ListedCount ==
  ASSUME NEW q, Len(q) \in Nat, NEW K, Lists(q, K), NEW R \in SUBSET K
  PROVE  Cardinality({n \in 1..Len(q) : q[n] \in R}) = Cardinality(R)
<1>. DEFINE I == {n \in 1..Len(q) : q[n] \in R}
            f == [n \in I |-> q[n]]
<1>1. f \in [I -> R]
  OBVIOUS
<1>2. \A m, n \in I : f[m] = f[n] => m = n
  BY DEF Lists
<1>3. \A r \in R : \E n \in I : f[n] = r
  BY DEF Lists
<1>4. IsFiniteSet(I)
  <2>1. I \subseteq 1..Len(q) /\ IsFiniteSet(1..Len(q))
    BY FS_Interval
  <2>. QED
    BY <2>1, FS_Subset
<1>. HIDE DEF f, I
<1>5. f \in Bijection(I, R)
  BY <1>1, <1>2, <1>3 DEF Bijection, Injection, Surjection, IsInjective
<1>6. Cardinality(I) = Cardinality(R)
  <2>1. ExistsBijection(I, R)
    BY <1>5 DEF ExistsBijection
  <2>. QED
    BY <1>4, <2>1, FS_Bijection
<1>. QED
  BY <1>6 DEF I

\* The ledger of any lines: one for each source, each turn and each retrieval
\* of a source that stands anywhere among them.
LEMMA LedgerCounts ==
  ASSUME NEW lines, Len(lines) \in Nat, \A n \in 1..Len(lines) : Readable(lines[n])
  PROVE  LET ids == LineIds(lines, Len(lines)) IN
         /\ Ledger(lines).gross = Cardinality(KeysIn(ids, "compressed"))
         /\ Ledger(lines).turns = Cardinality(KeysIn(ids, "turn"))
         /\ Ledger(lines).back = Cardinality({k \in KeysIn(ids, "retrieval") :
                                   <<k[1]>> \in KeysIn(ids, "compressed")})
<1>. DEFINE ids == LineIds(lines, Len(lines))
            l == Read(lines)
            R == {k \in KeysIn(ids, "retrieval") : <<"compressed", <<k[1]>> >> \in ids}
<1>1. Counted(l) /\ l.seen = ids
  BY ReadCounts
<1>2. l \in Ledgers /\ Len(l.pending) \in Nat
  BY <1>1, LenProperties DEF Counted, Ledgers
<1>3. /\ Ledger(lines).gross = l.gross /\ Ledger(lines).turns = l.turns
      /\ Ledger(lines).back = Cardinality(Returned(l))
  BY <1>2 DEF Ledger, Ledgers
<1>. HIDE DEF l, ids
<1>4. Lists(l.pending, KeysIn(ids, "retrieval"))
  BY <1>1 DEF Counted
<1>5. Returned(l) = {n \in 1..Len(l.pending) : l.pending[n] \in R}
  BY <1>1, <1>4 DEF Returned, Lists
<1>6. R \in SUBSET KeysIn(ids, "retrieval")
  OBVIOUS
<1>7. Ledger(lines).back = Cardinality(R)
  <2>. HIDE DEF R
  <2>. QED
    BY <1>2, <1>3, <1>4, <1>5, <1>6, ListedCount
<1>8. R = {k \in KeysIn(ids, "retrieval") : <<k[1]>> \in KeysIn(ids, "compressed")}
  <2>1. ids \subseteq Ids
    BY <1>1, <1>2 DEF Ledgers
  <2>2. \A k : <<"compressed", k>> \in ids => k \in EventKeys
    BY <2>1 DEF Ids
  <2>. QED
    BY <2>2 DEF KeysIn
<1>9. /\ Ledger(lines).gross = Cardinality(KeysIn(ids, "compressed"))
      /\ Ledger(lines).turns = Cardinality(KeysIn(ids, "turn"))
  BY <1>1, <1>3 DEF Counted
<1>. QED
  BY <1>7, <1>8, <1>9 DEF ids

\* The summary of any lines: no more sources saved than stand among them.
Summaries == [seen : SUBSET EventKeys, saved : Nat]
Summing(m, ids) ==
  /\ m \in Summaries /\ IsFiniteSet(m.seen)
  /\ m.seen = KeysIn(ids, "compressed") /\ m.saved <= Cardinality(m.seen)

LEMMA SummedIs ==
  ASSUME NEW m \in Summaries, IsFiniteSet(m.seen), m.saved <= Cardinality(m.seen),
         NEW e, e.key \in EventKeys
  PROVE  /\ Summed(m, e) \in Summaries /\ IsFiniteSet(Summed(m, e).seen)
         /\ Summed(m, e).saved <= Cardinality(Summed(m, e).seen)
         /\ Summed(m, e).seen = IF e.kind = "compressed" THEN m.seen \cup {e.key} ELSE m.seen
<1>1. CASE e.kind # "compressed" \/ e.key \in m.seen
  <2>1. Summed(m, e) = m
    BY <1>1 DEF Summed
  <2>2. e.kind = "compressed" => m.seen \cup {e.key} = m.seen
    BY <1>1
  <2>. QED
    BY <2>1, <2>2
<1>2. CASE e.kind = "compressed" /\ e.key \notin m.seen
  <2>. DEFINE new == m.seen \cup {e.key}
              x == IF e.new THEN m.saved + 1 ELSE m.saved
  <2>1. m.seen \in SUBSET EventKeys /\ m.saved \in Nat
    BY DEF Summaries
  <2>2. /\ new \in SUBSET EventKeys /\ IsFiniteSet(new)
        /\ Cardinality(new) = Cardinality(m.seen) + 1 /\ Cardinality(m.seen) \in Nat
    BY <1>2, <2>1, FS_AddElement, FS_CardinalityType
  <2>3. x \in Nat /\ x <= Cardinality(new)
    BY <2>1, <2>2
  <2>. HIDE DEF new
  <2>4. Summed(m, e) = [[m EXCEPT !.seen = new] EXCEPT !.saved = x]
    BY <1>2 DEF Summed, new, Summaries
  <2>. HIDE DEF x
  <2>5. /\ Summed(m, e) \in Summaries
        /\ Summed(m, e).seen = new /\ Summed(m, e).saved = x
    BY <2>2, <2>3, <2>4 DEF Summaries
  <2>. QED
    BY <1>2, <2>2, <2>3, <2>5 DEF new
<1>. QED
  BY <1>1, <1>2

\* The loop of _headroom_turn_summary_line is one too.
SumAfter(lines) == CHOOSE f : f = [n \in 0..Len(lines) |->
                     IF n = 0 THEN NoSummary ELSE Summed(f[n - 1], lines[n])]

LEMMA SummaryIsAfter == \A lines : Summary(lines) = SumAfter(lines)[Len(lines)]
BY DEF Summary, SumAfter

LEMMA SumAfterIs ==
  ASSUME NEW lines, Len(lines) \in Nat, \A n \in 1..Len(lines) : Readable(lines[n])
  PROVE  /\ SumAfter(lines)[0] = NoSummary
         /\ \A n \in 1..Len(lines) :
              SumAfter(lines)[n] = Summed(SumAfter(lines)[n - 1], lines[n])
<1>. DEFINE N == Len(lines)
            S == {m \in Summaries : IsFiniteSet(m.seen) /\ m.saved <= Cardinality(m.seen)}
            step == [p \in S \X (1..N) |-> Summed(p[1], lines[p[2]])]
<1>1. step \in [S \X (1..N) -> S]
  <2>1. ASSUME NEW m \in S, NEW n \in 1..N PROVE Summed(m, lines[n]) \in S
    BY SummedIs DEF Readable
  <2>. HIDE DEF S, N
  <2>2. \A p \in S \X (1..N) : Summed(p[1], lines[p[2]]) \in S
    BY <2>1
  <2>. QED
    BY <2>2
<1>2. NoSummary \in S
  BY FS_EmptySet DEF NoSummary, Summaries
<1>3. PICK f : Iterates(f, N, S, NoSummary, step)
  <2>. HIDE DEF S, step
  <2>. QED
    BY <1>1, <1>2, IterationExists
<1>4. \A n \in 1..N : f[n] = Summed(f[n - 1], lines[n])
  <2>. SUFFICES ASSUME NEW n \in 1..N PROVE f[n] = Summed(f[n - 1], lines[n])
    OBVIOUS
  <2>1. n - 1 \in 0..N
    OBVIOUS
  <2>2. f[n - 1] \in S /\ f[n] = step[<<f[n - 1], n>>]
    BY <1>3, <2>1 DEF Iterates
  <2>. HIDE DEF S
  <2>3. step[<<f[n - 1], n>>] = Summed(f[n - 1], lines[n])
    BY <2>2
  <2>. QED
    BY <2>2, <2>3
<1>5. f = [n \in 0..N |-> IF n = 0 THEN NoSummary ELSE Summed(f[n - 1], lines[n])]
  <2>1. f = [n \in 0..N |-> f[n]] /\ f[0] = NoSummary
    BY <1>3 DEF Iterates
  <2>2. \A n \in 0..N : f[n] = IF n = 0 THEN NoSummary ELSE Summed(f[n - 1], lines[n])
    BY <1>4, <2>1
  <2>. QED
    BY <2>1, <2>2
<1>6. SumAfter(lines) = [n \in 0..N |-> IF n = 0 THEN NoSummary
                           ELSE Summed(SumAfter(lines)[n - 1], lines[n])]
  BY <1>5 DEF SumAfter
<1>. QED
  BY <1>6

LEMMA SummaryCounts ==
  ASSUME NEW lines, Len(lines) \in Nat, \A n \in 1..Len(lines) : Readable(lines[n])
  PROVE  Summary(lines).saved <= Cardinality(KeysIn(LineIds(lines, Len(lines)), "compressed"))
<1>. DEFINE N == Len(lines)
            a == SumAfter(lines)
            T == {n \in 0..N : Summing(a[n], LineIds(lines, n))}
<1>1. a[0] = NoSummary /\ \A n \in 1..N : a[n] = Summed(a[n - 1], lines[n])
  BY SumAfterIs
<1>. HIDE DEF a
<1>2. 0 \in T
  <2>1. KeysIn(LineIds(lines, 0), "compressed") = {}
    BY DEF LineIds, KeysIn
  <2>2. Summing(a[0], LineIds(lines, 0))
    BY <1>1, <2>1, FS_EmptySet DEF Summing, Summaries, NoSummary
  <2>3. 0 \in 0..N
    OBVIOUS
  <2>. QED
    BY <2>2, <2>3
<1>3. ASSUME NEW k \in 1..N, k - 1 \in T PROVE k \in T
  <2>. DEFINE e == lines[k]
              m == a[k - 1]
              K(n) == KeysIn(LineIds(lines, n), "compressed")
  <2>1. /\ m \in Summaries /\ IsFiniteSet(m.seen) /\ m.saved <= Cardinality(m.seen)
        /\ m.seen = K(k - 1) /\ e.key \in EventKeys
    BY <1>3 DEF Summing, Readable
  <2>2. LineIds(lines, k) = LineIds(lines, k - 1) \cup {<<e.kind, e.key>>}
    <3>1. 1..k = (1..(k - 1)) \cup {k}
      OBVIOUS
    <3>. QED
      BY <3>1 DEF LineIds
  <2>3. K(k) = IF e.kind = "compressed" THEN K(k - 1) \cup {e.key} ELSE K(k - 1)
    BY <2>1, <2>2 DEF KeysIn
  <2>4. a[k] = Summed(m, e)
    BY <1>1
  <2>. HIDE DEF m, e, K
  <2>5. /\ a[k] \in Summaries /\ IsFiniteSet(a[k].seen)
        /\ a[k].saved <= Cardinality(a[k].seen) /\ a[k].seen = K(k)
    <3>1. /\ Summed(m, e) \in Summaries /\ IsFiniteSet(Summed(m, e).seen)
          /\ Summed(m, e).saved <= Cardinality(Summed(m, e).seen)
          /\ Summed(m, e).seen = IF e.kind = "compressed" THEN m.seen \cup {e.key} ELSE m.seen
      BY <2>1, SummedIs
    <3>2. Summed(m, e).seen = K(k)
      BY <2>1, <2>3, <3>1
    <3>. QED
      BY <2>4, <3>1, <3>2
  <2>6. k \in 0..N
    OBVIOUS
  <2>. QED
    BY <2>5, <2>6 DEF Summing, K
<1>. HIDE DEF T
<1>4. 0..N \subseteq T
  BY <1>2, <1>3, PlaceByPlace
<1>5. N \in T
  BY <1>4
<1>. QED
  BY <1>5, SummaryIsAfter DEF T, a, Summing

\* Whatever the log holds, whichever process wrote it, rotated it or failed to,
\* the ledger takes each source, each turn and each retrieval of a source once,
\* and the summary shown after a turn claims no more sources than the ledger
\* (net_ledger.py:107, llm-monitor/__init__.py:442).
THEOREM ReadersAgree == Spec => []ReadersCountOnce
<1>1. Init => RecordsInv
  BY InitRecords
<1>2. RecordsInv /\ [Next]_vars => RecordsInv'
  BY RecordsStep
<1>3. RecordsInv => ReadersCountOnce
  <2>. SUFFICES ASSUME RecordsInv PROVE ReadersCountOnce
    OBVIOUS
  <2>1. Len(Lines) \in Nat /\ \A n \in 1..Len(Lines) : Readable(Lines[n])
    <3>1. CASE log[0] = Absent
      BY <3>1, EmptySeq DEF Lines
    <3>2. CASE log[0] # Absent
      <4>1. 0 \in 0..Rotations
        BY Numbers
      <4>2. Lines = log[0] /\ log[0] \in Seq(Entry) /\ Len(log[0]) \in Nat
        BY <3>2, <4>1, LogTypes DEF RecordsInv, Lines
      <4>3. \A n \in 1..Len(log[0]) : log[0][n] \in Entry /\ Sound(log[0][n])
        BY <3>2, <4>1, <4>2 DEF RecordsInv, LogInv
      <4>4. \A e \in Entry : Sound(e) => Readable(e)
        BY DEF Entry, Sound, Readable, ReaderKinds
      <4>. QED
        BY <4>2, <4>3, <4>4
    <3>. QED
      BY <3>1, <3>2
  <2>. DEFINE es == {Lines[n] : n \in 1..Len(Lines)}
              Keys(k) == {e.key : e \in {d \in es : d.kind = k}}
              ids == LineIds(Lines, Len(Lines))
  <2>2. ASSUME NEW k \in ReaderKinds PROVE Keys(k) = KeysIn(ids, k)
    BY <2>1 DEF KeysIn, LineIds, Readable
  <2>3. /\ Keys("compressed") = KeysIn(ids, "compressed")
        /\ Keys("turn") = KeysIn(ids, "turn")
        /\ Keys("retrieval") = KeysIn(ids, "retrieval")
    BY <2>2 DEF ReaderKinds, EventKinds
  <2>4. /\ Ledger(Lines).gross = Cardinality(KeysIn(ids, "compressed"))
        /\ Ledger(Lines).turns = Cardinality(KeysIn(ids, "turn"))
        /\ Ledger(Lines).back = Cardinality({k \in KeysIn(ids, "retrieval") :
                                  <<k[1]>> \in KeysIn(ids, "compressed")})
        /\ Summary(Lines).saved <= Cardinality(KeysIn(ids, "compressed"))
    BY <2>1, LedgerCounts, SummaryCounts
  <2>. HIDE DEF Keys, ids
  <2>5. /\ Ledger(Lines).gross = Cardinality(Keys("compressed"))
        /\ Ledger(Lines).turns = Cardinality(Keys("turn"))
        /\ Ledger(Lines).back = Cardinality({k \in Keys("retrieval") :
                                  <<k[1]>> \in Keys("compressed")})
        /\ Summary(Lines).saved <= Ledger(Lines).gross
    BY <2>3, <2>4
  <2>. QED
    BY <2>5 DEF ReadersCountOnce, Keys
<1>. QED
  BY <1>1, <1>2, <1>3, PTL DEF Spec
=============================================================================
