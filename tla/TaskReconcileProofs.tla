------------------------- MODULE TaskReconcileProofs -------------------------
(***************************************************************************)
(* What holds of reconcile, doctor and the plan for every number of        *)
(* commands and of other actors, and whatever fails or is killed when.     *)
(***************************************************************************)
EXTENDS TaskReconcile, TLAPS

-----------------------------------------------------------------------------
(* The invariant: what a command relies on at the step it is about.        *)

Busy(n) == job[n].step \notin {"idle", "lock", "release", "change"}

\* Who writes holds the lock, and there is a deployment.
LockKnown(n) ==
  /\ job[n].locked => lock = n
  /\ job[n].step \in ChildSteps \cup {"recheck", "failed", "record", "release", "change"}
       => job[n].locked
  /\ job[n].step = "examine" => (job[n].locked <=> job[n].command = "apply")
  /\ job[n].step \in {"idle", "lock"} => ~job[n].locked
StateKnown(n) ==
  \/ job[n].step \in ChildSteps \cup {"failed", "record"}
  \/ job[n].step = "examine" /\ job[n].command = "apply"
  => state # "none"

\* The tasks were the manager's when the plan was made under the lock.
HasSnapshot == {"launcher", "startup", "health", "match", "save", "reload",
                "undo_startup", "undo_health", "undo_launcher"}
SnapshotKnown(n) ==
  /\ job[n].before # None =>
       job[n].step \in (ChildSteps \ {"load", "snapshot"}) \cup {"failed"}
  /\ job[n].step \in HasSnapshot => job[n].before # None
TasksKnown(n) == job[n].step \in ChildSteps \cup {"recheck"} =>
  \A k \in Kinds \ job[n].touched :
    Managed(task[k]) /\ (job[n].before # None => Managed(job[n].before.task[k]))

\* Steps at which a part is as the child found it, the last ones if the undo
\* did not fail.
FoundBy(k) == IF k = "startup" THEN {"launcher", "startup"}
              ELSE {"launcher", "startup", "health"}
UndoneBy(k) == IF k = "startup"
  THEN {"undo_health", "undo_launcher", "undo_manifest", "failed"}
  ELSE {"undo_launcher", "undo_manifest", "failed"}
TasksUndone(n) == job[n].before # None => \A k \in Kinds \ job[n].touched :
  (job[n].step \in FoundBy(k) \/ (job[n].step \in UndoneBy(k) /\ ~job[n].broken))
    => task[k] = job[n].before.task[k]
LauncherUndone(n) == (job[n].before # None /\ "launcher" \notin job[n].touched) =>
  /\ job[n].step = "launcher" => launcher = job[n].before.launcher
  /\ (job[n].step \in {"undo_manifest", "failed"} /\ ~job[n].broken)
       => launcher \in {job[n].before.launcher, "torn"}
ManifestUndone(n) ==
  ("manifest" \notin job[n].touched
   /\ \/ job[n].step \in {"snapshot", "launcher", "startup", "health", "match", "save"}
      \/ job[n].step = "failed" /\ job[n].before # None /\ ~job[n].broken)
  => manifest = job[n].original

\* What has been examined with success.
TasksFine(n) == \A k \in Kinds \ job[n].touched : Exact(task[k])
ManifestFine(n) == {"launcher", "manifest"} \cap job[n].touched = {} => TaskContract
Left(n, p) == \E i \in 1..Len(job[n].parts) : job[n].parts[i] = p
Examinations == {<<"service", "manifest", "tasks">>, <<"manifest", "tasks", "service">>,
  <<"manifest", "tasks">>, <<"tasks", "service">>, <<"tasks">>, <<"service">>, <<>>}
Verified(n) ==
  /\ job[n].step = "examine" => job[n].parts \in Examinations
  /\ (job[n].step = "examine" /\ job[n].ok) =>
       (Left(n, "tasks") \/ TasksFine(n)) /\ (Left(n, "manifest") \/ ManifestFine(n))
  /\ (job[n].step = "record" \/ (job[n].step = "report" /\ job[n].says = "RUNTIME_FULL_DURABLE"))
       => TasksFine(n) /\ ManifestFine(n)

FreeKnown(n) ==
  (job[n].step = "report" /\ job[n].says = "RUNTIME_ABSENT"
   /\ "listener" \notin job[n].touched) => listener = "none"

Knows(n) ==
  /\ LockKnown(n) /\ StateKnown(n) /\ SnapshotKnown(n) /\ TasksKnown(n)
  /\ TasksUndone(n) /\ LauncherUndone(n) /\ ManifestUndone(n)
  /\ Verified(n) /\ FreeKnown(n)

\* As long as nobody else has acted, all there is is the manager's.
Untouched == edits = 0 =>
  /\ sound /\ state \in {"partial", "full"}
  /\ \A k \in Kinds : Managed(task[k])
  /\ \A n \in Managers : job[n].step # "change" /\
       (job[n].before # None => \A k \in Kinds : Managed(job[n].before.task[k]))

IInv == TypeOK /\ (\A n \in Managers : Knows(n)) /\ Untouched

-----------------------------------------------------------------------------
(* What a step of one command leaves to the others.                        *)

\* Their jobs are as they were, but for the marks of what was changed.
Noted(n, things) ==
  /\ job'[n].step = job[n].step /\ job'[n].command = job[n].command
  /\ job'[n].locked = job[n].locked /\ job'[n].seen = job[n].seen
  /\ job'[n].original = job[n].original /\ job'[n].before = job[n].before
  /\ job'[n].installed = job[n].installed /\ job'[n].broken = job[n].broken
  /\ job'[n].parts = job[n].parts /\ job'[n].ok = job[n].ok
  /\ job'[n].says = job[n].says
  /\ job[n].touched \subseteq job'[n].touched
  /\ Busy(n) => things \subseteq job'[n].touched

\* Only these things are changed.
Changes(things) ==
  /\ \A k \in Kinds \ things : task'[k] = task[k]
  /\ "launcher" \notin things => launcher' = launcher
  /\ "manifest" \notin things => manifest' = manifest
  /\ "listener" \notin things => listener' = listener

LEMMA TouchedJob ==
  ASSUME NEW j \in Jobs, NEW T \in SUBSET Things
  PROVE  /\ [j EXCEPT !.touched = T] \in Jobs
         /\ [j EXCEPT !.touched = T] =
              [step |-> j.step, command |-> j.command, locked |-> j.locked,
               seen |-> j.seen, original |-> j.original, before |-> j.before,
               installed |-> j.installed, broken |-> j.broken, touched |-> T,
               parts |-> j.parts, ok |-> j.ok, says |-> j.says]
BY DEF Jobs

LEMMA MarkedNotes ==
  ASSUME job \in [Managers -> Jobs], NEW n \in Managers, NEW things \in SUBSET Things,
         job'[n] = Marked(n, things)
  PROVE  job'[n] \in Jobs /\ Noted(n, things)
<1>. DEFINE T == job[n].touched \cup things
<1>1. job[n] \in Jobs /\ T \in SUBSET Things
  BY DEF Jobs
<1>2. CASE Busy(n)
  <2>1. job'[n] = [job[n] EXCEPT !.touched = T]
    BY <1>2 DEF Busy, Marked
  <2>2. /\ job'[n] \in Jobs
        /\ job'[n] =
             [step |-> job[n].step, command |-> job[n].command, locked |-> job[n].locked,
              seen |-> job[n].seen, original |-> job[n].original, before |-> job[n].before,
              installed |-> job[n].installed, broken |-> job[n].broken, touched |-> T,
              parts |-> job[n].parts, ok |-> job[n].ok, says |-> job[n].says]
    BY <1>1, <2>1, TouchedJob
  <2>. QED
    BY <2>2 DEF Noted
<1>3. CASE ~Busy(n)
  <2>1. job'[n] = job[n]
    BY <1>3 DEF Busy, Marked
  <2>. QED
    BY <1>1, <1>3, <2>1 DEF Noted
<1>. QED
  BY <1>2, <1>3

LEMMA BecomeNotes ==
  ASSUME job \in [Managers -> Jobs], NEW m \in Managers, NEW j \in Jobs,
         NEW things \in SUBSET Things, Become(m, j, things)
  PROVE  /\ job' \in [Managers -> Jobs] /\ job'[m] = j
         /\ \A n \in Managers \ {m} : Noted(n, things)
<1>1. \A n \in Managers \ {m} : job'[n] = Marked(n, things)
  BY DEF Become
<1>2. job'[m] = j /\ job' = [n \in Managers |-> job'[n]]
  BY DEF Become
<1>3. \A n \in Managers \ {m} : job'[n] \in Jobs /\ Noted(n, things)
  BY <1>1, MarkedNotes
<1>. QED
  BY <1>2, <1>3

LEMMA OthersKnow ==
  ASSUME IInv, NEW n \in Managers, NEW things \in SUBSET Things,
         Noted(n, things), Changes(things),
         lock' = lock \/ ~job[n].locked,
         state' # "none" \/ state = "none" \/ ~job[n].locked
  PROVE  Knows(n)'
<1>0. Knows(n)
  BY DEF IInv
<1>1. LockKnown(n)'
  BY <1>0 DEF Knows, LockKnown, Noted
<1>2. StateKnown(n)'
  BY <1>0 DEF Knows, LockKnown, StateKnown, Noted
<1>3. SnapshotKnown(n)'
  BY <1>0 DEF Knows, SnapshotKnown, HasSnapshot, Noted
<1>4. TasksKnown(n)'
  BY <1>0 DEF Knows, TasksKnown, Noted, Changes, Busy, ChildSteps
<1>5. TasksUndone(n)'
  BY <1>0 DEF Knows, TasksUndone, FoundBy, UndoneBy, Noted, Changes, Busy
<1>6. LauncherUndone(n)'
  BY <1>0 DEF Knows, LauncherUndone, Noted, Changes, Busy
<1>7. ManifestUndone(n)'
  BY <1>0 DEF Knows, ManifestUndone, Noted, Changes, Busy
<1>8. Verified(n)'
  <2>1. Busy(n) => (TasksFine(n) => TasksFine(n)') /\ (ManifestFine(n) => ManifestFine(n)')
    BY DEF TasksFine, ManifestFine, TaskContract, Exact, Noted, Changes
  <2>2. \A p : Left(n, p) => Left(n, p)'
    BY DEF Left, Noted
  <2>3. (job'[n].step \in {"examine", "record", "report"}) => Busy(n)
    BY DEF Noted, Busy
  <2>. QED
    BY <1>0, <2>1, <2>2, <2>3 DEF Knows, Verified, Noted
<1>9. FreeKnown(n)'
  BY <1>0 DEF Knows, FreeKnown, Noted, Changes, Busy
<1>. QED
  BY <1>1, <1>2, <1>3, <1>4, <1>5, <1>6, <1>7, <1>8, <1>9 DEF Knows

\* What is shared has its types.
SharedTypes ==
  /\ lock \in Managers \cup {None, Stale}
  /\ state \in {"none", "partial", "full", "service"} /\ sound \in BOOLEAN
  /\ manifest \in Manifests /\ launcher \in Launchers
  /\ task \in [Kinds -> Tasks \cup {None}] /\ listener \in Listeners
  /\ answer \in Decisions /\ faults \in 0..MaxFaults /\ edits \in 0..MaxEdits

\* The manager's own deployment, as a step of m leaves it.
OursAfter(m) == edits = 0 =>
  /\ state' \in {"partial", "full"} /\ \A k \in Kinds : Managed(task'[k])
  /\ job'[m].step # "change"
  /\ job'[m].before # None => \A k \in Kinds : Managed(job'[m].before.task[k])

LEMMA Combine ==
  ASSUME IInv, NEW m \in Managers, NEW j \in Jobs, NEW things \in SUBSET Things,
         Become(m, j, things), Changes(things), SharedTypes',
         edits' = edits, sound' = sound, OursAfter(m), Knows(m)',
         lock' = lock \/ \A n \in Managers \ {m} : ~job[n].locked,
         state' # "none" \/ state = "none"
  PROVE  IInv'
<1>1. /\ job' \in [Managers -> Jobs] /\ job'[m] = j
      /\ \A n \in Managers \ {m} : Noted(n, things)
  BY BecomeNotes DEF IInv, TypeOK
<1>2. TypeOK'
  BY <1>1 DEF SharedTypes, TypeOK
<1>3. \A n \in Managers : Knows(n)'
  BY <1>1, OthersKnow
<1>4. Untouched'
  BY <1>1 DEF IInv, Untouched, OursAfter, Noted
<1>. QED
  BY <1>2, <1>3, <1>4 DEF IInv

\* A step that changes nothing that is shared but faults and answer.
LEMMA CombineQuiet ==
  ASSUME IInv, NEW m \in Managers, NEW j \in Jobs, Become(m, j, {}),
         UNCHANGED <<lock, state, deployment, listener, edits>>,
         faults' \in 0..MaxFaults, answer' \in Decisions,
         j.step # "change", j.before \in {None, job[m].before}, Knows(m)'
  PROVE  IInv'
<1>1. job'[m] = j
  BY BecomeNotes DEF IInv, TypeOK
<1>2. Changes({}) /\ SharedTypes' /\ sound' = sound /\ lock' = lock
  BY DEF Changes, SharedTypes, IInv, TypeOK, deployment
<1>3. OursAfter(m)
  BY <1>1 DEF OursAfter, IInv, Untouched, deployment
<1>. QED
  BY <1>2, <1>3, Combine DEF IInv

-----------------------------------------------------------------------------
(* Jobs.                                                                   *)

LEMMA IdleJob ==
  /\ Idle \in Jobs /\ Idle.step = "idle" /\ Idle.command = "none" /\ ~Idle.locked
  /\ Idle.before = None /\ Idle.touched = {} /\ Idle.ok /\ Idle.says = "none"
  /\ Idle.parts = <<>>
BY DEF Idle, Jobs, Steps, Commands, Manifests, Decisions

LEMMA MovedJob ==
  ASSUME IInv, NEW m \in Managers, NEW s \in Steps
  PROVE  /\ job[m] \in Jobs /\ Moved(m, s) \in Jobs
         /\ Moved(m, s) =
              [step |-> s, command |-> job[m].command, locked |-> job[m].locked,
               seen |-> job[m].seen, original |-> job[m].original,
               before |-> job[m].before, installed |-> job[m].installed,
               broken |-> job[m].broken, touched |-> job[m].touched,
               parts |-> job[m].parts, ok |-> job[m].ok, says |-> job[m].says]
<1>1. job[m] \in Jobs
  BY DEF IInv, TypeOK
<1>. QED
  BY <1>1 DEF Moved, Jobs

LEMMA EndedJob ==
  ASSUME IInv, NEW m \in Managers
  PROVE  /\ Ended(m) \in Jobs /\ Ended(m).before = None
         /\ Ended(m).locked <=> job[m].locked
         /\ Ended(m).step = IF job[m].locked THEN "release" ELSE "idle"
<1>1. job[m].command \in Commands /\ job[m].locked \in BOOLEAN
  BY DEF IInv, TypeOK, Jobs
<1>2. CASE job[m].locked
  BY <1>1, <1>2, IdleJob DEF Ended, Jobs, Steps
<1>3. CASE ~job[m].locked
  BY <1>1, <1>3, IdleJob DEF Ended
<1>. QED
  BY <1>2, <1>3

LEMMA PlainKnows ==
  ASSUME NEW m \in Managers, job'[m].before = None,
         job'[m].step \in {"idle", "lock", "files", "listener", "tasks", "release", "change"},
         job'[m].locked => lock' = m,
         job'[m].step \in {"release", "change"} => job'[m].locked,
         job'[m].step \in {"idle", "lock"} => ~job'[m].locked
  PROVE  Knows(m)'
<1>1. LockKnown(m)' /\ StateKnown(m)' /\ SnapshotKnown(m)' /\ TasksKnown(m)'
  BY DEF LockKnown, StateKnown, SnapshotKnown, HasSnapshot, TasksKnown, ChildSteps
<1>2. TasksUndone(m)' /\ LauncherUndone(m)' /\ ManifestUndone(m)'
  BY DEF TasksUndone, LauncherUndone, ManifestUndone
<1>3. Verified(m)' /\ FreeKnown(m)'
  BY DEF Verified, FreeKnown
<1>. QED
  BY <1>1, <1>2, <1>3 DEF Knows

LEMMA LeaveHolds ==
  ASSUME IInv, NEW m \in Managers, NEW d \in Decisions, Leave(m, d),
         UNCHANGED <<lock, state, deployment, listener, edits>>,
         faults' \in 0..MaxFaults
  PROVE  IInv'
<1>1. Become(m, Ended(m), {}) /\ answer' \in Decisions
  BY DEF Leave
<1>2. job'[m] = Ended(m)
  BY <1>1, EndedJob, BecomeNotes DEF IInv, TypeOK
<1>3. job[m].locked => lock = m
  BY DEF IInv, Knows, LockKnown
<1>4. Knows(m)'
  BY <1>2, <1>3, EndedJob, PlainKnows
<1>. QED
  BY <1>1, <1>4, EndedJob, CombineQuiet

-----------------------------------------------------------------------------
(* The plan.                                                               *)

LEMMA BeginHolds ==
  ASSUME IInv, NEW m \in Managers, NEW c \in Commands, Begin(m, c)
  PROVE  IInv'
<1>. DEFINE j == [Idle EXCEPT !.command = c,
       !.step = IF c = "doctor" THEN "examine" ELSE "files",
       !.parts = IF c = "doctor" THEN <<"service", "manifest", "tasks">> ELSE <<>>]
<1>1. Become(m, j, {}) /\ UNCHANGED <<lock, state, deployment, world, answer>>
      /\ c # "other"
  BY DEF Begin
<1>2. <<"service", "manifest", "tasks">> \in Seq(Parts) /\ <<>> \in Seq(Parts)
  BY DEF Parts
<1>3. /\ j \in Jobs /\ j.before = None /\ ~j.locked /\ j.command = c
      /\ j.step = (IF c = "doctor" THEN "examine" ELSE "files")
      /\ c = "doctor" => j.parts = <<"service", "manifest", "tasks">>
  BY <1>2, IdleJob DEF Idle, Jobs, Steps
<1>. HIDE DEF j
<1>4. job'[m] = j
  BY <1>1, <1>3, BecomeNotes DEF IInv, TypeOK
<1>5. Knows(m)'
  <2>1. CASE c # "doctor"
    BY <1>3, <1>4, <2>1, PlainKnows
  <2>2. CASE c = "doctor"
    <3>1. LockKnown(m)' /\ StateKnown(m)' /\ SnapshotKnown(m)' /\ TasksKnown(m)'
      BY <1>3, <1>4, <2>2 DEF LockKnown, StateKnown, SnapshotKnown, HasSnapshot, TasksKnown, ChildSteps
    <3>2. TasksUndone(m)' /\ LauncherUndone(m)' /\ ManifestUndone(m)' /\ FreeKnown(m)'
      BY <1>3, <1>4, <2>2 DEF TasksUndone, LauncherUndone, ManifestUndone, FreeKnown
    <3>3. j.parts[2] = "manifest" /\ j.parts[3] = "tasks" /\ Len(j.parts) = 3
      BY <1>3, <2>2
    <3>4. Left(m, "manifest")' /\ Left(m, "tasks")'
      BY <1>4, <3>3 DEF Left
    <3>5. Verified(m)'
      BY <1>3, <1>4, <2>2, <3>4 DEF Verified, Examinations
    <3>. QED
      BY <3>1, <3>2, <3>5 DEF Knows
  <2>. QED
    BY <2>1, <2>2
<1>6. UNCHANGED <<listener, edits, faults, answer>>
  BY <1>1 DEF world
<1>7. faults' \in 0..MaxFaults /\ answer' \in Decisions
  BY <1>6 DEF IInv, TypeOK
<1>. QED
  BY <1>1, <1>3, <1>5, <1>6, <1>7, CombineQuiet

LEMMA ReadFilesHolds ==
  ASSUME IInv, NEW m \in Managers, ReadFiles(m)
  PROVE  IInv'
<1>. DEFINE i == Moved(m, "listener")
            j == [i EXCEPT !.seen = Sight, !.touched = {}]
<1>1. Become(m, j, {}) /\ UNCHANGED <<lock, state, deployment, world, answer>>
      /\ job[m].step = "files"
  BY DEF ReadFiles, At
<1>2. Sight \in Sights
  BY DEF Sight, Sights, Mismatches, IInv, TypeOK
<1>3. i \in Jobs /\ i.before = job[m].before /\ i.locked = job[m].locked
      /\ i.step = "listener"
  BY MovedJob DEF Steps
<1>4. j \in Jobs /\ j.before = job[m].before /\ j.locked = job[m].locked
      /\ j.step = "listener"
  <2>. HIDE DEF i
  <2>. QED
    BY <1>2, <1>3 DEF Jobs
<1>. HIDE DEF j
<1>5. job'[m] = j
  BY <1>1, <1>4, BecomeNotes DEF IInv, TypeOK
<1>6. job[m].before = None /\ (job[m].locked => lock = m)
  BY <1>1 DEF IInv, Knows, SnapshotKnown, HasSnapshot, LockKnown, ChildSteps
<1>7. Knows(m)'
  BY <1>1, <1>4, <1>5, <1>6, PlainKnows
<1>8. UNCHANGED <<listener, edits, faults, answer>>
  BY <1>1 DEF world
<1>9. faults' \in 0..MaxFaults /\ answer' \in Decisions
  BY <1>8 DEF IInv, TypeOK
<1>. QED
  BY <1>1, <1>4, <1>7, <1>8, <1>9, CombineQuiet

LEMMA DecidedHolds ==
  ASSUME IInv, NEW m \in Managers, job[m].step \in {"listener", "tasks"},
         NEW d \in Decisions \ {"RUNTIME_FULL_DURABLE"}, Decided(m, d),
         UNCHANGED <<lock, state, deployment, listener, edits>>,
         faults' \in 0..MaxFaults,
         d = "RUNTIME_ABSENT" => listener = "none",
         d = "MIGRATION_REQUIRED" => \A k \in Kinds : Managed(task[k])
  PROVE  IInv'
<1>0. /\ job[m] \in Jobs /\ job[m].before = None /\ (job[m].locked => lock = m)
      /\ answer \in Decisions
  BY DEF IInv, TypeOK, Knows, SnapshotKnown, HasSnapshot, LockKnown, ChildSteps
<1>1. CASE job[m].command = "plan"
  <2>. DEFINE i == Moved(m, "report")
              j == [i EXCEPT !.says = d, !.seen = None]
  <2>1. Become(m, j, {}) /\ answer' = answer
    BY <1>1 DEF Decided
  <2>2. /\ j \in Jobs /\ j.before = None /\ j.locked = job[m].locked
        /\ j.step = "report" /\ j.says = d
    <3>1. i \in Jobs /\ i.before = None /\ i.locked = job[m].locked /\ i.step = "report"
      BY <1>0, MovedJob DEF Steps
    <3>. HIDE DEF i
    <3>. QED
      BY <3>1 DEF Jobs
  <2>. HIDE DEF j
  <2>3. job'[m] = j
    BY <2>1, <2>2, BecomeNotes DEF IInv, TypeOK
  <2>4. LockKnown(m)' /\ StateKnown(m)' /\ SnapshotKnown(m)' /\ TasksKnown(m)'
    BY <1>0, <2>2, <2>3 DEF LockKnown, StateKnown, SnapshotKnown, HasSnapshot, TasksKnown, ChildSteps
  <2>5. TasksUndone(m)' /\ LauncherUndone(m)' /\ ManifestUndone(m)' /\ FreeKnown(m)'
    BY <1>0, <2>2, <2>3 DEF TasksUndone, LauncherUndone, ManifestUndone, FreeKnown
  <2>6. Verified(m)'
    BY <2>2, <2>3 DEF Verified
  <2>. QED
    BY <1>0, <2>1, <2>2, <2>4, <2>5, <2>6, CombineQuiet DEF Knows
<1>2. CASE job[m].command # "plan" /\ d # "MIGRATION_REQUIRED"
  <2>1. Leave(m, "RECONCILE_BLOCKED")
    BY <1>2 DEF Decided
  <2>. QED
    BY <2>1, LeaveHolds DEF Decisions
<1>3. CASE job[m].command # "plan" /\ d = "MIGRATION_REQUIRED" /\ job[m].locked
  <2>. DEFINE i == Moved(m, "recheck")
              j == [i EXCEPT !.seen = None]
  <2>1. Become(m, j, {}) /\ answer' = answer
    BY <1>3 DEF Decided, Granted
  <2>2. /\ j \in Jobs /\ j.before = None /\ j.locked /\ j.step = "recheck"
    <3>1. i \in Jobs /\ i.before = None /\ i.locked /\ i.step = "recheck"
      BY <1>0, <1>3, MovedJob DEF Steps
    <3>. HIDE DEF i
    <3>. QED
      BY <3>1 DEF Jobs
  <2>. HIDE DEF j
  <2>3. job'[m] = j
    BY <2>1, <2>2, BecomeNotes DEF IInv, TypeOK
  <2>4. LockKnown(m)' /\ StateKnown(m)' /\ SnapshotKnown(m)' /\ FreeKnown(m)'
    BY <1>0, <1>3, <2>2, <2>3 DEF LockKnown, StateKnown, SnapshotKnown, HasSnapshot, FreeKnown, ChildSteps
  <2>5. TasksUndone(m)' /\ LauncherUndone(m)' /\ ManifestUndone(m)' /\ Verified(m)'
    BY <2>2, <2>3 DEF TasksUndone, LauncherUndone, ManifestUndone, Verified
  <2>6. TasksKnown(m)'
    BY <1>3, <2>2, <2>3 DEF TasksKnown, deployment
  <2>. QED
    BY <1>0, <2>1, <2>2, <2>4, <2>5, <2>6, CombineQuiet DEF Knows
<1>4. CASE job[m].command # "plan" /\ d = "MIGRATION_REQUIRED" /\ ~job[m].locked
  <2>. DEFINE j == [Idle EXCEPT !.command = "apply", !.step = "lock"]
  <2>1. Become(m, j, {}) /\ answer' = answer
    BY <1>4 DEF Decided, Granted
  <2>2. j \in Jobs /\ j.before = None /\ ~j.locked /\ j.step = "lock"
    BY IdleJob DEF Idle, Jobs, Steps, Commands
  <2>. HIDE DEF j
  <2>3. job'[m] = j
    BY <2>1, <2>2, BecomeNotes DEF IInv, TypeOK
  <2>4. Knows(m)'
    BY <2>2, <2>3, PlainKnows
  <2>. QED
    BY <1>0, <2>1, <2>2, <2>4, CombineQuiet
<1>. QED
  BY <1>1, <1>2, <1>3, <1>4

LEMMA MishapCounts ==
  ASSUME IInv, NEW f, Mishap(f) \/ UNCHANGED faults
  PROVE  faults' \in 0..MaxFaults
BY NamesAssumption DEF Mishap, IInv, TypeOK

LEMMA ReadListenerHolds ==
  ASSUME IInv, NEW m \in Managers, ReadListener(m)
  PROVE  IInv'
<1>1. PICK l \in Listeners \cup {"unknown"} :
        /\ Inventory(l)
        /\ IF job[m].seen.state # "none" THEN Goto(m, "tasks")
           ELSE Decided(m, IF l = "none" THEN "RUNTIME_ABSENT" ELSE "OWNERSHIP_AMBIGUOUS")
  BY DEF ReadListener
<1>2. job[m].step = "listener" /\ UNCHANGED <<lock, state, deployment, listener, edits>>
  BY DEF ReadListener, At
<1>3. faults' \in 0..MaxFaults /\ (l = "none" => listener = "none")
  BY <1>1, MishapCounts DEF Inventory
<1>4. job[m].before = None /\ (job[m].locked => lock = m) /\ answer \in Decisions
  BY <1>2 DEF IInv, TypeOK, Knows, SnapshotKnown, HasSnapshot, LockKnown, ChildSteps
<1>5. CASE Goto(m, "tasks")
  <2>. DEFINE j == Moved(m, "tasks")
  <2>1. /\ j \in Jobs /\ j.before = None /\ j.step = "tasks"
        /\ j.locked = job[m].locked
    BY <1>4, MovedJob DEF Steps
  <2>. HIDE DEF j
  <2>2. Become(m, j, {}) /\ answer' = answer
    BY <1>5 DEF Goto, j
  <2>3. job'[m] = j
    BY <2>1, <2>2, BecomeNotes DEF IInv, TypeOK
  <2>4. Knows(m)'
    BY <1>2, <1>4, <2>1, <2>3, PlainKnows
  <2>. QED
    BY <1>2, <1>3, <1>4, <2>1, <2>2, <2>4, CombineQuiet
<1>6. CASE l = "none" /\ Decided(m, "RUNTIME_ABSENT")
  BY <1>2, <1>3, <1>6, DecidedHolds DEF Decisions
<1>7. CASE Decided(m, "OWNERSHIP_AMBIGUOUS")
  BY <1>2, <1>3, <1>7, DecidedHolds DEF Decisions
<1>. QED
  BY <1>1, <1>5, <1>6, <1>7

LEMMA PlanDecides ==
  ASSUME NEW seen, NEW q
  PROVE  /\ Plan(seen, q) \in Decisions \ {"RUNTIME_FULL_DURABLE", "RUNTIME_ABSENT"}
         /\ Plan(seen, q) = "MIGRATION_REQUIRED" => \A k \in Kinds : Managed(q[k])
BY DEF Plan, Decisions

LEMMA LosingCounts ==
  ASSUME IInv, NEW lost, Losing(lost)
  PROVE  faults' \in 0..MaxFaults
BY MishapCounts DEF Losing

LEMMA QueriedIs ==
  ASSUME NEW lost, NEW k \in Kinds
  PROVE  Queried(lost)[k] = task[k] \/ Queried(lost)[k] = None
BY DEF Queried

LEMMA ReadTasksHolds ==
  ASSUME IInv, NEW m \in Managers, ReadTasks(m)
  PROVE  IInv'
<1>1. PICK lost \in SUBSET Kinds : Losing(lost) /\ Decided(m, Plan(job[m].seen, Queried(lost)))
  BY DEF ReadTasks
<1>2. job[m].step = "tasks" /\ UNCHANGED <<lock, state, deployment, listener, edits>>
  BY DEF ReadTasks, At
<1>. DEFINE d == Plan(job[m].seen, Queried(lost))
<1>3. d \in Decisions \ {"RUNTIME_FULL_DURABLE", "RUNTIME_ABSENT"}
  BY PlanDecides
<1>4. d = "MIGRATION_REQUIRED" => \A k \in Kinds : Managed(task[k])
  BY PlanDecides, QueriedIs DEF Managed
<1>. HIDE DEF d
<1>5. Decided(m, d) /\ faults' \in 0..MaxFaults
  BY <1>1, LosingCounts DEF d
<1>. QED
  BY <1>2, <1>3, <1>4, <1>5, DecidedHolds

LEMMA IdleHolds ==
  ASSUME IInv, NEW m \in Managers, Become(m, Idle, {}),
         UNCHANGED <<lock, state, deployment, listener, edits>>,
         faults' \in 0..MaxFaults, answer' \in Decisions
  PROVE  IInv'
<1>1. job'[m] = Idle
  BY IdleJob, BecomeNotes DEF IInv, TypeOK
<1>2. Knows(m)'
  BY <1>1, IdleJob, PlainKnows
<1>. QED
  BY <1>2, IdleJob, CombineQuiet

LEMMA ReportHolds ==
  ASSUME IInv, NEW m \in Managers, Report(m)
  PROVE  IInv'
<1>1. Become(m, Idle, {}) /\ UNCHANGED <<lock, state, deployment, listener, edits>>
      /\ UNCHANGED faults /\ UNCHANGED answer
  BY DEF Report, world
<1>. QED
  BY <1>1, IdleHolds DEF IInv, TypeOK

LEMMA TakeLockHolds ==
  ASSUME IInv, NEW m \in Managers, TakeLock(m)
  PROVE  IInv'
<1>1. job[m].step = "lock" /\ UNCHANGED <<state, deployment, listener, edits, faults>>
  BY DEF TakeLock, At, world
<1>2. /\ job[m].before = None /\ ~job[m].locked /\ faults' \in 0..MaxFaults
      /\ answer \in Decisions
  BY <1>1 DEF IInv, TypeOK, Knows, SnapshotKnown, HasSnapshot, LockKnown, ChildSteps
<1>3. CASE lock # None /\ Leave(m, "ERROR") /\ UNCHANGED lock
  BY <1>1, <1>2, <1>3, LeaveHolds DEF Decisions
<1>4. CASE /\ AcquireLock(m)
           /\ Become(m, [Moved(m, "files") EXCEPT !.locked = TRUE], {})
           /\ UNCHANGED answer
  <2>. DEFINE i == Moved(m, "files")
              j == [i EXCEPT !.locked = TRUE]
  <2>1. i \in Jobs /\ i.before = None /\ i.step = "files"
    BY <1>2, MovedJob DEF Steps
  <2>. HIDE DEF i
  <2>2. j \in Jobs /\ j.before = None /\ j.step = "files" /\ j.locked
    BY <2>1 DEF Jobs
  <2>. HIDE DEF j
  <2>3. Become(m, j, {}) /\ lock = None /\ lock' = m /\ answer' = answer
    BY <1>4 DEF AcquireLock, i, j
  <2>4. job'[m] = j
    BY <2>2, <2>3, BecomeNotes DEF IInv, TypeOK
  <2>5. Knows(m)'
    BY <2>2, <2>3, <2>4, PlainKnows
  <2>6. \A n \in Managers : ~job[n].locked
    BY <2>3, NamesAssumption DEF IInv, Knows, LockKnown
  <2>7. Changes({}) /\ SharedTypes' /\ sound' = sound
    BY <1>1, <1>2, <2>3 DEF Changes, SharedTypes, IInv, TypeOK, deployment
  <2>8. OursAfter(m)
    BY <1>1, <2>2, <2>4 DEF OursAfter, IInv, Untouched, deployment
  <2>. QED
    BY <1>1, <2>2, <2>3, <2>5, <2>6, <2>7, <2>8, Combine
<1>. QED
  BY <1>3, <1>4 DEF TakeLock

LEMMA ReleaseHolds ==
  ASSUME IInv, NEW m \in Managers, Release(m)
  PROVE  IInv'
<1>1. /\ job[m].step = "release" /\ UNCHANGED <<state, deployment, listener, edits, faults>>
      /\ lock' = None /\ Become(m, Idle, {}) /\ answer' = answer
  BY DEF Release, At, world
<1>2. lock = m /\ answer \in Decisions
  BY <1>1 DEF IInv, TypeOK, Knows, LockKnown
<1>3. job'[m] = Idle
  BY <1>1, IdleJob, BecomeNotes DEF IInv, TypeOK
<1>4. Knows(m)'
  BY <1>3, IdleJob, PlainKnows
<1>5. \A n \in Managers \ {m} : ~job[n].locked
  BY <1>2 DEF IInv, Knows, LockKnown
<1>6. Changes({}) /\ SharedTypes' /\ sound' = sound
  BY <1>1, <1>2 DEF Changes, SharedTypes, IInv, TypeOK, deployment
<1>7. OursAfter(m)
  BY <1>1, <1>3, IdleJob DEF OursAfter, IInv, Untouched, deployment
<1>. QED
  BY <1>1, <1>4, <1>5, <1>6, <1>7, IdleJob, Combine

LEMMA RecheckHolds ==
  ASSUME IInv, NEW m \in Managers, Recheck(m)
  PROVE  IInv'
<1>1. job[m].step = "recheck" /\ UNCHANGED <<lock, state, deployment, listener, edits>>
  BY DEF Recheck, At
<1>2. faults' \in 0..MaxFaults
  BY LosingCounts, MishapCounts DEF Recheck
<1>3. CASE \E d \in Decisions : Leave(m, d)
  BY <1>1, <1>2, <1>3, LeaveHolds
<1>4. CASE Goto(m, "load") /\ state \in {"partial", "full"}
  <2>0. /\ job[m].before = None /\ job[m].locked /\ lock = m /\ answer \in Decisions
        /\ TasksKnown(m)
    BY <1>1 DEF IInv, TypeOK, Knows, SnapshotKnown, HasSnapshot, LockKnown, ChildSteps
  <2>. DEFINE j == Moved(m, "load")
  <2>1. /\ j \in Jobs /\ j.before = None /\ j.step = "load" /\ j.locked
        /\ j.touched = job[m].touched
    BY <2>0, MovedJob DEF Steps, ChildSteps
  <2>. HIDE DEF j
  <2>2. Become(m, j, {}) /\ answer' = answer
    BY <1>4 DEF Goto, j
  <2>3. job'[m] = j
    BY <2>1, <2>2, BecomeNotes DEF IInv, TypeOK
  <2>4. LockKnown(m)' /\ StateKnown(m)' /\ SnapshotKnown(m)' /\ FreeKnown(m)'
    BY <1>1, <1>4, <2>0, <2>1, <2>3 DEF LockKnown, StateKnown, SnapshotKnown, HasSnapshot, FreeKnown
  <2>5. TasksUndone(m)' /\ LauncherUndone(m)' /\ ManifestUndone(m)' /\ Verified(m)'
    BY <2>1, <2>3 DEF TasksUndone, LauncherUndone, ManifestUndone, Verified
  <2>6. TasksKnown(m)'
    BY <1>1, <2>0, <2>1, <2>3 DEF TasksKnown, deployment
  <2>. QED
    BY <1>1, <1>2, <2>0, <2>1, <2>2, <2>4, <2>5, <2>6, CombineQuiet DEF Knows
<1>. QED
  BY <1>3, <1>4 DEF Recheck, Decisions

LEMMA RaisesHolds ==
  ASSUME IInv, NEW m \in Managers, Raises(m)
  PROVE  IInv'
<1>1. /\ Become(m, Ended(m), {}) /\ UNCHANGED <<lock, state, deployment, listener, edits>>
      /\ answer' \in {"ERROR", answer}
  BY DEF Raises
<1>2. faults' \in 0..MaxFaults /\ answer' \in Decisions
  BY <1>1, MishapCounts DEF Raises, Decisions, IInv, TypeOK
<1>3. job'[m] = Ended(m)
  BY <1>1, EndedJob, BecomeNotes DEF IInv, TypeOK
<1>4. job[m].locked => lock = m
  BY DEF IInv, Knows, LockKnown
<1>5. Knows(m)'
  BY <1>1, <1>3, <1>4, EndedJob, PlainKnows
<1>. QED
  BY <1>1, <1>2, <1>5, EndedJob, CombineQuiet

-----------------------------------------------------------------------------
(* The child.                                                              *)

\* What a step of the child may make of tasks, launcher and manifest.
ChildEffect(m, things) ==
  /\ Changes(things)
  /\ \A k \in Kinds : \/ task'[k] = task[k] \/ task'[k] = Silent
                      \/ job[m].before # None /\ task'[k] = job[m].before.task[k]
  /\ task' \in [Kinds -> Tasks \cup {None}]
  /\ manifest' \in Manifests /\ launcher' \in Launchers
  /\ UNCHANGED <<lock, state, sound, listener, edits, answer>>
  /\ faults' \in 0..MaxFaults

LEMMA SilentIsManaged == Silent \in Tasks /\ Silent # None /\ Managed(Silent)
<1>1. Silent \in Tasks /\ Silent.enabled /\ Silent.action = "silent"
  BY DEF Silent, Tasks
<1>2. Silent # None
  <2>. HIDE DEF Tasks
  <2>. QED
    BY <1>1, NamesAssumption
<1>. QED
  BY <1>1, <1>2 DEF Managed

LEMMA ChildHolds ==
  ASSUME IInv, NEW m \in Managers, job[m].step \in ChildSteps,
         NEW j \in Jobs, NEW things \in SUBSET Things,
         Become(m, j, things), ChildEffect(m, things),
         j.step \in ChildSteps \cup {"failed"}, j.locked <=> job[m].locked,
         j.step \in {"load", "snapshot"} => j.before = None,
         j.step \in HasSnapshot => j.before # None,
         \/ j.before = job[m].before
         \/ j.before # None /\ \A k \in Kinds : j.before.task[k] = task[k],
         TasksKnown(m)', TasksUndone(m)', LauncherUndone(m)', ManifestUndone(m)'
  PROVE  IInv'
<1>1. job'[m] = j
  BY BecomeNotes DEF IInv, TypeOK
<1>2. job[m].locked /\ lock = m /\ state # "none"
  BY DEF IInv, Knows, LockKnown, StateKnown
<1>3. LockKnown(m)' /\ StateKnown(m)' /\ SnapshotKnown(m)' /\ FreeKnown(m)'
  BY <1>1, <1>2 DEF LockKnown, StateKnown, SnapshotKnown, HasSnapshot, FreeKnown, ChildSteps, ChildEffect
<1>4. Verified(m)'
  BY <1>1 DEF Verified, ChildSteps
<1>5. Knows(m)'
  BY <1>3, <1>4 DEF Knows
<1>6. Managed(Silent)
  BY SilentIsManaged
<1>7. OursAfter(m)
  <2>1. SUFFICES ASSUME edits = 0
                 PROVE  /\ state' \in {"partial", "full"} /\ \A k \in Kinds : Managed(task'[k])
                        /\ job'[m].step # "change"
                        /\ job'[m].before # None => \A k \in Kinds : Managed(job'[m].before.task[k])
    BY DEF OursAfter
  <2>2. /\ state \in {"partial", "full"} /\ \A k \in Kinds : Managed(task[k])
        /\ job[m].before # None => \A k \in Kinds : Managed(job[m].before.task[k])
    BY <2>1 DEF IInv, Untouched
  <2>3. state' \in {"partial", "full"} /\ job'[m].step # "change"
    BY <1>1, <2>2 DEF ChildEffect, ChildSteps
  <2>4. \A k \in Kinds : Managed(task'[k])
    BY <1>6, <2>2 DEF ChildEffect
  <2>5. job'[m].before # None => \A k \in Kinds : Managed(job'[m].before.task[k])
    BY <1>1, <2>2
  <2>. QED
    BY <2>3, <2>4, <2>5
<1>8. Changes(things) /\ SharedTypes' /\ sound' = sound /\ lock' = lock /\ state' = state
  BY DEF ChildEffect, SharedTypes, IInv, TypeOK
<1>. QED
  BY <1>5, <1>7, <1>8, Combine DEF ChildEffect

\* What a child knows when it is about to take a step.
LEMMA ChildKnows ==
  ASSUME IInv, NEW m \in Managers, job[m].step \in ChildSteps
  PROVE  /\ job[m] \in Jobs /\ job[m].touched \subseteq Things
         /\ job[m].step \in {"load", "snapshot"} => job[m].before = None
         /\ job[m].before # None => job[m].before \in Snapshots
         /\ job[m].step \in HasSnapshot => job[m].before # None
         /\ \A k \in Kinds \ job[m].touched :
              Managed(task[k]) /\ (job[m].before # None => Managed(job[m].before.task[k]))
         /\ TasksUndone(m) /\ LauncherUndone(m) /\ ManifestUndone(m)
         /\ task \in [Kinds -> Tasks \cup {None}] /\ launcher \in Launchers
         /\ manifest \in Manifests /\ Silent \in Tasks
         /\ lock = m /\ job[m].locked /\ state # "none"
<1>1. job[m] \in Jobs /\ Knows(m) /\ TypeOK
  BY DEF IInv, TypeOK
<1>2. job[m].before \in Snapshots \cup {None} /\ job[m].touched \subseteq Things
  BY <1>1 DEF Jobs
<1>. QED
  BY <1>1, <1>2 DEF Knows, SnapshotKnown, HasSnapshot, TasksKnown, LockKnown, StateKnown, TypeOK, Silent, Tasks

\* A step that only says which is the next, with nothing but faults changed.
LEMMA ChildGoto ==
  ASSUME IInv, NEW m \in Managers, job[m].step \in ChildSteps,
         NEW s \in ChildSteps \cup {"failed"}, Goto(m, s),
         UNCHANGED <<lock, state, deployment, listener, edits>>,
         faults' \in 0..MaxFaults,
         s \notin {"load", "snapshot"},
         s \in HasSnapshot => job[m].before # None,
         (job[m].before # None) => \A k \in Kinds \ job[m].touched :
            (s \in FoundBy(k) \/ (s \in UndoneBy(k) /\ ~job[m].broken))
              => task[k] = job[m].before.task[k],
         (job[m].before # None /\ "launcher" \notin job[m].touched) =>
            /\ s = "launcher" => launcher = job[m].before.launcher
            /\ (s \in {"undo_manifest", "failed"} /\ ~job[m].broken)
                 => launcher \in {job[m].before.launcher, "torn"},
         ("manifest" \notin job[m].touched
          /\ \/ s \in {"snapshot", "launcher", "startup", "health", "match", "save"}
             \/ s = "failed" /\ job[m].before # None /\ ~job[m].broken)
            => manifest = job[m].original
  PROVE  IInv'
<1>. DEFINE j == Moved(m, s)
<1>1. /\ j \in Jobs /\ j.step = s /\ j.before = job[m].before
      /\ j.broken = job[m].broken /\ j.touched = job[m].touched
      /\ j.original = job[m].original /\ (j.locked <=> job[m].locked)
  BY MovedJob DEF Steps
<1>2. Become(m, j, {}) /\ answer' = answer
  BY DEF Goto
<1>. HIDE DEF j
<1>3. job'[m] = j
  BY <1>1, <1>2, BecomeNotes DEF IInv, TypeOK
<1>4. ChildEffect(m, {})
  BY <1>2 DEF ChildEffect, Changes, deployment, IInv, TypeOK
<1>5. TasksKnown(m)'
  BY <1>1, <1>3, ChildKnows DEF TasksKnown, deployment
<1>6. TasksUndone(m)' /\ LauncherUndone(m)' /\ ManifestUndone(m)'
  BY <1>1, <1>3 DEF TasksUndone, LauncherUndone, ManifestUndone, deployment
<1>. QED
  BY <1>1, <1>2, <1>4, <1>5, <1>6, ChildHolds

LEMMA LoadHolds ==
  ASSUME IInv, NEW m \in Managers, Load(m)
  PROVE  IInv'
<1>1. job[m].step = "load" /\ UNCHANGED <<lock, state, deployment, listener, edits, faults>>
  BY DEF Load, At, world
<1>2. job[m].before = None /\ faults' \in 0..MaxFaults
  BY <1>1, ChildKnows DEF ChildSteps, IInv, TypeOK
<1>3. CASE Exits(m)
  BY <1>1, <1>2, <1>3, ChildGoto DEF Exits, ChildSteps, HasSnapshot
<1>4. CASE Become(m, [Moved(m, "snapshot") EXCEPT !.original = manifest], {}) /\ UNCHANGED answer
  <2>. DEFINE i == Moved(m, "snapshot")
              j == [i EXCEPT !.original = manifest]
  <2>1. /\ i \in Jobs /\ i.step = "snapshot" /\ i.before = None
        /\ i.touched = job[m].touched /\ (i.locked <=> job[m].locked)
    BY <1>2, MovedJob DEF Steps, ChildSteps
  <2>. HIDE DEF i
  <2>2. /\ j \in Jobs /\ j.step = "snapshot" /\ j.before = None
        /\ j.touched = job[m].touched /\ (j.locked <=> job[m].locked)
        /\ j.original = manifest
    BY <2>1 DEF Jobs, IInv, TypeOK
  <2>. HIDE DEF j
  <2>3. Become(m, j, {}) /\ answer' = answer
    BY <1>4 DEF i, j
  <2>4. job'[m] = j
    BY <2>2, <2>3, BecomeNotes DEF IInv, TypeOK
  <2>5. ChildEffect(m, {})
    BY <1>1, <1>2, <2>3 DEF ChildEffect, Changes, deployment, IInv, TypeOK
  <2>6. TasksKnown(m)'
    BY <1>1, <2>2, <2>4, ChildKnows DEF TasksKnown, deployment, ChildSteps
  <2>7. TasksUndone(m)' /\ LauncherUndone(m)' /\ ManifestUndone(m)'
    BY <1>1, <2>2, <2>4 DEF TasksUndone, LauncherUndone, ManifestUndone, deployment
  <2>. QED
    BY <1>1, <1>2, <2>2, <2>3, <2>5, <2>6, <2>7, ChildHolds DEF ChildSteps, HasSnapshot
<1>. QED
  BY <1>3, <1>4 DEF Load

LEMMA SnapshotHolds ==
  ASSUME IInv, NEW m \in Managers, Snapshot(m)
  PROVE  IInv'
<1>1. job[m].step = "snapshot" /\ UNCHANGED <<lock, state, deployment, listener, edits, faults>>
  BY DEF Snapshot, At, world
<1>2. /\ job[m].before = None /\ faults' \in 0..MaxFaults
      /\ task \in [Kinds -> Tasks \cup {None}] /\ launcher \in Launchers
      /\ ManifestUndone(m)
      /\ \A k \in Kinds \ job[m].touched : Managed(task[k])
  BY <1>1, ChildKnows DEF ChildSteps, IInv, TypeOK
<1>3. CASE Goto(m, "undo_manifest")
  BY <1>1, <1>2, <1>3, ChildGoto DEF ChildSteps, HasSnapshot
<1>4. CASE /\ \A k \in Kinds : task[k] # None
           /\ Become(m, [Moved(m, "launcher") EXCEPT
                !.before = [task |-> task, launcher |-> launcher]], {})
           /\ UNCHANGED answer
  <2>. DEFINE b == [task |-> task, launcher |-> launcher]
              i == Moved(m, "launcher")
              j == [i EXCEPT !.before = b]
  <2>1. /\ i \in Jobs /\ i.step = "launcher" /\ i.original = job[m].original
        /\ i.touched = job[m].touched /\ (i.locked <=> job[m].locked)
    BY MovedJob DEF Steps, ChildSteps
  <2>2. task \in [Kinds -> Tasks]
    BY <1>2, <1>4
  <2>3. b \in Snapshots /\ b.task = task /\ b.launcher = launcher
    BY <1>2, <2>2 DEF Snapshots
  <2>. HIDE DEF i, b
  <2>4. /\ j \in Jobs /\ j.step = "launcher" /\ j.before = b
        /\ j.touched = job[m].touched /\ (j.locked <=> job[m].locked)
        /\ j.original = job[m].original
    BY <2>1, <2>3 DEF Jobs
  <2>. HIDE DEF j
  <2>5. Become(m, j, {}) /\ answer' = answer
    BY <1>4 DEF i, j, b
  <2>6. job'[m] = j
    BY <2>4, <2>5, BecomeNotes DEF IInv, TypeOK
  <2>7. ChildEffect(m, {})
    BY <1>1, <1>2, <2>5 DEF ChildEffect, Changes, deployment, IInv, TypeOK
  <2>8. TasksKnown(m)'
    BY <1>1, <1>2, <2>3, <2>4, <2>6 DEF TasksKnown, deployment, ChildSteps
  <2>9. TasksUndone(m)' /\ LauncherUndone(m)' /\ ManifestUndone(m)'
    BY <1>1, <1>2, <2>3, <2>4, <2>6 DEF TasksUndone, LauncherUndone, ManifestUndone, deployment
  <2>10. j.before # None /\ \A k \in Kinds : j.before.task[k] = task[k]
    <3>. HIDE DEF b
    <3>. QED
      BY <2>3, <2>4, NamesAssumption
  <2>11. job[m].step \in ChildSteps /\ j.step \in ChildSteps
    BY <1>1, <2>4 DEF ChildSteps
  <2>. QED
    BY <1>2, <2>4, <2>5, <2>7, <2>8, <2>9, <2>10, <2>11, ChildHolds
<1>. QED
  BY <1>3, <1>4 DEF Snapshot

\* A step that keeps what the child found, whatever it changes.
LEMMA ChildMoves ==
  ASSUME IInv, NEW m \in Managers, job[m].step \in ChildSteps,
         NEW j \in Jobs, NEW things \in SUBSET Things,
         Become(m, j, things), ChildEffect(m, things),
         j.step \in (ChildSteps \ {"load", "snapshot"}) \cup {"failed"},
         j.locked <=> job[m].locked, j.before = job[m].before,
         j.touched = job[m].touched, j.original = job[m].original,
         j.step \in HasSnapshot => job[m].before # None,
         (job[m].before # None) => \A k \in Kinds \ job[m].touched :
            (j.step \in FoundBy(k) \/ (j.step \in UndoneBy(k) /\ ~j.broken))
              => task'[k] = job[m].before.task[k],
         (job[m].before # None /\ "launcher" \notin job[m].touched) =>
            /\ j.step = "launcher" => launcher' = job[m].before.launcher
            /\ (j.step \in {"undo_manifest", "failed"} /\ ~j.broken)
                 => launcher' \in {job[m].before.launcher, "torn"},
         ("manifest" \notin job[m].touched
          /\ \/ j.step \in {"snapshot", "launcher", "startup", "health", "match", "save"}
             \/ j.step = "failed" /\ job[m].before # None /\ ~j.broken)
            => manifest' = job[m].original
  PROVE  IInv'
<1>1. job'[m] = j
  BY BecomeNotes DEF IInv, TypeOK
<1>2. TasksKnown(m)'
  <2>1. \A k \in Kinds \ job[m].touched :
          Managed(task'[k]) /\ (job[m].before # None => Managed(job[m].before.task[k]))
    BY ChildKnows, SilentIsManaged DEF ChildEffect
  <2>. QED
    BY <1>1, <2>1 DEF TasksKnown
<1>3. TasksUndone(m)' /\ LauncherUndone(m)' /\ ManifestUndone(m)'
  BY <1>1 DEF TasksUndone, LauncherUndone, ManifestUndone
<1>. QED
  BY <1>2, <1>3, ChildHolds

LEMMA WriteLauncherHolds ==
  ASSUME IInv, NEW m \in Managers, WriteLauncher(m)
  PROVE  IInv'
<1>. DEFINE j == Moved(m, "startup")
<1>1. /\ job[m].step = "launcher" /\ job[m].step \in ChildSteps
      /\ Become(m, j, {"launcher"}) /\ launcher' = "silent"
      /\ UNCHANGED <<lock, state, sound, manifest, task, listener, edits, faults, answer>>
  BY DEF WriteLauncher, At, world, ChildSteps
<1>2. /\ j \in Jobs /\ j.step = "startup" /\ (j.locked <=> job[m].locked)
      /\ j.before = job[m].before /\ j.touched = job[m].touched
      /\ j.original = job[m].original
  BY MovedJob DEF Steps, ChildSteps
<1>. HIDE DEF j
<1>3. TasksUndone(m) /\ ManifestUndone(m)
  BY <1>1, ChildKnows
<1>4. ChildEffect(m, {"launcher"}) /\ {"launcher"} \in SUBSET Things
  BY <1>1 DEF ChildEffect, Changes, Launchers, IInv, TypeOK, Things
<1>5. job[m].before # None => \A k \in Kinds \ job[m].touched :
        (j.step \in FoundBy(k) \/ (j.step \in UndoneBy(k) /\ ~j.broken))
          => task'[k] = job[m].before.task[k]
  BY <1>1, <1>2, <1>3 DEF TasksUndone, FoundBy, UndoneBy
<1>6. "manifest" \notin job[m].touched => manifest' = job[m].original
  BY <1>1, <1>3 DEF ManifestUndone
<1>7. j.step \in (ChildSteps \ {"load", "snapshot"}) \cup {"failed"}
  BY <1>2 DEF ChildSteps
<1>. QED
  BY <1>1, <1>2, <1>4, <1>5, <1>6, <1>7, ChildMoves, ChildKnows DEF HasSnapshot

LEMMA CreateTaskHolds ==
  ASSUME IInv, NEW m \in Managers, NEW k \in Kinds, CreateTask(m, k)
  PROVE  IInv'
<1>. DEFINE j == Moved(m, Following[k])
<1>1. /\ job[m].step = k /\ job[m].step \in ChildSteps
      /\ Become(m, j, {k}) /\ task' = [task EXCEPT ![k] = Silent]
      /\ UNCHANGED <<lock, state, sound, manifest, launcher, listener, edits, faults, answer>>
  BY DEF CreateTask, At, world, ChildSteps, Kinds
<1>2. /\ k = "startup" => Following[k] = "health"
      /\ k = "health" => Following[k] = "match"
      /\ k \in {"startup", "health"}
  BY DEF Following, Kinds
<1>3. /\ j \in Jobs /\ j.step = Following[k] /\ (j.locked <=> job[m].locked)
      /\ j.before = job[m].before /\ j.touched = job[m].touched
      /\ j.original = job[m].original
  <2>1. Following[k] \in Steps
    BY <1>2 DEF Steps, ChildSteps
  <2>. QED
    BY <2>1, MovedJob
<1>. HIDE DEF j
<1>4. /\ TasksUndone(m) /\ ManifestUndone(m) /\ task \in [Kinds -> Tasks \cup {None}]
  BY <1>1, ChildKnows
<1>5. ChildEffect(m, {k}) /\ {k} \in SUBSET Things
  BY <1>1, <1>4, SilentIsManaged DEF ChildEffect, Changes, IInv, TypeOK, Things
<1>6. job[m].before # None => \A l \in Kinds \ job[m].touched :
        (j.step \in FoundBy(l) \/ (j.step \in UndoneBy(l) /\ ~j.broken))
          => task'[l] = job[m].before.task[l]
  BY <1>1, <1>2, <1>3, <1>4 DEF TasksUndone, FoundBy, UndoneBy, Kinds
<1>7. "manifest" \notin job[m].touched => manifest' = job[m].original
  BY <1>1, <1>2, <1>4 DEF ManifestUndone
<1>8. j.step \in (ChildSteps \ {"load", "snapshot"}) \cup {"failed"}
      /\ j.step \notin {"launcher", "undo_manifest", "failed"}
  BY <1>2, <1>3 DEF ChildSteps
<1>. QED
  BY <1>1, <1>2, <1>3, <1>5, <1>6, <1>7, <1>8, ChildMoves, ChildKnows DEF HasSnapshot

LEMMA MatchRecordsHolds ==
  ASSUME IInv, NEW m \in Managers, MatchRecords(m)
  PROVE  IInv'
<1>1. /\ job[m].step = "match" /\ job[m].step \in ChildSteps
      /\ UNCHANGED <<lock, state, deployment, listener, edits, faults>>
  BY DEF MatchRecords, At, world, ChildSteps
<1>2. faults' \in 0..MaxFaults /\ ManifestUndone(m)
  BY <1>1, ChildKnows DEF IInv, TypeOK
<1>3. CASE Goto(m, "undo_startup")
  BY <1>1, <1>2, <1>3, ChildGoto, ChildKnows DEF ChildSteps, FoundBy, UndoneBy, HasSnapshot
<1>4. CASE Become(m, [Moved(m, "save") EXCEPT !.installed = TRUE], {}) /\ UNCHANGED answer
  <2>. DEFINE i == Moved(m, "save")
              j == [i EXCEPT !.installed = TRUE]
  <2>1. /\ i \in Jobs /\ i.step = "save" /\ (i.locked <=> job[m].locked)
        /\ i.before = job[m].before /\ i.touched = job[m].touched
        /\ i.original = job[m].original
    BY MovedJob DEF Steps, ChildSteps
  <2>. HIDE DEF i
  <2>2. /\ j \in Jobs /\ j.step = "save" /\ (j.locked <=> job[m].locked)
        /\ j.before = job[m].before /\ j.touched = job[m].touched
        /\ j.original = job[m].original
    BY <2>1 DEF Jobs
  <2>. HIDE DEF j
  <2>3. Become(m, j, {}) /\ answer' = answer
    BY <1>4 DEF i, j
  <2>4. ChildEffect(m, {})
    BY <1>1, <1>2, <2>3 DEF ChildEffect, Changes, deployment, IInv, TypeOK
  <2>5. "manifest" \notin job[m].touched => manifest' = job[m].original
    BY <1>1, <1>2 DEF ManifestUndone, deployment
  <2>6. j.step \in (ChildSteps \ {"load", "snapshot"}) \cup {"failed"}
    BY <2>2 DEF ChildSteps
  <2>. QED
    BY <1>1, <2>2, <2>3, <2>4, <2>5, <2>6, ChildMoves, ChildKnows DEF FoundBy, UndoneBy, HasSnapshot
<1>. QED
  BY <1>3, <1>4 DEF MatchRecords

LEMMA SaveManifestHolds ==
  ASSUME IInv, NEW m \in Managers, SaveManifest(m)
  PROVE  IInv'
<1>. DEFINE j == Moved(m, "reload")
<1>1. /\ job[m].step = "save" /\ job[m].step \in ChildSteps
      /\ Become(m, j, {"manifest"}) /\ manifest' = "current"
      /\ UNCHANGED <<lock, state, sound, launcher, task, listener, edits, faults, answer>>
  BY DEF SaveManifest, At, world, ChildSteps
<1>2. /\ j \in Jobs /\ j.step = "reload" /\ (j.locked <=> job[m].locked)
      /\ j.before = job[m].before /\ j.touched = job[m].touched
      /\ j.original = job[m].original
  BY MovedJob DEF Steps, ChildSteps
<1>. HIDE DEF j
<1>3. ChildEffect(m, {"manifest"}) /\ {"manifest"} \in SUBSET Things
  BY <1>1 DEF ChildEffect, Changes, Manifests, IInv, TypeOK, Things
<1>4. j.step \in (ChildSteps \ {"load", "snapshot"}) \cup {"failed"}
  BY <1>2 DEF ChildSteps
<1>. QED
  BY <1>1, <1>2, <1>3, <1>4, ChildMoves, ChildKnows DEF FoundBy, UndoneBy, HasSnapshot

LEMMA ReloadHolds ==
  ASSUME IInv, NEW m \in Managers, Reload(m)
  PROVE  IInv'
<1>1. /\ job[m].step = "reload" /\ job[m].step \in ChildSteps
      /\ UNCHANGED <<lock, state, deployment, listener, edits, faults>>
  BY DEF Reload, At, world, ChildSteps
<1>2. /\ faults' \in 0..MaxFaults /\ answer \in Decisions
      /\ lock = m /\ job[m].locked /\ state # "none"
  BY <1>1, ChildKnows DEF IInv, TypeOK
<1>3. CASE Goto(m, "undo_startup")
  BY <1>1, <1>2, <1>3, ChildGoto, ChildKnows DEF ChildSteps, FoundBy, UndoneBy, HasSnapshot
<1>4. CASE Become(m, [Idle EXCEPT !.step = "examine", !.command = "apply",
            !.locked = TRUE, !.parts = <<"manifest", "tasks", "service">>], {})
          /\ UNCHANGED answer
  <2>. DEFINE j == [Idle EXCEPT !.step = "examine", !.command = "apply",
                      !.locked = TRUE, !.parts = <<"manifest", "tasks", "service">>]
  <2>1. <<"manifest", "tasks", "service">> \in Seq(Parts)
    BY DEF Parts
  <2>2. /\ j \in Jobs /\ j.before = None /\ j.locked /\ j.command = "apply"
        /\ j.step = "examine" /\ j.parts = <<"manifest", "tasks", "service">>
    BY <2>1, IdleJob DEF Idle, Jobs, Steps, Commands
  <2>. HIDE DEF j
  <2>3. Become(m, j, {}) /\ answer' = answer
    BY <1>4 DEF j
  <2>4. job'[m] = j
    BY <2>2, <2>3, BecomeNotes DEF IInv, TypeOK
  <2>5. j.parts[1] = "manifest" /\ j.parts[2] = "tasks" /\ Len(j.parts) = 3
    BY <2>2
  <2>6. Left(m, "manifest")' /\ Left(m, "tasks")'
    BY <2>4, <2>5 DEF Left
  <2>7. Verified(m)'
    BY <2>2, <2>4, <2>6 DEF Verified, Examinations
  <2>8. LockKnown(m)' /\ StateKnown(m)' /\ SnapshotKnown(m)' /\ TasksKnown(m)'
    BY <1>1, <1>2, <2>2, <2>4 DEF LockKnown, StateKnown, SnapshotKnown, HasSnapshot, TasksKnown, ChildSteps
  <2>9. TasksUndone(m)' /\ LauncherUndone(m)' /\ ManifestUndone(m)' /\ FreeKnown(m)'
    BY <2>2, <2>4 DEF TasksUndone, LauncherUndone, ManifestUndone, FreeKnown
  <2>. QED
    BY <1>1, <1>2, <2>2, <2>3, <2>7, <2>8, <2>9, CombineQuiet DEF Knows
<1>. QED
  BY <1>3, <1>4 DEF Reload

LEMMA ChildRaisesHolds ==
  ASSUME IInv, NEW m \in Managers, ChildRaises(m)
  PROVE  IInv'
<1>1. /\ job[m].step \in {"snapshot", "launcher", "startup", "health", "save", "reload"}
      /\ UNCHANGED <<lock, state, sound, manifest, task, listener, edits>>
      /\ faults' \in 0..MaxFaults
  BY MishapCounts DEF ChildRaises
<1>2. job[m].step \in ChildSteps
  BY <1>1 DEF ChildSteps
<1>3. /\ LauncherUndone(m) /\ TasksUndone(m) /\ task \in [Kinds -> Tasks \cup {None}]
      /\ job[m].step = "snapshot" => job[m].before = None
      /\ job[m].step \in HasSnapshot => job[m].before # None
  BY <1>2, ChildKnows
<1>4. /\ job[m].step \in {"startup", "health", "save", "reload"} => Handler(m) = "undo_startup"
      /\ job[m].step \in {"snapshot", "launcher"} => Handler(m) = "undo_manifest"
      /\ Handler(m) \in ChildSteps
  BY <1>1 DEF Handler, ChildSteps
<1>5. job[m].before # None => \A k \in Kinds \ job[m].touched :
        (Handler(m) \in FoundBy(k) \/ (Handler(m) \in UndoneBy(k) /\ ~job[m].broken))
          => task[k] = job[m].before.task[k]
  <2>1. CASE job[m].step \in {"startup", "health", "save", "reload"}
    BY <1>4, <2>1 DEF FoundBy, UndoneBy
  <2>2. CASE job[m].step = "snapshot"
    BY <1>3, <2>2
  <2>3. CASE job[m].step = "launcher"
    BY <1>3, <2>3 DEF TasksUndone, FoundBy
  <2>. QED
    BY <1>1, <2>1, <2>2, <2>3
<1>6. (job[m].before # None /\ "launcher" \notin job[m].touched /\ Handler(m) = "undo_manifest")
        => job[m].step = "launcher" /\ launcher = job[m].before.launcher
  BY <1>1, <1>3, <1>4 DEF LauncherUndone
<1>7. Handler(m) \notin {"load", "snapshot", "launcher", "startup", "health", "match", "save", "failed"}
  BY <1>1, <1>4
<1>8. Handler(m) \in HasSnapshot => job[m].before # None
  BY <1>1, <1>3, <1>4 DEF HasSnapshot
<1>9. CASE Goto(m, Handler(m)) /\ UNCHANGED launcher
  <2>1. UNCHANGED <<lock, state, deployment, listener, edits>>
    BY <1>1, <1>9 DEF deployment
  <2>. QED
    BY <1>1, <1>2, <1>4, <1>5, <1>6, <1>7, <1>8, <1>9, <2>1, ChildGoto
<1>10. CASE /\ job[m].step = "launcher" /\ launcher' = "torn"
            /\ Become(m, Moved(m, Handler(m)), {"launcher"}) /\ UNCHANGED answer
  <2>. DEFINE j == Moved(m, Handler(m))
  <2>1. /\ j \in Jobs /\ j.step = Handler(m) /\ (j.locked <=> job[m].locked)
        /\ j.before = job[m].before /\ j.touched = job[m].touched
        /\ j.original = job[m].original /\ j.broken = job[m].broken
    <3>1. Handler(m) \in Steps
      BY <1>4 DEF Steps
    <3>. QED
      BY <3>1, MovedJob
  <2>. HIDE DEF j
  <2>2. Become(m, j, {"launcher"}) /\ {"launcher"} \in SUBSET Things
    BY <1>10 DEF j, Things
  <2>3. ChildEffect(m, {"launcher"})
    BY <1>1, <1>10 DEF ChildEffect, Changes, Launchers, IInv, TypeOK
  <2>. QED
    BY <1>1, <1>2, <1>4, <1>5, <1>7, <1>8, <1>10, <2>1, <2>2, <2>3, ChildMoves
<1>. QED
  BY <1>9, <1>10 DEF ChildRaises, At

\* A step of the undo, which may have failed.
LEMMA UndoJob ==
  ASSUME IInv, NEW m \in Managers, NEW s \in ChildSteps \cup {"failed"}, NEW j,
         j = Moved(m, s) \/ j = [Moved(m, s) EXCEPT !.broken = TRUE]
  PROVE  /\ j \in Jobs /\ j.step = s /\ (j.locked <=> job[m].locked)
         /\ j.before = job[m].before /\ j.touched = job[m].touched
         /\ j.original = job[m].original
         /\ j = Moved(m, s) => (j.broken <=> job[m].broken)
         /\ j = [Moved(m, s) EXCEPT !.broken = TRUE] => j.broken
<1>. DEFINE i == Moved(m, s)
<1>1. /\ i \in Jobs /\ i.step = s /\ (i.locked <=> job[m].locked)
      /\ i.before = job[m].before /\ i.touched = job[m].touched
      /\ i.original = job[m].original /\ (i.broken <=> job[m].broken)
  BY MovedJob DEF Steps
<1>. HIDE DEF i
<1>. DEFINE b == [i EXCEPT !.broken = TRUE]
<1>2. /\ b \in Jobs /\ b.step = s /\ (b.locked <=> job[m].locked)
      /\ b.before = job[m].before /\ b.touched = job[m].touched
      /\ b.original = job[m].original /\ b.broken
  BY <1>1 DEF Jobs
<1>. HIDE DEF b
<1>3. j = i \/ j = b
  BY DEF i, b
<1>4. /\ j \in Jobs /\ j.step = s /\ (j.locked <=> job[m].locked)
      /\ j.before = job[m].before /\ j.touched = job[m].touched
      /\ j.original = job[m].original
      /\ j = i => (j.broken <=> job[m].broken)
      /\ j = b => j.broken
  BY <1>1, <1>2, <1>3
<1>. QED
  BY <1>4 DEF i, b

LEMMA UndoTaskHolds ==
  ASSUME IInv, NEW m \in Managers, NEW k \in Kinds, UndoTask(m, k)
  PROVE  IInv'
<1>1. /\ job[m].step = UndoStep[k]
      /\ UNCHANGED <<lock, state, sound, manifest, launcher, listener, edits, answer>>
      /\ faults' \in 0..MaxFaults
  BY MishapCounts DEF UndoTask, At
<1>2. /\ k = "startup" => UndoStep[k] = "undo_startup" /\ AfterUndo[k] = "undo_health"
      /\ k = "health" => UndoStep[k] = "undo_health" /\ AfterUndo[k] = "undo_launcher"
      /\ k \in {"startup", "health"} /\ AfterUndo[k] \in ChildSteps
      /\ UndoStep[k] \in ChildSteps \cap HasSnapshot
  BY DEF UndoStep, AfterUndo, Kinds, ChildSteps, HasSnapshot
<1>3. /\ TasksUndone(m) /\ task \in [Kinds -> Tasks \cup {None}]
      /\ job[m].before # None /\ job[m].before \in Snapshots
  BY <1>1, <1>2, ChildKnows
<1>. DEFINE u == Moved(m, AfterUndo[k])
            v == [u EXCEPT !.broken = TRUE]
<1>4. PICK j :
        \/ /\ task' = [task EXCEPT ![k] = job[m].before.task[k]]
           /\ j = u /\ Become(m, j, {k})
        \/ task' = task /\ j = v /\ Become(m, j, {})
  <2>1. \/ task' = [task EXCEPT ![k] = job[m].before.task[k]] /\ Become(m, u, {k})
        \/ task' = task /\ Become(m, v, {})
    BY DEF UndoTask
  <2>. HIDE DEF u, v
  <2>. QED
    BY <2>1, Zenon
<1>5. /\ j \in Jobs /\ j.step = AfterUndo[k] /\ (j.locked <=> job[m].locked)
      /\ j.before = job[m].before /\ j.touched = job[m].touched
      /\ j.original = job[m].original
      /\ j = u => (j.broken <=> job[m].broken)
      /\ j = v => j.broken
  BY <1>2, <1>4, UndoJob
<1>. HIDE DEF u, v
<1>6. /\ j.step \in (ChildSteps \ {"load", "snapshot"}) \cup {"failed"}
      /\ j.step \in {"undo_health", "undo_launcher"}
  BY <1>2, <1>5
<1>7. CASE /\ task' = [task EXCEPT ![k] = job[m].before.task[k]]
           /\ j = u /\ Become(m, j, {k})
  <2>1. job[m].before.task[k] \in Tasks
    BY <1>3 DEF Snapshots
  <2>2. ChildEffect(m, {k}) /\ {k} \in SUBSET Things
    BY <1>1, <1>3, <1>7, <2>1 DEF ChildEffect, Changes, IInv, TypeOK, Things
  <2>3. \A l \in Kinds \ job[m].touched :
          (j.step \in FoundBy(l) \/ (j.step \in UndoneBy(l) /\ ~j.broken))
            => task'[l] = job[m].before.task[l]
    <3>1. CASE k = "startup"
      BY <1>2, <1>3, <1>5, <1>7, <3>1 DEF FoundBy, UndoneBy, Kinds
    <3>2. CASE k = "health"
      BY <1>1, <1>2, <1>3, <1>5, <1>7, <3>2 DEF TasksUndone, FoundBy, UndoneBy, Kinds
    <3>. QED
      BY <1>2, <3>1, <3>2
  <2>. QED
    BY <1>1, <1>2, <1>3, <1>5, <1>6, <1>7, <2>2, <2>3, ChildMoves
<1>8. CASE task' = task /\ j = v /\ Become(m, j, {})
  <2>1. ChildEffect(m, {})
    BY <1>1, <1>3, <1>8 DEF ChildEffect, Changes, IInv, TypeOK
  <2>. QED
    BY <1>1, <1>2, <1>3, <1>5, <1>6, <1>8, <2>1, ChildMoves DEF FoundBy
<1>. QED
  BY <1>4, <1>7, <1>8

LEMMA UndoLauncherHolds ==
  ASSUME IInv, NEW m \in Managers, UndoLauncher(m)
  PROVE  IInv'
<1>1. /\ job[m].step = "undo_launcher" /\ job[m].step \in ChildSteps
      /\ UNCHANGED <<lock, state, sound, manifest, task, listener, edits, answer>>
      /\ faults' \in 0..MaxFaults
  BY MishapCounts DEF UndoLauncher, At, ChildSteps
<1>2. /\ TasksUndone(m) /\ task \in [Kinds -> Tasks \cup {None}]
      /\ job[m].before # None /\ job[m].before \in Snapshots
      /\ launcher \in Launchers
  BY <1>1, ChildKnows DEF HasSnapshot
<1>. DEFINE u(s) == Moved(m, s)
            v(s) == [u(s) EXCEPT !.broken = TRUE]
<1>3. PICK s, j :
        /\ s \in {"failed", "undo_manifest"} /\ Become(m, j, {"launcher"})
        /\ \/ /\ j = u(s) /\ launcher' = job[m].before.launcher
              /\ s = "failed" => job[m].broken
           \/ j = v(s) /\ launcher' \in {launcher, "torn"}
  <2>. DEFINE s1 == AfterLauncher(m, job[m].broken)
              s2 == AfterLauncher(m, TRUE)
  <2>1. \/ Become(m, u(s1), {"launcher"}) /\ launcher' = job[m].before.launcher
        \/ Become(m, v(s2), {"launcher"}) /\ launcher' \in {launcher, "torn"}
    BY DEF UndoLauncher
  <2>2. /\ s1 \in {"failed", "undo_manifest"} /\ s2 \in {"failed", "undo_manifest"}
        /\ s1 = "failed" => job[m].broken
    BY DEF AfterLauncher
  <2>. HIDE DEF u, v, s1, s2
  <2>3. CASE Become(m, u(s1), {"launcher"}) /\ launcher' = job[m].before.launcher
    BY <2>2, <2>3, Zenon
  <2>4. CASE Become(m, v(s2), {"launcher"}) /\ launcher' \in {launcher, "torn"}
    BY <2>2, <2>4, Zenon
  <2>. QED
    BY <2>1, <2>3, <2>4
<1>4. s \in ChildSteps \cup {"failed"}
  BY <1>3 DEF ChildSteps
<1>5. /\ j \in Jobs /\ j.step = s /\ (j.locked <=> job[m].locked)
      /\ j.before = job[m].before /\ j.touched = job[m].touched
      /\ j.original = job[m].original
      /\ j = u(s) => (j.broken <=> job[m].broken)
      /\ j = v(s) => j.broken
  BY <1>3, <1>4, UndoJob
<1>. HIDE DEF u, v
<1>6. ChildEffect(m, {"launcher"}) /\ {"launcher"} \in SUBSET Things
  BY <1>1, <1>2, <1>3 DEF ChildEffect, Changes, Launchers, Snapshots, IInv, TypeOK, Things
<1>7. \A k \in Kinds \ job[m].touched :
        (j.step \in FoundBy(k) \/ (j.step \in UndoneBy(k) /\ ~j.broken))
          => task'[k] = job[m].before.task[k]
  BY <1>1, <1>2, <1>3, <1>5 DEF TasksUndone, FoundBy, UndoneBy
<1>8. s = "failed" => j.broken
  BY <1>3, <1>5
<1>9. ~j.broken => launcher' = job[m].before.launcher
  BY <1>3, <1>5
<1>10. j.step \in (ChildSteps \ {"load", "snapshot"}) \cup {"failed"}
  BY <1>3, <1>5 DEF ChildSteps
<1>. QED
  BY <1>1, <1>2, <1>3, <1>5, <1>6, <1>7, <1>8, <1>9, <1>10, ChildMoves

LEMMA UndoManifestHolds ==
  ASSUME IInv, NEW m \in Managers, UndoManifest(m)
  PROVE  IInv'
<1>1. /\ job[m].step = "undo_manifest" /\ job[m].step \in ChildSteps
      /\ UNCHANGED <<lock, state, sound, launcher, task, listener, edits, answer>>
      /\ faults' \in 0..MaxFaults
  BY MishapCounts DEF UndoManifest, At, ChildSteps
<1>2. /\ TasksUndone(m) /\ LauncherUndone(m) /\ task \in [Kinds -> Tasks \cup {None}]
      /\ job[m].original \in Manifests /\ manifest \in Manifests
  BY <1>1, ChildKnows DEF Jobs
<1>. DEFINE u == Moved(m, "failed")
            v == [u EXCEPT !.broken = TRUE]
<1>3. PICK j, things :
        /\ things \in SUBSET Things /\ Become(m, j, things)
        /\ \/ j = u /\ manifest' = job[m].original /\ things = {"manifest"}
           \/ j = v /\ manifest' = manifest /\ things = {}
  <2>1. \/ Become(m, u, {"manifest"}) /\ manifest' = job[m].original
        \/ Become(m, v, {}) /\ manifest' = manifest
    BY DEF UndoManifest
  <2>2. {"manifest"} \in SUBSET Things /\ {} \in SUBSET Things
    BY DEF Things
  <2>. HIDE DEF u, v
  <2>. QED
    BY <2>1, <2>2, Zenon
<1>4. /\ j \in Jobs /\ j.step = "failed" /\ (j.locked <=> job[m].locked)
      /\ j.before = job[m].before /\ j.touched = job[m].touched
      /\ j.original = job[m].original
      /\ j = u => (j.broken <=> job[m].broken)
      /\ j = v => j.broken
  BY <1>3, UndoJob
<1>. HIDE DEF u, v
<1>5. ChildEffect(m, things)
  BY <1>1, <1>2, <1>3 DEF ChildEffect, Changes, IInv, TypeOK
<1>6. job[m].before # None => \A k \in Kinds \ job[m].touched :
        (j.step \in FoundBy(k) \/ (j.step \in UndoneBy(k) /\ ~j.broken))
          => task'[k] = job[m].before.task[k]
  BY <1>1, <1>2, <1>3, <1>4 DEF TasksUndone, FoundBy, UndoneBy
<1>7. (job[m].before # None /\ "launcher" \notin job[m].touched /\ ~j.broken)
        => launcher' \in {job[m].before.launcher, "torn"}
  BY <1>1, <1>2, <1>3, <1>4 DEF LauncherUndone
<1>8. ~j.broken => manifest' = job[m].original
  BY <1>3, <1>4
<1>. QED
  BY <1>1, <1>3, <1>4, <1>5, <1>6, <1>7, <1>8, ChildMoves DEF HasSnapshot

LEMMA FailedHolds ==
  ASSUME IInv, NEW m \in Managers, Failed(m)
  PROVE  IInv'
<1>1. /\ Leave(m, "RECONCILE_PARTIAL")
      /\ UNCHANGED <<lock, state, deployment, listener, edits, faults>>
  BY DEF Failed, world
<1>. QED
  BY <1>1, LeaveHolds DEF Decisions, IInv, TypeOK

LEMMA KilledHolds ==
  ASSUME IInv, NEW m \in Managers, Killed(m)
  PROVE  IInv'
<1>1. /\ Become(m, Ended(m), {"launcher"}) /\ answer' = "ERROR"
      /\ launcher' \in {launcher, "torn"}
      /\ UNCHANGED <<lock, state, sound, manifest, task, listener, edits>>
      /\ faults' \in 0..MaxFaults
  BY MishapCounts DEF Killed
<1>2. {"launcher"} \in SUBSET Things
  BY DEF Things
<1>3. job'[m] = Ended(m)
  BY <1>1, <1>2, EndedJob, BecomeNotes DEF IInv, TypeOK
<1>4. job[m].locked => lock = m
  BY DEF IInv, Knows, LockKnown
<1>5. Knows(m)'
  BY <1>1, <1>3, <1>4, EndedJob, PlainKnows
<1>6. Changes({"launcher"}) /\ SharedTypes'
  BY <1>1 DEF Changes, SharedTypes, IInv, TypeOK, Launchers, Decisions
<1>7. OursAfter(m)
  BY <1>1, <1>3, EndedJob DEF OursAfter, IInv, Untouched
<1>. QED
  BY <1>1, <1>2, <1>5, <1>6, <1>7, EndedJob, Combine

-----------------------------------------------------------------------------
(* The examination.                                                        *)

LEMMA ExaminationTail ==
  ASSUME NEW parts \in Examinations, parts # <<>>
  PROVE  /\ Tail(parts) \in Examinations /\ Tail(parts) \in Seq(Parts)
         /\ Head(parts) \in Parts /\ Head(parts) = parts[1]
         /\ Len(parts) \in Nat /\ Len(Tail(parts)) = Len(parts) - 1
         /\ \A i \in 1..Len(Tail(parts)) : Tail(parts)[i] = parts[i + 1]
<1>1. parts \in Seq(Parts)
  <2>1. /\ <<"service", "manifest", "tasks">> \in Seq(Parts)
        /\ <<"manifest", "tasks", "service">> \in Seq(Parts)
    BY DEF Parts
  <2>2. <<"manifest", "tasks">> \in Seq(Parts) /\ <<"tasks", "service">> \in Seq(Parts)
    BY DEF Parts
  <2>3. <<"tasks">> \in Seq(Parts) /\ <<"service">> \in Seq(Parts) /\ <<>> \in Seq(Parts)
    BY DEF Parts
  <2>. QED
    BY <2>1, <2>2, <2>3, Zenon DEF Examinations
<1>2. /\ Tail(parts) \in Seq(Parts) /\ Head(parts) \in Parts /\ Head(parts) = parts[1]
      /\ Len(parts) \in Nat /\ Len(Tail(parts)) = Len(parts) - 1
      /\ \A i \in 1..Len(Tail(parts)) : Tail(parts)[i] = parts[i + 1]
  BY <1>1
<1>3. CASE parts = <<"service", "manifest", "tasks">>
  <2>1. Tail(parts) = <<"manifest", "tasks">>
    BY <1>3
  <2>. QED
    BY <1>2, <2>1 DEF Examinations
<1>4. CASE parts = <<"manifest", "tasks", "service">>
  <2>1. Tail(parts) = <<"tasks", "service">>
    BY <1>4
  <2>. QED
    BY <1>2, <2>1 DEF Examinations
<1>5. CASE parts = <<"manifest", "tasks">>
  <2>1. Tail(parts) = <<"tasks">>
    BY <1>5
  <2>. QED
    BY <1>2, <2>1 DEF Examinations
<1>6. CASE parts = <<"tasks", "service">>
  <2>1. Tail(parts) = <<"service">>
    BY <1>6
  <2>. QED
    BY <1>2, <2>1 DEF Examinations
<1>7. CASE parts = <<"tasks">> \/ parts = <<"service">>
  <2>1. Tail(<<"tasks">>) = <<>> /\ Tail(<<"service">>) = <<>>
    OBVIOUS
  <2>2. Tail(parts) = <<>>
    BY <1>7, <2>1, Zenon
  <2>. QED
    BY <1>2, <2>2 DEF Examinations
<1>. QED
  BY <1>3, <1>4, <1>5, <1>6, <1>7 DEF Examinations

LEMMA ExamineHolds ==
  ASSUME IInv, NEW m \in Managers, Examine(m)
  PROVE  IInv'
<1>1. /\ job[m].step = "examine" /\ job[m].parts # <<>>
      /\ UNCHANGED <<lock, state, deployment, listener, edits, answer>>
  BY DEF Examine, At
<1>2. /\ job[m] \in Jobs /\ answer \in Decisions /\ Verified(m) /\ LockKnown(m)
      /\ StateKnown(m) /\ job[m].before = None
  BY <1>1 DEF IInv, TypeOK, Knows, SnapshotKnown, ChildSteps
<1>3. CASE Become(m, Idle, {}) /\ UNCHANGED faults
  BY <1>1, <1>2, <1>3, IdleHolds DEF IInv, TypeOK
<1>4. CASE \E lost \in SUBSET Kinds, fine \in BOOLEAN :
        /\ Losing(lost) \/ Mishap("service")
        /\ Become(m, [job[m] EXCEPT !.parts = Tail(@),
             !.ok = @ /\ fine /\ PartOk(Head(job[m].parts), Queried(lost))], {})
  <2>1. PICK lost \in SUBSET Kinds, fine \in BOOLEAN :
        /\ Losing(lost) \/ Mishap("service")
        /\ Become(m, [job[m] EXCEPT !.parts = Tail(@),
             !.ok = @ /\ fine /\ PartOk(Head(job[m].parts), Queried(lost))], {})
    BY <1>4
  <2>. DEFINE p == Head(job[m].parts)
              good == PartOk(p, Queried(lost))
              rest == Tail(job[m].parts)
              ok == job[m].ok /\ fine /\ good
              j == [job[m] EXCEPT !.parts = rest, !.ok = ok]
  <2>2. job[m].parts \in Examinations
    BY <1>1, <1>2 DEF Verified
  <2>3. /\ rest \in Examinations /\ rest \in Seq(Parts) /\ p \in Parts
        /\ \A q : Left(m, q) => q = p \/ \E i \in 1..Len(rest) : rest[i] = q
    <3>1. /\ rest \in Examinations /\ rest \in Seq(Parts) /\ p \in Parts
          /\ p = job[m].parts[1] /\ Len(job[m].parts) \in Nat
          /\ Len(rest) = Len(job[m].parts) - 1
          /\ \A i \in 1..Len(rest) : rest[i] = job[m].parts[i + 1]
      BY <1>1, <2>2, ExaminationTail
    <3>2. ASSUME NEW q, Left(m, q), q # p PROVE \E i \in 1..Len(rest) : rest[i] = q
      <4>1. PICK i \in 1..Len(job[m].parts) : job[m].parts[i] = q
        BY <3>2 DEF Left
      <4>. HIDE DEF rest, p
      <4>2. i - 1 \in 1..Len(rest)
        BY <3>1, <3>2, <4>1
      <4>3. rest[i - 1] = job[m].parts[(i - 1) + 1] /\ (i - 1) + 1 = i
        BY <3>1, <4>2
      <4>. QED
        BY <4>1, <4>2, <4>3
    <3>. QED
      BY <3>1, <3>2
  <2>4. good => (p = "tasks" => TasksFine(m)) /\ (p = "manifest" => ManifestFine(m))
    <3>1. SupervisorOk(Queried(lost)) => \A k \in Kinds : Exact(task[k])
      BY QueriedIs, SilentIsManaged DEF SupervisorOk, Exact
    <3>2. Mismatches = {} => TaskContract
      BY DEF Mismatches
    <3>. QED
      BY <3>1, <3>2 DEF PartOk, TasksFine, ManifestFine
  <2>5. ok \in BOOLEAN /\ (ok => job[m].ok /\ good)
    OBVIOUS
  <2>6. Become(m, j, {})
    BY <2>1
  <2>. HIDE DEF good, rest, ok, p
  <2>7. /\ j \in Jobs /\ j.parts = rest /\ (j.ok <=> ok) /\ j.before = None
        /\ j.step = "examine" /\ j.locked = job[m].locked /\ j.command = job[m].command
        /\ j.touched = job[m].touched
    BY <1>1, <1>2, <2>3, <2>5 DEF Jobs
  <2>. HIDE DEF j
  <2>8. job'[m] = j
    BY <2>6, <2>7, BecomeNotes DEF IInv, TypeOK
  <2>9. LockKnown(m)' /\ StateKnown(m)' /\ SnapshotKnown(m)' /\ TasksKnown(m)'
    BY <1>1, <1>2, <2>7, <2>8 DEF LockKnown, StateKnown, SnapshotKnown, HasSnapshot, TasksKnown, ChildSteps
  <2>10. TasksUndone(m)' /\ LauncherUndone(m)' /\ ManifestUndone(m)' /\ FreeKnown(m)'
    BY <2>7, <2>8 DEF TasksUndone, LauncherUndone, ManifestUndone, FreeKnown
  <2>11. \A q : Left(m, q) => q = p \/ Left(m, q)'
    <3>1. job'[m].parts = rest
      BY <2>7, <2>8
    <3>2. \A q : (\E i \in 1..Len(rest) : rest[i] = q) => Left(m, q)'
      BY <3>1 DEF Left
    <3>. QED
      BY <2>3, <3>2, Zenon
  <2>12. /\ TasksFine(m) => TasksFine(m)'
         /\ ManifestFine(m) => ManifestFine(m)'
    BY <1>1, <2>7, <2>8 DEF TasksFine, ManifestFine, TaskContract, deployment
  <2>13. Verified(m)'
    BY <1>1, <1>2, <2>3, <2>4, <2>5, <2>7, <2>8, <2>11, <2>12 DEF Verified
  <2>14. faults' \in 0..MaxFaults
    BY <2>1, LosingCounts, MishapCounts
  <2>. QED
    BY <1>1, <1>2, <2>6, <2>7, <2>9, <2>10, <2>13, <2>14, CombineQuiet DEF Knows
<1>. QED
  BY <1>3, <1>4 DEF Examine

LEMMA ExaminedHolds ==
  ASSUME IInv, NEW m \in Managers, Examined(m)
  PROVE  IInv'
<1>1. /\ job[m].step = "examine" /\ job[m].parts = <<>>
      /\ UNCHANGED <<lock, state, deployment, listener, edits, faults>>
  BY DEF Examined, At, world
<1>2. /\ job[m] \in Jobs /\ answer \in Decisions /\ Verified(m) /\ LockKnown(m)
      /\ StateKnown(m) /\ job[m].before = None /\ faults' \in 0..MaxFaults
  BY <1>1 DEF IInv, TypeOK, Knows, SnapshotKnown, ChildSteps
<1>3. ~Left(m, "tasks") /\ ~Left(m, "manifest")
  BY <1>1 DEF Left
<1>4. job[m].ok => TasksFine(m) /\ ManifestFine(m)
  BY <1>1, <1>2, <1>3 DEF Verified
<1>5. CASE job[m].command = "apply" /\ job[m].ok /\ Goto(m, "record")
  <2>. DEFINE j == Moved(m, "record")
  <2>1. /\ j \in Jobs /\ j.before = None /\ j.step = "record" /\ j.locked = job[m].locked
        /\ j.touched = job[m].touched
    BY <1>2, MovedJob DEF Steps
  <2>. HIDE DEF j
  <2>2. Become(m, j, {}) /\ answer' = answer
    BY <1>5 DEF Goto, j
  <2>3. job'[m] = j
    BY <2>1, <2>2, BecomeNotes DEF IInv, TypeOK
  <2>4. LockKnown(m)' /\ StateKnown(m)' /\ SnapshotKnown(m)' /\ TasksKnown(m)'
    BY <1>1, <1>2, <1>5, <2>1, <2>3 DEF LockKnown, StateKnown, SnapshotKnown, HasSnapshot, TasksKnown, ChildSteps
  <2>5. TasksUndone(m)' /\ LauncherUndone(m)' /\ ManifestUndone(m)' /\ FreeKnown(m)'
    BY <2>1, <2>3 DEF TasksUndone, LauncherUndone, ManifestUndone, FreeKnown
  <2>6. Verified(m)'
    BY <1>1, <1>4, <1>5, <2>1, <2>3 DEF Verified, TasksFine, ManifestFine, TaskContract, deployment
  <2>. QED
    BY <1>1, <1>2, <2>1, <2>2, <2>4, <2>5, <2>6, CombineQuiet DEF Knows
<1>6. CASE Leave(m, "RECONCILE_PARTIAL")
  BY <1>1, <1>2, <1>6, LeaveHolds DEF Decisions
<1>7. CASE /\ job[m].command # "apply" /\ UNCHANGED answer
           /\ Become(m, [Moved(m, "report") EXCEPT !.says = IF job[m].ok
                THEN "RUNTIME_FULL_DURABLE" ELSE "RUNTIME_PARTIAL"], {})
  <2>. DEFINE i == Moved(m, "report")
              d == IF job[m].ok THEN "RUNTIME_FULL_DURABLE" ELSE "RUNTIME_PARTIAL"
              j == [i EXCEPT !.says = d]
  <2>1. /\ i \in Jobs /\ i.before = None /\ i.step = "report" /\ i.locked = job[m].locked
        /\ i.touched = job[m].touched
    BY <1>2, MovedJob DEF Steps
  <2>2. d \in Decisions /\ (d = "RUNTIME_FULL_DURABLE" => job[m].ok) /\ d # "RUNTIME_ABSENT"
    BY DEF Decisions
  <2>3. Become(m, j, {}) /\ answer' = answer
    BY <1>7
  <2>. HIDE DEF i, d
  <2>4. /\ j \in Jobs /\ j.before = None /\ j.step = "report" /\ j.locked = job[m].locked
        /\ j.touched = job[m].touched /\ j.says = d
    BY <2>1, <2>2 DEF Jobs
  <2>. HIDE DEF j
  <2>5. job'[m] = j
    BY <2>3, <2>4, BecomeNotes DEF IInv, TypeOK
  <2>6. LockKnown(m)' /\ StateKnown(m)' /\ SnapshotKnown(m)' /\ TasksKnown(m)'
    BY <1>1, <1>2, <1>7, <2>4, <2>5 DEF LockKnown, StateKnown, SnapshotKnown, HasSnapshot, TasksKnown, ChildSteps
  <2>7. TasksUndone(m)' /\ LauncherUndone(m)' /\ ManifestUndone(m)' /\ FreeKnown(m)'
    BY <2>2, <2>4, <2>5 DEF TasksUndone, LauncherUndone, ManifestUndone, FreeKnown
  <2>8. Verified(m)'
    BY <1>1, <1>4, <2>2, <2>4, <2>5 DEF Verified, TasksFine, ManifestFine, TaskContract, deployment
  <2>. QED
    BY <1>1, <1>2, <2>3, <2>4, <2>6, <2>7, <2>8, CombineQuiet DEF Knows
<1>. QED
  BY <1>5, <1>6, <1>7 DEF Examined

LEMMA RecordHolds ==
  ASSUME IInv, NEW m \in Managers, Record(m)
  PROVE  IInv'
<1>. DEFINE j == Moved(m, "release")
<1>1. /\ job[m].step = "record" /\ state' = "full" /\ Become(m, j, {"state"})
      /\ answer' = "RECONCILED" /\ {"state"} \in SUBSET Things
      /\ UNCHANGED <<lock, deployment, listener, edits, faults>>
  BY DEF Record, At, world, Things
<1>2. job[m].locked /\ lock = m /\ job[m].before = None
  BY <1>1 DEF IInv, Knows, LockKnown, SnapshotKnown, ChildSteps
<1>3. j \in Jobs /\ j.before = None /\ j.step = "release" /\ j.locked
  BY <1>2, MovedJob DEF Steps
<1>. HIDE DEF j
<1>4. job'[m] = j
  BY <1>1, <1>3, BecomeNotes DEF IInv, TypeOK
<1>5. Knows(m)'
  BY <1>1, <1>2, <1>3, <1>4, PlainKnows
<1>6. Changes({"state"}) /\ SharedTypes' /\ sound' = sound
  BY <1>1 DEF Changes, SharedTypes, IInv, TypeOK, deployment, Decisions
<1>7. OursAfter(m)
  BY <1>1, <1>3, <1>4 DEF OursAfter, IInv, Untouched, deployment
<1>. QED
  BY <1>1, <1>3, <1>5, <1>6, <1>7, Combine

-----------------------------------------------------------------------------
(* What may go wrong, and who else acts.                                   *)

LEMMA CrashHolds ==
  ASSUME IInv, NEW m \in Managers, Crash(m)
  PROVE  IInv'
<1>1. /\ job[m].locked /\ lock' = Stale /\ launcher' \in {launcher, "torn"}
      /\ Become(m, Idle, {"launcher"}) /\ {"launcher"} \in SUBSET Things
      /\ UNCHANGED <<state, sound, manifest, task, listener, edits, answer>>
      /\ faults' \in 0..MaxFaults
  BY MishapCounts DEF Crash, Things
<1>2. lock = m /\ \A n \in Managers \ {m} : ~job[n].locked
  BY <1>1 DEF IInv, Knows, LockKnown
<1>3. job'[m] = Idle
  BY <1>1, IdleJob, BecomeNotes DEF IInv, TypeOK
<1>4. Knows(m)'
  BY <1>3, IdleJob, PlainKnows
<1>5. Changes({"launcher"}) /\ SharedTypes'
  BY <1>1 DEF Changes, SharedTypes, IInv, TypeOK, Launchers
<1>6. OursAfter(m)
  BY <1>1, <1>3, IdleJob DEF OursAfter, IInv, Untouched
<1>. QED
  BY <1>1, <1>2, <1>4, <1>5, <1>6, IdleJob, Combine

LEMMA UnlockHolds ==
  ASSUME IInv, Unlock
  PROVE  IInv'
<1>1. lock = Stale /\ lock' = None
      /\ UNCHANGED <<state, sound, manifest, launcher, task, listener, job, answer, faults, edits>>
  BY DEF Unlock, deployment, world
<1>2. \A n \in Managers : ~job[n].locked
  BY <1>1, NamesAssumption DEF IInv, Knows, LockKnown
<1>3. \A n \in Managers : Noted(n, {}) /\ Changes({})
  BY <1>1 DEF Noted, Changes
<1>4. \A n \in Managers : Knows(n)'
  BY <1>1, <1>2, <1>3, OthersKnow
<1>5. TypeOK' /\ Untouched'
  BY <1>1 DEF IInv, TypeOK, Untouched
<1>. QED
  BY <1>4, <1>5 DEF IInv

LEMMA OtherBeginsHolds ==
  ASSUME IInv, NEW m \in Managers, OtherBegins(m)
  PROVE  IInv'
<1>. DEFINE j == [Idle EXCEPT !.step = "change", !.command = "other", !.locked = TRUE]
<1>1. /\ edits < MaxEdits /\ edits' = edits + 1 /\ lock = None /\ lock' = m
      /\ Become(m, j, {})
      /\ UNCHANGED <<state, sound, manifest, launcher, task, listener, faults, answer>>
  BY DEF OtherBegins, AcquireLock, deployment
<1>2. j \in Jobs /\ j.before = None /\ j.step = "change" /\ j.locked
  BY IdleJob DEF Idle, Jobs, Steps, Commands
<1>. HIDE DEF j
<1>3. /\ job' \in [Managers -> Jobs] /\ job'[m] = j
      /\ \A n \in Managers \ {m} : Noted(n, {})
  BY <1>1, <1>2, BecomeNotes DEF IInv, TypeOK
<1>4. \A n \in Managers : ~job[n].locked
  BY <1>1, NamesAssumption DEF IInv, Knows, LockKnown
<1>5. Knows(m)'
  BY <1>1, <1>2, <1>3, PlainKnows
<1>6. Changes({})
  BY <1>1 DEF Changes
<1>7. \A n \in Managers : Knows(n)'
  BY <1>1, <1>3, <1>4, <1>5, <1>6, OthersKnow
<1>8. edits \in Nat /\ MaxEdits \in Nat /\ edits' \in 0..MaxEdits /\ edits' # 0
  BY <1>1, NamesAssumption DEF IInv, TypeOK
<1>9. TypeOK' /\ Untouched'
  BY <1>1, <1>3, <1>8 DEF IInv, TypeOK, Untouched
<1>. QED
  BY <1>7, <1>9 DEF IInv

LEMMA OtherChangesHolds ==
  ASSUME IInv, NEW m \in Managers, OtherChanges(m)
  PROVE  IInv'
<1>. DEFINE j == Moved(m, "release")
<1>1. /\ job[m].step = "change" /\ Become(m, j, Things)
      /\ UNCHANGED <<lock, faults, edits, answer>>
  BY DEF OtherChanges, At
<1>2. /\ state' \in {"none", "partial", "full", "service"} /\ sound' \in BOOLEAN
      /\ manifest' \in Manifests /\ launcher' \in Launchers /\ listener' \in Listeners
      /\ task' \in [Kinds -> Tasks \cup {None}]
  BY SilentIsManaged DEF OtherChanges, Manifests, Launchers, Listeners
<1>3. job[m].locked /\ lock = m /\ job[m].before = None /\ edits # 0
  BY <1>1 DEF IInv, Knows, LockKnown, SnapshotKnown, ChildSteps, Untouched
<1>4. j \in Jobs /\ j.before = None /\ j.step = "release" /\ j.locked
  BY <1>3, MovedJob DEF Steps
<1>. HIDE DEF j
<1>5. /\ job' \in [Managers -> Jobs] /\ job'[m] = j
      /\ \A n \in Managers \ {m} : Noted(n, Things)
  BY <1>1, <1>4, BecomeNotes DEF IInv, TypeOK
<1>6. Knows(m)'
  BY <1>1, <1>3, <1>4, <1>5, PlainKnows
<1>7. \A n \in Managers \ {m} : ~job[n].locked
  BY <1>3 DEF IInv, Knows, LockKnown
<1>8. Changes(Things)
  BY DEF Changes, Things
<1>9. \A n \in Managers : Knows(n)'
  BY <1>1, <1>5, <1>6, <1>7, <1>8, OthersKnow
<1>10. TypeOK' /\ Untouched'
  BY <1>1, <1>2, <1>3, <1>5 DEF IInv, TypeOK, Untouched
<1>. QED
  BY <1>9, <1>10 DEF IInv

\* Whatever someone else edits, with the mark that says so.
LEMMA EditHolds ==
  ASSUME IInv, NEW things \in SUBSET Things, Edit(things), Changes(things),
         sound' \in BOOLEAN /\ manifest' \in Manifests /\ launcher' \in Launchers,
         task' \in [Kinds -> Tasks \cup {None}] /\ listener' \in Listeners
  PROVE  IInv'
<1>1. /\ edits < MaxEdits /\ edits' = edits + 1
      /\ job' = [n \in Managers |-> Marked(n, things)]
      /\ UNCHANGED <<lock, state, faults, answer>>
  BY DEF Edit
<1>2. \A n \in Managers : job'[n] \in Jobs /\ Noted(n, things)
  BY <1>1, MarkedNotes DEF IInv, TypeOK
<1>3. \A n \in Managers : Knows(n)'
  BY <1>1, <1>2, OthersKnow
<1>4. edits \in Nat /\ MaxEdits \in Nat /\ edits' \in 0..MaxEdits /\ edits' # 0
  BY <1>1, NamesAssumption DEF IInv, TypeOK
<1>5. TypeOK' /\ Untouched'
  BY <1>1, <1>2, <1>4 DEF IInv, TypeOK, Untouched
<1>. QED
  BY <1>3, <1>5 DEF IInv

LEMMA EditsHold ==
  ASSUME IInv, EditFiles \/ EditListener \/ \E k \in Kinds, t \in OtherTasks : EditTask(k, t)
  PROVE  IInv'
<1>0. /\ sound \in BOOLEAN /\ manifest \in Manifests /\ launcher \in Launchers
      /\ task \in [Kinds -> Tasks \cup {None}] /\ listener \in Listeners
  BY DEF IInv, TypeOK
<1>1. CASE \E k \in Kinds, t \in OtherTasks : EditTask(k, t)
  <2>1. PICK k \in Kinds, t \in OtherTasks : EditTask(k, t)
    BY <1>1
  <2>2. Edit({k}) /\ {k} \in SUBSET Things
    BY <2>1 DEF EditTask, Things
  <2>3. Changes({k}) /\ task' \in [Kinds -> Tasks \cup {None}]
        /\ UNCHANGED <<sound, manifest, launcher, listener>>
    BY <1>0, <2>1, NamesAssumption DEF EditTask, Changes
  <2>. QED
    BY <1>0, <2>2, <2>3, EditHolds
<1>2. CASE EditFiles
  <2>1. CASE launcher' \in {"none", "other"} /\ Edit({"launcher"})
             /\ UNCHANGED <<sound, manifest, task, listener>>
    <3>1. Changes({"launcher"}) /\ {"launcher"} \in SUBSET Things /\ launcher' \in Launchers
      BY <2>1 DEF Changes, Things, Launchers
    <3>. QED
      BY <1>0, <2>1, <3>1, EditHolds
  <2>2. CASE manifest' \in {"altered", "mutated", "none"} /\ Edit({"manifest"})
             /\ UNCHANGED <<sound, launcher, task, listener>>
    <3>1. Changes({"manifest"}) /\ {"manifest"} \in SUBSET Things /\ manifest' \in Manifests
      BY <2>2 DEF Changes, Things, Manifests
    <3>. QED
      BY <1>0, <2>2, <3>1, EditHolds
  <2>3. CASE sound' = FALSE /\ Edit({}) /\ UNCHANGED <<manifest, launcher, task, listener>>
    <3>1. Changes({})
      BY <2>3 DEF Changes
    <3>. QED
      BY <1>0, <2>3, <3>1, EditHolds
  <2>. QED
    BY <1>2, <2>1, <2>2, <2>3 DEF EditFiles
<1>3. CASE EditListener
  <2>1. /\ listener' \in {"none", "other"} /\ Edit({"listener"})
        /\ UNCHANGED <<sound, manifest, launcher, task>>
    BY <1>3 DEF EditListener, deployment
  <2>2. Changes({"listener"}) /\ {"listener"} \in SUBSET Things /\ listener' \in Listeners
    BY <2>1 DEF Changes, Things, Listeners
  <2>. QED
    BY <1>0, <2>1, <2>2, EditHolds
<1>. QED
  BY <1>1, <1>2, <1>3

-----------------------------------------------------------------------------
(* The invariant holds.                                                    *)

LEMMA InitHolds == Init => IInv
<1>. SUFFICES ASSUME Init PROVE IInv
  OBVIOUS
<1>1. Legacy \in Tasks /\ Managed(Legacy)
  <2>1. Legacy \in Tasks /\ Legacy.enabled /\ Legacy.action = "ensure"
    BY DEF Legacy, Tasks
  <2>. HIDE DEF Tasks
  <2>2. Legacy # None
    BY <2>1, NamesAssumption
  <2>. QED
    BY <2>1, <2>2 DEF Managed
<1>2. TypeOK
  BY <1>1, IdleJob, NamesAssumption DEF Init, TypeOK, Launchers, Listeners, Decisions
<1>3. \A n \in Managers : job[n] = Idle
  BY DEF Init
<1>4. ASSUME NEW n \in Managers PROVE Knows(n)
  <2>1. LockKnown(n) /\ StateKnown(n) /\ SnapshotKnown(n) /\ TasksKnown(n)
    BY <1>3, IdleJob DEF LockKnown, StateKnown, SnapshotKnown, HasSnapshot, TasksKnown, ChildSteps
  <2>2. TasksUndone(n) /\ LauncherUndone(n) /\ ManifestUndone(n) /\ Verified(n) /\ FreeKnown(n)
    BY <1>3, IdleJob DEF TasksUndone, LauncherUndone, ManifestUndone, Verified, FreeKnown
  <2>. QED
    BY <2>1, <2>2 DEF Knows
<1>5. Untouched
  BY <1>1, <1>3, IdleJob DEF Init, Untouched
<1>. QED
  BY <1>2, <1>4, <1>5 DEF IInv

LEMMA StepHolds ==
  ASSUME IInv, NEW m \in Managers, Step(m)
  PROVE  IInv'
<1>1. CASE Reads(m)
  BY <1>1, ReadFilesHolds, ReadListenerHolds, ReadTasksHolds, ReportHolds DEF Reads
<1>2. CASE Child(m)
  <2>1. CASE \E k \in Kinds : CreateTask(m, k) \/ UndoTask(m, k)
    BY <2>1, CreateTaskHolds, UndoTaskHolds
  <2>. QED
    BY <1>2, <2>1, LoadHolds, SnapshotHolds, WriteLauncherHolds, MatchRecordsHolds,
       SaveManifestHolds, ReloadHolds, UndoLauncherHolds, UndoManifestHolds,
       ChildRaisesHolds DEF Child
<1>. QED
  BY <1>1, <1>2, TakeLockHolds, RecheckHolds, FailedHolds, ExamineHolds, ExaminedHolds,
     RecordHolds, ReleaseHolds, RaisesHolds, KilledHolds, OtherChangesHolds DEF Step

LEMMA NextHolds == IInv /\ [Next]_vars => IInv'
<1>. SUFFICES ASSUME IInv, [Next]_vars PROVE IInv'
  OBVIOUS
<1>1. CASE UNCHANGED vars
  <2>1. UNCHANGED <<lock, state, sound, manifest, launcher, task, listener, job, answer,
                    faults, edits>>
    BY <1>1 DEF vars, deployment, world
  <2>2. TypeOK' /\ Untouched'
    BY <2>1 DEF IInv, TypeOK, Untouched
  <2>3. \A n \in Managers : Noted(n, {}) /\ Changes({})
    BY <2>1 DEF Noted, Changes
  <2>4. \A n \in Managers : Knows(n)'
    BY <2>1, <2>3, OthersKnow
  <2>. QED
    BY <2>2, <2>4 DEF IInv
<1>2. ASSUME NEW m \in Managers,
             (\E c \in Commands : Begin(m, c)) \/ Step(m) \/ Crash(m) \/ OtherBegins(m)
      PROVE IInv'
  BY <1>2, BeginHolds, StepHolds, CrashHolds, OtherBeginsHolds
<1>3. CASE Others
  BY <1>3, UnlockHolds, EditsHold DEF Others
<1>. QED
  BY <1>1, <1>2, <1>3 DEF Next

LEMMA Invariance == Spec => []IInv
<1>. QED
  BY InitHolds, NextHolds, PTL DEF Spec

-----------------------------------------------------------------------------
(* What follows from it.                                                   *)

\* Every variable keeps its type.
THEOREM TypesHold == Spec => []TypeOK
<1>1. IInv => TypeOK
  BY DEF IInv
<1>. QED
  BY <1>1, Invariance, PTL

\* A child that failed, at whatever step, and could undo what it did has left
\* tasks, launcher and manifest as it found them.
THEOREM FailedIsRolledBack == Spec => []RolledBack
<1>1. IInv => RolledBack
  <2>. SUFFICES ASSUME IInv, NEW m \in Managers, job[m].step = "failed",
                       ~job[m].broken, job[m].before # None
                PROVE  /\ \A k \in Kinds \ job[m].touched : task[k] = job[m].before.task[k]
                       /\ \/ "launcher" \in job[m].touched
                          \/ launcher \in {job[m].before.launcher, "torn"}
                       /\ "manifest" \in job[m].touched \/ manifest = job[m].original
    BY DEF RolledBack, At
  <2>1. TasksUndone(m) /\ LauncherUndone(m) /\ ManifestUndone(m)
    BY DEF IInv, Knows
  <2>. QED
    BY <2>1 DEF TasksUndone, UndoneBy, LauncherUndone, ManifestUndone
<1>. QED
  BY <1>1, Invariance, PTL

\* A deployment nobody else touched is granted the migration again, whatever
\* failed, was killed or crashed before.
THEOREM RetriesAreGranted == Spec => []RetryIsGranted
<1>1. IInv => RetryIsGranted
  <2>. SUFFICES ASSUME IInv, edits = 0, manifest = "legacy"
                PROVE  Plan(Sight, task) = "MIGRATION_REQUIRED"
    BY DEF RetryIsGranted
  <2>1. sound /\ state \in {"partial", "full"} /\ \A k \in Kinds : Managed(task[k])
    BY DEF IInv, Untouched
  <2>2. /\ Sight.state \in {"partial", "full"} /\ Sight.sound
        /\ Sight.mismatches = {"windows_task_contract"}
    BY <2>1 DEF Sight, Mismatches, TaskContract
  <2>. QED
    BY <2>1, <2>2 DEF Plan, Proven, Managed
<1>. QED
  BY <1>1, Invariance, PTL

\* What is reported as reconciled or fully durable was looked at and had the
\* contract's form, as far as nobody touched it since.
THEOREM FullWasVerified == Spec => []FullIsVerified
<1>1. IInv => FullIsVerified
  BY DEF IInv, Knows, Verified, TasksFine, ManifestFine, FullIsVerified, At
<1>. QED
  BY <1>1, Invariance, PTL

\* A port is said to be free only if nobody listened when it was looked at.
THEOREM AbsentWasFree == Spec => []AbsentIsFree
<1>1. IInv => AbsentIsFree
  BY DEF IInv, Knows, FreeKnown, AbsentIsFree, At
<1>. QED
  BY <1>1, Invariance, PTL

\* A task that is not the manager's is not overwritten, unless it became so
\* after the plan under the lock had begun.
THEOREM ForeignTasksKept == Spec => ForeignKept
<1>1. IInv => \A m \in Managers, k \in Kinds :
        (job[m].step \in ChildSteps /\ ~Managed(task[k])) => k \in job[m].touched
  BY DEF IInv, Knows, TasksKnown
<1>2. IInv /\ [Next]_vars => [\A m \in Managers, k \in Kinds :
        (job[m].step \in ChildSteps /\ job'[m].step # job[m].step
         /\ ~Managed(task[k]) /\ task'[k] # task[k]) => k \in job[m].touched]_vars
  BY <1>1
<1>. QED
  BY <1>2, Invariance, PTL DEF Spec, ForeignKept

\* The state of a root uninstalled meanwhile is not written back.
THEOREM StateIsKept == Spec => StateKept
<1>1. IInv => \A m \in Managers : job[m].step = "record" => state # "none"
  BY DEF IInv, Knows, StateKnown
<1>2. IInv /\ [Next]_vars => [\A m \in Managers :
        (At(m, "record") /\ job'[m].step # "record") => state # "none"]_vars
  BY <1>1 DEF At
<1>. QED
  BY <1>2, Invariance, PTL DEF Spec, StateKept
=============================================================================
