---------------------------- MODULE TaskReconcile ----------------------------
(* The command `reconcile` of headroom-runtime on Windows, with the readers *)
(* `reconcile --dry-run`, `status` and `doctor` (runtime_manager.py): how a *)
(* deployment whose two scheduled tasks start the earlier command is moved  *)
(* to the silent launcher.  The move runs in a child process with a time    *)
(* limit; every read and every write is an action, and between two of them  *)
(* the child may be killed, the command may die, and others may act.        *)
EXTENDS Integers, Sequences

CONSTANTS Managers,    \* processes that run commands
          Allowed,     \* the commands each of them may run
          Found,       \* manifests of the deployment found at first
          OtherTasks,  \* what someone else may make of a task
          Faults,      \* what may go wrong
          MaxFaults,   \* bound: how often something goes wrong
          MaxEdits,    \* bound: how often someone else acts
          None,        \* no lock, no task, nothing observed
          Stale        \* the lock file of a command that died

FaultNames == {"error", "kill", "crash", "query", "service"}

\* A scheduled task as its XML shows it: the action, Settings/Enabled, and
\* whether there is exactly the trigger asked for.
Tasks == [action : {"ensure", "silent", "other"}, enabled : BOOLEAN,
          trigger : BOOLEAN]
Legacy == [action |-> "ensure", enabled |-> TRUE, trigger |-> TRUE]
Silent == [action |-> "silent", enabled |-> TRUE, trigger |-> TRUE]
Kinds == {"startup", "health"}

\* manifest.json: the manager's deployment with the earlier task records, with
\* the records of the contract, with records of other names, with recorded
\* environment mutations; or of another identity.
Manifests == {"none", "legacy", "current", "unmatched", "mutated", "altered"}
Launchers == {"none", "silent", "torn", "other"}
\* What the child puts back if it fails.
Snapshots == [task : [Kinds -> Tasks], launcher : Launchers]
Listeners == {"none", "managed", "other"}
Things == Kinds \cup {"launcher", "manifest", "listener", "state"}

ASSUME NamesAssumption ==
  /\ Faults \subseteq FaultNames /\ MaxFaults \in Nat /\ MaxEdits \in Nat
  /\ Found \subseteq Manifests \ {"none"}
  /\ OtherTasks \subseteq Tasks \cup {None}
  /\ Allowed \in [Managers -> SUBSET {"apply", "plan", "doctor", "other"}]
  /\ None \notin Tasks \cup Snapshots \cup Managers /\ Stale \notin Managers \cup {None}

VARIABLES lock,      \* the lock file of the root
          state,     \* manager-state.json: its status, or its other preset
          sound,     \* purge marker, executables and pinned versions
          manifest,  \* the deployment's manifest
          launcher,  \* the launcher file beside it
          task,      \* the two scheduled tasks
          listener,  \* who listens on the port
          job,       \* per manager: the command it runs
          answer,    \* the last decision of `reconcile --apply`
          faults,    \* how often something has gone wrong
          edits      \* how often someone else has acted

deployment == <<sound, manifest, launcher, task>>
world == <<listener, faults, edits>>
vars == <<lock, state, deployment, world, job, answer>>

Commands == {"none", "apply", "plan", "doctor", "other"}
ChildSteps == {"load", "snapshot", "launcher", "startup", "health", "match",
               "save", "reload", "undo_startup", "undo_health",
               "undo_launcher", "undo_manifest"}
Steps == ChildSteps \cup {"idle", "files", "listener", "tasks", "lock",
          "recheck", "failed", "examine", "record", "report", "change",
          "release"}
Parts == {"service", "manifest", "tasks"}
\* What the planner reads before it asks for the tasks.
Sights == [state : {"none", "partial", "full", "service"}, sound : BOOLEAN,
           mismatches : SUBSET {"mutations", "windows_task_contract", "identity"}]
Decisions == {"none", "ERROR", "RUNTIME_ABSENT", "OWNERSHIP_AMBIGUOUS",
  "RECONCILIATION_NOT_APPLICABLE", "RECONCILIATION_NOT_REQUIRED",
  "REINSTALL_REQUIRED", "MIGRATION_REQUIRED", "RECONCILE_BLOCKED",
  "RECONCILE_PARTIAL", "RECONCILED", "RUNTIME_PARTIAL", "RUNTIME_FULL_DURABLE"}
Jobs == [step : Steps, command : Commands, locked : BOOLEAN,
         seen : Sights \cup {None},
         original : Manifests,                     \* the child's deep copy
         before : Snapshots \cup {None},
         installed : BOOLEAN,                      \* the snapshot was returned
         broken : BOOLEAN,                         \* an undo step failed
         touched : SUBSET Things,                  \* by others, meanwhile
         parts : Seq(Parts), ok : BOOLEAN, says : Decisions]
Idle == [step |-> "idle", command |-> "none", locked |-> FALSE, seen |-> None,
         original |-> "none", before |-> None, installed |-> FALSE,
         broken |-> FALSE, touched |-> {}, parts |-> <<>>, ok |-> TRUE,
         says |-> "none"]

\* What an earlier release deployed, or a setup that stopped half-way.
Init ==
  /\ lock = None /\ sound = TRUE /\ launcher = "none"
  /\ state = "partial"
  /\ manifest \in Found
  /\ task = [k \in Kinds |-> Legacy]
  /\ listener = "managed"
  /\ job = [m \in Managers |-> Idle]
  /\ answer = "none" /\ faults = 0 /\ edits = 0

-----------------------------------------------------------------------------
(* What is read.                                                           *)

\* A task whose one action is the launcher's, or the earlier command's alone.
Managed(t) == t # None /\ t.enabled /\ t.action \in {"silent", "ensure"}
Exact(t) == t = Silent

\* The manifest records launcher and tasks, and the launcher has its hash.
TaskContract == manifest = "current" /\ launcher = "silent"
Mismatches ==
  (CASE manifest = "mutated" -> {"mutations"}
     [] manifest \in {"none", "altered"} -> {"identity"}
     [] OTHER -> {})
  \cup (IF TaskContract THEN {} ELSE {"windows_task_contract"})

Mishap(f) == f \in Faults /\ faults < MaxFaults /\ faults' = faults + 1

\* A query that fails or exceeds its time limit reads as no task.
Losing(lost) ==
  IF lost = {} THEN UNCHANGED faults ELSE Mishap("query")
Queried(lost) == [k \in Kinds |-> IF k \in lost THEN None ELSE task[k]]
SupervisorOk(q) == TaskContract /\ \A k \in Kinds : Exact(q[k])

\* The inventory of listening sockets may be unavailable.  Faulty variant: an
\* unavailable inventory reads as nobody.
InventoryOptimistic(l) == \/ l = listener /\ UNCHANGED faults
                          \/ l = "none" /\ Mishap("query")
Inventory(l) == \/ l = listener /\ UNCHANGED faults
                \/ l = "unknown" /\ Mishap("query")

\* _read_only_reconcile_plan, once there is a state.
Proven(seen, q) ==
  seen.sound /\ "identity" \notin seen.mismatches
  /\ \A k \in Kinds : q[k] # None
Plan(seen, q) ==
  CASE seen.state = "service" -> "RECONCILIATION_NOT_APPLICABLE"
    [] seen.state # "service" /\ seen.mismatches = {} /\ SupervisorOk(q)
       /\ Proven(seen, q) -> "RECONCILIATION_NOT_REQUIRED"
    [] seen.state # "service" /\ "mutations" \in seen.mismatches ->
       IF Proven(seen, q) THEN "REINSTALL_REQUIRED" ELSE "OWNERSHIP_AMBIGUOUS"
    [] seen.state # "service" /\ Proven(seen, q)
       /\ seen.mismatches = {"windows_task_contract"}
       /\ \A k \in Kinds : Managed(q[k]) -> "MIGRATION_REQUIRED"
    [] OTHER -> "RECONCILE_BLOCKED"

Sight == [state |-> state, sound |-> sound, mismatches |-> Mismatches]

-----------------------------------------------------------------------------
(* Control.  Each writer leaves a mark in the jobs of the others.          *)

At(m, s) == job[m].step = s
Marked(n, things) ==
  IF job[n].step \in {"idle", "lock", "release", "change"} THEN job[n]
  ELSE [job[n] EXCEPT !.touched = @ \cup things]
Become(m, j, things) ==
  job' = [n \in Managers |-> IF n = m THEN j ELSE Marked(n, things)]
Moved(m, s) == [job[m] EXCEPT !.step = s]
Goto(m, s) == Become(m, Moved(m, s), {}) /\ UNCHANGED answer
\* The answer of a command; one without the lock is then over.
Ended(m) == IF job[m].locked
  THEN [Idle EXCEPT !.step = "release", !.command = job[m].command,
                    !.locked = TRUE] ELSE Idle
Leave(m, d) == Become(m, Ended(m), {}) /\ answer' = d

Begin(m, c) ==
  /\ At(m, "idle") /\ c \in Allowed[m] \ {"other"}
  /\ Become(m, [Idle EXCEPT !.command = c,
       !.step = IF c = "doctor" THEN "examine" ELSE "files",
       !.parts = IF c = "doctor" THEN <<"service", "manifest", "tasks">>
                 ELSE <<>>], {})
  /\ UNCHANGED <<lock, state, deployment, world, answer>>

\* Faulty variant: a lock file that is there does not stop a command.
LockIgnored(m) == lock' = m
AcquireLock(m) == lock = None /\ lock' = m

Release(m) ==
  /\ At(m, "release")
  /\ lock' = None
  /\ Become(m, Idle, {})
  /\ UNCHANGED <<state, deployment, world, answer>>

-----------------------------------------------------------------------------
(* The plan: state, marker, executables and manifest; the listener; the     *)
(* tasks.  With --apply it is made twice, the second time under the lock.   *)

ReadFiles(m) ==
  /\ At(m, "files")
  /\ Become(m, [Moved(m, "listener") EXCEPT !.seen = Sight, !.touched = {}], {})
  /\ UNCHANGED <<lock, state, deployment, world, answer>>

Granted(m) == UNCHANGED answer /\ Become(m, IF job[m].locked
  THEN [Moved(m, "recheck") EXCEPT !.seen = None]
  ELSE [Idle EXCEPT !.command = "apply", !.step = "lock"], {})
\* Faulty variant: what the plan without the lock granted stands.
DecidedOnce(m, d) ==
  IF job[m].command = "plan"
  THEN Become(m, [Moved(m, "report") EXCEPT !.says = d, !.seen = None], {}) /\ UNCHANGED answer
  ELSE IF d # "MIGRATION_REQUIRED" /\ ~job[m].locked
  THEN Leave(m, "RECONCILE_BLOCKED")
  ELSE Granted(m)
Decided(m, d) ==
  IF job[m].command = "plan"
  THEN Become(m, [Moved(m, "report") EXCEPT !.says = d, !.seen = None], {}) /\ UNCHANGED answer
  ELSE IF d # "MIGRATION_REQUIRED" THEN Leave(m, "RECONCILE_BLOCKED")
  ELSE Granted(m)

ReadListener(m) ==
  /\ At(m, "listener")
  /\ \E l \in Listeners \cup {"unknown"} :
       /\ Inventory(l)
       /\ IF job[m].seen.state # "none" THEN Goto(m, "tasks")
          ELSE Decided(m, IF l = "none" THEN "RUNTIME_ABSENT"
                          ELSE "OWNERSHIP_AMBIGUOUS")
  /\ UNCHANGED <<lock, state, deployment, listener, edits>>

ReadTasks(m) ==
  /\ At(m, "tasks")
  /\ \E lost \in SUBSET Kinds :
       Losing(lost) /\ Decided(m, Plan(job[m].seen, Queried(lost)))
  /\ UNCHANGED <<lock, state, deployment, listener, edits>>

Report(m) ==
  /\ At(m, "report")
  /\ Become(m, Idle, {})
  /\ UNCHANGED <<lock, state, deployment, world, answer>>

TakeLock(m) ==
  /\ At(m, "lock")
  /\ \/ /\ AcquireLock(m)
        /\ Become(m, [Moved(m, "files") EXCEPT !.locked = TRUE], {})
        /\ UNCHANGED answer
     \/ lock # None /\ Leave(m, "ERROR") /\ UNCHANGED lock
  /\ UNCHANGED <<state, deployment, world>>

\* Once more, one by one: state, marker, preset, manifest, tasks, executable.
Recheck(m) ==
  /\ At(m, "recheck")
  /\ \/ state = "none" /\ Leave(m, "RUNTIME_ABSENT") /\ UNCHANGED faults
     \/ /\ state = "service" /\ UNCHANGED faults
        /\ Leave(m, "RECONCILIATION_NOT_APPLICABLE")
     \/ /\ state \in {"partial", "full"} /\ UNCHANGED faults
        /\ ~sound \/ Mismatches \ {"windows_task_contract"} # {}
        /\ Leave(m, "RECONCILE_BLOCKED")
     \/ /\ state \in {"partial", "full"} /\ sound
        /\ Mismatches \subseteq {"windows_task_contract"}
        /\ \E lost \in SUBSET Kinds :
             /\ Losing(lost)
             /\ IF SupervisorOk(Queried(lost))
                THEN Leave(m, "RECONCILIATION_NOT_REQUIRED")
                ELSE Goto(m, "load")
  /\ UNCHANGED <<lock, state, deployment, listener, edits>>

-----------------------------------------------------------------------------
(* The child: _SAFE_RECONCILE_SCRIPT and _install_silent_windows_tasks.     *)

Exits(m) == Goto(m, "failed")

Load(m) ==
  /\ At(m, "load")
  /\ IF manifest \in {"legacy", "current", "unmatched"}
     THEN Become(m, [Moved(m, "snapshot") EXCEPT !.original = manifest], {})
          /\ UNCHANGED answer
     ELSE Exits(m)
  /\ UNCHANGED <<lock, state, deployment, world>>

\* Faulty variant: a task that is not there is left out of the snapshot.
SnapshotMissing(m) ==
  /\ At(m, "snapshot")
  /\ Become(m, [Moved(m, "launcher") EXCEPT
       !.before = [task |-> task, launcher |-> launcher]], {})
  /\ UNCHANGED <<lock, state, deployment, world, answer>>
\* Both tasks must be there; the query has no time limit of its own.
Snapshot(m) ==
  /\ At(m, "snapshot")
  /\ IF \A k \in Kinds : task[k] # None
     THEN Become(m, [Moved(m, "launcher") EXCEPT
            !.before = [task |-> task, launcher |-> launcher]], {})
          /\ UNCHANGED answer
     ELSE Goto(m, "undo_manifest")
  /\ UNCHANGED <<lock, state, deployment, world>>

WriteLauncher(m) ==
  /\ At(m, "launcher")
  /\ launcher' = "silent"
  /\ Become(m, Moved(m, "startup"), {"launcher"})
  /\ UNCHANGED <<lock, state, sound, manifest, task, world, answer>>

Following == [startup |-> "health", health |-> "match"]
CreateTask(m, k) ==
  /\ At(m, k)
  /\ task' = [task EXCEPT ![k] = Silent]
  /\ Become(m, Moved(m, Following[k]), {k})
  /\ UNCHANGED <<lock, state, sound, manifest, launcher, world, answer>>

\* The manifest must have had a record of each task.
MatchRecords(m) ==
  /\ At(m, "match")
  /\ IF job[m].original = "unmatched" THEN Goto(m, "undo_startup")
     ELSE Become(m, [Moved(m, "save") EXCEPT !.installed = TRUE], {})
          /\ UNCHANGED answer
  /\ UNCHANGED <<lock, state, deployment, world>>

SaveManifest(m) ==
  /\ At(m, "save")
  /\ manifest' = "current"
  /\ Become(m, Moved(m, "reload"), {"manifest"})
  /\ UNCHANGED <<lock, state, sound, launcher, task, world, answer>>

Reload(m) ==
  /\ At(m, "reload")
  /\ IF manifest = "current"
     THEN Become(m, [Idle EXCEPT !.step = "examine", !.command = "apply",
            !.locked = TRUE, !.parts = <<"manifest", "tasks", "service">>], {})
          /\ UNCHANGED answer
     ELSE Goto(m, "undo_startup")
  /\ UNCHANGED <<lock, state, deployment, world>>

\* A call of the child raises.  Before the first task is created only the
\* manifest is put back, later the snapshot first.  Writing the launcher may
\* leave a part of it.
Handler(m) == IF job[m].step \in {"startup", "health", "save", "reload"}
              THEN "undo_startup" ELSE "undo_manifest"
ChildRaises(m) ==
  /\ Mishap("error")
  /\ job[m].step \in {"snapshot", "launcher", "startup", "health", "save",
                      "reload"}
  /\ \/ Goto(m, Handler(m)) /\ UNCHANGED launcher
     \/ /\ At(m, "launcher") /\ launcher' = "torn"
        /\ Become(m, Moved(m, Handler(m)), {"launcher"}) /\ UNCHANGED answer
  /\ UNCHANGED <<lock, state, sound, manifest, task, listener, edits>>

\* _restore_supervisor_snapshot: every task is tried, then the launcher.
AfterUndo == [startup |-> "undo_health", health |-> "undo_launcher"]
UndoStep == [startup |-> "undo_startup", health |-> "undo_health"]
\* Faulty variant: the tasks are deleted.
UndoTaskDeletes(m, k) ==
  /\ At(m, UndoStep[k])
  /\ task' = [task EXCEPT ![k] = None]
  /\ Become(m, Moved(m, AfterUndo[k]), {k})
  /\ UNCHANGED <<lock, state, sound, manifest, launcher, world, answer>>
UndoTask(m, k) ==
  /\ At(m, UndoStep[k])
  /\ \/ /\ task' = [task EXCEPT ![k] = job[m].before.task[k]]
        /\ Become(m, Moved(m, AfterUndo[k]), {k})
        /\ UNCHANGED faults
     \/ /\ Mishap("error")
        /\ Become(m, [Moved(m, AfterUndo[k]) EXCEPT !.broken = TRUE], {})
        /\ UNCHANGED task
  /\ UNCHANGED <<lock, state, sound, manifest, launcher, listener, edits,
                 answer>>

\* If the snapshot could not be restored, a manifest saved before stays: the
\* exception leaves the handler that would put it back.
AfterLauncher(m, broken) ==
  IF broken /\ job[m].installed THEN "failed" ELSE "undo_manifest"
\* Faulty variant: the new launcher is left where it is.
UndoLauncherForgotten(m) ==
  /\ At(m, "undo_launcher")
  /\ Goto(m, AfterLauncher(m, job[m].broken))
  /\ UNCHANGED <<lock, state, deployment, world>>
UndoLauncher(m) ==
  /\ At(m, "undo_launcher")
  /\ \/ /\ launcher' = job[m].before.launcher
        /\ Become(m, Moved(m, AfterLauncher(m, job[m].broken)), {"launcher"})
        /\ UNCHANGED faults
     \/ /\ Mishap("error")
        /\ launcher' \in {launcher, "torn"}
        /\ Become(m, [Moved(m, AfterLauncher(m, TRUE)) EXCEPT !.broken = TRUE],
                  {"launcher"})
  /\ UNCHANGED <<lock, state, sound, manifest, task, listener, edits, answer>>

UndoManifest(m) ==
  /\ At(m, "undo_manifest")
  /\ \/ /\ manifest' = job[m].original
        /\ Become(m, Moved(m, "failed"), {"manifest"})
        /\ UNCHANGED faults
     \/ /\ Mishap("error")
        /\ Become(m, [Moved(m, "failed") EXCEPT !.broken = TRUE], {})
        /\ UNCHANGED manifest
  /\ UNCHANGED <<lock, state, sound, launcher, task, listener, edits, answer>>

Failed(m) ==
  /\ At(m, "failed")
  /\ Leave(m, "RECONCILE_PARTIAL")
  /\ UNCHANGED <<lock, state, deployment, world>>

\* At its time limit the child is killed where it is, without a rollback; the
\* command reports an error and gives the lock back.
Killed(m) ==
  /\ Mishap("kill") /\ job[m].step \in ChildSteps
  /\ \/ UNCHANGED launcher
     \/ job[m].step \in {"launcher", "undo_launcher"} /\ launcher' = "torn"
  /\ Become(m, Ended(m), {"launcher"}) /\ answer' = "ERROR"
  /\ UNCHANGED <<lock, state, sound, manifest, task, listener, edits>>

-----------------------------------------------------------------------------
(* Verification after the child, and `status` and `doctor`, which look at   *)
(* the same things in another order and without the lock.                   *)

\* Faulty variant: the tasks are taken as the child left them.
PartOkUnread(p, q) == p = "manifest" => Mismatches = {}
PartOk(p, q) == CASE p = "service" -> TRUE
                  [] p = "manifest" -> Mismatches = {}
                  [] p = "tasks" -> SupervisorOk(q)

\* Upstream's status, readyz and the smoke test may fail at any time.
Examine(m) ==
  /\ At(m, "examine") /\ job[m].parts # <<>>
  /\ IF job[m].command = "doctor" /\ Len(job[m].parts) = 3 /\ state = "none"
     THEN Become(m, Idle, {}) /\ UNCHANGED faults
     ELSE LET p == Head(job[m].parts) IN
          \E lost \in SUBSET Kinds, fine \in BOOLEAN :
            /\ IF fine THEN Losing(lost)
               ELSE lost = {} /\ p = "service" /\ Mishap("service")
            /\ lost # {} => p = "tasks"
            /\ Become(m, [job[m] EXCEPT !.parts = Tail(@),
                 !.ok = @ /\ fine /\ PartOk(p, Queried(lost))], {})
  /\ UNCHANGED <<lock, state, deployment, listener, edits, answer>>

Examined(m) ==
  /\ At(m, "examine") /\ job[m].parts = <<>>
  /\ IF job[m].command = "apply"
     THEN IF job[m].ok THEN Goto(m, "record") ELSE Leave(m, "RECONCILE_PARTIAL")
     ELSE Become(m, [Moved(m, "report") EXCEPT !.says = IF job[m].ok
            THEN "RUNTIME_FULL_DURABLE" ELSE "RUNTIME_PARTIAL"], {})
          /\ UNCHANGED answer
  /\ UNCHANGED <<lock, state, deployment, world>>

\* The state read under the lock is written with its new status.
Record(m) ==
  /\ At(m, "record")
  /\ state' = "full"
  /\ Become(m, Moved(m, "release"), {"state"})
  /\ answer' = "RECONCILED"
  /\ UNCHANGED <<lock, deployment, world>>

-----------------------------------------------------------------------------
(* What may go wrong, and who else acts.                                   *)

\* An exception outside the child, such as the time limit of a probe or of the
\* upstream status.
Raises(m) ==
  /\ Mishap("error")
  /\ job[m].step \notin ChildSteps \cup {"idle", "release", "report", "change"}
  /\ Become(m, Ended(m), {})
  /\ answer' = IF job[m].command = "apply" THEN "ERROR" ELSE answer
  /\ UNCHANGED <<lock, state, deployment, listener, edits>>

\* Command and child die; the lock file stays until someone deletes it.  (One
\* without the lock leaves nothing, as if it had raised.)
Crash(m) ==
  /\ Mishap("crash") /\ job[m].locked
  /\ lock' = Stale
  /\ \/ UNCHANGED launcher
     \/ job[m].step \in {"launcher", "undo_launcher"} /\ launcher' = "torn"
  /\ Become(m, Idle, {"launcher"})
  /\ UNCHANGED <<state, sound, manifest, task, listener, edits, answer>>
Unlock ==
  /\ lock = Stale /\ lock' = None
  /\ UNCHANGED <<state, deployment, world, job, answer>>

\* setup and uninstall hold the same lock while they change everything.
OtherBegins(m) ==
  /\ "other" \in Allowed[m] /\ At(m, "idle") /\ edits < MaxEdits
  /\ AcquireLock(m)
  /\ Become(m, [Idle EXCEPT !.step = "change", !.command = "other",
                            !.locked = TRUE], {})
  /\ edits' = edits + 1
  /\ UNCHANGED <<state, deployment, listener, faults, answer>>
OtherChanges(m) ==
  /\ At(m, "change")
  /\ \/ /\ state' = "none" /\ manifest' = "none" /\ launcher' = "none"
        /\ sound' = FALSE /\ listener' = "none"
        /\ task' = [k \in Kinds |-> None]
     \/ /\ state = "none" /\ manifest = "none"
        /\ state' \in {"full", "service"} /\ manifest' = "current"
        /\ launcher' = "silent" /\ sound' = TRUE /\ listener' = "managed"
        /\ task' = [k \in Kinds |-> Silent]
  /\ Become(m, Moved(m, "release"), Things)
  /\ UNCHANGED <<lock, faults, edits, answer>>

\* Someone else changes a task, the launcher, the manifest, the runtime's
\* files, or uses the port.
Edit(things) ==
  /\ edits < MaxEdits /\ edits' = edits + 1
  /\ job' = [n \in Managers |-> Marked(n, things)]
  /\ UNCHANGED <<lock, state, faults, answer>>
EditTask(k, t) ==
  /\ task' = [task EXCEPT ![k] = t] /\ Edit({k})
  /\ UNCHANGED <<sound, manifest, launcher, listener>>
EditFiles ==
  \/ /\ launcher' \in {"none", "other"} /\ Edit({"launcher"})
     /\ UNCHANGED <<sound, manifest, task, listener>>
  \/ /\ manifest # "none" /\ manifest' \in {"altered", "mutated", "none"}
     /\ Edit({"manifest"})
     /\ UNCHANGED <<sound, launcher, task, listener>>
  \/ /\ sound' = FALSE /\ Edit({})
     /\ UNCHANGED <<manifest, launcher, task, listener>>
EditListener ==
  /\ listener' \in {"none", "other"} /\ Edit({"listener"})
  /\ UNCHANGED deployment

-----------------------------------------------------------------------------
Reads(m) == ReadFiles(m) \/ ReadListener(m) \/ ReadTasks(m) \/ Report(m)
Child(m) ==
  \/ Load(m) \/ Snapshot(m) \/ WriteLauncher(m) \/ MatchRecords(m)
  \/ (\E k \in Kinds : CreateTask(m, k) \/ UndoTask(m, k)) \/ SaveManifest(m)
  \/ Reload(m) \/ UndoLauncher(m) \/ UndoManifest(m) \/ ChildRaises(m)
Step(m) ==
  \/ Reads(m) \/ TakeLock(m) \/ Recheck(m) \/ Child(m) \/ Failed(m)
  \/ Examine(m) \/ Examined(m) \/ Record(m) \/ Release(m) \/ Raises(m)
  \/ Killed(m) \/ OtherChanges(m)
Others ==
  \/ Unlock \/ EditFiles \/ EditListener
  \/ \E k \in Kinds, t \in OtherTasks : EditTask(k, t)
Next ==
  \/ \E m \in Managers :
       (\E c \in Commands : Begin(m, c)) \/ Step(m) \/ Crash(m) \/ OtherBegins(m)
  \/ Others

Spec == Init /\ [][Next]_vars
-----------------------------------------------------------------------------
(* Properties.                                                             *)

TypeOK ==
  /\ lock \in Managers \cup {None, Stale}
  /\ state \in {"none", "partial", "full", "service"}
  /\ sound \in BOOLEAN
  /\ manifest \in Manifests /\ launcher \in Launchers
  /\ task \in [Kinds -> Tasks \cup {None}]
  /\ listener \in Listeners
  /\ job \in [Managers -> Jobs]
  /\ answer \in Decisions
  /\ faults \in 0..MaxFaults /\ edits \in 0..MaxEdits

\* A task that is not the manager's is never overwritten, unless someone made
\* it so after the plan under the lock had begun (2576-2620 with 148-170).
ForeignKept == [][\A m \in Managers, k \in Kinds :
  (job[m].step \in ChildSteps /\ job'[m].step # job[m].step
   /\ ~Managed(task[k]) /\ task'[k] # task[k]) => k \in job[m].touched]_vars

\* A child that fails and can undo what it did leaves tasks, launcher and
\* manifest as it found them, at whatever step it failed, except for what
\* others changed meanwhile and for a launcher it could not finish writing.
RolledBack == \A m \in Managers : LET j == job[m] IN
  (At(m, "failed") /\ ~j.broken /\ j.before # None) =>
    /\ \A k \in Kinds \ j.touched : task[k] = j.before.task[k]
    /\ "launcher" \in j.touched \/ launcher \in {j.before.launcher, "torn"}
    /\ "manifest" \in j.touched \/ manifest = j.original

\* Whatever failures, kills and crashes left behind, a deployment that nobody
\* else touched is granted the migration again: a migration that stopped
\* half-way does not look like someone else's.
RetryIsGranted ==
  (edits = 0 /\ lock = None /\ manifest = "legacy") =>
    Plan(Sight, task) = "MIGRATION_REQUIRED"

\* What is reported as reconciled or as fully durable was so: all that nobody
\* touched since it was looked at has the contract's form.
FullIsVerified == \A m \in Managers : LET j == job[m] IN
  (At(m, "record") \/ (At(m, "report") /\ j.says = "RUNTIME_FULL_DURABLE")) =>
    /\ \A k \in Kinds \ j.touched : Exact(task[k])
    /\ {"launcher", "manifest"} \cap j.touched = {} => TaskContract

\* A port said to be free for a setup has no listener, unless one came since.
AbsentIsFree == \A m \in Managers :
  (At(m, "report") /\ job[m].says = "RUNTIME_ABSENT"
   /\ "listener" \notin job[m].touched) => listener = "none"

\* A reconcile does not bring back the state of a root that was uninstalled
\* since it looked.
StateKept == [][\A m \in Managers :
  (At(m, "record") /\ job'[m].step # "record") => state # "none"]_vars

\* "retry or run explicit uninstall": a reconcile that ended as partial, with
\* nobody else acting, is not refused when it is run again (2730 and 2768).
RetryIsAccepted == [][
  (edits = 0 /\ answer = "RECONCILE_PARTIAL") => answer' # "RECONCILE_BLOCKED"]_vars
=============================================================================
