--------------------------- MODULE ManagedRuntime ---------------------------
(* The commands `setup` and `uninstall` of headroom-runtime                *)
(* (runtime_manager.py).  A runtime root holds the manager's files; the    *)
(* supervisor's unit and the listening port belong to the whole user       *)
(* account.  Each observation, each write and each step of the upstream    *)
(* scripts is an action: between two of them the command may die, and      *)
(* whatever else runs on the account may act.                              *)

CONSTANTS Managers,  \* processes that run commands
          Roots,     \* runtime roots
          Profiles,  \* names of units
          Ports,     \* ports of proxies
          Ids,       \* what a setup may ask for: profile, port and specs
          Profile,   \* the profile of an identity
          Port,      \* the port of an identity
          Earlier,   \* identities found installed by an earlier release
          Faults,    \* what may go wrong
          None,      \* no file, no unit, no listener, no argument
          Foreign,   \* anyone who is not a manager
          Stale      \* the lock file of a command that died

FaultNames == {"error", "crash", "rollback", "foreign", "operator", "service"}

ASSUME NamesAssumption ==
  /\ Profile \in [Ids -> Profiles] /\ Port \in [Ids -> Ports]
  /\ Earlier \subseteq Ids /\ Faults \subseteq FaultNames
  /\ None \notin Managers \cup Roots \cup Ids \cup {Foreign, Stale}
  /\ Foreign \notin Roots /\ Stale \notin Managers

VARIABLES lock,       \* per root: the lock file beside it
          marker,     \* per root: the purge marker
          state,      \* per root: manager-state.json
          venv,       \* per root: the installed Headroom command
          manifest,   \* per root: the deployment's manifest in the workspace
          litter,     \* per root: entries the manager does not know
          supervisor, \* per profile: the native unit, and who installed it
          listener,   \* per port: who listens, and whether it answers readyz
          job,        \* per manager: the command it runs
          answer      \* per root: last decision, forgotten by a new setup

files == <<marker, state, venv, manifest, litter>>
host == <<supervisor, listener>>
vars == <<lock, files, host, job, answer>>

States == [id : Ids, status : {"partial", "full"}, current : BOOLEAN]
Manifests == [id : Ids, form : {"exact", "earlier", "altered"}]
Units == [by : Roots, id : Ids]
Listeners == [by : Roots \cup {Foreign}, ready : BOOLEAN]

ASSUME NoneAssumption ==
  {None, Foreign} \cap (States \cup Manifests \cup Units \cup Listeners) = {}

SetupSteps == {"compare", "inspect", "probe", "confirm", "mark", "provision",
               "record", "supervise", "save", "start", "verify", "complete",
               "fail"}
UninstallSteps == {"consult", "judge", "inert", "remove", "forget", "await",
                   "unlink", "venv", "workspace", "files", "unmark", "rmdir"}
Jobs == [step : SetupSteps \cup UninstallSteps \cup {"idle", "release"},
         root : Roots \cup {None}, id : Ids \cup {None}, keep : BOOLEAN,
         existing : States \cup {None}, deployed : BOOLEAN, inert : BOOLEAN]
Idle == [step |-> "idle", root |-> None, id |-> None, keep |-> FALSE,
         existing |-> None, deployed |-> FALSE, inert |-> FALSE]

\* STATE_INVALID is the ERROR of a state file that cannot be read.
Decisions == {"none", "ERROR", "STATE_INVALID", "RUNTIME_ABSENT",
              "MANAGED_CONFIGURATION_CONFLICT", "FOREIGN_DEPLOYMENT_CONFLICT",
              "RUNTIME_ROOT_CONFLICT", "PORT_CONFLICT_UNMANAGED",
              "PORT_CONFLICT_UNKNOWN_SERVICE",
              "MANAGED_REPAIR_REQUIRES_UNINSTALL", "RUNTIME_PARTIAL",
              "RUNTIME_FULL_DURABLE", "UNINSTALL_BLOCKED", "UNINSTALL_PARTIAL",
              "UNINSTALLED", "UNINSTALLED_PARTIAL_STATE"}

\* A root is empty, or holds what an earlier release installed.
Init ==
  /\ lock = [r \in Roots |-> None]
  /\ litter = [r \in Roots |-> {}]
  /\ job = [m \in Managers |-> Idle]
  /\ answer = [r \in Roots |-> "none"]
  /\ supervisor = [p \in Profiles |-> None]
  /\ listener = [p \in Ports |-> None]
  /\ \E found \in [Roots -> Earlier \cup {None}] :
       /\ marker = [r \in Roots |-> found[r] # None]
       /\ venv = [r \in Roots |-> found[r] # None]
       /\ state = [r \in Roots |-> IF found[r] = None THEN None ELSE
            [id |-> found[r], status |-> "full", current |-> FALSE]]
       /\ manifest = [r \in Roots |-> IF found[r] = None THEN None ELSE
            [id |-> found[r], form |-> "earlier"]]

-----------------------------------------------------------------------------
(* What a command can see.                                                 *)

Ready(id) == listener[Port[id]] # None /\ listener[Port[id]].ready
Open(id) == listener[Port[id]] # None
Supervised(id) == supervisor[Profile[id]] # None

\* The manifest of the profile, at its place in the root's workspace.
HasManifest(r, id) ==
  manifest[r] # None /\ Profile[manifest[r].id] = Profile[id]
Contract(r, id, forms) ==
  manifest[r] # None /\ manifest[r].id = id /\ manifest[r].form \in forms
Evidence(r, id) ==
  Contract(r, id, {"exact"}) /\ Supervised(id) /\ Ready(id) /\ venv[r]

\* Nothing runs: faulty variant, whatever unit there is.
StoppedAnswering(id) == ~Ready(id)
Stopped(id) == ~Ready(id) /\ ~Supervised(id)

\* A root with entries and neither marker nor state is not the manager's.
Claimable(r) ==
  marker[r] \/ state[r] # None
  \/ (litter[r] = {} /\ ~venv[r] /\ manifest[r] = None)

-----------------------------------------------------------------------------
(* Control: a command holds the lock of its root from `Begin` to `Release`. *)

At(m, s) == job[m].step = s
Goto(m, s) == job' = [job EXCEPT ![m].step = s] /\ UNCHANGED answer
Leave(m, d) ==
  /\ job' = [job EXCEPT ![m].step = "release"]
  /\ answer' = [answer EXCEPT ![job[m].root] = d]

\* Faulty variant: a lock file that is there does not stop a command.
LockIgnored(m, r) == lock' = [lock EXCEPT ![r] = m]
AcquireLock(m, r) == lock[r] = None /\ lock' = [lock EXCEPT ![r] = m]

BeginSetup(m, r, id) ==
  /\ At(m, "idle")
  /\ AcquireLock(m, r)
  /\ job' = [job EXCEPT ![m] =
       [Idle EXCEPT !.step = "compare", !.root = r, !.id = id]]
  /\ answer' = [answer EXCEPT ![r] = "none"]
  /\ UNCHANGED <<files, host>>

BeginUninstall(m, r, keep) ==
  /\ At(m, "idle")
  /\ AcquireLock(m, r)
  /\ job' = [job EXCEPT ![m] =
       [Idle EXCEPT !.step = "consult", !.root = r, !.keep = keep]]
  /\ UNCHANGED <<files, host, answer>>

Release(m) ==
  /\ At(m, "release")
  /\ lock' = [lock EXCEPT ![job[m].root] = None]
  /\ job' = [job EXCEPT ![m] = Idle]
  /\ UNCHANGED <<files, host, answer>>

-----------------------------------------------------------------------------
(* setup                                                                   *)

\* The state file, read back: it must name this release's environment.
Readable(r) == state[r] # None => state[r].current

Compare(m) == LET r == job[m].root IN
  /\ At(m, "compare")
  /\ \/ /\ ~Readable(r)
        /\ Leave(m, "STATE_INVALID")
     \/ /\ Readable(r) /\ state[r] # None /\ state[r].id # job[m].id
        /\ Leave(m, "MANAGED_CONFIGURATION_CONFLICT")
     \/ /\ Readable(r) /\ (state[r] # None => state[r].id = job[m].id)
        /\ job' = [job EXCEPT ![m].step = "inspect", ![m].existing = state[r]]
        /\ UNCHANGED answer
  /\ UNCHANGED <<lock, files, host>>

Inspect(m) ==
  LET r == job[m].root
      deployed == HasManifest(r, job[m].id) \/ Supervised(job[m].id) IN
  /\ At(m, "inspect")
  /\ \/ /\ job[m].existing = None /\ deployed
        /\ Leave(m, "FOREIGN_DEPLOYMENT_CONFLICT")
     \/ /\ ~(job[m].existing = None /\ deployed) /\ ~Claimable(r)
        /\ Leave(m, "RUNTIME_ROOT_CONFLICT")
     \/ /\ ~(job[m].existing = None /\ deployed) /\ Claimable(r)
        /\ job' = [job EXCEPT ![m].step = "probe", ![m].deployed = deployed]
        /\ UNCHANGED answer
  /\ UNCHANGED <<lock, files, host>>

\* Faulty variant: a partial setup is repaired over what is there.
NeedsUninstallIfFull(m) ==
  job[m].existing # None /\ job[m].existing.status = "full" /\ job[m].deployed
NeedsUninstall(m) == job[m].existing # None /\ job[m].deployed

Probe(m) == LET id == job[m].id IN
  /\ At(m, "probe")
  /\ \/ /\ Ready(id) /\ job[m].existing = None
        /\ Leave(m, "PORT_CONFLICT_UNMANAGED")
     \/ /\ ~Ready(id) /\ Open(id)
        /\ Leave(m, "PORT_CONFLICT_UNKNOWN_SERVICE")
     \/ /\ Ready(id) /\ job[m].existing # None
        /\ Goto(m, "confirm")
     \/ /\ ~Open(id) /\ NeedsUninstall(m)
        /\ Leave(m, "MANAGED_REPAIR_REQUIRES_UNINSTALL")
     \/ /\ ~Open(id) /\ ~NeedsUninstall(m)
        /\ Goto(m, "mark")
  /\ UNCHANGED <<lock, files, host>>

\* A ready runtime is confirmed, unless its status or its smoke test fails.
Confirm(m) ==
  /\ At(m, "confirm")
  /\ \/ Evidence(job[m].root, job[m].id) /\ Goto(m, "complete")
     \/ Leave(m, "RUNTIME_PARTIAL")
  /\ UNCHANGED <<lock, files, host>>

\* Writing a file replaces its temporary file too, if a crash left one.
Mark(m) == LET r == job[m].root IN
  /\ At(m, "mark")
  /\ marker' = [marker EXCEPT ![r] = TRUE]
  /\ litter' = [litter EXCEPT ![r] =
       IF marker[r] THEN @ ELSE @ \ {"marker.tmp"}]
  /\ Goto(m, "provision")
  /\ UNCHANGED <<lock, state, venv, manifest, host>>

\* The environment and its packages; a failed installation may leave both.
Provision(m) == LET r == job[m].root IN
  /\ At(m, "provision")
  /\ \/ /\ venv' = [venv EXCEPT ![r] = TRUE]
        /\ Goto(m, "record")
     \/ /\ \E left \in {venv[r], TRUE} : venv' = [venv EXCEPT ![r] = left]
        /\ Goto(m, "fail")
  /\ UNCHANGED <<lock, marker, state, manifest, litter, host>>

WriteState(r, id, status) ==
  /\ state' = [state EXCEPT ![r] =
       [id |-> id, status |-> status, current |-> TRUE]]
  /\ litter' = [litter EXCEPT ![r] = @ \ {"state.tmp"}]
  /\ UNCHANGED <<lock, marker, venv, manifest, host>>

\* Faulty variant: the state is written once the runtime has been verified.
RecordSkipped(m) ==
  At(m, "record") /\ Goto(m, "supervise") /\ UNCHANGED <<lock, files, host>>
Record(m) ==
  /\ At(m, "record")
  /\ WriteState(job[m].root, job[m].id, "partial")
  /\ Goto(m, "supervise")

\* The apply script: unit, manifest, process.
Supervise(m) == LET r == job[m].root IN
  /\ At(m, "supervise")
  /\ ~HasManifest(r, job[m].id)
  /\ supervisor' = [supervisor EXCEPT ![Profile[job[m].id]] =
       [by |-> r, id |-> job[m].id]]
  /\ Goto(m, "save")
  /\ UNCHANGED <<lock, files, listener>>

Save(m) == LET r == job[m].root IN
  /\ At(m, "save")
  /\ manifest' = [manifest EXCEPT ![r] = [id |-> job[m].id, form |-> "exact"]]
  /\ Goto(m, "start")
  /\ UNCHANGED <<lock, marker, state, venv, litter, host>>

Start(m) == LET r == job[m].root  port == Port[job[m].id] IN
  /\ At(m, "start")
  /\ listener[port] # None => listener[port].by = r
  /\ \E ready \in BOOLEAN :
       listener' = [listener EXCEPT ![port] = [by |-> r, ready |-> ready]]
  /\ Goto(m, "verify")
  /\ UNCHANGED <<lock, files, supervisor>>

\* The unit of a profile is removed by name, with the process it runs.
StopService(r, p) ==
  /\ supervisor' = [supervisor EXCEPT ![p] = None]
  /\ listener' = [port \in Ports |->
       IF /\ listener[port] # None
          /\ listener[port].by \in {r} \cup
               (IF supervisor[p] \in Units THEN {supervisor[p].by} ELSE {})
         THEN None ELSE listener[port]]

\* The apply script fails, last when it reads back the manifest it saved, and
\* removes what it made; a rollback that fails too, and a script killed at its
\* time limit (`Raises`), leave it.
ApplyFails(m) == LET r == job[m].root IN
  /\ job[m].step \in {"supervise", "save", "start", "verify"}
  /\ At(m, "supervise") => ~HasManifest(r, job[m].id)
  /\ At(m, "verify") => ~Contract(r, job[m].id, {"exact"})
  /\ \/ StopService(r, Profile[job[m].id])
     \/ "rollback" \in Faults /\ UNCHANGED host
  /\ \/ manifest' = [manifest EXCEPT ![r] = None]
     \/ "rollback" \in Faults /\ UNCHANGED manifest
  /\ Goto(m, "fail")
  /\ UNCHANGED <<lock, marker, state, venv, litter>>

\* Contract, readiness, smoke test, status and unit.
Verify(m) ==
  /\ At(m, "verify")
  /\ \/ Evidence(job[m].root, job[m].id) /\ Goto(m, "complete")
     \/ Goto(m, "fail")
  /\ UNCHANGED <<lock, files, host>>

Complete(m) ==
  /\ At(m, "complete")
  /\ WriteState(job[m].root, job[m].id, "full")
  /\ Leave(m, "RUNTIME_FULL_DURABLE")

Fail(m) ==
  /\ At(m, "fail")
  /\ WriteState(job[m].root, job[m].id, "partial")
  /\ Leave(m, "RUNTIME_PARTIAL")

-----------------------------------------------------------------------------
(* uninstall                                                               *)

Consult(m) == LET r == job[m].root IN
  /\ At(m, "consult")
  /\ \/ ~Readable(r) /\ Leave(m, "STATE_INVALID")
     \/ state[r] = None /\ Leave(m, "RUNTIME_ABSENT")
     \/ /\ state[r] # None /\ Readable(r) /\ ~marker[r]
        /\ Leave(m, "UNINSTALL_BLOCKED")
     \/ /\ state[r] # None /\ Readable(r) /\ marker[r]
        /\ job' = [job EXCEPT ![m].step = "judge", ![m].existing = state[r],
                             ![m].id = state[r].id]
        /\ UNCHANGED answer
  /\ UNCHANGED <<lock, files, host>>

\* Only a setup that never came to a manifest is removed without one.
MayBeInert(m) ==
  job[m].existing.status = "partial" /\ ~HasManifest(job[m].root, job[m].id)

Judge(m) ==
  LET r == job[m].root
      owned == Contract(r, job[m].id, {"exact", "earlier"}) IN
  /\ At(m, "judge")
  /\ \/ owned /\ venv[r] /\ Goto(m, "remove")
     \/ ~owned /\ MayBeInert(m) /\ Goto(m, "inert")
     \/ /\ IF owned THEN ~venv[r] ELSE ~MayBeInert(m)
        /\ Leave(m, "UNINSTALL_BLOCKED")
  /\ UNCHANGED <<lock, files, host>>

\* After the decision to delete: everything, or only the state.
Discard(m) == IF job[m].keep THEN "unlink" ELSE "venv"

Inert(m) == LET id == job[m].id IN
  /\ At(m, "inert")
  /\ \/ /\ Stopped(id)
        /\ job' = [job EXCEPT ![m].step = Discard(m), ![m].inert = TRUE]
        /\ UNCHANGED answer
     \/ ~Stopped(id) /\ Leave(m, "UNINSTALL_BLOCKED")
  /\ UNCHANGED <<lock, files, host>>

\* `headroom install remove`: the service, then its manifest; it may fail
\* before either.
RemoveService(m) ==
  /\ At(m, "remove")
  /\ StopService(job[m].root, Profile[job[m].id])
  /\ Goto(m, "forget")
  /\ UNCHANGED <<lock, files>>

RemoveManifest(m) ==
  /\ At(m, "forget")
  /\ manifest' = [manifest EXCEPT ![job[m].root] = None]
  /\ Goto(m, "await")
  /\ UNCHANGED <<lock, marker, state, venv, litter, host>>

RemoveFails(m) ==
  /\ job[m].step \in {"remove", "forget"}
  /\ Leave(m, "UNINSTALL_PARTIAL")
  /\ UNCHANGED <<lock, files, host>>

Await(m) == LET id == job[m].id IN
  /\ At(m, "await")
  /\ \/ Stopped(id) /\ Goto(m, Discard(m))
     \/ ~Stopped(id) /\ Leave(m, "UNINSTALL_PARTIAL")
  /\ UNCHANGED <<lock, files, host>>

Uninstalled(m) ==
  IF job[m].inert THEN "UNINSTALLED_PARTIAL_STATE" ELSE "UNINSTALLED"
Refused(m) ==
  IF job[m].inert THEN "UNINSTALL_BLOCKED" ELSE "UNINSTALL_PARTIAL"

\* --keep-runtime: only the state goes.  Faulty variant: it is emptied.
UnlinkEmptied(m) ==
  /\ At(m, "unlink")
  /\ state' = [state EXCEPT ![job[m].root] =
       [id |-> None, status |-> "partial", current |-> TRUE]]
  /\ Leave(m, Uninstalled(m))
  /\ UNCHANGED <<lock, marker, venv, manifest, litter, host>>
Unlink(m) ==
  /\ At(m, "unlink")
  /\ state' = [state EXCEPT ![job[m].root] = None]
  /\ Leave(m, Uninstalled(m))
  /\ UNCHANGED <<lock, marker, venv, manifest, litter, host>>

\* _purge_managed_root: directories, files, root; before each directory and
\* before the files nothing unknown may be there.
PurgeVenv(m) == LET r == job[m].root IN
  /\ At(m, "venv") /\ litter[r] = {}
  /\ venv' = [venv EXCEPT ![r] = FALSE]
  /\ Goto(m, "workspace")
  /\ UNCHANGED <<lock, marker, state, manifest, litter, host>>

PurgeWorkspace(m) == LET r == job[m].root IN
  /\ At(m, "workspace") /\ litter[r] = {}
  /\ manifest' = [manifest EXCEPT ![r] = None]
  /\ Goto(m, "files")
  /\ UNCHANGED <<lock, marker, state, venv, litter, host>>

PurgeState(m) == LET r == job[m].root IN
  /\ At(m, "files") /\ litter[r] = {}
  /\ state' = [state EXCEPT ![r] = None]
  /\ Goto(m, "unmark")
  /\ UNCHANGED <<lock, marker, venv, manifest, litter, host>>

PurgeMarker(m) ==
  /\ At(m, "unmark")
  /\ marker' = [marker EXCEPT ![job[m].root] = FALSE]
  /\ Goto(m, "rmdir")
  /\ UNCHANGED <<lock, state, venv, manifest, litter, host>>

RemoveRoot(m) ==
  /\ At(m, "rmdir") /\ litter[job[m].root] = {}
  /\ Leave(m, Uninstalled(m))
  /\ UNCHANGED <<lock, files, host>>

\* Faulty variant: only the removal of the root itself may be refused.
PurgeRefusedAtEnd(m) ==
  /\ At(m, "rmdir") /\ litter[job[m].root] # {}
  /\ Leave(m, Refused(m))
  /\ UNCHANGED <<lock, files, host>>
PurgeRefused(m) ==
  /\ job[m].step \in {"venv", "workspace", "files", "unmark", "rmdir"}
  /\ \/ /\ litter[job[m].root] # {} /\ ~At(m, "unmark")
     \/ "error" \in Faults
  /\ Leave(m, Refused(m))
  /\ UNCHANGED <<lock, files, host>>

-----------------------------------------------------------------------------
(* What may go wrong, and who else acts.                                   *)

\* An exception, or a time limit: inside setup's try it leads to `Fail`,
\* elsewhere to the end of the command.
Caught(m) ==
  \/ job[m].step \in {"provision", "record", "supervise", "save", "start",
                      "verify"}
  \/ At(m, "complete") /\ ~job[m].deployed
Uncaught(m) ==
  \/ job[m].step \in {"compare", "inspect", "probe", "confirm", "mark", "fail",
                      "consult", "judge", "inert", "remove", "forget",
                      "await", "unlink"}
  \/ At(m, "complete") /\ job[m].deployed

Raises(m) ==
  /\ "error" \in Faults
  /\ \/ Caught(m) /\ Goto(m, "fail")
     \/ Uncaught(m) /\ Leave(m, "ERROR")
  /\ UNCHANGED <<lock, files, host>>

\* The command and its children die; the lock file stays, and so may a
\* temporary file that was being written.
Temporary(m) ==
  CASE job[m].step \in {"record", "complete", "fail"} -> {"state.tmp"}
    [] At(m, "mark") /\ ~marker[job[m].root] -> {"marker.tmp"}
    [] OTHER -> {}
Crash(m) == LET r == job[m].root IN
  /\ "crash" \in Faults /\ ~At(m, "idle")
  /\ lock' = [lock EXCEPT ![r] = Stale]
  /\ job' = [job EXCEPT ![m] = Idle]
  /\ \E left \in SUBSET Temporary(m) :
       litter' = [litter EXCEPT ![r] = @ \cup left]
  /\ UNCHANGED <<marker, state, venv, manifest, host, answer>>

\* Whoever runs the commands deletes the lock file of one that died.
Unlock(r) ==
  /\ lock[r] = Stale
  /\ lock' = [lock EXCEPT ![r] = None]
  /\ UNCHANGED <<files, host, job, answer>>

\* The operator takes away a unit, or an entry that blocks a purge.
OperatorActs ==
  /\ "operator" \in Faults
  /\ \/ /\ \E p \in Profiles : supervisor' = [supervisor EXCEPT ![p] = None]
        /\ UNCHANGED litter
     \/ /\ \E r \in Roots : litter' = [litter EXCEPT ![r] = {}]
        /\ UNCHANGED supervisor
  /\ UNCHANGED <<lock, marker, state, venv, manifest, listener, job, answer>>

\* A unit keeps its proxy running, which may stop, or not answer.
ServiceActs ==
  /\ "service" \in Faults
  /\ \E p \in Profiles :
       /\ supervisor[p] \in Units
       /\ LET u == supervisor[p]  port == Port[u.id] IN
            /\ HasManifest(u.by, u.id)
            /\ listener[port] # None => listener[port].by = u.by
            /\ \E l \in {None} \cup [by : {u.by}, ready : BOOLEAN] :
                 listener' = [listener EXCEPT ![port] = l]
  /\ UNCHANGED <<lock, files, supervisor, job, answer>>

\* Someone else uses the port or the profile, edits the manifest, or puts a
\* file of his own in the root.
ForeignListens(port) ==
  /\ listener[port] # None => listener[port].by = Foreign
  /\ \E l \in {None} \cup [by : {Foreign}, ready : BOOLEAN] :
       listener' = [listener EXCEPT ![port] = l]
  /\ UNCHANGED <<files, supervisor>>
ForeignSupervises(p) ==
  /\ supervisor[p] \in {None, Foreign}
  /\ \E u \in {None, Foreign} : supervisor' = [supervisor EXCEPT ![p] = u]
  /\ UNCHANGED <<files, listener>>
ForeignWrites(r) ==
  /\ \/ /\ manifest[r] # None
        /\ manifest' = [manifest EXCEPT ![r].form = "altered"]
        /\ UNCHANGED litter
     \/ litter' = [litter EXCEPT ![r] = @ \cup {"other"}] /\ UNCHANGED manifest
  /\ UNCHANGED <<marker, state, venv, host>>
ForeignActs ==
  /\ "foreign" \in Faults
  /\ \/ \E port \in Ports : ForeignListens(port)
     \/ \E p \in Profiles : ForeignSupervises(p)
     \/ \E r \in Roots : ForeignWrites(r)
  /\ UNCHANGED <<lock, job, answer>>

-----------------------------------------------------------------------------
SetupStep(m) ==
  \/ Compare(m) \/ Inspect(m) \/ Probe(m) \/ Confirm(m) \/ Mark(m)
  \/ Provision(m) \/ Record(m) \/ Supervise(m) \/ Save(m) \/ Start(m)
  \/ ApplyFails(m) \/ Verify(m) \/ Complete(m) \/ Fail(m)
UninstallStep(m) ==
  \/ Consult(m) \/ Judge(m) \/ Inert(m) \/ RemoveService(m)
  \/ RemoveManifest(m) \/ RemoveFails(m) \/ Await(m) \/ Unlink(m)
  \/ PurgeVenv(m) \/ PurgeWorkspace(m) \/ PurgeState(m) \/ PurgeMarker(m)
  \/ RemoveRoot(m) \/ PurgeRefused(m)
Step(m) == SetupStep(m) \/ UninstallStep(m) \/ Raises(m) \/ Release(m)
Begin(m) == \E r \in Roots :
  \/ \E id \in Ids : BeginSetup(m, r, id)
  \/ \E keep \in BOOLEAN : BeginUninstall(m, r, keep)

Next ==
  \/ \E m \in Managers : Begin(m) \/ Step(m) \/ Crash(m)
  \/ \E r \in Roots : Unlock(r)
  \/ OperatorActs \/ ServiceActs \/ ForeignActs

Spec == Init /\ [][Next]_vars

\* A command runs on: what it calls has a time limit.
FairSpec == Spec /\ \A m \in Managers : WF_vars(Step(m))

-----------------------------------------------------------------------------
(* Properties.                                                             *)

TypeOK ==
  /\ lock \in [Roots -> Managers \cup {None, Stale}]
  /\ marker \in [Roots -> BOOLEAN] /\ venv \in [Roots -> BOOLEAN]
  /\ state \in [Roots -> States \cup {None}]
  /\ manifest \in [Roots -> Manifests \cup {None}]
  /\ litter \in [Roots -> SUBSET {"state.tmp", "marker.tmp", "other"}]
  /\ supervisor \in [Profiles -> Units \cup {Foreign, None}]
  /\ listener \in [Ports -> Listeners \cup {None}]
  /\ job \in [Managers -> Jobs]
  /\ answer \in [Roots -> Decisions]

\* Whatever of a deployment a root has made -- the unit, the manifest -- the
\* root's state names its identity: an uninstall knows what to remove.  The
\* state is written before the first of them is made and deleted after the
\* last is gone (uninstall, 2826-2836 and 2896-2935), also by way of a crash.
DeploymentRecorded == \A r \in Roots :
  /\ manifest[r] # None => (state[r] # None /\ state[r].id = manifest[r].id)
  /\ \A p \in Profiles : (supervisor[p] \in Units /\ supervisor[p].by = r) =>
       (state[r] # None /\ state[r].id = supervisor[p].id)

\* The identity of a runtime changes only by way of an uninstall, although a
\* setup writes what it was asked for long after it compared it.
IdentityKept == [][\A r \in Roots :
  (state[r] # None /\ state'[r] # None) => state'[r].id = state[r].id]_vars

\* Once an uninstall has said so, the root has neither state nor manifest and
\* no unit of its own, until a setup begins.
UninstalledIsGone == \A r \in Roots :
  answer[r] \in {"UNINSTALLED", "UNINSTALLED_PARTIAL_STATE"} =>
    /\ state[r] = None /\ manifest[r] = None
    /\ \A p \in Profiles : supervisor[p] \in Units => supervisor[p].by # r

\* A setup that found a manifest or a unit of its profile installs nothing over
\* it, whoever it belongs to: what it saw decides several steps later.
FoundIsLeftAlone == [][\A m \in Managers :
  (job[m].step \in SetupSteps /\ job[m].deployed /\ job'[m] # job[m])
    => UNCHANGED <<supervisor, manifest>>]_vars

\* Every command comes to an end and takes its lock file away, unless it dies.
CommandsEnd == \A m \in Managers : (job[m].step # "idle") ~> (job[m].step = "idle")

\* A setup that asks for an uninstall first is not followed by an uninstall
\* that refuses.
AdviceIsSound == [][\A r \in Roots :
  answer[r] = "MANAGED_REPAIR_REQUIRES_UNINSTALL"
    => answer'[r] # "UNINSTALL_BLOCKED"]_vars

\* What an earlier release installed can be read, hence uninstalled.
EarlierIsReadable == \A r \in Roots : answer[r] # "STATE_INVALID"
=============================================================================
