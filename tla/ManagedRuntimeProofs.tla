------------------------ MODULE ManagedRuntimeProofs ------------------------
(***************************************************************************)
(* What holds of setup and uninstall for every number of managers, roots,  *)
(* identities, profiles and ports, and whatever goes wrong.                *)
(***************************************************************************)
EXTENDS ManagedRuntime, TLAPS

-----------------------------------------------------------------------------
(* The invariant: a command that is under way holds the lock of its root,  *)
(* and what it saw of the root when it looked is still so.                 *)

Active(m) == job[m].step # "idle"
Gone == {"UNINSTALLED", "UNINSTALLED_PARTIAL_STATE"}

LocksHeld == \A m \in Managers : Active(m) =>
  job[m].root \in Roots /\ lock[job[m].root] = m

UnitsNamed == \A p \in Profiles :
  supervisor[p] \in Units => Profile[supervisor[p].id] = p

UnitsRecorded(r) == \A p \in Profiles :
  (supervisor[p] \in Units /\ supervisor[p].by = r) =>
    (state[r] # None /\ state[r].id = supervisor[p].id)
ManifestRecorded(r) ==
  manifest[r] # None => (state[r] # None /\ state[r].id = manifest[r].id)
NoUnits(r) == \A p \in Profiles : supervisor[p] \in Units => supervisor[p].by # r

\* A setup has been told what to install, and found nothing there if it has
\* gone on to install it.
SetupKnows(m) == LET r == job[m].root  s == job[m].step IN
  /\ s \in SetupSteps => job[m].id \in Ids
  /\ s \in {"inspect", "probe", "confirm", "mark", "provision", "record", "fail"}
       => (state[r] # None => state[r].id = job[m].id)
  /\ s \in {"supervise", "save", "start", "verify", "complete"}
       => (state[r] # None /\ state[r].id = job[m].id)
  /\ s \in {"compare", "inspect", "mark", "provision", "record", "supervise",
            "save", "start", "verify"} => ~job[m].deployed
  /\ (s = "probe" /\ job[m].existing = None) => ~job[m].deployed

\* An uninstall works for the recorded identity; it deletes the state when
\* manifest and unit are gone.
UninstallKnows(m) == LET r == job[m].root  s == job[m].step IN
  /\ s \in UninstallSteps \ {"consult", "unmark", "rmdir"}
       => (state[r] # None /\ job[m].id = state[r].id /\ job[m].id \in Ids)
  /\ s \in {"inert", "await", "unlink", "venv", "workspace", "files"}
       => manifest[r] = None
  /\ s \in {"unlink", "venv", "workspace", "files"} => NoUnits(r)
  /\ s \in {"unmark", "rmdir"} => state[r] = None

Knows(m) == SetupKnows(m) /\ UninstallKnows(m)

GoneStays == \A r \in Roots : answer[r] \in Gone =>
  /\ state[r] = None
  /\ \A m \in Managers : job[m].root = r => job[m].step \notin SetupSteps

IInv ==
  /\ TypeOK
  /\ LocksHeld
  /\ UnitsNamed
  /\ \A r \in Roots : UnitsRecorded(r) /\ ManifestRecorded(r)
  /\ \A m \in Managers : Knows(m)
  /\ GoneStays

-----------------------------------------------------------------------------
(* A step of one command touches the root it works on and nothing of any   *)
(* other root, but for the names they share on the account.                *)

\* What a step of m on root r leaves as it was.
Others(m, r) ==
  /\ \A k \in Managers \ {m} : job'[k] = job[k]
  /\ \A q \in Roots \ {r} : /\ lock'[q] = lock[q] /\ state'[q] = state[q]
                          /\ manifest'[q] = manifest[q]
                          /\ answer'[q] = answer[q]
  /\ \A p \in Profiles : supervisor'[p] \in Units =>
       \/ supervisor'[p] = supervisor[p]
       \/ supervisor'[p].by = r

\* What is recorded of r, and is so after the step.
StaysRecorded(r) == \A q \in Roots :
  q = r => UnitsRecorded(q)' /\ ManifestRecorded(q)'

\* What it makes of its own root.
Own(m, r) ==
  /\ Active(m)' => job'[m].root = r /\ lock'[r] = m
  /\ UnitsNamed'
  /\ StaysRecorded(r)
  /\ Knows(m)'
  /\ answer'[r] \in Gone => state'[r] = None /\ job'[m].step \notin SetupSteps

\* Nobody else is at work on r.
Alone(m, r) == \A k \in Managers \ {m} : Active(k) => job[k].root # r

LEMMA Combine ==
  ASSUME IInv, NEW m \in Managers, NEW r \in Roots, Alone(m, r),
         TypeOK', Others(m, r), Own(m, r)
  PROVE  IInv'
<1>1. LocksHeld'
  BY DEF IInv, LocksHeld, Alone, Others, Own, Active
<1>2. ASSUME NEW q \in Roots
      PROVE  UnitsRecorded(q)' /\ ManifestRecorded(q)'
  <2>1. CASE q = r
    BY <2>1 DEF Own, StaysRecorded
  <2>2. CASE q # r
    BY <2>2 DEF IInv, Others, UnitsRecorded, ManifestRecorded
  <2> QED BY <2>1, <2>2
<1>3. ASSUME NEW k \in Managers
      PROVE  Knows(k)'
  <2>1. CASE k = m
    BY <2>1 DEF Own
  <2>2. CASE k # m /\ ~Active(k)
    <3>1. job'[k] = job[k] /\ job[k].step = "idle"
      BY <2>2 DEF Others, Active
    <3> QED
      BY <3>1 DEF Knows, SetupKnows, UninstallKnows, SetupSteps, UninstallSteps
  <2>3. CASE k # m /\ Active(k)
    <3> DEFINE q == job[k].root
    <3>1. q \in Roots /\ q # r /\ job'[k] = job[k]
      BY <2>3 DEF Others, Alone, IInv, LocksHeld
    <3>2. state'[q] = state[q] /\ manifest'[q] = manifest[q]
      BY <3>1 DEF Others
    <3>3. NoUnits(q) => NoUnits(q)'
      BY <3>1 DEF Others, NoUnits
    <3>4. Knows(k)
      BY DEF IInv
    <3> QED
      BY <3>1, <3>2, <3>3, <3>4
      DEF Knows, SetupKnows, UninstallKnows, NoUnits
  <2> QED BY <2>1, <2>2, <2>3
<1>4. GoneStays'
  <2> SUFFICES ASSUME NEW q \in Roots, answer'[q] \in Gone
               PROVE  /\ state'[q] = None
                      /\ \A k \in Managers :
                           job'[k].root = q => job'[k].step \notin SetupSteps
    BY DEF GoneStays
  <2>1. CASE q = r
    <3>1. ASSUME NEW k \in Managers, k # m, job'[k].root = r
          PROVE  job'[k].step \notin SetupSteps
      <4>1. job'[k] = job[k] /\ ~Active(k)
        BY <3>1 DEF Others, Alone
      <4> QED BY <4>1 DEF Active, SetupSteps
    <3> QED BY <2>1, <3>1 DEF Own
  <2>2. CASE q # r
    <3>1. answer[q] \in Gone /\ state'[q] = state[q]
      BY <2>2 DEF Others
    <3>2. Active(m)' => job'[m].root # q
      BY <2>2 DEF Own
    <3>3. job'[m].step \in SetupSteps => Active(m)'
      BY DEF Active, SetupSteps
    <3> QED BY <3>1, <3>2, <3>3 DEF IInv, GoneStays, Others
  <2> QED BY <2>1, <2>2
<1>5. UnitsNamed'
  BY DEF Own
<1> QED BY <1>1, <1>2, <1>3, <1>4, <1>5 DEF IInv

-----------------------------------------------------------------------------
(* What all steps have in common.                                          *)

Steps == SetupSteps \cup UninstallSteps \cup {"idle", "release"}
SameJob(m) ==
  /\ job'[m].root = job[m].root /\ job'[m].id = job[m].id
  /\ job'[m].deployed = job[m].deployed /\ job'[m].existing = job[m].existing

LEMMA ActiveAlone ==
  ASSUME IInv, NEW m \in Managers, Active(m)
  PROVE  /\ job[m].root \in Roots /\ lock[job[m].root] = m
         /\ Alone(m, job[m].root)
BY DEF IInv, LocksHeld, Alone

LEMMA GotoFrame ==
  ASSUME TypeOK, NEW m \in Managers, NEW s \in Steps, Goto(m, s)
  PROVE  /\ job' \in [Managers -> Jobs]
         /\ job'[m].step = s /\ SameJob(m)
         /\ \A k \in Managers \ {m} : job'[k] = job[k]
         /\ answer' = answer
<1>1. job[m] \in Jobs /\ job \in [Managers -> Jobs]
  BY DEF TypeOK
<1>2. job'[m] = [job[m] EXCEPT !.step = s]
  BY <1>1 DEF Goto
<1>3. job'[m] \in Jobs
  BY <1>1, <1>2 DEF Jobs, Steps
<1> QED BY <1>1, <1>2, <1>3 DEF Goto, SameJob, Jobs

LEMMA LeaveFrame ==
  ASSUME TypeOK, NEW m \in Managers, NEW d \in Decisions, Leave(m, d),
         job[m].root \in Roots
  PROVE  /\ job' \in [Managers -> Jobs]
         /\ job'[m].step = "release" /\ SameJob(m)
         /\ \A k \in Managers \ {m} : job'[k] = job[k]
         /\ answer' \in [Roots -> Decisions] /\ answer'[job[m].root] = d
         /\ \A q \in Roots \ {job[m].root} : answer'[q] = answer[q]
<1>1. job[m] \in Jobs /\ job \in [Managers -> Jobs] /\ answer \in [Roots -> Decisions]
  BY DEF TypeOK
<1>2. job'[m] = [job[m] EXCEPT !.step = "release"]
  BY <1>1 DEF Leave
<1>3. job'[m] \in Jobs
  BY <1>1, <1>2 DEF Jobs
<1> QED BY <1>1, <1>2, <1>3 DEF Leave, SameJob, Jobs

\* A step that only looks, and decides.
LEMMA LookFrame ==
  ASSUME IInv, NEW m \in Managers, Active(m), UNCHANGED <<lock, files, host>>,
         job' \in [Managers -> Jobs], job'[m].root = job[m].root,
         \A k \in Managers \ {m} : job'[k] = job[k],
         answer' \in [Roots -> Decisions],
         \A q \in Roots \ {job[m].root} : answer'[q] = answer[q],
         Knows(m)',
         answer'[job[m].root] \in Gone =>
           state[job[m].root] = None /\ job'[m].step \notin SetupSteps
  PROVE  IInv'
<1> DEFINE r == job[m].root
<1>1. r \in Roots /\ lock[r] = m /\ Alone(m, r)
  BY ActiveAlone
<1>2. TypeOK'
  BY DEF IInv, TypeOK, files, host
<1>3. Others(m, r)
  BY DEF Others, files, host
<1>4. Own(m, r)
  <2>1. UnitsNamed' /\ StaysRecorded(r)
    BY <1>1 DEF IInv, UnitsNamed, StaysRecorded, UnitsRecorded,
           ManifestRecorded, files, host
  <2> QED BY <1>1, <2>1 DEF Own, files
<1> QED BY <1>1, <1>2, <1>3, <1>4, Combine

\* The last step of a command leaves nothing to be known.
LEMMA LeaveLook ==
  ASSUME IInv, NEW m \in Managers, Active(m), UNCHANGED <<lock, files, host>>,
         NEW d \in Decisions, Leave(m, d), d \in Gone => state[job[m].root] = None
  PROVE  IInv'
<1>1. job[m].root \in Roots
  BY ActiveAlone
<1>2. Knows(m)'
  BY <1>1, LeaveFrame
  DEF IInv, Knows, SetupKnows, UninstallKnows, SetupSteps, UninstallSteps
<1> QED
  BY <1>1, <1>2, LeaveFrame, LookFrame DEF IInv, SameJob, SetupSteps

\* A step that looks and goes on.
LEMMA GotoLook ==
  ASSUME IInv, NEW m \in Managers, Active(m), UNCHANGED <<lock, files, host>>,
         NEW s \in Steps, Goto(m, s), Knows(m)',
         s \in SetupSteps => job[m].step \in SetupSteps
  PROVE  IInv'
<1>1. job[m].root \in Roots
  BY ActiveAlone
<1>2. answer'[job[m].root] \in Gone =>
        state[job[m].root] = None /\ job'[m].step \notin SetupSteps
  BY <1>1, GotoFrame DEF IInv, GoneStays
<1> QED
  BY <1>1, <1>2, GotoFrame, LookFrame DEF IInv, SameJob, TypeOK

-----------------------------------------------------------------------------
(* The steps that look.                                                    *)

LEMMA CompareLooks ==
  ASSUME IInv, NEW m \in Managers, Compare(m)
  PROVE  IInv'
<1> DEFINE r == job[m].root
<1>1. Active(m) /\ UNCHANGED <<lock, files, host>> /\ job[m].step = "compare"
  BY DEF Compare, At, Active
<1>2. r \in Roots /\ job[m] \in Jobs /\ job \in [Managers -> Jobs]
      /\ state[r] \in States \cup {None} /\ answer \in [Roots -> Decisions]
  BY <1>1, ActiveAlone DEF IInv, TypeOK
<1>3. CASE \E d \in {"STATE_INVALID", "MANAGED_CONFIGURATION_CONFLICT"} : Leave(m, d)
  BY <1>1, <1>3, LeaveLook DEF Gone, Decisions
<1>4. CASE /\ state[r] # None => state[r].id = job[m].id
           /\ job' = [job EXCEPT ![m].step = "inspect", ![m].existing = state[r]]
           /\ UNCHANGED answer
  <2>1. job'[m] = [job[m] EXCEPT !.step = "inspect", !.existing = state[r]]
    BY <1>2, <1>4
  <2>2. /\ job'[m] \in Jobs /\ job'[m].step = "inspect" /\ job'[m].root = r
        /\ job'[m].id = job[m].id /\ job'[m].deployed = job[m].deployed
    BY <1>2, <2>1 DEF Jobs, SetupSteps
  <2>3. job' \in [Managers -> Jobs] /\ \A k \in Managers \ {m} : job'[k] = job[k]
    BY <1>2, <1>4, <2>1, <2>2
  <2>4. Knows(m)'
    BY <1>1, <1>4, <2>2
    DEF IInv, Knows, SetupKnows, UninstallKnows, SetupSteps, UninstallSteps,
        files
  <2>5. answer[r] \notin Gone
    BY <1>1, <1>2 DEF IInv, GoneStays, SetupSteps
  <2> QED BY <1>1, <1>2, <1>4, <2>2, <2>3, <2>4, <2>5, LookFrame
<1> QED BY <1>3, <1>4 DEF Compare

LEMMA InspectLooks ==
  ASSUME IInv, NEW m \in Managers, Inspect(m)
  PROVE  IInv'
<1> DEFINE r == job[m].root
           seen == HasManifest(r, job[m].id) \/ Supervised(job[m].id)
<1>1. Active(m) /\ UNCHANGED <<lock, files, host>> /\ job[m].step = "inspect"
  BY DEF Inspect, At, Active
<1>2. r \in Roots /\ job[m] \in Jobs /\ job \in [Managers -> Jobs]
      /\ answer \in [Roots -> Decisions]
  BY <1>1, ActiveAlone DEF IInv, TypeOK
<1>3. CASE \E d \in {"FOREIGN_DEPLOYMENT_CONFLICT", "RUNTIME_ROOT_CONFLICT"} :
             Leave(m, d)
  BY <1>1, <1>3, LeaveLook DEF Gone, Decisions
<1>4. CASE /\ ~(job[m].existing = None /\ seen)
           /\ job' = [job EXCEPT ![m].step = "probe", ![m].deployed = seen]
           /\ UNCHANGED answer
  <2>0. seen \in BOOLEAN
    BY DEF HasManifest, Supervised
  <2> HIDE DEF seen
  <2>1. job'[m] = [job[m] EXCEPT !.step = "probe", !.deployed = seen]
    BY <1>2, <1>4
  <2>2. /\ job'[m] \in Jobs /\ job'[m].step = "probe" /\ job'[m].root = r
        /\ job'[m].id = job[m].id /\ job'[m].deployed = seen
        /\ job'[m].existing = job[m].existing
    BY <1>2, <2>0, <2>1 DEF Jobs, SetupSteps
  <2>3. job' \in [Managers -> Jobs] /\ \A k \in Managers \ {m} : job'[k] = job[k]
    BY <1>2, <1>4, <2>1, <2>2
  <2>4. Knows(m)'
    BY <1>1, <1>4, <2>2
    DEF IInv, Knows, SetupKnows, UninstallKnows, SetupSteps, UninstallSteps,
        files
  <2>5. answer[r] \notin Gone
    BY <1>1, <1>2 DEF IInv, GoneStays, SetupSteps
  <2> QED BY <1>1, <1>2, <1>4, <2>2, <2>3, <2>4, <2>5, LookFrame
<1> QED BY <1>3, <1>4 DEF Inspect

LEMMA ProbeLooks ==
  ASSUME IInv, NEW m \in Managers, Probe(m)
  PROVE  IInv'
<1>1. Active(m) /\ UNCHANGED <<lock, files, host>> /\ job[m].step = "probe"
  BY DEF Probe, At, Active
<1>2. Knows(m)
  BY DEF IInv
<1>3. CASE \E d \in {"PORT_CONFLICT_UNMANAGED", "PORT_CONFLICT_UNKNOWN_SERVICE",
                     "MANAGED_REPAIR_REQUIRES_UNINSTALL"} : Leave(m, d)
  BY <1>1, <1>3, LeaveLook DEF Gone, Decisions
<1>4. CASE Goto(m, "confirm") \/ (Goto(m, "mark") /\ ~NeedsUninstall(m))
  <2>1. PICK s \in {"confirm", "mark"} :
          Goto(m, s) /\ (s = "mark" => ~NeedsUninstall(m))
    BY <1>4
  <2>2. job'[m].step = s /\ SameJob(m)
    BY <2>1, GotoFrame DEF IInv, Steps, SetupSteps
  <2>3. Knows(m)'
    BY <1>1, <1>2, <2>1, <2>2
    DEF Knows, SetupKnows, UninstallKnows, SetupSteps, UninstallSteps, SameJob,
        NeedsUninstall, files
  <2> QED BY <1>1, <2>1, <2>3, GotoLook DEF Steps, SetupSteps
<1> QED BY <1>3, <1>4 DEF Probe

\* Evidence includes a manifest of the identity, hence a state of it.
LEMMA EvidenceRecorded ==
  ASSUME IInv, NEW r \in Roots, NEW id, Evidence(r, id)
  PROVE  state[r] # None /\ state[r].id = id
BY DEF IInv, ManifestRecorded, Evidence, Contract

LEMMA ConfirmLooks ==
  ASSUME IInv, NEW m \in Managers, Confirm(m) \/ Verify(m)
  PROVE  IInv'
<1>1. /\ Active(m) /\ UNCHANGED <<lock, files, host>>
      /\ job[m].step \in {"confirm", "verify"} /\ Knows(m)
  BY DEF Confirm, Verify, At, Active, IInv
<1>2. CASE Leave(m, "RUNTIME_PARTIAL")
  BY <1>1, <1>2, LeaveLook DEF Gone, Decisions
<1>3. CASE \/ Goto(m, "fail") /\ job[m].step = "verify"
           \/ Goto(m, "complete") /\ Evidence(job[m].root, job[m].id)
  <2>1. PICK s \in {"fail", "complete"} :
          /\ Goto(m, s)
          /\ s = "fail" => job[m].step = "verify"
          /\ s = "complete" => Evidence(job[m].root, job[m].id)
    BY <1>3
  <2>2. job'[m].step = s /\ SameJob(m)
    BY <2>1, GotoFrame DEF IInv, Steps, SetupSteps
  <2>3. Knows(m)'
    BY <1>1, <2>1, <2>2, EvidenceRecorded, ActiveAlone
    DEF Knows, SetupKnows, UninstallKnows, SetupSteps, UninstallSteps, SameJob,
        files
  <2> QED BY <1>1, <2>1, <2>3, GotoLook DEF Steps, SetupSteps
<1> QED BY <1>2, <1>3 DEF Confirm, Verify, At

LEMMA ConsultLooks ==
  ASSUME IInv, NEW m \in Managers, Consult(m)
  PROVE  IInv'
<1> DEFINE r == job[m].root
<1>1. Active(m) /\ UNCHANGED <<lock, files, host>> /\ job[m].step = "consult"
  BY DEF Consult, At, Active
<1>2. r \in Roots /\ job[m] \in Jobs /\ job \in [Managers -> Jobs]
      /\ state[r] \in States \cup {None} /\ answer \in [Roots -> Decisions]
  BY <1>1, ActiveAlone DEF IInv, TypeOK
<1>3. CASE \E d \in {"STATE_INVALID", "RUNTIME_ABSENT", "UNINSTALL_BLOCKED"} :
             Leave(m, d)
  BY <1>1, <1>3, LeaveLook DEF Gone, Decisions
<1>4. CASE /\ state[r] # None
           /\ job' = [job EXCEPT ![m].step = "judge", ![m].existing = state[r],
                                ![m].id = state[r].id]
           /\ UNCHANGED answer
  <2>1. job'[m] = [job[m] EXCEPT !.step = "judge", !.existing = state[r],
                                 !.id = state[r].id]
    BY <1>2, <1>4
  <2>2. /\ job'[m] \in Jobs /\ job'[m].step = "judge" /\ job'[m].root = r
        /\ job'[m].id = state[r].id /\ state[r].id \in Ids
    BY <1>2, <1>4, <2>1 DEF Jobs, UninstallSteps, States
  <2>3. job' \in [Managers -> Jobs] /\ \A k \in Managers \ {m} : job'[k] = job[k]
    BY <1>2, <1>4, <2>1, <2>2
  <2>4. Knows(m)'
    BY <1>1, <1>4, <2>2
    DEF Knows, SetupKnows, UninstallKnows, SetupSteps, UninstallSteps, files
  <2>5. answer[r] \notin Gone
    BY <1>2, <1>4 DEF IInv, GoneStays
  <2> QED BY <1>1, <1>2, <1>4, <2>2, <2>3, <2>4, <2>5, LookFrame
<1> QED BY <1>3, <1>4 DEF Consult

\* A root without a manifest of its identity has none; one whose unit is
\* nowhere to be found under its name has none at all.
LEMMA NothingElsewhere ==
  ASSUME IInv, NEW r \in Roots, NEW id \in Ids, state[r] # None, state[r].id = id
  PROVE  /\ ~HasManifest(r, id) => manifest[r] = None
         /\ Stopped(id) => NoUnits(r)
<1>1. ~HasManifest(r, id) => manifest[r] = None
  BY DEF IInv, ManifestRecorded, HasManifest
<1>2. ASSUME Stopped(id), NEW p \in Profiles, supervisor[p] \in Units,
             supervisor[p].by = r
      PROVE  FALSE
  <2>1. supervisor[p].id = id /\ Profile[supervisor[p].id] = p
    BY <1>2 DEF IInv, UnitsRecorded, UnitsNamed
  <2>2. supervisor[p] # None
    BY <1>2, NoneAssumption
  <2> QED BY <1>2, <2>1, <2>2 DEF Stopped, Supervised
<1> QED BY <1>1, <1>2 DEF NoUnits

LEMMA JudgeLooks ==
  ASSUME IInv, NEW m \in Managers, Judge(m)
  PROVE  IInv'
<1>1. /\ Active(m) /\ UNCHANGED <<lock, files, host>>
      /\ job[m].step = "judge" /\ Knows(m) /\ job[m].root \in Roots
  BY ActiveAlone DEF Judge, At, Active, IInv
<1>2. CASE Leave(m, "UNINSTALL_BLOCKED")
  BY <1>1, <1>2, LeaveLook DEF Gone, Decisions
<1>3. CASE \/ Goto(m, "remove")
           \/ Goto(m, "inert") /\ ~HasManifest(job[m].root, job[m].id)
  <2>1. PICK s \in {"remove", "inert"} :
          /\ Goto(m, s)
          /\ s = "inert" => ~HasManifest(job[m].root, job[m].id)
    BY <1>3
  <2>2. job'[m].step = s /\ SameJob(m)
    BY <2>1, GotoFrame DEF IInv, Steps, UninstallSteps
  <2>3. state[job[m].root] # None /\ job[m].id \in Ids
        /\ state[job[m].root].id = job[m].id
    BY <1>1 DEF Knows, UninstallKnows, UninstallSteps
  <2>4. s = "inert" => manifest[job[m].root] = None
    BY <1>1, <2>1, <2>3, NothingElsewhere
  <2>5. Knows(m)'
    BY <1>1, <2>1, <2>2, <2>3, <2>4
    DEF Knows, SetupKnows, UninstallKnows, SetupSteps, UninstallSteps, SameJob,
        files
  <2> QED BY <1>1, <2>1, <2>5, GotoLook DEF Steps, SetupSteps, UninstallSteps
<1> QED BY <1>2, <1>3 DEF Judge, MayBeInert

LEMMA StoppedLooks ==
  ASSUME IInv, NEW m \in Managers, Inert(m) \/ Await(m)
  PROVE  IInv'
<1> DEFINE r == job[m].root  id == job[m].id
<1>1. /\ Active(m) /\ UNCHANGED <<lock, files, host>> /\ r \in Roots
      /\ job[m].step \in {"inert", "await"} /\ Knows(m)
      /\ job[m] \in Jobs /\ job \in [Managers -> Jobs]
      /\ answer \in [Roots -> Decisions]
  BY ActiveAlone DEF Inert, Await, At, Active, IInv, TypeOK
<1>2. CASE \E d \in {"UNINSTALL_BLOCKED", "UNINSTALL_PARTIAL"} : Leave(m, d)
  BY <1>1, <1>2, LeaveLook DEF Gone, Decisions
<1>3. CASE /\ Stopped(id) /\ UNCHANGED answer
           /\ \E i \in BOOLEAN :
                job' = [job EXCEPT ![m].step = Discard(m), ![m].inert = i]
  <2>1. PICK i \in BOOLEAN :
          job' = [job EXCEPT ![m].step = Discard(m), ![m].inert = i]
    BY <1>3
  <2>2. Discard(m) \in {"unlink", "venv"}
    BY DEF Discard
  <2>3. job'[m] = [job[m] EXCEPT !.step = Discard(m), !.inert = i]
    BY <1>1, <2>1
  <2>4. /\ job'[m] \in Jobs /\ job'[m].step \in {"unlink", "venv"}
        /\ job'[m].root = r /\ job'[m].id = id
    BY <1>1, <2>2, <2>3 DEF Jobs, UninstallSteps
  <2>5. job' \in [Managers -> Jobs] /\ \A k \in Managers \ {m} : job'[k] = job[k]
    BY <1>1, <2>1, <2>3, <2>4
  <2>6. /\ state[r] # None /\ id \in Ids /\ state[r].id = id
        /\ manifest[r] = None
    BY <1>1 DEF Knows, UninstallKnows, UninstallSteps
  <2>7. NoUnits(r)
    BY <1>1, <1>3, <2>6, NothingElsewhere
  <2>8. Knows(m)'
    BY <1>1, <2>4, <2>6, <2>7
    DEF Knows, SetupKnows, UninstallKnows, SetupSteps, UninstallSteps, files,
        host, NoUnits
  <2>9. answer[r] \notin Gone
    BY <1>1, <2>6 DEF IInv, GoneStays
  <2> QED BY <1>1, <1>3, <2>4, <2>5, <2>8, <2>9, LookFrame
<1>4. CASE Stopped(id) /\ Goto(m, Discard(m))
  <2>1. job' = [job EXCEPT ![m].step = Discard(m), ![m].inert = job[m].inert]
    BY <1>1, <1>4 DEF Goto, Jobs
  <2>2. job[m].inert \in BOOLEAN
    BY <1>1 DEF Jobs
  <2> QED BY <1>3, <1>4, <2>1, <2>2 DEF Goto
<1> QED BY <1>2, <1>3, <1>4 DEF Inert, Await

LEMMA EndLooks ==
  ASSUME IInv, NEW m \in Managers,
         RemoveFails(m) \/ RemoveRoot(m) \/ PurgeRefused(m) \/ Raises(m)
  PROVE  IInv'
<1>1. Active(m) /\ UNCHANGED <<lock, files, host>> /\ Knows(m)
  BY DEF RemoveFails, RemoveRoot, PurgeRefused, Raises, At, Active, IInv, Caught,
         Uncaught
<1>2. CASE RemoveRoot(m)
  <2>1. state[job[m].root] = None
    BY <1>1, <1>2 DEF RemoveRoot, At, Knows, UninstallKnows
  <2>2. Uninstalled(m) \in Decisions
    BY DEF Uninstalled, Decisions
  <2> QED BY <1>1, <1>2, <2>1, <2>2, LeaveLook DEF RemoveRoot
<1>3. CASE \E d \in {"UNINSTALL_BLOCKED", "UNINSTALL_PARTIAL", "ERROR"} :
             Leave(m, d)
  BY <1>1, <1>3, LeaveLook DEF Gone, Decisions
<1>4. CASE Caught(m) /\ Goto(m, "fail")
  <2>1. job'[m].step = "fail" /\ SameJob(m)
    BY <1>4, GotoFrame DEF IInv, Steps, SetupSteps
  <2>2. Knows(m)'
    BY <1>1, <1>4, <2>1
    DEF Knows, SetupKnows, UninstallKnows, SetupSteps, UninstallSteps, SameJob,
        files, Caught, At
  <2> QED
    BY <1>1, <1>4, <2>2, GotoLook DEF Steps, SetupSteps, Caught, At
<1> QED
  BY <1>2, <1>3, <1>4 DEF RemoveFails, PurgeRefused, Refused, Raises

-----------------------------------------------------------------------------
(* The steps that write.                                                   *)

\* The files and the unit a step of m makes of r, where they stay typed,
\* recorded, and r's alone.
Wrote(m, r) ==
  /\ lock' = lock
  /\ marker' \in [Roots -> BOOLEAN] /\ venv' \in [Roots -> BOOLEAN]
  /\ state' \in [Roots -> States \cup {None}]
  /\ manifest' \in [Roots -> Manifests \cup {None}]
  /\ litter' \in [Roots -> SUBSET {"state.tmp", "marker.tmp", "other"}]
  /\ supervisor' \in [Profiles -> Units \cup {Foreign, None}]
  /\ listener' \in [Ports -> Listeners \cup {None}]
  /\ \A q \in Roots \ {r} : state'[q] = state[q] /\ manifest'[q] = manifest[q]
  /\ \A p \in Profiles : supervisor'[p] \in Units =>
       supervisor'[p] = supervisor[p] \/ supervisor'[p].by = r
  /\ UnitsNamed' /\ StaysRecorded(r)

LEMMA GotoWrite ==
  ASSUME IInv, NEW m \in Managers, Active(m), Wrote(m, job[m].root),
         NEW s \in Steps, Goto(m, s), Knows(m)',
         s \in SetupSteps => job[m].step \in SetupSteps,
         s \in SetupSteps \/ state'[job[m].root] = None
           \/ state'[job[m].root] = state[job[m].root]
  PROVE  IInv'
<1> DEFINE r == job[m].root
<1>1. r \in Roots /\ lock[r] = m /\ Alone(m, r)
  BY ActiveAlone
<1>2. /\ job' \in [Managers -> Jobs] /\ job'[m].step = s /\ job'[m].root = r
      /\ \A k \in Managers \ {m} : job'[k] = job[k]
      /\ answer' = answer
  BY GotoFrame DEF IInv, SameJob
<1>3. TypeOK'
  BY <1>2 DEF Wrote, IInv, TypeOK
<1>4. Others(m, r)
  BY <1>2 DEF Others, Wrote
<1>5. answer'[r] \in Gone => state'[r] = None /\ job'[m].step \notin SetupSteps
  BY <1>1, <1>2 DEF IInv, GoneStays
<1>6. Own(m, r)
  BY <1>1, <1>2, <1>5 DEF Own, Wrote
<1> QED BY <1>1, <1>3, <1>4, <1>6, Combine

LEMMA LeaveWrite ==
  ASSUME IInv, NEW m \in Managers, Active(m), Wrote(m, job[m].root),
         NEW d \in Decisions, Leave(m, d),
         d \in Gone => state'[job[m].root] = None
  PROVE  IInv'
<1> DEFINE r == job[m].root
<1>1. r \in Roots /\ lock[r] = m /\ Alone(m, r)
  BY ActiveAlone
<1>2. /\ job' \in [Managers -> Jobs] /\ job'[m].step = "release"
      /\ job'[m].root = r
      /\ \A k \in Managers \ {m} : job'[k] = job[k]
      /\ answer' \in [Roots -> Decisions] /\ answer'[r] = d
      /\ \A q \in Roots \ {r} : answer'[q] = answer[q]
  BY <1>1, LeaveFrame DEF IInv, SameJob
<1>3. TypeOK'
  BY <1>2 DEF Wrote, IInv, TypeOK
<1>4. Others(m, r)
  BY <1>2 DEF Others, Wrote
<1>5. Knows(m)'
  BY <1>2 DEF Knows, SetupKnows, UninstallKnows, SetupSteps, UninstallSteps
<1>6. Own(m, r)
  BY <1>1, <1>2, <1>5 DEF Own, Wrote, SetupSteps
<1> QED BY <1>1, <1>3, <1>4, <1>6, Combine

\* Marker, environment and unknown entries decide nothing of what is recorded.
LEMMA KeptWrote ==
  ASSUME IInv, NEW m \in Managers, NEW r \in Roots,
         UNCHANGED <<lock, state, manifest, host>>,
         marker' \in [Roots -> BOOLEAN], venv' \in [Roots -> BOOLEAN],
         litter' \in [Roots -> SUBSET {"state.tmp", "marker.tmp", "other"}]
  PROVE  Wrote(m, r)
<1>1. UnitsNamed' /\ StaysRecorded(r)
  BY DEF IInv, UnitsNamed, StaysRecorded, UnitsRecorded,
      ManifestRecorded, host
<1> QED BY <1>1 DEF Wrote, IInv, TypeOK, host

LEMMA MarkWrites ==
  ASSUME IInv, NEW m \in Managers, Mark(m) \/ Provision(m)
  PROVE  IInv'
<1> DEFINE r == job[m].root
<1>1. /\ Active(m) /\ job[m].step \in {"mark", "provision"} /\ Knows(m)
      /\ UNCHANGED <<lock, state, manifest, host>> /\ r \in Roots
  BY ActiveAlone DEF Mark, Provision, At, Active, IInv
<1>2. /\ marker' \in [Roots -> BOOLEAN] /\ venv' \in [Roots -> BOOLEAN]
      /\ litter' \in [Roots -> SUBSET {"state.tmp", "marker.tmp", "other"}]
  <2>1. CASE Mark(m)
    <3>1. /\ marker' = [marker EXCEPT ![r] = TRUE] /\ venv' = venv
          /\ \/ litter' = [litter EXCEPT ![r] = litter[r]]
             \/ litter' = [litter EXCEPT ![r] = litter[r] \ {"marker.tmp"}]
      BY <2>1 DEF Mark
    <3>2. litter[r] \in SUBSET {"state.tmp", "marker.tmp", "other"}
      BY <1>1 DEF IInv, TypeOK
    <3>3. litter' \in [Roots -> SUBSET {"state.tmp", "marker.tmp", "other"}]
      BY <3>1, <3>2 DEF IInv, TypeOK
    <3> QED BY <3>1, <3>3 DEF IInv, TypeOK
  <2>2. CASE Provision(m)
    BY <1>1, <2>2 DEF Provision, IInv, TypeOK
  <2> QED BY <2>1, <2>2
<1>3. PICK s \in {"provision", "record", "fail"} : Goto(m, s)
  BY DEF Mark, Provision
<1>4. job'[m].step = s /\ SameJob(m)
  BY <1>3, GotoFrame DEF IInv, Steps, SetupSteps
<1>5. Knows(m)'
  BY <1>1, <1>4
  DEF Knows, SetupKnows, UninstallKnows, SetupSteps, UninstallSteps, SameJob
<1>6. Wrote(m, r)
  BY <1>1, <1>2, KeptWrote
<1> QED BY <1>1, <1>3, <1>5, <1>6, GotoWrite DEF Steps, SetupSteps

\* A setup that writes the state writes the identity that is there, if any.
LEMMA StateWrote ==
  ASSUME IInv, NEW m \in Managers, NEW r \in Roots, NEW id \in Ids,
         NEW status \in {"partial", "full"}, WriteState(r, id, status),
         state[r] # None => state[r].id = id
  PROVE  Wrote(m, r) /\ state'[r] # None /\ state'[r].id = id
<1> DEFINE new == [id |-> id, status |-> status, current |-> TRUE]
<1>1. state' = [state EXCEPT ![r] = new] /\ new \in States
  BY DEF WriteState, States
<1>2. state'[r] = new /\ state' \in [Roots -> States \cup {None}]
      /\ \A q \in Roots \ {r} : state'[q] = state[q]
  BY <1>1 DEF IInv, TypeOK
<1>3. new # None
  BY <1>1, NoneAssumption
<1>4. litter' \in [Roots -> SUBSET {"state.tmp", "marker.tmp", "other"}]
  BY DEF WriteState, IInv, TypeOK
<1>5. UnitsNamed' /\ StaysRecorded(r)
  BY <1>2, <1>3
  DEF WriteState, IInv, UnitsNamed, StaysRecorded, UnitsRecorded,
      ManifestRecorded, host
<1> QED
  BY <1>2, <1>3, <1>4, <1>5 DEF Wrote, WriteState, IInv, TypeOK, host

LEMMA RecordWrites ==
  ASSUME IInv, NEW m \in Managers, Record(m) \/ Complete(m) \/ Fail(m)
  PROVE  IInv'
<1> DEFINE r == job[m].root
<1>1. /\ Active(m) /\ job[m].step \in {"record", "complete", "fail"} /\ Knows(m)
      /\ r \in Roots
  BY ActiveAlone DEF Record, Complete, Fail, At, Active, IInv
<1>2. job[m].id \in Ids /\ (state[r] # None => state[r].id = job[m].id)
  BY <1>1 DEF Knows, SetupKnows, SetupSteps
<1>3. Wrote(m, r) /\ state'[r] # None /\ state'[r].id = job[m].id
  BY <1>1, <1>2, StateWrote DEF Record, Complete, Fail
<1>4. CASE Goto(m, "supervise") /\ job[m].step = "record"
  <2>1. job'[m].step = "supervise" /\ SameJob(m)
    BY <1>4, GotoFrame DEF IInv, Steps, SetupSteps
  <2>2. Knows(m)'
    BY <1>1, <1>2, <1>3, <1>4, <2>1
    DEF Knows, SetupKnows, UninstallKnows, SetupSteps, UninstallSteps, SameJob
  <2> QED BY <1>1, <1>3, <1>4, <2>2, GotoWrite DEF Steps, SetupSteps
<1>5. CASE \E d \in {"RUNTIME_FULL_DURABLE", "RUNTIME_PARTIAL"} : Leave(m, d)
  BY <1>1, <1>3, <1>5, LeaveWrite DEF Gone, Decisions
<1> QED BY <1>4, <1>5 DEF Record, Complete, Fail, At

\* A unit removed, or made by r for what its state names.
LEMMA UnitWrote ==
  ASSUME IInv, NEW m \in Managers, NEW r \in Roots, NEW p \in Profiles,
         NEW u \in Units \cup {None}, UNCHANGED <<lock, files>>,
         supervisor' = [supervisor EXCEPT ![p] = u],
         u \in Units => /\ u.by = r /\ Profile[u.id] = p
                        /\ state[r] # None /\ state[r].id = u.id,
         listener' \in [Ports -> Listeners \cup {None}]
  PROVE  Wrote(m, r)
<1>1. u = None => u \notin Units
  BY NoneAssumption
<1>2. supervisor' \in [Profiles -> Units \cup {Foreign, None}]
  BY DEF IInv, TypeOK
<1>3. \A q \in Profiles : supervisor'[q] = IF q = p THEN u ELSE supervisor[q]
  BY DEF IInv, TypeOK
<1>4. UnitsNamed' /\ StaysRecorded(r)
  BY <1>1, <1>3
  DEF IInv, UnitsNamed, StaysRecorded, UnitsRecorded, ManifestRecorded, files
<1>5. \A q \in Profiles : supervisor'[q] \in Units =>
        supervisor'[q] = supervisor[q] \/ supervisor'[q].by = r
  BY <1>1, <1>3
<1> QED BY <1>2, <1>4, <1>5 DEF Wrote, IInv, TypeOK, files

\* A service is stopped, or not, and a manifest removed, or not.
LEMMA RemovedWrote ==
  ASSUME IInv, NEW m \in Managers, NEW r \in Roots, NEW p \in Profiles,
         UNCHANGED <<lock, marker, state, venv, litter>>,
         StopService(r, p) \/ UNCHANGED host,
         manifest' = [manifest EXCEPT ![r] = None] \/ UNCHANGED manifest
  PROVE  Wrote(m, r)
<1>1. /\ listener' \in [Ports -> Listeners \cup {None}]
      /\ supervisor' = [supervisor EXCEPT ![p] = None] \/ supervisor' = supervisor
  BY DEF StopService, host, IInv, TypeOK
<1>2. None \notin Units
  BY NoneAssumption
<1>3. /\ supervisor' \in [Profiles -> Units \cup {Foreign, None}]
      /\ \A q \in Profiles :
           supervisor'[q] = supervisor[q] \/ supervisor'[q] = None
  BY <1>1 DEF IInv, TypeOK
<1>4. /\ manifest' \in [Roots -> Manifests \cup {None}]
      /\ manifest'[r] = manifest[r] \/ manifest'[r] = None
      /\ \A q \in Roots \ {r} : manifest'[q] = manifest[q]
  BY DEF IInv, TypeOK
<1>5. UnitsNamed' /\ StaysRecorded(r)
  BY <1>2, <1>3, <1>4
  DEF IInv, UnitsNamed, StaysRecorded, UnitsRecorded, ManifestRecorded
<1> QED BY <1>1, <1>2, <1>3, <1>4, <1>5 DEF Wrote, IInv, TypeOK

LEMMA SuperviseWrites ==
  ASSUME IInv, NEW m \in Managers, Supervise(m)
  PROVE  IInv'
<1> DEFINE r == job[m].root  id == job[m].id
           u == [by |-> r, id |-> id]
<1>1. /\ Active(m) /\ job[m].step = "supervise" /\ Knows(m) /\ r \in Roots
      /\ UNCHANGED <<lock, files, listener>>
  BY ActiveAlone DEF Supervise, At, Active, IInv
<1>2. id \in Ids /\ state[r] # None /\ state[r].id = id
  BY <1>1 DEF Knows, SetupKnows, SetupSteps
<1>3. Profile[id] \in Profiles /\ u \in Units
  BY <1>1, <1>2, NamesAssumption DEF Units
<1>4. listener' \in [Ports -> Listeners \cup {None}]
  BY <1>1 DEF IInv, TypeOK
<1>5. Wrote(m, r)
  BY <1>1, <1>2, <1>3, <1>4, UnitWrote DEF Supervise
<1>6. job'[m].step = "save" /\ SameJob(m)
  BY GotoFrame DEF Supervise, IInv, Steps, SetupSteps
<1>7. Knows(m)'
  BY <1>1, <1>6
  DEF Knows, SetupKnows, UninstallKnows, SetupSteps, UninstallSteps, SameJob,
      files
<1> QED BY <1>1, <1>5, <1>7, GotoWrite DEF Supervise, Steps, SetupSteps

\* The manifest written or removed.
LEMMA ManifestWrote ==
  ASSUME IInv, NEW m \in Managers, NEW r \in Roots,
         NEW f \in Manifests \cup {None},
         UNCHANGED <<lock, marker, state, venv, litter, host>>,
         manifest' = [manifest EXCEPT ![r] = f],
         f # None => state[r] # None /\ state[r].id = f.id
  PROVE  Wrote(m, r)
<1>1. /\ manifest' \in [Roots -> Manifests \cup {None}] /\ manifest'[r] = f
      /\ \A q \in Roots \ {r} : manifest'[q] = manifest[q]
  BY DEF IInv, TypeOK
<1>2. UnitsNamed' /\ StaysRecorded(r)
  BY <1>1 DEF IInv, UnitsNamed, StaysRecorded, UnitsRecorded,
      ManifestRecorded, host
<1> QED BY <1>1, <1>2 DEF Wrote, IInv, TypeOK, host

LEMMA SaveWrites ==
  ASSUME IInv, NEW m \in Managers, Save(m)
  PROVE  IInv'
<1> DEFINE r == job[m].root  id == job[m].id
           f == [id |-> id, form |-> "exact"]
<1>1. /\ Active(m) /\ job[m].step = "save" /\ Knows(m) /\ r \in Roots
      /\ UNCHANGED <<lock, marker, state, venv, litter, host>>
  BY ActiveAlone DEF Save, At, Active, IInv
<1>2. id \in Ids /\ state[r] # None /\ state[r].id = id
  BY <1>1 DEF Knows, SetupKnows, SetupSteps
<1>3. f \in Manifests
  BY <1>2 DEF Manifests
<1>4. Wrote(m, r)
  BY <1>1, <1>2, <1>3, ManifestWrote DEF Save
<1>5. job'[m].step = "start" /\ SameJob(m)
  BY GotoFrame DEF Save, IInv, Steps, SetupSteps
<1>6. Knows(m)'
  BY <1>1, <1>5
  DEF Knows, SetupKnows, UninstallKnows, SetupSteps, UninstallSteps, SameJob
<1> QED BY <1>1, <1>4, <1>6, GotoWrite DEF Save, Steps, SetupSteps

LEMMA StartWrites ==
  ASSUME IInv, NEW m \in Managers, Start(m)
  PROVE  IInv'
<1> DEFINE r == job[m].root
<1>1. /\ Active(m) /\ job[m].step = "start" /\ Knows(m) /\ r \in Roots
      /\ UNCHANGED <<lock, files, supervisor>>
  BY ActiveAlone DEF Start, At, Active, IInv
<1>2. listener' \in [Ports -> Listeners \cup {None}]
  <2>1. PICK ready \in BOOLEAN :
          listener' = [listener EXCEPT ![Port[job[m].id]] =
                         [by |-> r, ready |-> ready]]
    BY Zenon DEF Start
  <2>2. [by |-> r, ready |-> ready] \in Listeners
    BY <1>1 DEF Listeners
  <2> QED BY <2>1, <2>2 DEF IInv, TypeOK
<1>3. Wrote(m, r)
  <2>1. state' = state /\ manifest' = manifest /\ supervisor' = supervisor
    BY <1>1 DEF files
  <2>2. UnitsNamed'
    BY <2>1 DEF IInv, UnitsNamed
  <2>3. StaysRecorded(r)
    BY <2>1 DEF IInv, StaysRecorded, UnitsRecorded, ManifestRecorded
  <2> QED BY <1>1, <1>2, <2>2, <2>3 DEF Wrote, IInv, TypeOK, files
<1>4. job'[m].step = "verify" /\ SameJob(m)
  BY GotoFrame DEF Start, IInv, Steps, SetupSteps
<1>5. Knows(m)'
  BY <1>1, <1>4
  DEF Knows, SetupKnows, UninstallKnows, SetupSteps, UninstallSteps, SameJob,
      files
<1> QED BY <1>1, <1>3, <1>5, GotoWrite DEF Start, Steps, SetupSteps

LEMMA ApplyFailsWrites ==
  ASSUME IInv, NEW m \in Managers, ApplyFails(m)
  PROVE  IInv'
<1> DEFINE r == job[m].root
<1>1. /\ Active(m) /\ Knows(m)
      /\ job[m].step \in {"supervise", "save", "start", "verify"}
      /\ r \in Roots /\ UNCHANGED <<lock, marker, state, venv, litter>>
  BY ActiveAlone DEF ApplyFails, Active, IInv
<1>2. Profile[job[m].id] \in Profiles
  BY <1>1, NamesAssumption DEF Knows, SetupKnows, SetupSteps
<1>3. Wrote(m, r)
  BY <1>1, <1>2, RemovedWrote DEF ApplyFails
<1>4. job'[m].step = "fail" /\ SameJob(m)
  BY GotoFrame DEF ApplyFails, IInv, Steps, SetupSteps
<1>5. Knows(m)'
  BY <1>1, <1>4
  DEF Knows, SetupKnows, UninstallKnows, SetupSteps, UninstallSteps, SameJob
<1> QED BY <1>1, <1>3, <1>5, GotoWrite DEF ApplyFails, Steps, SetupSteps

LEMMA RemoveWrites ==
  ASSUME IInv, NEW m \in Managers, RemoveService(m) \/ RemoveManifest(m)
  PROVE  IInv'
<1> DEFINE r == job[m].root
<1>1. /\ Active(m) /\ job[m].step \in {"remove", "forget"} /\ Knows(m)
      /\ r \in Roots /\ UNCHANGED <<lock, marker, state, venv, litter>>
  BY ActiveAlone DEF RemoveService, RemoveManifest, At, Active, IInv, files
<1>2. state[r] # None /\ job[m].id = state[r].id /\ job[m].id \in Ids
  BY <1>1 DEF Knows, UninstallKnows, UninstallSteps
<1>3. Profile[job[m].id] \in Profiles
  BY <1>2, NamesAssumption
<1>4. Wrote(m, r)
  BY <1>1, <1>3, RemovedWrote DEF RemoveService, RemoveManifest, files
<1>5. PICK s \in {"forget", "await"} :
        /\ Goto(m, s)
        /\ s = "await" => manifest' = [manifest EXCEPT ![r] = None]
  BY DEF RemoveService, RemoveManifest
<1>6. job'[m].step = s /\ SameJob(m)
  BY <1>5, GotoFrame DEF IInv, Steps, UninstallSteps
<1>7. s = "await" => manifest'[r] = None
  BY <1>1, <1>5 DEF IInv, TypeOK
<1>8. Knows(m)'
  BY <1>1, <1>2, <1>5, <1>6, <1>7
  DEF Knows, SetupKnows, UninstallKnows, SetupSteps, UninstallSteps, SameJob
<1> QED
  BY <1>1, <1>4, <1>5, <1>8, GotoWrite DEF Steps, SetupSteps, UninstallSteps

\* The state deleted, when neither manifest nor unit is left.
LEMMA DeletedWrote ==
  ASSUME IInv, NEW m \in Managers, NEW r \in Roots,
         UNCHANGED <<lock, marker, venv, manifest, litter, host>>,
         state' = [state EXCEPT ![r] = None],
         manifest[r] = None, NoUnits(r)
  PROVE  Wrote(m, r) /\ state'[r] = None
<1>1. /\ state' \in [Roots -> States \cup {None}] /\ state'[r] = None
      /\ \A q \in Roots \ {r} : state'[q] = state[q]
  BY DEF IInv, TypeOK
<1>2. UnitsNamed' /\ StaysRecorded(r)
  BY DEF IInv, UnitsNamed, StaysRecorded, UnitsRecorded, ManifestRecorded,
         NoUnits, host
<1> QED BY <1>1, <1>2 DEF Wrote, IInv, TypeOK, host

LEMMA DeleteWrites ==
  ASSUME IInv, NEW m \in Managers, Unlink(m) \/ PurgeState(m)
  PROVE  IInv'
<1> DEFINE r == job[m].root
<1>1. /\ Active(m) /\ job[m].step \in {"unlink", "files"} /\ Knows(m)
      /\ r \in Roots /\ state' = [state EXCEPT ![r] = None]
      /\ UNCHANGED <<lock, marker, venv, manifest, litter, host>>
  BY ActiveAlone DEF Unlink, PurgeState, At, Active, IInv
<1>2. manifest[r] = None /\ NoUnits(r)
  BY <1>1 DEF Knows, UninstallKnows
<1>3. Wrote(m, r) /\ state'[r] = None
  BY <1>1, <1>2, DeletedWrote
<1>4. CASE Unlink(m)
  <2>1. Uninstalled(m) \in Decisions
    BY DEF Uninstalled, Decisions
  <2> QED BY <1>1, <1>3, <1>4, <2>1, LeaveWrite DEF Unlink
<1>5. CASE PurgeState(m)
  <2>1. job'[m].step = "unmark" /\ SameJob(m)
    BY <1>5, GotoFrame DEF PurgeState, IInv, Steps, UninstallSteps
  <2>2. Knows(m)'
    BY <1>3, <2>1
    DEF Knows, SetupKnows, UninstallKnows, SetupSteps, UninstallSteps, SameJob
  <2> QED
    BY <1>1, <1>3, <1>5, <2>2, GotoWrite
    DEF PurgeState, Steps, SetupSteps, UninstallSteps
<1> QED BY <1>4, <1>5

LEMMA PurgeWrites ==
  ASSUME IInv, NEW m \in Managers,
         PurgeVenv(m) \/ PurgeWorkspace(m) \/ PurgeMarker(m)
  PROVE  IInv'
<1> DEFINE r == job[m].root
<1>1. /\ Active(m) /\ job[m].step \in {"venv", "workspace", "unmark"}
      /\ Knows(m) /\ r \in Roots
      /\ UNCHANGED <<lock, state, litter, host>>
  BY ActiveAlone DEF PurgeVenv, PurgeWorkspace, PurgeMarker, At, Active, IInv
<1>2. job[m].step # "unmark" => manifest[r] = None
  BY <1>1 DEF Knows, UninstallKnows
<1>3. manifest' = manifest
  BY <1>1, <1>2
  DEF PurgeVenv, PurgeWorkspace, PurgeMarker, At, IInv, TypeOK
<1>4. marker' \in [Roots -> BOOLEAN] /\ venv' \in [Roots -> BOOLEAN]
  BY DEF PurgeVenv, PurgeWorkspace, PurgeMarker, IInv, TypeOK
<1>5. litter' \in [Roots -> SUBSET {"state.tmp", "marker.tmp", "other"}]
  BY <1>1 DEF IInv, TypeOK
<1>6. Wrote(m, r)
  BY <1>1, <1>3, <1>4, <1>5, KeptWrote
<1>7. PICK s \in {"workspace", "files", "rmdir"} :
        Goto(m, s) /\ (s = "rmdir" <=> job[m].step = "unmark")
  BY DEF PurgeVenv, PurgeWorkspace, PurgeMarker, At
<1>8. job'[m].step = s /\ SameJob(m)
  BY <1>7, GotoFrame DEF IInv, Steps, UninstallSteps
<1>9. NoUnits(r) => \A p \in Profiles :
        supervisor'[p] \in Units => supervisor'[p].by # r
  BY <1>1 DEF NoUnits, host
<1>10. Knows(m)'
  BY <1>1, <1>3, <1>7, <1>8, <1>9
  DEF Knows, SetupKnows, UninstallKnows, SetupSteps, UninstallSteps, SameJob,
      NoUnits
<1> QED
  BY <1>1, <1>6, <1>7, <1>10, GotoWrite DEF Steps, SetupSteps, UninstallSteps

-----------------------------------------------------------------------------
(* Beginning and ending.                                                   *)

\* A step that changes a command, its lock and its answer, and touches no file
\* that is recorded.
LEMMA LockFrame ==
  ASSUME IInv, NEW m \in Managers, NEW r \in Roots, Alone(m, r),
         UNCHANGED <<marker, state, venv, manifest, host>>,
         litter' \in [Roots -> SUBSET {"state.tmp", "marker.tmp", "other"}],
         NEW l \in Managers \cup {None, Stale}, lock' = [lock EXCEPT ![r] = l],
         NEW j \in Jobs, job' = [job EXCEPT ![m] = j],
         j.step # "idle" => j.root = r /\ l = m,
         NEW d \in Decisions, answer' = [answer EXCEPT ![r] = d],
         Knows(m)',
         d \in Gone => d = answer[r] /\ j.step \notin SetupSteps
  PROVE  IInv'
<1>1. /\ job' \in [Managers -> Jobs] /\ job'[m] = j
      /\ \A k \in Managers \ {m} : job'[k] = job[k]
  BY DEF IInv, TypeOK
<1>2. /\ lock' \in [Roots -> Managers \cup {None, Stale}] /\ lock'[r] = l
      /\ \A q \in Roots \ {r} : lock'[q] = lock[q]
  BY DEF IInv, TypeOK
<1>3. /\ answer' \in [Roots -> Decisions] /\ answer'[r] = d
      /\ \A q \in Roots \ {r} : answer'[q] = answer[q]
  BY DEF IInv, TypeOK
<1>4. TypeOK'
  BY <1>1, <1>2, <1>3 DEF IInv, TypeOK, host
<1>5. Others(m, r)
  BY <1>1, <1>2, <1>3 DEF Others, host
<1>6. UnitsNamed' /\ StaysRecorded(r)
  BY DEF IInv, UnitsNamed, StaysRecorded, UnitsRecorded, ManifestRecorded, host
<1>7. d \in Gone => state'[r] = None
  BY DEF IInv, GoneStays
<1>8. Own(m, r)
  BY <1>1, <1>2, <1>3, <1>6, <1>7 DEF Own, Active
<1> QED BY <1>4, <1>5, <1>8, Combine

LEMMA IdleJob == Idle \in Jobs /\ Idle.step = "idle"
BY DEF Idle, Jobs

LEMMA ReleaseEnds ==
  ASSUME IInv, NEW m \in Managers, Release(m) \/ Crash(m)
  PROVE  IInv'
<1>1. Active(m) /\ job' = [job EXCEPT ![m] = Idle]
      /\ UNCHANGED <<marker, state, venv, manifest, host, answer>>
  BY DEF Release, Crash, At, Active, files
<1>2. PICK r \in Roots : r = job[m].root /\ Alone(m, r)
  BY <1>1, ActiveAlone
<1>3. PICK l \in {None, Stale} : lock' = [lock EXCEPT ![r] = l]
  BY <1>2 DEF Release, Crash
<1>4. litter' \in [Roots -> SUBSET {"state.tmp", "marker.tmp", "other"}]
  <2>1. CASE Release(m)
    BY <2>1 DEF Release, files, IInv, TypeOK
  <2>2. CASE Crash(m)
    <3>0. Temporary(m) \subseteq {"state.tmp", "marker.tmp"}
      BY DEF Temporary, At
    <3>1. PICK left \in SUBSET Temporary(m) :
            litter' = [litter EXCEPT ![r] = litter[r] \cup left]
      BY <1>2, <2>2 DEF Crash
    <3>2. litter[r] \cup left \in SUBSET {"state.tmp", "marker.tmp", "other"}
      BY <3>0 DEF IInv, TypeOK
    <3> QED BY <3>1, <3>2 DEF IInv, TypeOK
  <2> QED BY <2>1, <2>2
<1>5. Knows(m)'
  <2>1. job'[m].step = "idle"
    BY <1>1, IdleJob DEF IInv, TypeOK
  <2> QED
    BY <2>1 DEF Knows, SetupKnows, UninstallKnows, SetupSteps, UninstallSteps
<1>6. answer[r] \in Decisions /\ answer' = [answer EXCEPT ![r] = answer[r]]
  BY <1>1 DEF IInv, TypeOK
<1> QED
  BY <1>1, <1>2, <1>3, <1>4, <1>5, <1>6, IdleJob, LockFrame DEF SetupSteps

\* A free lock means that nobody is at work on the root.
LEMMA FreeAlone ==
  ASSUME IInv, NEW m \in Managers, NEW r \in Roots, lock[r] \in {None, Stale}
  PROVE  Alone(m, r)
BY NamesAssumption DEF IInv, LocksHeld, Alone

LEMMA BeginBegins ==
  ASSUME IInv, NEW m \in Managers, Begin(m)
  PROVE  IInv'
<1>1. PICK r \in Roots : \/ \E id \in Ids : BeginSetup(m, r, id)
                         \/ \E keep \in BOOLEAN : BeginUninstall(m, r, keep)
  BY DEF Begin
<1>2. lock[r] = None /\ lock' = [lock EXCEPT ![r] = m]
      /\ UNCHANGED <<files, host>>
  BY <1>1 DEF BeginSetup, BeginUninstall, AcquireLock
<1>3. Alone(m, r)
  BY <1>2, FreeAlone
<1>4. UNCHANGED <<marker, state, venv, manifest, host>>
      /\ litter' \in [Roots -> SUBSET {"state.tmp", "marker.tmp", "other"}]
  BY <1>2 DEF files, IInv, TypeOK
<1>5. CASE \E id \in Ids : BeginSetup(m, r, id)
  <2>1. PICK id \in Ids : BeginSetup(m, r, id)
    BY <1>5
  <2> DEFINE j == [Idle EXCEPT !.step = "compare", !.root = r, !.id = id]
  <2>2. j \in Jobs /\ j.step = "compare" /\ j.root = r /\ j.id = id
        /\ ~j.deployed
    BY DEF Idle, Jobs, SetupSteps
  <2>3. job' = [job EXCEPT ![m] = j] /\ answer' = [answer EXCEPT ![r] = "none"]
    BY <2>1 DEF BeginSetup
  <2> HIDE DEF j
  <2>4. job'[m] = j
    BY <2>3 DEF IInv, TypeOK
  <2>5. Knows(m)'
    BY <2>2, <2>4
    DEF Knows, SetupKnows, UninstallKnows, SetupSteps, UninstallSteps
  <2> QED
    BY <1>2, <1>3, <1>4, <2>2, <2>3, <2>5, LockFrame DEF Decisions, Gone
<1>6. CASE \E keep \in BOOLEAN : BeginUninstall(m, r, keep)
  <2>1. PICK keep \in BOOLEAN : BeginUninstall(m, r, keep)
    BY <1>6
  <2> DEFINE j == [Idle EXCEPT !.step = "consult", !.root = r, !.keep = keep]
  <2>2. j \in Jobs /\ j.step = "consult" /\ j.root = r
    BY DEF Idle, Jobs, UninstallSteps
  <2>3. job' = [job EXCEPT ![m] = j] /\ answer' = answer
    BY <2>1 DEF BeginUninstall
  <2> HIDE DEF j
  <2>4. job'[m] = j
    BY <2>3 DEF IInv, TypeOK
  <2>5. Knows(m)'
    BY <2>2, <2>4
    DEF Knows, SetupKnows, UninstallKnows, SetupSteps, UninstallSteps
  <2>6. answer[r] \in Decisions /\ answer' = [answer EXCEPT ![r] = answer[r]]
    BY <2>3 DEF IInv, TypeOK
  <2> QED
    BY <1>2, <1>3, <1>4, <2>2, <2>3, <2>5, <2>6, LockFrame DEF SetupSteps
<1> QED BY <1>1, <1>5, <1>6

-----------------------------------------------------------------------------
(* What else happens.                                                      *)

\* Units come and go, but only managers install them; a manifest may be
\* altered, but not given another identity.
LEMMA OutsideFrame ==
  ASSUME IInv, TypeOK', UNCHANGED <<state, job, answer>>,
         \A m \in Managers : \A r \in Roots : lock[r] = m => lock'[r] = m,
         \A r \in Roots : \/ manifest'[r] = manifest[r]
                          \/ /\ manifest[r] # None
                             /\ manifest'[r].id = manifest[r].id,
         \A p \in Profiles : supervisor'[p] \in Units =>
           supervisor'[p] = supervisor[p]
  PROVE  IInv'
<1>1. LocksHeld'
  BY DEF IInv, LocksHeld, Active
<1>2. UnitsNamed'
  BY DEF IInv, UnitsNamed
<1>3. ASSUME NEW r \in Roots PROVE UnitsRecorded(r)' /\ ManifestRecorded(r)'
  BY DEF IInv, UnitsRecorded, ManifestRecorded
<1>4. ASSUME NEW m \in Managers PROVE Knows(m)'
  <2>1. Knows(m) /\ (Active(m) => job[m].root \in Roots)
    BY DEF IInv, LocksHeld
  <2>2. \A r \in Roots : manifest[r] = None => manifest'[r] = None
    OBVIOUS
  <2>3. NoUnits(job[m].root) => \A p \in Profiles :
          supervisor'[p] \in Units => supervisor'[p].by # job[m].root
    BY DEF NoUnits
  <2>4. SetupKnows(m)'
    BY <2>1 DEF Knows, SetupKnows
  <2>5. UninstallKnows(m)'
    BY <2>1, <2>2, <2>3
    DEF Knows, UninstallKnows, UninstallSteps, Active, NoUnits
  <2> QED BY <2>4, <2>5 DEF Knows
<1>5. GoneStays'
  BY DEF IInv, GoneStays
<1> QED BY <1>1, <1>2, <1>3, <1>4, <1>5 DEF IInv

LEMMA UnlockKeeps ==
  ASSUME IInv, NEW r \in Roots, Unlock(r)
  PROVE  IInv'
<1>1. TypeOK'
  BY DEF Unlock, IInv, TypeOK, files, host
<1>2. \A m \in Managers : \A q \in Roots : lock[q] = m => lock'[q] = m
  BY NamesAssumption DEF Unlock, IInv, TypeOK
<1> QED BY <1>1, <1>2, OutsideFrame DEF Unlock, files, host

LEMMA OperatorKeeps ==
  ASSUME IInv, OperatorActs
  PROVE  IInv'
<1>1. /\ supervisor' \in [Profiles -> Units \cup {Foreign, None}]
      /\ \A p \in Profiles :
           supervisor'[p] = supervisor[p] \/ supervisor'[p] = None
      /\ litter' \in [Roots -> SUBSET {"state.tmp", "marker.tmp", "other"}]
  BY DEF OperatorActs, IInv, TypeOK
<1>2. TypeOK'
  BY <1>1 DEF OperatorActs, IInv, TypeOK
<1> QED BY <1>1, <1>2, NoneAssumption, OutsideFrame DEF OperatorActs

LEMMA ServiceKeeps ==
  ASSUME IInv, ServiceActs
  PROVE  IInv'
<1>1. PICK p \in Profiles : supervisor[p] \in Units
        /\ \E l \in {None} \cup [by : {supervisor[p].by}, ready : BOOLEAN] :
             listener' = [listener EXCEPT ![Port[supervisor[p].id]] = l]
  BY Zenon DEF ServiceActs
<1>2. supervisor[p].by \in Roots
  BY <1>1 DEF Units
<1>3. PICK l \in Listeners \cup {None} :
        listener' = [listener EXCEPT ![Port[supervisor[p].id]] = l]
  BY <1>1, <1>2 DEF Listeners
<1>4. listener' \in [Ports -> Listeners \cup {None}]
  BY <1>3 DEF IInv, TypeOK
<1>5. TypeOK'
  BY <1>4 DEF ServiceActs, IInv, TypeOK, files
<1> QED BY <1>5, OutsideFrame DEF ServiceActs, files

LEMMA ForeignKeeps ==
  ASSUME IInv, ForeignActs
  PROVE  IInv'
<1>1. UNCHANGED <<lock, marker, state, venv, job, answer>>
  BY DEF ForeignActs, ForeignListens, ForeignSupervises, ForeignWrites, files
<1>2. listener' \in [Ports -> Listeners \cup {None}]
  <2>1. ASSUME NEW port \in Ports, ForeignListens(port)
        PROVE  listener' \in [Ports -> Listeners \cup {None}]
    <3>1. PICK l \in {None} \cup [by : {Foreign}, ready : BOOLEAN] :
            listener' = [listener EXCEPT ![port] = l]
      BY <2>1 DEF ForeignListens
    <3>2. l \in Listeners \cup {None}
      BY DEF Listeners
    <3> QED BY <3>1, <3>2 DEF IInv, TypeOK
  <2>2. (\A port \in Ports : ~ForeignListens(port)) => listener' = listener
    BY DEF ForeignActs, ForeignSupervises, ForeignWrites, host
  <2> QED BY <2>1, <2>2 DEF IInv, TypeOK
<1>3. /\ supervisor' \in [Profiles -> Units \cup {Foreign, None}]
      /\ \A p \in Profiles :
           supervisor'[p] = supervisor[p] \/ supervisor'[p] \in {None, Foreign}
  <2>1. \/ supervisor' = supervisor
        \/ \E p \in Profiles : \E u \in {None, Foreign} :
             supervisor' = [supervisor EXCEPT ![p] = u]
    BY DEF ForeignActs, ForeignListens, ForeignSupervises, ForeignWrites, host
  <2> QED BY <2>1 DEF IInv, TypeOK
<1>4. /\ manifest' \in [Roots -> Manifests \cup {None}]
      /\ litter' \in [Roots -> SUBSET {"state.tmp", "marker.tmp", "other"}]
      /\ \A r \in Roots : \/ manifest'[r] = manifest[r]
                          \/ /\ manifest[r] # None
                             /\ manifest'[r].id = manifest[r].id
  <2>1. CASE \E r \in Roots : ForeignWrites(r)
    <3>1. PICK r \in Roots : ForeignWrites(r)
      BY <2>1
    <3>2. CASE manifest[r] # None /\ UNCHANGED litter
               /\ manifest' = [manifest EXCEPT ![r].form = "altered"]
      <4>1. manifest[r] \in Manifests
        BY <3>2 DEF IInv, TypeOK
      <4>2. manifest' = [manifest EXCEPT ![r] =
                          [manifest[r] EXCEPT !.form = "altered"]]
        BY <3>2
      <4>3. /\ [manifest[r] EXCEPT !.form = "altered"] \in Manifests
            /\ [manifest[r] EXCEPT !.form = "altered"].id = manifest[r].id
        BY <4>1 DEF Manifests
      <4> QED BY <3>2, <4>2, <4>3 DEF IInv, TypeOK
    <3>3. CASE litter' = [litter EXCEPT ![r] = litter[r] \cup {"other"}]
               /\ UNCHANGED manifest
      <4>1. litter[r] \cup {"other"} \in
              SUBSET {"state.tmp", "marker.tmp", "other"}
        BY DEF IInv, TypeOK
      <4> QED BY <3>3, <4>1 DEF IInv, TypeOK
    <3> QED BY <3>1, <3>2, <3>3 DEF ForeignWrites
  <2>2. CASE UNCHANGED files
    BY <2>2 DEF files, IInv, TypeOK
  <2> QED
    BY <2>1, <2>2 DEF ForeignActs, ForeignListens, ForeignSupervises
<1>5. TypeOK'
  BY <1>1, <1>2, <1>3, <1>4 DEF IInv, TypeOK
<1> QED BY <1>1, <1>3, <1>4, <1>5, NoneAssumption, OutsideFrame

-----------------------------------------------------------------------------
(* The invariant holds.                                                    *)

LEMMA InitHolds ==
  ASSUME Init
  PROVE  IInv
<1> PICK found \in [Roots -> Earlier \cup {None}] :
      /\ marker = [r \in Roots |-> found[r] # None]
      /\ venv = [r \in Roots |-> found[r] # None]
      /\ state = [r \in Roots |-> IF found[r] = None THEN None ELSE
           [id |-> found[r], status |-> "full", current |-> FALSE]]
      /\ manifest = [r \in Roots |-> IF found[r] = None THEN None ELSE
           [id |-> found[r], form |-> "earlier"]]
  BY DEF Init
<1>1. \A r \in Roots : found[r] = None \/ found[r] \in Ids
  BY NamesAssumption
<1>2. /\ state \in [Roots -> States \cup {None}]
      /\ manifest \in [Roots -> Manifests \cup {None}]
  BY <1>1 DEF States, Manifests
<1>3. job \in [Managers -> Jobs] /\ \A m \in Managers : job[m].step = "idle"
  BY IdleJob DEF Init
<1>4. TypeOK
  BY <1>2, <1>3 DEF Init, TypeOK, Decisions
<1>5. LocksHeld
  BY <1>3 DEF LocksHeld, Active
<1>6. \A p \in Profiles : supervisor[p] \notin Units
  BY NoneAssumption DEF Init
<1>7. ASSUME NEW r \in Roots PROVE UnitsRecorded(r) /\ ManifestRecorded(r)
  <2>1. ManifestRecorded(r)
    <3>1. CASE found[r] = None
      BY <3>1 DEF ManifestRecorded
    <3>2. CASE found[r] # None
      <4>1. [id |-> found[r], status |-> "full", current |-> FALSE] \in States
        BY <1>1, <3>2 DEF States
      <4> QED BY <3>2, <4>1, NoneAssumption DEF ManifestRecorded
    <3> QED BY <3>1, <3>2
  <2> QED BY <1>6, <2>1 DEF UnitsRecorded
<1>8. \A m \in Managers : Knows(m)
  BY <1>3 DEF Knows, SetupKnows, UninstallKnows, SetupSteps, UninstallSteps
<1>9. GoneStays
  BY DEF Init, GoneStays, Gone
<1> QED BY <1>4, <1>5, <1>6, <1>7, <1>8, <1>9 DEF IInv, UnitsNamed

LEMMA NextHolds ==
  ASSUME IInv, [Next]_vars
  PROVE  IInv'
<1>1. ASSUME NEW m \in Managers, SetupStep(m)
      PROVE  IInv'
  BY <1>1, CompareLooks, InspectLooks, ProbeLooks, ConfirmLooks, MarkWrites,
     RecordWrites, SuperviseWrites, SaveWrites, StartWrites, ApplyFailsWrites
  DEF SetupStep
<1>2. ASSUME NEW m \in Managers, UninstallStep(m)
      PROVE  IInv'
  BY <1>2, ConsultLooks, JudgeLooks, StoppedLooks, EndLooks, RemoveWrites,
     DeleteWrites, PurgeWrites
  DEF UninstallStep
<1>3. ASSUME NEW m \in Managers, Begin(m) \/ Step(m) \/ Crash(m)
      PROVE  IInv'
  BY <1>1, <1>2, <1>3, BeginBegins, ReleaseEnds, EndLooks DEF Step
<1>4. CASE UNCHANGED vars
  <2>1. UNCHANGED <<lock, marker, state, venv, manifest, litter, supervisor,
                    listener, job, answer>>
    BY <1>4 DEF vars, files, host
  <2>2. TypeOK'
    BY <2>1 DEF IInv, TypeOK
  <2> QED BY <2>1, <2>2, OutsideFrame
<1> QED
  BY <1>3, <1>4, UnlockKeeps, OperatorKeeps, ServiceKeeps, ForeignKeeps DEF Next

\* The invariant the properties below rest on.
THEOREM Invariant == Spec => []IInv
BY InitHolds, NextHolds, PTL DEF Spec

\* Every variable keeps its type, for every number of managers and roots.
THEOREM TypeCorrect == Spec => []TypeOK
<1>1. IInv => TypeOK
  BY DEF IInv
<1> QED BY <1>1, Invariant, PTL

\* Whatever of a deployment a root has made, its state names.
THEOREM Recorded == Spec => []DeploymentRecorded
<1>1. IInv => DeploymentRecorded
  BY DEF IInv, DeploymentRecorded, UnitsRecorded, ManifestRecorded
<1> QED BY <1>1, Invariant, PTL

\* What was said to be uninstalled is gone, until a setup begins.
THEOREM UninstalledStaysGone == Spec => []UninstalledIsGone
<1>1. IInv => UninstalledIsGone
  BY DEF IInv, GoneStays, Gone, UnitsRecorded, ManifestRecorded,
         UninstalledIsGone
<1> QED BY <1>1, Invariant, PTL

-----------------------------------------------------------------------------
(* What a step may never do.                                               *)

LEMMA SetupKeepsIdentity ==
  ASSUME IInv, NEW m \in Managers, SetupStep(m), NEW r \in Roots,
         state[r] # None, state'[r] # None
  PROVE  state'[r].id = state[r].id
<1>1. CASE UNCHANGED state
  BY <1>1
<1>2. CASE Record(m) \/ Complete(m) \/ Fail(m)
  <2> DEFINE q == job[m].root
  <2>1. /\ job[m].step \in {"record", "complete", "fail"}
        /\ q \in Roots /\ Knows(m)
    BY <1>2, ActiveAlone DEF Record, Complete, Fail, At, Active, IInv
  <2>2. job[m].id \in Ids /\ (state[q] # None => state[q].id = job[m].id)
    BY <2>1 DEF Knows, SetupKnows, SetupSteps
  <2>3. Wrote(m, q) /\ state'[q].id = job[m].id
    BY <1>2, <2>1, <2>2, StateWrote DEF Record, Complete, Fail
  <2> QED BY <2>2, <2>3 DEF Wrote
<1> QED
  BY <1>1, <1>2
  DEF SetupStep, Compare, Inspect, Probe, Confirm, Mark, Provision, Supervise,
      Save, Start, ApplyFails, Verify, files

LEMMA UninstallDeletes ==
  ASSUME IInv, NEW m \in Managers, UninstallStep(m), NEW r \in Roots,
         state'[r] # None
  PROVE  state'[r] = state[r]
<1>1. CASE UNCHANGED state
  BY <1>1
<1>2. CASE Unlink(m) \/ PurgeState(m)
  BY <1>2 DEF Unlink, PurgeState, IInv, TypeOK
<1> QED
  BY <1>1, <1>2
  DEF UninstallStep, Consult, Judge, Inert, RemoveService, RemoveManifest,
      RemoveFails, Await, PurgeVenv, PurgeWorkspace, PurgeMarker, RemoveRoot,
      PurgeRefused, files

\* Nobody else touches the state.
LEMMA StateIsTheCommands ==
  ASSUME [Next]_vars, \A m \in Managers : ~SetupStep(m) /\ ~UninstallStep(m)
  PROVE  UNCHANGED state
BY DEF Next, Begin, BeginSetup, BeginUninstall, Step, Raises, Release, Crash,
       Unlock, OperatorActs, ServiceActs, ForeignActs, ForeignListens,
       ForeignSupervises, ForeignWrites, files, vars

\* A runtime's identity changes only by way of an uninstall.
THEOREM IdentityStays == Spec => IdentityKept
<1>1. ASSUME IInv, [Next]_vars, NEW r \in Roots,
             state[r] # None, state'[r] # None
      PROVE  state'[r].id = state[r].id
  BY <1>1, SetupKeepsIdentity, UninstallDeletes, StateIsTheCommands
<1>2. IInv /\ [Next]_vars => [\A r \in Roots :
        (state[r] # None /\ state'[r] # None) => state'[r].id = state[r].id]_vars
  BY <1>1
<1> QED BY <1>2, Invariant, PTL DEF Spec, IdentityKept

\* The step that moves a command is its own.
LEMMA OwnStep ==
  ASSUME IInv, [Next]_vars, NEW m \in Managers, job'[m] # job[m]
  PROVE  Begin(m) \/ Step(m) \/ Crash(m)
<1>1. ASSUME NEW k \in Managers, k # m, Begin(k) \/ Step(k) \/ Crash(k)
      PROVE  FALSE
  <2>1. \A j : job' = [job EXCEPT ![k] = j] => job'[m] = job[m]
    BY <1>1 DEF IInv, TypeOK
  <2>2. ~SetupStep(k)
    BY <1>1, <2>1
    DEF IInv, TypeOK, SetupStep, Compare, Inspect, Probe, Confirm, Mark,
        Provision, Record, Supervise, Save, Start, ApplyFails, Verify,
        Complete, Fail, Goto, Leave
  <2>3. ~UninstallStep(k)
    BY <1>1, <2>1
    DEF IInv, TypeOK, UninstallStep, Consult, Judge, Inert, RemoveService,
        RemoveManifest, RemoveFails, Await, Unlink, PurgeVenv, PurgeWorkspace,
        PurgeState, PurgeMarker, RemoveRoot, PurgeRefused, Goto, Leave
  <2>4. ~(Begin(k) \/ Raises(k) \/ Release(k) \/ Crash(k))
    BY <1>1, <2>1
    DEF IInv, TypeOK, Begin, BeginSetup, BeginUninstall, Raises, Release,
        Crash, Goto, Leave
  <2> QED BY <1>1, <2>2, <2>3, <2>4 DEF Step
<1> QED
  BY <1>1
  DEF Next, Unlock, OperatorActs, ServiceActs, ForeignActs, vars

\* A setup installs nothing over what it found.
THEOREM FoundStays == Spec => FoundIsLeftAlone
<1>1. ASSUME IInv, [Next]_vars, NEW m \in Managers, job[m].step \in SetupSteps,
             job[m].deployed, job'[m] # job[m]
      PROVE  UNCHANGED <<supervisor, manifest>>
  <2>1. Knows(m)
    BY <1>1 DEF IInv
  <2>2. job[m].step \in {"probe", "confirm", "complete", "fail"}
    BY <1>1, <2>1 DEF Knows, SetupKnows, SetupSteps
  <2>3. Begin(m) \/ Step(m) \/ Crash(m)
    BY <1>1, OwnStep
  <2>4. ~UninstallStep(m) /\ ~Begin(m)
    BY <2>2
    DEF UninstallStep, Consult, Judge, Inert, RemoveService, RemoveManifest,
        RemoveFails, Await, Unlink, PurgeVenv, PurgeWorkspace, PurgeState,
        PurgeMarker, RemoveRoot, PurgeRefused, Begin, BeginSetup,
        BeginUninstall, At
  <2>5. CASE SetupStep(m)
    BY <2>2, <2>5
    DEF SetupStep, Compare, Inspect, Probe, Confirm, Mark, Provision, Record,
        Supervise, Save, Start, ApplyFails, Verify, Complete, Fail, At,
        WriteState, files, host
  <2>6. CASE Raises(m) \/ Release(m) \/ Crash(m)
    BY <2>6 DEF Raises, Release, Crash, files, host
  <2> QED BY <2>3, <2>4, <2>5, <2>6 DEF Step
<1>2. IInv /\ [Next]_vars => [\A m \in Managers :
        (job[m].step \in SetupSteps /\ job[m].deployed /\ job'[m] # job[m])
          => UNCHANGED <<supervisor, manifest>>]_vars
  BY <1>1
<1> QED BY <1>2, Invariant, PTL DEF Spec, FoundIsLeftAlone
=============================================================================
