-------------------------- MODULE LocalExactStore --------------------------
(***************************************************************************)
(* The profile-local exact store (local_exact_store.py): one directory of  *)
(* payload, manifest and alias files shared, without any lock, by every    *)
(* thread and process of a profile.  Each file is written by an atomic     *)
(* rename, so one step of this model is one file operation; a call is a    *)
(* sequence of them that other callers, an I/O error or a crash may cut.   *)
(*                                                                         *)
(* A text is identified with its SHA-256, so the payload file of d holds d *)
(* unless it was damaged.  Modification times are the clock readings of    *)
(* the writes; files written at the same reading are listed in any order.  *)
(***************************************************************************)
EXTENDS Naturals, FiniteSets

CONSTANTS Procs, Digests, Aliases, SourceOf, Secret,
          Size,         \* bytes of each text
          TTL,          \* local_exact_ttl_seconds
          MaxEntries,   \* local_exact_max_entries
          MaxBytes,     \* local_exact_max_bytes
          RecordFloor,  \* the least number of manifests (aliases) kept: 32
          Queries,      \* keys that are asked for
          Refusals,     \* "disabled", "not_allowed": why a call may be refused
          Protections,  \* whether a call's tool and arguments may be protected
          Faults,       \* what can go wrong: "put", "undo", "sweep" (an I/O
                        \* error of a write, of undoing it, of a deletion or
                        \* tombstone), "crash", "damage" (of a payload file)
          MaxTime,      \* bound of the clock
          Absent, Garbage

ASSUME StoreAssumption ==
  /\ Digests \cap Aliases = {}
  /\ Absent \notin Digests \cup Aliases \cup {Garbage}
  /\ Garbage \notin Digests
  /\ SourceOf \in [Aliases -> Digests]
  /\ Secret \subseteq Digests
  /\ Size \in [Digests -> Nat]
  /\ Queries \subseteq Digests \cup Aliases
  /\ Refusals \subseteq {"disabled", "not_allowed"}
  /\ Protections \subseteq BOOLEAN
  /\ TTL \in Nat \ {0}
  /\ MaxEntries \in Nat \ {0}
  /\ MaxBytes \in Nat
  /\ RecordFloor \in Nat
  /\ MaxTime \in Nat
  /\ IsFiniteSet(Digests) /\ IsFiniteSet(Aliases)

VARIABLES blob,      \* payload files: the text each holds, Garbage or Absent
          manifest,  \* manifest files
          alias,     \* alias files
          now,       \* time.time()
          pc,        \* per caller: the next file operation
          call,      \* per caller: arguments and what it read so far
          scan,      \* per caller: its pruning pass
          reply,     \* per caller: the LocalSourceResult it returned
          granted    \* history: latest expiry an exact manifest of d recorded

files == <<blob, manifest, alias>>
vars == <<blob, manifest, alias, now, pc, call, scan, reply, granted>>

Keys == Aliases \cup Digests
NoManifest == [state |-> "missing", created |-> 0, expires |-> 0, mtime |-> 0]
NoAlias == [target |-> Absent, mtime |-> 0]
NoCall == [key |-> Absent, digest |-> Absent, keep |-> "missing",
           existed |-> FALSE, observed |-> 0, asked |-> 0]
NoScan == [todo |-> {}, seen |-> [d \in Digests |-> NoManifest],
           victim |-> Absent, back |-> "idle", drop |-> {}]
Pending == [key |-> Absent, state |-> "pending", content |-> Absent]

Init ==
  /\ blob = [d \in Digests |-> Absent]
  /\ manifest = [d \in Digests |-> NoManifest]
  /\ alias = [a \in Aliases |-> NoAlias]
  /\ now = 0
  /\ pc = [p \in Procs |-> "idle"]
  /\ call = [p \in Procs |-> NoCall]
  /\ scan = [p \in Procs |-> NoScan]
  /\ reply = [p \in Procs |-> Pending]
  /\ granted = [d \in Digests |-> 0]

-----------------------------------------------------------------------------
(* Helpers.                                                                *)

Goto(p, label) == pc' = [pc EXCEPT ![p] = label]

\* The call returns: everything local to it is forgotten.
Return(p, state, content) ==
  /\ reply' = [reply EXCEPT ![p] =
                 [key |-> call[p].key, state |-> state, content |-> content]]
  /\ Goto(p, "idle")
  /\ call' = [call EXCEPT ![p] = NoCall]
  /\ scan' = [scan EXCEPT ![p] = NoScan]

Later(x, y) == IF x >= y THEN x ELSE y

\* Faulty variant: an entry that expires at this very reading is kept.
OverdueAfter(m, t) == m.expires < t
OverdueAt(m, t) == m.expires <= t
Stored(S) == {d \in S : manifest[d].state # "missing"}
\* The bytes of the texts of S, each counted.
Bytes(S) == Cardinality(UNION {{d} \X (1..Size[d]) : d \in S})
ExactSeen(p) == {d \in Digests : scan[p].seen[d].state = "exact"}

\* Both quotas hold for a set of exact entries.  Faulty variant: the entry just
\* written is left out, as if pruning came before the write.
WithinQuotaBeforeWrite(S) ==
  S = {} \/ \E d \in S : /\ Cardinality(S \ {d}) <= MaxEntries
                         /\ Bytes(S \ {d}) <= MaxBytes
WithinQuota(S) == Cardinality(S) <= MaxEntries /\ Bytes(S) <= MaxBytes

\* max(local_exact_max_entries * 2, 32)
RecordLimit == Later(2 * MaxEntries, RecordFloor)

\* T holds all but the newest RecordLimit files of S.  Faulty variant: it
\* spares one more.
AllButNewestOffByOne(T, S, mtime) ==
  /\ Cardinality(S \ T) <= RecordLimit + 1
  /\ T # {} => Cardinality(S \ T) = RecordLimit + 1
  /\ \A x \in T, y \in S \ T : mtime[x] <= mtime[y]
AllButNewest(T, S, mtime) ==
  /\ Cardinality(S \ T) <= RecordLimit
  /\ T # {} => Cardinality(S \ T) = RecordLimit
  /\ \A x \in T, y \in S \ T : mtime[x] <= mtime[y]

\* An entry pruned or found overdue: its manifest is kept as a tombstone.
\* Faulty variant: it is written back with its state unchanged.
TombstoneStillExact(m) == [m EXCEPT !.mtime = now]
Tombstone(m) == [m EXCEPT !.state = "expired", !.mtime = now]

-----------------------------------------------------------------------------
(* retain_local_source                                                     *)

RetainRefused(p) ==
  /\ pc[p] = "idle"
  /\ \E a \in Aliases, why \in Refusals :
       reply' = [reply EXCEPT ![p] =
                   [key |-> a, state |-> why, content |-> Absent]]
  /\ UNCHANGED <<files, now, pc, call, scan, granted>>

\* What may be written: protected text leaves only a tombstone.  Faulty
\* variant: the text itself is not looked at.
StateToKeepUnredacted(d, protected) ==
  IF protected THEN "redacted" ELSE "exact"
StateToKeep(d, protected) ==
  IF protected \/ d \in Secret THEN "redacted" ELSE "exact"

\* The clock moves between two retentions, so created_epoch is distinct.
RetainStart(p, a, protected) ==
  LET d == SourceOf[a]
      keep == StateToKeep(d, protected)
  IN /\ pc[p] = "idle"
     /\ now < MaxTime
     /\ Size[d] <= MaxBytes
     /\ now' = now + 1
     /\ call' = [call EXCEPT ![p] =
                   [key |-> a, digest |-> d, keep |-> keep,
                    existed |-> manifest[d].state # "missing",
                    observed |-> now', asked |-> now']]
     /\ reply' = [reply EXCEPT ![p] = Pending]
     /\ Goto(p, IF keep = "exact" THEN "put_blob" ELSE "put_manifest")
     /\ UNCHANGED <<files, scan, granted>>

PutBlob(p) ==
  /\ pc[p] = "put_blob"
  /\ blob' = [blob EXCEPT ![call[p].digest] = call[p].digest]
  /\ Goto(p, "put_manifest")
  /\ UNCHANGED <<manifest, alias, now, call, scan, reply, granted>>

PutManifest(p) ==
  LET d == call[p].digest
      expires == call[p].observed + TTL
  IN /\ pc[p] = "put_manifest"
     /\ manifest' = [manifest EXCEPT ![d] =
                       [state |-> call[p].keep, created |-> call[p].observed,
                        expires |-> expires, mtime |-> now]]
     /\ granted' = IF call[p].keep = "exact"
                     THEN [granted EXCEPT ![d] = Later(@, expires)]
                     ELSE granted
     /\ Goto(p, "put_alias")
     /\ UNCHANGED <<blob, alias, now, call, scan, reply>>

PutAlias(p) ==
  /\ pc[p] = "put_alias"
  /\ alias' = [alias EXCEPT ![call[p].key] =
                 [target |-> call[p].digest, mtime |-> now]]
  /\ Goto(p, "list")
  /\ UNCHANGED <<blob, manifest, now, call, scan, reply, granted>>

\* A write fails, or a file listed for sorting is gone before its stat:
\* the retention undoes what it believes to be its own.
RetainFails(p) ==
  /\ \/ /\ "put" \in Faults
        /\ pc[p] \in {"put_blob", "put_manifest", "put_alias"}
     \/ /\ "put" \in Faults \/ \E q \in Procs : q # p
        /\ \/ pc[p] = "scan" /\ scan[p].todo = {} /\ WithinQuota(ExactSeen(p))
           \/ pc[p] = "cull" /\ scan[p].todo = {}
  /\ Goto(p, "undo_alias")
  /\ scan' = [scan EXCEPT ![p] = NoScan]
  /\ UNCHANGED <<files, now, call, reply, granted>>

UndoAlias(p) ==
  /\ pc[p] = "undo_alias"
  /\ alias' = [alias EXCEPT ![call[p].key] = NoAlias]
  /\ \/ /\ call[p].existed
        /\ Return(p, "error", Absent)
     \/ /\ ~call[p].existed
        /\ Goto(p, "undo_blob")
        /\ UNCHANGED <<call, scan, reply>>
  /\ UNCHANGED <<blob, manifest, now, granted>>

UndoBlob(p) ==
  /\ pc[p] = "undo_blob"
  /\ blob' = [blob EXCEPT ![call[p].digest] = Absent]
  /\ Goto(p, "undo_manifest")
  /\ UNCHANGED <<manifest, alias, now, call, scan, reply, granted>>

UndoManifest(p) ==
  /\ pc[p] = "undo_manifest"
  /\ manifest' = [manifest EXCEPT ![call[p].digest] = NoManifest]
  /\ Return(p, "error", Absent)
  /\ UNCHANGED <<blob, alias, now, granted>>

\* The undo itself fails; a failing deletion of the payload is ignored.
UndoFails(p) ==
  /\ "undo" \in Faults
  /\ \/ /\ pc[p] \in {"undo_alias", "undo_manifest"}
        /\ Return(p, "error", Absent)
     \/ /\ pc[p] = "undo_blob"
        /\ Goto(p, "undo_manifest")
        /\ UNCHANGED <<call, scan, reply>>
  /\ UNCHANGED <<files, now, granted>>

-----------------------------------------------------------------------------
(* _expire_manifest: the payload goes first, then the manifest is replaced *)
(* by the tombstone of the copy read earlier.  Both ignore I/O errors.     *)

ExpireBlob(p) ==
  /\ pc[p] = "expire_blob"
  /\ \/ blob' = [blob EXCEPT ![scan[p].victim] = Absent]
     \/ "sweep" \in Faults /\ UNCHANGED blob
  /\ Goto(p, "expire_manifest")
  /\ UNCHANGED <<manifest, alias, now, call, scan, reply, granted>>

ExpireManifest(p) ==
  LET d == scan[p].victim IN
  /\ pc[p] = "expire_manifest"
  /\ \/ manifest' = [manifest EXCEPT ![d] = Tombstone(scan[p].seen[d])]
     \/ "sweep" \in Faults /\ UNCHANGED manifest
  /\ \/ /\ scan[p].back = "scan"
        /\ Goto(p, "scan")
        /\ scan' = [scan EXCEPT ![p].victim = Absent]
        /\ UNCHANGED <<call, reply>>
     \/ /\ scan[p].back = "reply"
        /\ Return(p, "expired", Absent)
  /\ UNCHANGED <<blob, alias, now, granted>>

\* Caller p sets out to expire d, of which it read manifest m.
Expire(p, d, m, back, todo) ==
  /\ scan' = [scan EXCEPT ![p].seen[d] = Tombstone(m),
                          ![p].victim = d,
                          ![p].back = back,
                          ![p].todo = todo]
  /\ Goto(p, "expire_blob")

-----------------------------------------------------------------------------
(* _prune                                                                  *)

ListManifests(p) ==
  /\ pc[p] = "list"
  /\ scan' = [scan EXCEPT ![p].todo = Stored(Digests)]
  /\ Goto(p, "scan")
  /\ UNCHANGED <<files, now, call, reply, granted>>

\* One listed manifest is read; an exact one that is overdue is expired.
ReadListed(p, d) ==
  /\ pc[p] = "scan"
  /\ d \in scan[p].todo
  /\ IF manifest[d].state = "exact" /\ OverdueAt(manifest[d], call[p].observed)
       THEN Expire(p, d, manifest[d], "scan", scan[p].todo \ {d})
       ELSE /\ scan' = [scan EXCEPT ![p].seen[d] = manifest[d],
                                    ![p].todo = @ \ {d}]
            /\ UNCHANGED pc
  /\ UNCHANGED <<files, now, call, reply, granted>>

\* The next to go is the one created first.  Faulty variant: the newest.
EvictsAfter(m, n) == m.created >= n.created
EvictsBefore(m, n) == m.created <= n.created

EvictOldest(p, d) ==
  /\ pc[p] = "scan"
  /\ scan[p].todo = {}
  /\ ~WithinQuota(ExactSeen(p))
  /\ d \in ExactSeen(p)
  /\ \A e \in ExactSeen(p) : EvictsBefore(scan[p].seen[d], scan[p].seen[e])
  /\ Expire(p, d, scan[p].seen[d], "scan", {})
  /\ UNCHANGED <<files, now, call, reply, granted>>

\* Quotas met: list the manifests again, oldest write first.
ListRecords(p) ==
  /\ pc[p] = "scan"
  /\ scan[p].todo = {}
  /\ WithinQuota(ExactSeen(p))
  /\ \E T \in SUBSET Stored(Digests) :
       /\ AllButNewest(T, Stored(Digests),
                       [d \in Digests |-> manifest[d].mtime])
       /\ scan' = [scan EXCEPT ![p].todo = T]
  /\ Goto(p, "cull")
  /\ UNCHANGED <<files, now, call, reply, granted>>

\* Only what is not exact may be culled.
Culls(m) == m.state \notin {"exact", "missing"}

ReadRecord(p, d) ==
  /\ pc[p] = "cull"
  /\ d \in scan[p].todo
  /\ scan' = [scan EXCEPT ![p].todo = @ \ {d},
                          ![p].victim = IF Culls(manifest[d]) THEN d ELSE Absent]
  /\ Goto(p, IF Culls(manifest[d]) THEN "unlink_record" ELSE "cull")
  /\ UNCHANGED <<files, now, call, reply, granted>>

UnlinkRecord(p) ==
  /\ pc[p] = "unlink_record"
  /\ \/ manifest' = [manifest EXCEPT ![scan[p].victim] = NoManifest]
     \/ "sweep" \in Faults /\ UNCHANGED manifest
  /\ scan' = [scan EXCEPT ![p].victim = Absent]
  /\ Goto(p, "cull")
  /\ UNCHANGED <<blob, alias, now, call, reply, granted>>

ListAliases(p) ==
  LET S == {a \in Aliases : alias[a].target # Absent} IN
  /\ pc[p] = "cull"
  /\ scan[p].todo = {}
  /\ \E T \in SUBSET S :
       /\ AllButNewest(T, S, [a \in Aliases |-> alias[a].mtime])
       /\ scan' = [scan EXCEPT ![p].drop = T]
  /\ Goto(p, "drop_aliases")
  /\ UNCHANGED <<files, now, call, reply, granted>>

\* The aliases listed are unlinked without another look; the call returns.
DropAliases(p) ==
  /\ pc[p] = "drop_aliases"
  /\ \E T \in SUBSET scan[p].drop :
       /\ "sweep" \in Faults \/ T = scan[p].drop
       /\ alias' = [a \in Aliases |-> IF a \in T THEN NoAlias ELSE alias[a]]
  /\ Return(p, call[p].keep,
            IF call[p].keep = "exact" THEN call[p].digest ELSE Absent)
  /\ UNCHANGED <<blob, manifest, now, granted>>

-----------------------------------------------------------------------------
(* retrieve_local_source_result                                            *)

\* The text a key leads to: its alias file, else the key read as a digest.
Target(k) ==
  IF k \in Aliases THEN alias[k].target ELSE k

RetrieveStart(p, k) ==
  /\ pc[p] = "idle"
  /\ call' = [call EXCEPT ![p] = [NoCall EXCEPT !.key = k,
                                                !.digest = Target(k),
                                                !.asked = now]]
  /\ reply' = [reply EXCEPT ![p] = Pending]
  /\ Goto(p, "read_manifest")
  /\ UNCHANGED <<files, now, scan, granted>>

\* A manifest whose text may still be served at time t.
Servable(m, t) == m.state = "exact" /\ ~OverdueAt(m, t)

ReadManifest(p) ==
  LET d == call[p].digest
      m == IF d \in Digests THEN manifest[d] ELSE NoManifest
  IN /\ pc[p] = "read_manifest"
     /\ \/ /\ m.state \in {"missing", "expired"}
           /\ Return(p, m.state, Absent)
        \/ /\ m.state = "redacted" /\ ~OverdueAt(m, now)
           /\ Return(p, "redacted", Absent)
        \/ /\ m.state \in {"exact", "redacted"}
           /\ OverdueAt(m, now)
           /\ Expire(p, d, m, "reply", {})
           /\ UNCHANGED <<call, reply>>
        \/ /\ Servable(m, now)
           /\ Goto(p, "read_blob")
           /\ UNCHANGED <<call, scan, reply>>
     /\ UNCHANGED <<files, now, granted>>

\* Length and SHA-256 of the payload against the manifest.  Faulty variant:
\* any payload file will do.
VerifiedPresent(d, text) == text # Absent
Verified(d, text) == text = d

ReadBlob(p) ==
  LET text == blob[call[p].digest] IN
  /\ pc[p] = "read_blob"
  /\ IF Verified(call[p].digest, text)
       THEN Return(p, "exact", text)
       ELSE Return(p, "corrupt", Absent)
  /\ UNCHANGED <<files, now, granted>>

-----------------------------------------------------------------------------
(* The environment.                                                        *)

Tick ==
  /\ now < MaxTime
  /\ now' = now + 1
  /\ UNCHANGED <<files, pc, call, scan, reply, granted>>

Crash(p) ==
  /\ "crash" \in Faults
  /\ pc[p] # "idle"
  /\ Goto(p, "idle")
  /\ call' = [call EXCEPT ![p] = NoCall]
  /\ scan' = [scan EXCEPT ![p] = NoScan]
  /\ UNCHANGED <<files, now, reply, granted>>

Damage(d) ==
  /\ "damage" \in Faults
  /\ blob[d] # Absent
  /\ blob' = [blob EXCEPT ![d] = Garbage]
  /\ UNCHANGED <<manifest, alias, now, pc, call, scan, reply, granted>>

-----------------------------------------------------------------------------
RetainStep(p) ==
  \/ PutBlob(p) \/ PutManifest(p) \/ PutAlias(p)
  \/ RetainFails(p) \/ UndoAlias(p) \/ UndoBlob(p) \/ UndoManifest(p)
  \/ UndoFails(p)

PruneStep(p) ==
  \/ ListManifests(p) \/ ListRecords(p) \/ UnlinkRecord(p)
  \/ ListAliases(p) \/ DropAliases(p)
  \/ ExpireBlob(p) \/ ExpireManifest(p)
  \/ \E d \in Digests : ReadListed(p, d) \/ EvictOldest(p, d) \/ ReadRecord(p, d)

Step(p) == RetainStep(p) \/ PruneStep(p) \/ ReadManifest(p) \/ ReadBlob(p)

CallStart(p) ==
  \/ RetainRefused(p)
  \/ \E a \in Aliases, protected \in Protections : RetainStart(p, a, protected)
  \/ \E k \in Queries : RetrieveStart(p, k)

Next ==
  \/ \E p \in Procs : CallStart(p) \/ Step(p) \/ Crash(p)
  \/ Tick
  \/ \E d \in Digests : Damage(d)

Spec == Init /\ [][Next]_vars
FairSpec == Spec /\ \A p \in Procs : WF_vars(Step(p))
-----------------------------------------------------------------------------
(* Properties.                                                             *)

ManifestRecord ==
  [state : {"missing", "exact", "redacted", "expired"},
   created : Nat, expires : Nat, mtime : Nat]
Labels == {"idle", "put_blob", "put_manifest", "put_alias", "undo_alias",
           "undo_blob", "undo_manifest", "list", "scan", "cull",
           "unlink_record", "drop_aliases", "expire_blob", "expire_manifest",
           "read_manifest", "read_blob"}
CallRecord ==
  [key : Keys \cup {Absent}, digest : Digests \cup {Absent},
   keep : {"missing", "exact", "redacted"}, existed : BOOLEAN, observed : Nat,
   asked : Nat]
ScanRecord ==
  [todo : SUBSET Digests, seen : [Digests -> ManifestRecord],
   victim : Digests \cup {Absent}, back : {"idle", "scan", "reply"},
   drop : SUBSET Aliases]
ReplyRecord ==
  [key : Keys \cup {Absent},
   state : {"pending", "exact", "redacted", "expired", "missing", "corrupt",
            "disabled", "not_allowed", "error"},
   content : Digests \cup {Absent}]

\* Every file and every caller holds what the code can put there; a served
\* text is one of the retained texts, never a damaged payload.
TypeOK ==
  /\ blob \in [Digests -> Digests \cup {Absent, Garbage}]
  /\ manifest \in [Digests -> ManifestRecord]
  /\ alias \in [Aliases -> [target : Digests \cup {Absent}, mtime : Nat]]
  /\ now \in Nat
  /\ pc \in [Procs -> Labels]
  /\ call \in [Procs -> CallRecord]
  /\ scan \in [Procs -> ScanRecord]
  /\ reply \in [Procs -> ReplyRecord]
  /\ granted \in [Digests -> Nat]

\* The store, whatever its callers interleave and whatever fails, implements
\* the contract: retrieve_local_source_result answers exact only with the
\* text the key was issued for, which redaction leaves alone, and only if a
\* retention of it had not run out when the call was made.
Contract == INSTANCE ExactSourceContract
              WITH asked <- [p \in Procs |-> call[p].asked]
ImplementsContract == Contract!Spec

\* Text that redaction would change never reaches a payload file (line 254
\* decides, line 270 writes), whoever else uses the directory meanwhile.
SecretNeverStored == \A d \in Secret : blob[d] = Absent

AtRest == \A p \in Procs : pc[p] = "idle"
ExactEntries == {d \in Digests : manifest[d].state = "exact"}

\* Whenever no call is under way the exact entries are within both quotas,
\* although each pruning pass works from manifests it read one by one and
\* other callers add and expire entries meanwhile.
QuotaAtRest ==
  AtRest => Cardinality(ExactEntries) <= MaxEntries /\ Bytes(ExactEntries) <= MaxBytes

\* One caller at a time: between calls the exact answer it last got still
\* stands: the key leads to an exact manifest and a payload that verifies.
\* In particular the pass that follows a retention never evicts its entry.
Retrievable(k) ==
  LET d == Target(k) IN
  d \in Digests /\ manifest[d].state = "exact" /\ blob[d] = d
AnsweredIsRetrievable ==
  \A p \in Procs : pc[p] = "idle" /\ reply[p].state = "exact"
                     => Retrievable(reply[p].key)

\* One caller at a time: between calls an exact manifest always has its
\* payload, although expiry deletes the payload before the manifest, a
\* retention writes it before and one that fails takes both away.
EntryHasPayload == AtRest => \A d \in ExactEntries : blob[d] = d

\* One caller at a time: when a retention is about to return, no entry that
\* was overdue when it began is still exact.
SweptBeforeReply ==
  \A p \in Procs : pc[p] = "drop_aliases" =>
    \A d \in ExactEntries : manifest[d].expires > call[p].observed

\* One caller at a time: between calls the directory is bounded, aliases by the
\* record limit, manifests by it and the exact entries that culling passes over,
\* whether retentions succeed or fail.
RecordsBoundedAtRest ==
  AtRest =>
    /\ Cardinality(Stored(Digests)) <= RecordLimit + MaxEntries
    /\ Cardinality({a \in Aliases : alias[a].target # Absent}) <= RecordLimit

\* Every call returns: no pruning pass goes round for ever, although the
\* entries it evicts may be written again while it runs.
CallsReturn == \A p \in Procs : pc[p] # "idle" ~> pc[p] = "idle"

\* Said by INSTALL.md:140 and by
\* test_sensitive_payload_records_redacted_tombstone_without_blob: a
\* redacted entry is a tombstone only, there is no payload next to it.
RedactedHasNoPayload ==
  AtRest => \A d \in Digests : manifest[d].state = "redacted" => blob[d] = Absent
=============================================================================
