----------------------- MODULE LocalExactStoreProofs -----------------------
(***************************************************************************)
(* What holds of the local exact store for every number of callers, texts  *)
(* and faults.                                                             *)
(***************************************************************************)
EXTENDS LocalExactStore, FiniteSetTheorems, TLAPS

LEMMA LocalTypes ==
  /\ NoManifest \in ManifestRecord
  /\ NoCall \in CallRecord
  /\ NoScan \in ScanRecord
  /\ Pending \in ReplyRecord
  /\ NoAlias \in [target : Digests \cup {Absent}, mtime : Nat]
BY DEF NoManifest, NoCall, NoScan, Pending, NoAlias, ManifestRecord,
       CallRecord, ScanRecord, ReplyRecord

LEMMA InitType == Init => TypeOK
BY StoreAssumption, LocalTypes DEF Init, TypeOK, Labels

LEMMA ReturnType ==
  ASSUME TypeOK, NEW p \in Procs, NEW s, NEW c \in Digests \cup {Absent},
         Return(p, s, c),
         s \in {"exact", "redacted", "expired", "missing", "corrupt",
                "disabled", "not_allowed", "error"}
  PROVE  /\ reply' \in [Procs -> ReplyRecord]
         /\ pc' \in [Procs -> Labels]
         /\ call' \in [Procs -> CallRecord]
         /\ scan' \in [Procs -> ScanRecord]
<1>1. call[p].key \in Keys \cup {Absent}
  BY DEF TypeOK, CallRecord
<1>2. [key |-> call[p].key, state |-> s, content |-> c] \in ReplyRecord
  BY <1>1 DEF ReplyRecord
<1>. QED
  BY <1>2, LocalTypes DEF Return, Goto, TypeOK, Labels

LEMMA ExpireType ==
  ASSUME TypeOK, NEW p \in Procs, NEW d \in Digests, NEW m \in ManifestRecord,
         NEW b \in {"scan", "reply"}, NEW T \in SUBSET Digests,
         Expire(p, d, m, b, T)
  PROVE  scan' \in [Procs -> ScanRecord] /\ pc' \in [Procs -> Labels]
<1>1. Tombstone(m) \in ManifestRecord
  BY DEF Tombstone, ManifestRecord, TypeOK
<1>2. scan[p] \in ScanRecord
  BY DEF TypeOK
<1>3. scan'[p] \in ScanRecord /\ DOMAIN scan' = Procs
  BY <1>1, <1>2 DEF Expire, TypeOK, ScanRecord
<1>4. \A q \in Procs : q # p => scan'[q] = scan[q]
  BY DEF Expire, TypeOK
<1>. QED
  BY <1>3, <1>4 DEF Expire, Goto, TypeOK, Labels

LEMMA LaterType == \A x, y \in Nat : Later(x, y) \in Nat
BY DEF Later

LEMMA CallType == TypeOK => \A p \in Procs : call[p] \in CallRecord
BY DEF TypeOK

LEMMA ScanType == TypeOK => \A p \in Procs : scan[p] \in ScanRecord
BY DEF TypeOK

\* Only p's pruning pass changes, and it keeps its shape.
LEMMA ScanUpdate ==
  ASSUME TypeOK, NEW p \in Procs, NEW r \in ScanRecord,
         scan' = [scan EXCEPT ![p] = r]
  PROVE  scan' \in [Procs -> ScanRecord]
BY DEF TypeOK

LEMMA RetainType ==
  ASSUME TypeOK, NEW p \in Procs,
         RetainRefused(p) \/ (\E a \in Aliases, b \in Protections : RetainStart(p, a, b))
           \/ RetainStep(p)
  PROVE  TypeOK'
<1>. USE StoreAssumption
<1>1. CASE RetainRefused(p)
  BY <1>1 DEF RetainRefused, TypeOK, ReplyRecord, Keys, files
<1>2. CASE \E a \in Aliases, b \in Protections : RetainStart(p, a, b)
  <2>1. PICK a \in Aliases, b \in Protections : RetainStart(p, a, b)
    BY <1>2
  <2>2. call'[p] \in CallRecord
    BY <2>1 DEF RetainStart, CallRecord, StateToKeep, Keys, TypeOK
  <2>. QED
    BY <2>1, <2>2, LocalTypes
       DEF RetainStart, TypeOK, Goto, Labels, files
<1>3. CASE PutBlob(p)
  BY <1>3 DEF PutBlob, TypeOK, CallRecord, Goto, Labels
<1>4. CASE PutManifest(p)
  <2>1. /\ call[p].observed \in Nat
        /\ call[p].keep \in {"missing", "exact", "redacted"}
    BY DEF TypeOK, CallRecord
  <2>2. [state |-> call[p].keep, created |-> call[p].observed,
         expires |-> call[p].observed + TTL, mtime |-> now] \in ManifestRecord
    BY <2>1 DEF ManifestRecord, TypeOK
  <2>3. manifest' \in [Digests -> ManifestRecord]
    BY <1>4, <2>2 DEF PutManifest, TypeOK
  <2>4. granted' \in [Digests -> Nat]
    <3>1. call[p].observed + TTL \in Nat
      BY <2>1
    <3>2. \A d \in Digests : Later(granted[d], call[p].observed + TTL) \in Nat
      BY <3>1, LaterType DEF TypeOK
    <3>3. CASE UNCHANGED granted
      BY <3>3 DEF TypeOK
    <3>4. CASE granted' = [granted EXCEPT ![call[p].digest] =
                             Later(@, call[p].observed + TTL)]
      BY <3>2, <3>4 DEF TypeOK
    <3>. QED
      BY <1>4, <3>3, <3>4 DEF PutManifest
  <2>. QED
    BY <1>4, <2>3, <2>4 DEF PutManifest, TypeOK, Goto, Labels
<1>5. CASE PutAlias(p)
  BY <1>5 DEF PutAlias, TypeOK, CallRecord, Goto, Labels
<1>6. CASE RetainFails(p)
  BY <1>6, LocalTypes DEF RetainFails, TypeOK, Goto, Labels, files
<1>7. CASE UndoAlias(p)
  <2>1. alias' \in [Aliases -> [target : Digests \cup {Absent}, mtime : Nat]]
    BY <1>7, LocalTypes DEF UndoAlias, TypeOK
  <2>2. CASE Return(p, "error", Absent)
    BY <1>7, <2>1, <2>2, ReturnType DEF UndoAlias, TypeOK
  <2>3. CASE Goto(p, "undo_blob") /\ UNCHANGED <<call, scan, reply>>
    BY <1>7, <2>1, <2>3 DEF UndoAlias, TypeOK, Goto, Labels
  <2>. QED
    BY <1>7, <2>2, <2>3 DEF UndoAlias
<1>8. CASE UndoBlob(p)
  BY <1>8 DEF UndoBlob, TypeOK, Goto, Labels
<1>9. CASE UndoManifest(p)
  <2>1. manifest' \in [Digests -> ManifestRecord]
    BY <1>9, LocalTypes DEF UndoManifest, TypeOK
  <2>2. Return(p, "error", Absent)
    BY <1>9 DEF UndoManifest
  <2>. QED
    BY <1>9, <2>1, <2>2, ReturnType DEF UndoManifest, TypeOK
<1>10. CASE UndoFails(p)
  <2>1. CASE Return(p, "error", Absent)
    BY <1>10, <2>1, ReturnType DEF UndoFails, TypeOK, files
  <2>2. CASE Goto(p, "undo_manifest") /\ UNCHANGED <<call, scan, reply>>
    BY <1>10, <2>2 DEF UndoFails, TypeOK, files, Goto, Labels
  <2>. QED
    BY <1>10, <2>1, <2>2 DEF UndoFails
<1>. QED
  BY <1>1, <1>2, <1>3, <1>4, <1>5, <1>6, <1>7, <1>8, <1>9, <1>10 DEF RetainStep

LEMMA PruneType ==
  ASSUME TypeOK, NEW p \in Procs, PruneStep(p)
  PROVE  TypeOK'
<1>. USE StoreAssumption
<1>1. CASE ListManifests(p)
  <2>. DEFINE r == [scan[p] EXCEPT !.todo = Stored(Digests)]
  <2>1. r \in ScanRecord
    BY ScanType DEF ScanRecord, Stored
  <2>2. scan' = [scan EXCEPT ![p] = r]
    BY <1>1 DEF ListManifests, TypeOK
  <2>. QED
    BY <1>1, <2>1, <2>2, ScanUpdate DEF ListManifests, TypeOK, Goto, Labels, files
<1>2. CASE ListRecords(p)
  <2>0. PICK T \in SUBSET Stored(Digests) : scan' = [scan EXCEPT ![p].todo = T]
    BY <1>2 DEF ListRecords
  <2>. DEFINE r == [scan[p] EXCEPT !.todo = T]
  <2>a. r \in ScanRecord
    BY ScanType DEF ScanRecord, Stored
  <2>1. scan' \in [Procs -> ScanRecord]
    BY <2>0, <2>a, ScanUpdate DEF TypeOK
  <2>. QED
    BY <1>2, <2>1 DEF ListRecords, TypeOK, Goto, Labels, files
<1>3. CASE UnlinkRecord(p)
  <2>1. manifest' \in [Digests -> ManifestRecord]
    BY <1>3, LocalTypes DEF UnlinkRecord, TypeOK
  <2>. DEFINE r == [scan[p] EXCEPT !.victim = Absent]
  <2>a. r \in ScanRecord
    BY ScanType DEF ScanRecord
  <2>2. scan' \in [Procs -> ScanRecord]
    BY <1>3, <2>a, ScanUpdate DEF UnlinkRecord, TypeOK
  <2>. QED
    BY <1>3, <2>1, <2>2 DEF UnlinkRecord, TypeOK, Goto, Labels
<1>4. CASE ListAliases(p)
  <2>0. PICK T \in SUBSET Aliases : scan' = [scan EXCEPT ![p].drop = T]
    BY <1>4 DEF ListAliases
  <2>. DEFINE r == [scan[p] EXCEPT !.drop = T]
  <2>a. r \in ScanRecord
    BY ScanType DEF ScanRecord
  <2>1. scan' \in [Procs -> ScanRecord]
    BY <2>0, <2>a, ScanUpdate DEF TypeOK
  <2>. QED
    BY <1>4, <2>1 DEF ListAliases, TypeOK, Goto, Labels, files
<1>5. CASE DropAliases(p)
  <2>1. alias' \in [Aliases -> [target : Digests \cup {Absent}, mtime : Nat]]
    BY <1>5, LocalTypes DEF DropAliases, TypeOK
  <2>2. PICK c \in Digests \cup {Absent} : Return(p, call[p].keep, c)
    BY <1>5, CallType DEF DropAliases, CallRecord
  <2>3. call[p].keep \in {"missing", "exact", "redacted"}
    BY CallType DEF CallRecord
  <2>. QED
    BY <1>5, <2>1, <2>2, <2>3, ReturnType DEF DropAliases, TypeOK
<1>6. CASE ExpireBlob(p)
  BY <1>6 DEF ExpireBlob, TypeOK, Goto, Labels
<1>7. CASE ExpireManifest(p)
  <2>. DEFINE d == scan[p].victim
  <2>1. manifest' \in [Digests -> ManifestRecord]
    <3>1. d \in Digests => Tombstone(scan[p].seen[d]) \in ManifestRecord
      <4>1. d \in Digests => scan[p].seen[d] \in ManifestRecord
        BY ScanType DEF ScanRecord
      <4>. QED
        BY <4>1 DEF Tombstone, ManifestRecord, TypeOK
    <3>. QED
      BY <1>7, <3>1 DEF ExpireManifest, TypeOK
  <2>2. CASE Return(p, "expired", Absent)
    BY <1>7, <2>1, <2>2, ReturnType DEF ExpireManifest, TypeOK
  <2>3. CASE /\ Goto(p, "scan")
             /\ scan' = [scan EXCEPT ![p].victim = Absent]
             /\ UNCHANGED <<call, reply>>
    <3>. DEFINE r == [scan[p] EXCEPT !.victim = Absent]
    <3>a. r \in ScanRecord
      BY ScanType DEF ScanRecord
    <3>1. scan' \in [Procs -> ScanRecord]
      BY <2>3, <3>a, ScanUpdate DEF TypeOK
    <3>. QED
      BY <1>7, <2>1, <2>3, <3>1 DEF ExpireManifest, TypeOK, Goto, Labels
  <2>. QED
    BY <1>7, <2>2, <2>3 DEF ExpireManifest
<1>8. ASSUME NEW d \in Digests, ReadListed(p, d) PROVE TypeOK'
  <2>1. manifest[d] \in ManifestRecord /\ scan[p].todo \ {d} \in SUBSET Digests
    BY ScanType DEF TypeOK, ScanRecord
  <2>2. CASE Expire(p, d, manifest[d], "scan", scan[p].todo \ {d})
    <3>1. scan' \in [Procs -> ScanRecord] /\ pc' \in [Procs -> Labels]
      BY <2>1, <2>2, ExpireType
    <3>. QED
      BY <1>8, <3>1 DEF ReadListed, TypeOK, files
  <2>3. CASE /\ scan' = [scan EXCEPT ![p].seen[d] = manifest[d],
                                     ![p].todo = @ \ {d}]
             /\ UNCHANGED pc
    <3>. DEFINE r == [scan[p] EXCEPT !.seen[d] = manifest[d], !.todo = @ \ {d}]
    <3>a. r \in ScanRecord
      <4>1. scan[p] \in ScanRecord
        BY DEF TypeOK
      <4>2. [scan[p].seen EXCEPT ![d] = manifest[d]] \in [Digests -> ManifestRecord]
        BY <2>1, <4>1 DEF ScanRecord
      <4>. QED
        BY <2>1, <4>1, <4>2 DEF ScanRecord
    <3>b. scan' = [scan EXCEPT ![p] = r]
      BY <2>3 DEF TypeOK
    <3>1. scan' \in [Procs -> ScanRecord]
      BY <3>a, <3>b, ScanUpdate
    <3>. QED
      BY <1>8, <2>3, <3>1 DEF ReadListed, TypeOK, files
  <2>. QED
    BY <1>8, <2>2, <2>3 DEF ReadListed
<1>9. ASSUME NEW d \in Digests, EvictOldest(p, d) PROVE TypeOK'
  <2>1. scan[p].seen[d] \in ManifestRecord
    BY ScanType DEF ScanRecord
  <2>2. scan' \in [Procs -> ScanRecord] /\ pc' \in [Procs -> Labels]
    BY <1>9, <2>1, ExpireType DEF EvictOldest
  <2>. QED
    BY <1>9, <2>2 DEF EvictOldest, TypeOK, files
<1>10. ASSUME NEW d \in Digests, ReadRecord(p, d) PROVE TypeOK'
  <2>. DEFINE v == IF Culls(manifest[d]) THEN d ELSE Absent
              r == [scan[p] EXCEPT !.todo = @ \ {d}, !.victim = v]
  <2>a. r \in ScanRecord
    BY ScanType DEF ScanRecord
  <2>b. scan' = [scan EXCEPT ![p] = r]
    BY <1>10 DEF ReadRecord, TypeOK
  <2>1. scan' \in [Procs -> ScanRecord]
    BY <2>a, <2>b, ScanUpdate
  <2>. QED
    BY <1>10, <2>1 DEF ReadRecord, TypeOK, Goto, Labels, files
<1>. QED
  BY <1>1, <1>2, <1>3, <1>4, <1>5, <1>6, <1>7, <1>8, <1>9, <1>10 DEF PruneStep

LEMMA RetrieveType ==
  ASSUME TypeOK, NEW p \in Procs,
         (\E k \in Queries : RetrieveStart(p, k)) \/ ReadManifest(p) \/ ReadBlob(p)
  PROVE  TypeOK'
<1>. USE StoreAssumption
<1>1. CASE \E k \in Queries : RetrieveStart(p, k)
  <2>1. PICK k \in Keys : RetrieveStart(p, k)
    BY <1>1 DEF Keys
  <2>2. Target(k) \in Digests \cup {Absent}
    BY DEF Target, TypeOK, Keys
  <2>3. call' \in [Procs -> CallRecord]
    BY <2>1, <2>2 DEF RetrieveStart, TypeOK, CallRecord, NoCall
  <2>. QED
    BY <2>1, <2>3, LocalTypes DEF RetrieveStart, TypeOK, Goto, Labels, files
<1>2. CASE ReadManifest(p)
  <2>. DEFINE d == call[p].digest
              m == IF d \in Digests THEN manifest[d] ELSE NoManifest
  <2>1. m \in ManifestRecord
    BY LocalTypes DEF TypeOK
  <2>2. CASE m.state \in {"missing", "expired"} /\ Return(p, m.state, Absent)
    BY <1>2, <2>2, ReturnType DEF ReadManifest, TypeOK, files
  <2>3. CASE Return(p, "redacted", Absent)
    BY <1>2, <2>3, ReturnType DEF ReadManifest, TypeOK, files
  <2>4. CASE /\ m.state \in {"exact", "redacted"}
             /\ Expire(p, d, m, "reply", {})
             /\ UNCHANGED <<call, reply>>
    <3>1. d \in Digests
      BY <2>4 DEF NoManifest
    <3>2. scan' \in [Procs -> ScanRecord] /\ pc' \in [Procs -> Labels]
      BY <2>1, <2>4, <3>1, ExpireType
    <3>. QED
      BY <1>2, <2>4, <3>2 DEF ReadManifest, TypeOK, files
  <2>5. CASE Goto(p, "read_blob") /\ UNCHANGED <<call, scan, reply>>
    BY <1>2, <2>5 DEF ReadManifest, TypeOK, Goto, Labels, files
  <2>. QED
    BY <1>2, <2>2, <2>3, <2>4, <2>5 DEF ReadManifest
<1>3. CASE ReadBlob(p)
  <2>1. \/ call[p].digest \in Digests \cup {Absent} /\ Return(p, "exact", call[p].digest)
        \/ Return(p, "corrupt", Absent)
    BY <1>3, CallType DEF ReadBlob, Verified, CallRecord
  <2>. QED
    BY <1>3, <2>1, ReturnType DEF ReadBlob, TypeOK, files
<1>. QED
  BY <1>1, <1>2, <1>3

LEMMA NextType == TypeOK /\ [Next]_vars => TypeOK'
<1>. SUFFICES ASSUME TypeOK, [Next]_vars PROVE TypeOK'
  OBVIOUS
<1>1. ASSUME NEW p \in Procs, CallStart(p) \/ Step(p) PROVE TypeOK'
  BY <1>1, RetainType, PruneType, RetrieveType DEF CallStart, Step
<1>2. ASSUME NEW p \in Procs, Crash(p) PROVE TypeOK'
  BY <1>2, LocalTypes DEF Crash, TypeOK, Goto, Labels, files
<1>3. CASE Tick
  BY <1>3 DEF Tick, TypeOK, files
<1>4. ASSUME NEW d \in Digests, Damage(d) PROVE TypeOK'
  BY <1>4 DEF Damage, TypeOK
<1>5. CASE UNCHANGED vars
  BY <1>5 DEF vars, files, TypeOK
<1>. QED
  BY <1>1, <1>2, <1>3, <1>4, <1>5 DEF Next

\* Every file and every caller's local data keep their shape, for all callers
\* and whatever I/O errors, crashes and damage occur: no step writes or
\* answers anything but a retained text, Absent or (in a payload) Garbage.
THEOREM TypeCorrect == Spec => []TypeOK
BY InitType, NextType, PTL DEF Spec

-----------------------------------------------------------------------------
(* Redacted text and payload files.                                        *)

\* A caller about to write a payload has decided that it may.
SecretInv ==
  /\ SecretNeverStored
  /\ \A p \in Procs : pc[p] = "put_blob" => call[p].digest \notin Secret

\* No step but RetainStart leads to "put_blob", and the caller's digest stays.
LEMMA PutBlobReached ==
  ASSUME TypeOK, [Next]_vars, NEW p \in Procs, pc'[p] = "put_blob"
  PROVE  \/ \E a \in Aliases, b \in Protections : RetainStart(p, a, b)
         \/ pc[p] = "put_blob" /\ call'[p].digest = call[p].digest
<1>0. ASSUME NEW q \in Procs, CallStart(q)
      PROVE  \/ \E a \in Aliases, b \in Protections : RetainStart(p, a, b)
             \/ pc[p] = "put_blob" /\ call'[p].digest = call[p].digest
  <2>1. CASE RetainRefused(q)
    BY <2>1 DEF RetainRefused
  <2>2. ASSUME NEW k \in Queries, RetrieveStart(q, k)
        PROVE  pc[p] = "put_blob" /\ call'[p].digest = call[p].digest
    BY <2>2 DEF RetrieveStart, Goto, TypeOK
  <2>3. ASSUME NEW a \in Aliases, NEW b \in Protections, RetainStart(q, a, b), q # p
        PROVE  pc[p] = "put_blob" /\ call'[p].digest = call[p].digest
    <3>1. pc'[p] = pc[p] /\ call'[p] = call[p]
      BY <2>3 DEF RetainStart, Goto, TypeOK
    <3>. QED
      BY <3>1
  <2>. QED
    BY <1>0, <2>1, <2>2, <2>3 DEF CallStart
<1>1. ASSUME NEW q \in Procs, RetainStep(q)
      PROVE  pc[p] = "put_blob" /\ call'[p].digest = call[p].digest
  BY <1>1
     DEF RetainStep, PutBlob, PutManifest, PutAlias, RetainFails, UndoAlias,
         UndoBlob, UndoManifest, UndoFails, Return, Goto, TypeOK
<1>2. ASSUME NEW q \in Procs, PruneStep(q) \/ ReadManifest(q) \/ ReadBlob(q) \/ Crash(q)
      PROVE  pc[p] = "put_blob" /\ call'[p].digest = call[p].digest
  BY <1>2
     DEF PruneStep, ListManifests, ListRecords, UnlinkRecord, ListAliases,
         DropAliases, ExpireBlob, ExpireManifest, ReadListed, EvictOldest,
         ReadRecord, ReadManifest, ReadBlob, Crash, Expire, Return, Goto, TypeOK
<1>3. CASE Tick \/ (\E d \in Digests : Damage(d)) \/ UNCHANGED vars
  BY <1>3 DEF Tick, Damage, vars
<1>. QED
  BY <1>0, <1>1, <1>2, <1>3 DEF Next, Step

\* Only PutBlob and Damage put anything into a payload file.
LEMMA PayloadWritten ==
  ASSUME TypeOK, [Next]_vars, NEW d \in Digests, blob[d] = Absent, blob'[d] # Absent
  PROVE  \E p \in Procs : pc[p] = "put_blob" /\ call[p].digest = d
<1>1. ASSUME NEW q \in Procs, CallStart(q) \/ RetainStep(q) \/ Crash(q)
      PROVE  \E p \in Procs : pc[p] = "put_blob" /\ call[p].digest = d
  BY <1>1
     DEF CallStart, RetainStep, RetainRefused, RetainStart, RetrieveStart,
         PutBlob, PutManifest, PutAlias, RetainFails, UndoAlias, UndoBlob,
         UndoManifest, UndoFails, Crash, TypeOK, files
<1>2. ASSUME NEW q \in Procs, PruneStep(q) \/ ReadManifest(q) \/ ReadBlob(q)
      PROVE  FALSE
  BY <1>2
     DEF PruneStep, ListManifests, ListRecords, UnlinkRecord, ListAliases,
         DropAliases, ExpireBlob, ExpireManifest, ReadListed, EvictOldest,
         ReadRecord, ReadManifest, ReadBlob, TypeOK, files
<1>3. CASE Tick \/ (\E e \in Digests : Damage(e)) \/ UNCHANGED vars
  BY <1>3 DEF Tick, Damage, vars, files, TypeOK
<1>. QED
  BY <1>1, <1>2, <1>3 DEF Next, Step

LEMMA SecretStep == TypeOK /\ SecretInv /\ [Next]_vars => SecretInv'
<1>. SUFFICES ASSUME TypeOK, SecretInv, [Next]_vars PROVE SecretInv'
  OBVIOUS
<1>1. SecretNeverStored'
  BY PayloadWritten, StoreAssumption DEF SecretInv, SecretNeverStored
<1>2. ASSUME NEW p \in Procs, pc'[p] = "put_blob"
      PROVE  call'[p].digest \notin Secret
  <2>1. CASE \E a \in Aliases, b \in Protections : RetainStart(p, a, b)
    BY <1>2, <2>1 DEF RetainStart, StateToKeep, Goto, TypeOK
  <2>2. CASE pc[p] = "put_blob" /\ call'[p].digest = call[p].digest
    BY <2>2 DEF SecretInv
  <2>. QED
    BY <1>2, <2>1, <2>2, PutBlobReached
<1>. QED
  BY <1>1, <1>2 DEF SecretInv

\* Whatever callers interleave, fail or crash, no text that redaction would
\* change is ever in a payload file.
THEOREM SecretsStayOut == Spec => []SecretNeverStored
<1>1. Init => SecretInv
  BY StoreAssumption DEF Init, SecretInv, SecretNeverStored
<1>. QED
  BY <1>1, SecretStep, TypeCorrect, PTL DEF Spec, SecretInv

-----------------------------------------------------------------------------
(* The contract of the exact store.                                        *)

\* Where a retention is once its manifest is written.
Written == {"put_alias", "list", "scan", "cull", "unlink_record",
            "drop_aliases", "expire_blob", "expire_manifest"}

\* An alias file leads to the text it was issued for, and an exact manifest
\* never outlasts what was granted.
FilesInv ==
  /\ \A a \in Aliases : alias[a].target \in {SourceOf[a], Absent}
  /\ \A d \in Digests : manifest[d].state = "exact" =>
       d \notin Secret /\ manifest[d].expires <= granted[d]

\* The text of d is one that an exact answer to p may carry.
MayAnswer(p, d) ==
  d \in Digests \ Secret /\ call[p].asked < granted[d]

CallInv(p) ==
  /\ call[p].asked <= now
  /\ pc[p] = "idle" => call[p] = NoCall
  /\ pc[p] # "idle" =>
       /\ call[p].key \in Keys
       /\ call[p].digest \in {Contract!Named(call[p].key), Absent}
  /\ call[p].keep = "exact" =>
       /\ call[p].digest \in Digests \ Secret
       /\ call[p].asked <= call[p].observed
  /\ pc[p] = "put_blob" => call[p].keep = "exact"
  /\ pc[p] = "read_manifest" => call[p].keep = "missing"
  /\ pc[p] \in Written /\ call[p].keep = "exact" => MayAnswer(p, call[p].digest)
  /\ pc[p] = "read_blob" => MayAnswer(p, call[p].digest)

ContractInv == FilesInv /\ \A p \in Procs : CallInv(p)

\* Time and grants only grow.
LEMMA Monotone ==
  ASSUME TypeOK, [Next]_vars
  PROVE  now' >= now /\ \A d \in Digests : granted'[d] >= granted[d]
<1>1. ASSUME NEW p \in Procs, PutManifest(p)
      PROVE  now' >= now /\ \A d \in Digests : granted'[d] >= granted[d]
  <2>1. call[p].observed + TTL \in Nat
    BY CallType, StoreAssumption DEF CallRecord
  <2>2. \A d \in Digests : granted[d] \in Nat
          /\ Later(granted[d], call[p].observed + TTL) >= granted[d]
    BY <2>1 DEF TypeOK, Later
  <2>3. now \in Nat /\ now' = now
    BY <1>1 DEF PutManifest, TypeOK
  <2>4. \A d \in Digests :
          granted'[d] \in {granted[d], Later(granted[d], call[p].observed + TTL)}
    BY <1>1 DEF PutManifest, TypeOK
  <2>. QED
    BY <2>2, <2>3, <2>4
<1>2. CASE UNCHANGED granted /\ now' \in {now, now + 1}
  BY <1>2 DEF TypeOK
<1>3. ASSUME NEW p \in Procs, CallStart(p) \/ Step(p) \/ Crash(p), ~PutManifest(p)
      PROVE  UNCHANGED granted /\ now' \in {now, now + 1}
  BY <1>3 DEF CallStart, Step, RetainStep, PruneStep, RetainRefused, RetainStart,
         RetrieveStart, PutBlob, PutAlias, RetainFails, UndoAlias, UndoBlob,
         UndoManifest, UndoFails, ListManifests, ListRecords, UnlinkRecord,
         ListAliases, DropAliases, ExpireBlob, ExpireManifest, ReadListed,
         EvictOldest, ReadRecord, ReadManifest, ReadBlob, Crash
<1>4. CASE Tick \/ (\E d \in Digests : Damage(d)) \/ UNCHANGED vars
  BY <1>2, <1>4 DEF Tick, Damage, vars
<1>. QED
  BY <1>1, <1>2, <1>3, <1>4 DEF Next

\* A step of p changes nothing of another caller.
LEMMA OthersStay ==
  ASSUME TypeOK, NEW p \in Procs, CallStart(p) \/ Step(p) \/ Crash(p),
         NEW q \in Procs, q # p
  PROVE  call'[q] = call[q] /\ pc'[q] = pc[q]
<1>1. CASE CallStart(p) \/ Crash(p)
  <2>1. ASSUME NEW a \in Aliases, NEW b \in Protections, RetainStart(p, a, b)
        PROVE  call'[q] = call[q] /\ pc'[q] = pc[q]
    BY <2>1 DEF RetainStart, Goto, TypeOK
  <2>. QED
    BY <1>1, <2>1 DEF CallStart, RetainRefused, RetrieveStart, Crash, Goto, TypeOK
<1>2. CASE RetainStep(p)
  BY <1>2 DEF RetainStep, PutBlob, PutManifest, PutAlias, RetainFails, UndoAlias,
         UndoBlob, UndoManifest, UndoFails, Return, Goto, TypeOK
<1>3. CASE PruneStep(p) \/ ReadManifest(p) \/ ReadBlob(p)
  BY <1>3 DEF PruneStep, ListManifests, ListRecords, UnlinkRecord, ListAliases,
         DropAliases, ExpireBlob, ExpireManifest, ReadListed, EvictOldest,
         ReadRecord, ReadManifest, ReadBlob, Expire, Return, Goto, TypeOK
<1>. QED
  BY <1>1, <1>2, <1>3 DEF Step

\* What holds of a caller that does not move goes on holding.
LEMMA StayingInv ==
  ASSUME TypeOK, [Next]_vars, NEW q \in Procs, CallInv(q),
         call'[q] = call[q], pc'[q] = pc[q]
  PROVE  CallInv(q)'
<1>1. /\ now' >= now /\ now' \in Nat /\ now \in Nat
      /\ call[q].asked \in Nat
      /\ \A d \in Digests : granted'[d] >= granted[d]
                            /\ granted'[d] \in Nat /\ granted[d] \in Nat
  BY Monotone, NextType DEF TypeOK, CallRecord
<1>2. \A d \in Digests : MayAnswer(q, d) => MayAnswer(q, d)'
  BY <1>1 DEF MayAnswer
<1>3. \A d : MayAnswer(q, d) => d \in Digests
  BY DEF MayAnswer
<1>. QED
  BY <1>1, <1>2, <1>3 DEF CallInv, Written

\* A caller that goes on with the same call.
LEMMA AdvancingInv ==
  ASSUME TypeOK, [Next]_vars, NEW q \in Procs, CallInv(q),
         call'[q] = call[q], pc[q] # "idle",
         pc'[q] \notin {"idle", "put_blob", "read_manifest", "read_blob"},
         pc'[q] \in Written /\ call[q].keep = "exact" =>
           pc[q] \in Written \/ MayAnswer(q, call[q].digest)'
  PROVE  CallInv(q)'
<1>1. /\ now' >= now /\ now' \in Nat /\ now \in Nat
      /\ call[q].asked \in Nat
      /\ \A d \in Digests : granted'[d] >= granted[d]
                            /\ granted'[d] \in Nat /\ granted[d] \in Nat
  BY Monotone, NextType DEF TypeOK, CallRecord
<1>2. \A d \in Digests : MayAnswer(q, d) => MayAnswer(q, d)'
  BY <1>1 DEF MayAnswer
<1>3. pc'[q] \in Written /\ call'[q].keep = "exact" => MayAnswer(q, call[q].digest)'
  BY <1>2 DEF CallInv
<1>. QED
  BY <1>1, <1>3 DEF CallInv

\* A caller whose call is over.
LEMMA EndingInv ==
  ASSUME TypeOK, [Next]_vars, NEW q \in Procs, call'[q] = NoCall, pc'[q] = "idle"
  PROVE  CallInv(q)'
<1>1. now' \in Nat
  BY NextType DEF TypeOK
<1>. QED
  BY <1>1 DEF CallInv, NoCall, Written

LEMMA FilesStep == TypeOK /\ ContractInv /\ [Next]_vars => FilesInv'
<1>. SUFFICES ASSUME TypeOK, ContractInv, [Next]_vars PROVE FilesInv'
  OBVIOUS
<1>1. ASSUME NEW a \in Aliases PROVE alias'[a].target \in {SourceOf[a], Absent}
  <2>1. ASSUME NEW p \in Procs, PutAlias(p)
        PROVE  alias'[a].target \in {SourceOf[a], Absent}
    <3>1. call[p].key = a => call[p].digest \in {SourceOf[a], Absent}
      <4>1. CallInv(p) /\ pc[p] = "put_alias"
        BY <2>1 DEF ContractInv, PutAlias
      <4>. QED
        BY <4>1 DEF CallInv, Contract!Named
    <3>2. CASE call[p].key # a
      <4>1. alias'[a] = alias[a]
        BY <2>1, <3>2 DEF PutAlias, TypeOK
      <4>. QED
        BY <4>1 DEF ContractInv, FilesInv
    <3>3. CASE call[p].key = a
      <4>1. alias'[a].target = call[p].digest
        BY <2>1, <3>3 DEF PutAlias, TypeOK
      <4>. QED
        BY <3>1, <3>3, <4>1
    <3>. QED
      BY <3>2, <3>3
  <2>2. CASE \E p \in Procs : UndoAlias(p) \/ DropAliases(p)
    BY <2>2 DEF UndoAlias, DropAliases, TypeOK, NoAlias, ContractInv, FilesInv
  <2>3. CASE UNCHANGED alias
    BY <2>3 DEF ContractInv, FilesInv
  <2>4. ASSUME NEW p \in Procs, CallStart(p) \/ Step(p) \/ Crash(p),
               ~(PutAlias(p) \/ UndoAlias(p) \/ DropAliases(p))
        PROVE  UNCHANGED alias
    BY <2>4 DEF CallStart, Step, RetainStep, PruneStep, RetainRefused,
         RetainStart, RetrieveStart, PutBlob, PutManifest, RetainFails,
         UndoBlob, UndoManifest, UndoFails, ListManifests, ListRecords,
         UnlinkRecord, ListAliases, ExpireBlob, ExpireManifest, ReadListed,
         EvictOldest, ReadRecord, ReadManifest, ReadBlob, Crash, files
  <2>5. Tick \/ (\E d \in Digests : Damage(d)) \/ UNCHANGED vars => UNCHANGED alias
    BY DEF Tick, Damage, vars, files
  <2>. QED
    BY <2>1, <2>2, <2>3, <2>4, <2>5 DEF Next
<1>2. ASSUME NEW d \in Digests, manifest'[d].state = "exact"
      PROVE  d \notin Secret /\ manifest'[d].expires <= granted'[d]
  <2>1. manifest'[d] = manifest[d] => d \notin Secret /\ manifest'[d].expires <= granted'[d]
    <3>1. /\ manifest[d].expires \in Nat /\ granted[d] \in Nat
          /\ granted'[d] \in Nat /\ granted'[d] >= granted[d]
      BY Monotone, NextType DEF TypeOK, ManifestRecord
    <3>. QED
      BY <1>2, <3>1 DEF ContractInv, FilesInv
  <2>2. ASSUME NEW p \in Procs, PutManifest(p), call[p].digest = d
        PROVE  d \notin Secret /\ manifest'[d].expires <= granted'[d]
    <3>1. /\ manifest'[d].state = call[p].keep
          /\ manifest'[d].expires = call[p].observed + TTL
      BY <2>2 DEF PutManifest, TypeOK
    <3>2. granted'[d] = Later(granted[d], call[p].observed + TTL)
      BY <1>2, <2>2, <3>1 DEF PutManifest, TypeOK
    <3>3. call[p].observed + TTL \in Nat /\ granted[d] \in Nat
      BY CallType, StoreAssumption DEF TypeOK, CallRecord
    <3>4. d \notin Secret
      BY <1>2, <2>2, <3>1 DEF ContractInv, CallInv
    <3>. QED
      BY <3>1, <3>2, <3>3, <3>4 DEF Later
  <2>3. ASSUME NEW p \in Procs, PutManifest(p), call[p].digest # d
        PROVE  manifest'[d] = manifest[d]
    BY <2>3 DEF PutManifest, TypeOK
  <2>4. ASSUME NEW p \in Procs, UndoManifest(p) \/ ExpireManifest(p) \/ UnlinkRecord(p)
        PROVE  manifest'[d] = manifest[d]
    <3>1. manifest'[d] # manifest[d] => manifest'[d].state \in {"missing", "expired"}
      <4>1. CASE UndoManifest(p) \/ UnlinkRecord(p)
        BY <4>1 DEF UndoManifest, UnlinkRecord, NoManifest, TypeOK
      <4>2. CASE ExpireManifest(p)
        <5>1. d = scan[p].victim => Tombstone(scan[p].seen[d]).state = "expired"
          <6>1. scan[p].seen[d] \in ManifestRecord
            BY ScanType DEF ScanRecord
          <6>. QED
            BY <6>1 DEF Tombstone, ManifestRecord
        <5>. QED
          BY <4>2, <5>1 DEF ExpireManifest, TypeOK
      <4>. QED
        BY <2>4, <4>1, <4>2
    <3>. QED
      BY <1>2, <3>1
  <2>5. ASSUME NEW p \in Procs, CallStart(p) \/ Step(p) \/ Crash(p),
               ~(PutManifest(p) \/ UndoManifest(p) \/ ExpireManifest(p) \/ UnlinkRecord(p))
        PROVE  manifest'[d] = manifest[d]
    BY <2>5 DEF CallStart, Step, RetainStep, PruneStep, RetainRefused,
         RetainStart, RetrieveStart, PutBlob, PutAlias, RetainFails, UndoAlias,
         UndoBlob, UndoFails, ListManifests, ListRecords, ListAliases,
         DropAliases, ExpireBlob, ReadListed, EvictOldest, ReadRecord,
         ReadManifest, ReadBlob, Crash, files
  <2>6. Tick \/ (\E e \in Digests : Damage(e)) \/ UNCHANGED vars
          => manifest'[d] = manifest[d]
    BY DEF Tick, Damage, vars, files
  <2>. QED
    BY <2>1, <2>2, <2>3, <2>4, <2>5, <2>6 DEF Next
<1>. QED
  BY <1>1, <1>2 DEF FilesInv

LEMMA StartInv ==
  ASSUME TypeOK, ContractInv, [Next]_vars, NEW p \in Procs, CallStart(p)
  PROVE  CallInv(p)'
<1>. USE StoreAssumption
<1>0. CallInv(p) /\ FilesInv /\ now \in Nat /\ now' \in Nat
  BY NextType DEF ContractInv, TypeOK
<1>1. CASE RetainRefused(p)
  BY <1>0, <1>1, StayingInv DEF RetainRefused
<1>2. ASSUME NEW a \in Aliases, NEW b \in Protections, RetainStart(p, a, b)
      PROVE  CallInv(p)'
  <2>1. /\ call'[p].key = a
        /\ call'[p].digest = SourceOf[a]
        /\ call'[p].keep = StateToKeep(SourceOf[a], b)
        /\ call'[p].observed = now' /\ call'[p].asked = now'
        /\ pc'[p] = IF StateToKeep(SourceOf[a], b) = "exact"
                      THEN "put_blob" ELSE "put_manifest"
    BY <1>2 DEF RetainStart, Goto, TypeOK
  <2>2. /\ a \in Keys /\ Contract!Named(a) = SourceOf[a]
        /\ SourceOf[a] \in Digests
        /\ StateToKeep(SourceOf[a], b) = "exact" => SourceOf[a] \notin Secret
    BY DEF Keys, Contract!Named, StateToKeep
  <2>. QED
    BY <1>0, <2>1, <2>2 DEF CallInv, Written
<1>3. ASSUME NEW k \in Queries, RetrieveStart(p, k)
      PROVE  CallInv(p)'
  <2>1. /\ call'[p] = [NoCall EXCEPT !.key = k, !.digest = Target(k), !.asked = now]
        /\ pc'[p] = "read_manifest" /\ now' = now
    BY <1>3 DEF RetrieveStart, Goto, TypeOK
  <2>2. /\ call'[p].key = k /\ call'[p].digest = Target(k)
        /\ call'[p].asked = now /\ call'[p].keep = "missing"
    BY <2>1 DEF NoCall
  <2>3. k \in Keys /\ Target(k) \in {Contract!Named(k), Absent}
    BY <1>0 DEF Keys, Target, Contract!Named, FilesInv
  <2>. QED
    BY <1>0, <2>1, <2>2, <2>3 DEF CallInv, Written
<1>. QED
  BY <1>1, <1>2, <1>3 DEF CallStart

LEMMA RetainInv ==
  ASSUME TypeOK, ContractInv, [Next]_vars, NEW p \in Procs, RetainStep(p)
  PROVE  CallInv(p)'
<1>0. CallInv(p) /\ pc[p] \in Labels /\ pc \in [Procs -> Labels]
  BY DEF ContractInv, TypeOK
<1>. USE DEF Goto
<1>1. CASE PutBlob(p) \/ PutAlias(p) \/ RetainFails(p)
  <2>1. /\ call'[p] = call[p] /\ pc[p] # "idle"
        /\ pc'[p] \in {"put_manifest", "list", "undo_alias"}
        /\ pc'[p] = "list" => pc[p] = "put_alias"
    BY <1>0, <1>1 DEF PutBlob, PutAlias, RetainFails
  <2>. QED
    BY <1>0, <2>1, AdvancingInv DEF Written
<1>2. CASE PutManifest(p)
  <2>1. call'[p] = call[p] /\ pc[p] = "put_manifest" /\ pc'[p] = "put_alias"
    BY <1>0, <1>2 DEF PutManifest
  <2>2. ASSUME call[p].keep = "exact" PROVE MayAnswer(p, call[p].digest)'
    <3>1. /\ call[p].digest \in Digests \ Secret
          /\ call[p].asked <= call[p].observed
      BY <1>0, <2>2 DEF CallInv
    <3>2. granted'[call[p].digest]
            = Later(granted[call[p].digest], call[p].observed + TTL)
      BY <1>2, <2>2, <3>1 DEF PutManifest, TypeOK
    <3>3. /\ call[p].observed \in Nat /\ call[p].asked \in Nat /\ TTL \in Nat \ {0}
          /\ granted[call[p].digest] \in Nat
      BY <3>1, CallType, StoreAssumption DEF TypeOK, CallRecord
    <3>4. call[p].asked < granted'[call[p].digest]
      BY <3>1, <3>2, <3>3 DEF Later
    <3>. QED
      BY <2>1, <3>1, <3>4 DEF MayAnswer
  <2>3. call'[p].digest = call[p].digest
    BY <2>1
  <2>. QED
    BY <1>0, <2>1, <2>2, AdvancingInv DEF Written
<1>3. CASE UndoAlias(p) \/ UndoBlob(p) \/ UndoManifest(p) \/ UndoFails(p)
  <2>1. \/ call'[p] = NoCall /\ pc'[p] = "idle"
        \/ /\ call'[p] = call[p] /\ pc[p] # "idle"
           /\ pc'[p] \in {"undo_blob", "undo_manifest"}
    BY <1>0, <1>3 DEF UndoAlias, UndoBlob, UndoManifest, UndoFails, Return, TypeOK
  <2>. QED
    BY <1>0, <2>1, AdvancingInv, EndingInv DEF Written
<1>. QED
  BY <1>1, <1>2, <1>3 DEF RetainStep

LEMMA PruneInv ==
  ASSUME TypeOK, ContractInv, [Next]_vars, NEW p \in Procs, PruneStep(p)
  PROVE  CallInv(p)'
<1>0. CallInv(p) /\ pc \in [Procs -> Labels]
  BY DEF ContractInv, TypeOK
<1>1. CASE DropAliases(p)
  BY <1>1, EndingInv DEF DropAliases, Return, Goto, TypeOK
<1>2. CASE ExpireManifest(p)
  <2>1. \/ call'[p] = NoCall /\ pc'[p] = "idle"
        \/ call'[p] = call[p] /\ pc[p] = "expire_manifest" /\ pc'[p] = "scan"
    BY <1>2 DEF ExpireManifest, Return, Goto, TypeOK
  <2>. QED
    BY <1>0, <2>1, AdvancingInv, EndingInv DEF Written
<1>3. CASE ~DropAliases(p) /\ ~ExpireManifest(p)
  <2>1. /\ call'[p] = call[p] /\ pc[p] \in Written /\ pc'[p] \in Written
    BY <1>0, <1>3
       DEF PruneStep, ListManifests, ListRecords, UnlinkRecord, ListAliases,
           ExpireBlob, ReadListed, EvictOldest, ReadRecord, Expire, Goto, Written
  <2>. QED
    BY <1>0, <2>1, AdvancingInv DEF Written
<1>. QED
  BY <1>1, <1>2, <1>3

LEMMA RetrieveInv ==
  ASSUME TypeOK, ContractInv, [Next]_vars, NEW p \in Procs,
         ReadManifest(p) \/ ReadBlob(p)
  PROVE  CallInv(p)'
<1>0. CallInv(p) /\ FilesInv /\ pc \in [Procs -> Labels]
  BY DEF ContractInv, TypeOK
<1>1. CASE ReadBlob(p)
  BY <1>1, EndingInv DEF ReadBlob, Return, Goto, TypeOK
<1>2. CASE ReadManifest(p) /\ call'[p] = NoCall /\ pc'[p] = "idle"
  BY <1>2, EndingInv
<1>3. CASE ReadManifest(p) /\ call'[p] = call[p] /\ pc'[p] = "expire_blob"
  <2>1. pc[p] = "read_manifest" /\ call[p].keep = "missing"
    BY <1>0, <1>3 DEF ReadManifest, CallInv
  <2>. QED
    BY <1>0, <1>3, <2>1, AdvancingInv
<1>4. CASE ReadManifest(p) /\ UNCHANGED call /\ pc'[p] = "read_blob"
  <2>. DEFINE d == call[p].digest
  <2>1. pc[p] = "read_manifest" /\ call[p].keep = "missing"
    BY <1>0, <1>4 DEF ReadManifest, CallInv
  <2>2. d \in Digests /\ Servable(manifest[d], now) /\ UNCHANGED <<now, granted>>
    BY <1>0, <1>4 DEF ReadManifest, Return, Goto, Expire, NoManifest, Servable, files
  <2>3. /\ manifest[d].expires \in Nat /\ now \in Nat /\ granted[d] \in Nat
        /\ call[p].asked \in Nat /\ call[p].asked <= now
    BY <1>0, <2>2, CallType DEF TypeOK, ManifestRecord, CallRecord, CallInv
  <2>4. d \notin Secret /\ manifest[d].expires <= granted[d]
    BY <1>0, <2>2 DEF FilesInv, Servable
  <2>5. MayAnswer(p, d)
    BY <2>2, <2>3, <2>4 DEF Servable, OverdueAt, MayAnswer
  <2>6. MayAnswer(p, d)'
    BY <1>4, <2>2, <2>5 DEF MayAnswer
  <2>. QED
    BY <1>0, <1>4, <2>1, <2>2, <2>6 DEF CallInv, Written
<1>5. ReadManifest(p) =>
        \/ call'[p] = NoCall /\ pc'[p] = "idle"
        \/ UNCHANGED call /\ pc'[p] \in {"expire_blob", "read_blob"}
  BY <1>0 DEF ReadManifest, Return, Expire, Goto, TypeOK
<1>. QED
  BY <1>1, <1>2, <1>3, <1>4, <1>5

LEMMA InitContract == Init => ContractInv
BY StoreAssumption DEF Init, ContractInv, FilesInv, CallInv, NoCall, NoAlias, NoManifest, Written

LEMMA ContractStep == TypeOK /\ ContractInv /\ [Next]_vars => ContractInv'
<1>. SUFFICES ASSUME TypeOK, ContractInv, [Next]_vars PROVE ContractInv'
  OBVIOUS
<1>1. ASSUME NEW q \in Procs PROVE CallInv(q)'
  <2>0. CallInv(q)
    BY DEF ContractInv
  <2>1. ASSUME NEW p \in Procs, CallStart(p) \/ Step(p), p = q PROVE CallInv(q)'
    BY <2>1, StartInv, RetainInv, PruneInv, RetrieveInv DEF Step
  <2>2. CASE Crash(q)
    BY <2>2, EndingInv DEF Crash, Goto, TypeOK
  <2>3. ASSUME NEW p \in Procs, CallStart(p) \/ Step(p) \/ Crash(p), p # q
        PROVE  CallInv(q)'
    BY <2>0, <2>3, OthersStay, StayingInv
  <2>4. CASE Tick \/ (\E d \in Digests : Damage(d)) \/ UNCHANGED vars
    BY <2>0, <2>4, StayingInv DEF Tick, Damage, vars
  <2>. QED
    BY <2>1, <2>2, <2>3, <2>4 DEF Next
<1>. QED
  BY <1>1, FilesStep DEF ContractInv

\* A caller's answer is one the contract allows.
LEMMA AnswerStep ==
  ASSUME TypeOK, NEW p \in Procs, NEW state, NEW text,
         Return(p, state, text), UNCHANGED <<now, granted>>,
         call[p].key \in Keys,
         \/ state \in Contract!States \ {"exact"} /\ text = Absent
         \/ /\ state = "exact" /\ text = Contract!Named(call[p].key)
            /\ text \notin Secret /\ call[p].asked < granted[text]
  PROVE  Contract!Answer(p)
<1>. DEFINE k == call[p].key
            map == [q \in Procs |-> call[q].asked]
<1>1. reply' = [reply EXCEPT ![p] = [key |-> k, state |-> state, content |-> text]]
  BY DEF Return
<1>2. k \in Contract!Keys
  BY DEF Keys, Contract!Keys
<1>3. Contract!ExactAnswer(p, k) \/ Contract!OtherAnswer(p, k)
  BY <1>1 DEF Contract!ExactAnswer, Contract!OtherAnswer
<1>4. map' = [map EXCEPT ![p] = 0]
  BY DEF Return, TypeOK, NoCall
<1>. QED
  BY <1>2, <1>3, <1>4 DEF Contract!Answer

\* A step that the contract does not see.
LEMMA SilentStep ==
  ASSUME UNCHANGED <<now, granted, reply, call>>
  PROVE  UNCHANGED Contract!vars
BY DEF Contract!vars

LEMMA StepImplements ==
  ASSUME TypeOK, ContractInv, [Next]_vars PROVE [Contract!Next]_(Contract!vars)
<1>. DEFINE map == [q \in Procs |-> call[q].asked]
<1>. USE StoreAssumption
<1>1. ASSUME NEW p \in Procs, RetainRefused(p) PROVE Contract!Next
  <2>1. PICK a \in Aliases, why \in {"disabled", "not_allowed"} :
          reply' = [reply EXCEPT ![p] = [key |-> a, state |-> why, content |-> Absent]]
    BY <1>1 DEF RetainRefused
  <2>2. map[p] = 0
    BY <1>1 DEF ContractInv, CallInv, RetainRefused, NoCall
  <2>3. map' = [map EXCEPT ![p] = 0]
    BY <1>1, <2>2 DEF RetainRefused
  <2>4. a \in Contract!Keys /\ Contract!OtherAnswer(p, a)
    BY <2>1 DEF Contract!Keys, Contract!OtherAnswer, Contract!States
  <2>. QED
    BY <1>1, <2>3, <2>4 DEF Contract!Next, Contract!Answer, RetainRefused
<1>2. ASSUME NEW p \in Procs, NEW a \in Aliases, NEW b \in Protections,
             RetainStart(p, a, b)
      PROVE  Contract!Next
  <2>1. now' >= now
    BY <1>2 DEF RetainStart, TypeOK
  <2>2. map' = [map EXCEPT ![p] = now']
    BY <1>2 DEF RetainStart, TypeOK
  <2>3. reply' = [reply EXCEPT ![p] = Contract!Pending] /\ UNCHANGED granted
    BY <1>2 DEF RetainStart, Pending, Contract!Pending
  <2>. QED
    BY <2>1, <2>2, <2>3 DEF Contract!Next, Contract!Call
<1>3. ASSUME NEW p \in Procs, NEW k \in Queries, RetrieveStart(p, k)
      PROVE  Contract!Next
  <2>1. now' >= now
    BY <1>3 DEF RetrieveStart, TypeOK
  <2>2. map' = [map EXCEPT ![p] = now']
    BY <1>3 DEF RetrieveStart, TypeOK, NoCall
  <2>3. reply' = [reply EXCEPT ![p] = Contract!Pending] /\ UNCHANGED granted
    BY <1>3 DEF RetrieveStart, Pending, Contract!Pending
  <2>. QED
    BY <2>1, <2>2, <2>3 DEF Contract!Next, Contract!Call
<1>4. ASSUME NEW p \in Procs, PutManifest(p)
      PROVE  Contract!Next \/ UNCHANGED Contract!vars
  <2>1. CASE call[p].keep # "exact"
    BY <1>4, <2>1, SilentStep DEF PutManifest
  <2>2. CASE call[p].keep = "exact"
    <3>1. call[p].digest \in Digests /\ call[p].digest \notin Secret
      BY <2>2 DEF ContractInv, CallInv
    <3>2. \A d \in Digests : granted'[d] >= granted[d]
      BY Monotone
    <3>3. granted' = [granted EXCEPT ![call[p].digest] = granted'[call[p].digest]]
      BY <1>4, <2>2, <3>1 DEF PutManifest, TypeOK
    <3>4. UNCHANGED <<now, map, reply>>
      BY <1>4 DEF PutManifest
    <3>5. Contract!Grant(call[p].digest)
      BY <3>1, <3>2, <3>3, <3>4 DEF Contract!Grant
    <3>. QED
      BY <3>1, <3>5 DEF Contract!Next
  <2>. QED
    BY <2>1, <2>2
<1>5. ASSUME NEW p \in Procs, NEW state, NEW text, Return(p, state, text),
             UNCHANGED <<now, granted>>, pc[p] # "idle",
             \/ state \in Contract!States \ {"exact"} /\ text = Absent
             \/ /\ state = "exact" /\ text = call[p].digest
                /\ MayAnswer(p, call[p].digest)
      PROVE  Contract!Next
  <2>1. /\ call[p].key \in Keys
        /\ call[p].digest \in {Contract!Named(call[p].key), Absent}
    BY <1>5 DEF ContractInv, CallInv
  <2>2. state = "exact" /\ MayAnswer(p, call[p].digest) =>
          /\ call[p].digest = Contract!Named(call[p].key)
          /\ call[p].digest \notin Secret
          /\ call[p].asked < granted[call[p].digest]
    BY <2>1 DEF MayAnswer
  <2>3. Contract!Answer(p)
    BY <1>5, <2>1, <2>2, AnswerStep DEF Contract!States
  <2>. QED
    BY <2>3 DEF Contract!Next
<1>6. ASSUME NEW p \in Procs, UndoAlias(p) \/ UndoManifest(p) \/ UndoFails(p)
      PROVE  Contract!Next \/ UNCHANGED Contract!vars
  <2>1. \/ Return(p, "error", Absent) /\ pc[p] # "idle" /\ UNCHANGED <<now, granted>>
        \/ UNCHANGED <<now, granted, reply, call>>
    BY <1>6 DEF UndoAlias, UndoManifest, UndoFails
  <2>. QED
    BY <1>5, <2>1, SilentStep DEF Contract!States
<1>7. ASSUME NEW p \in Procs, DropAliases(p) PROVE Contract!Next
  <2>1. /\ pc[p] = "drop_aliases" /\ UNCHANGED <<now, granted>>
        /\ Return(p, call[p].keep,
                  IF call[p].keep = "exact" THEN call[p].digest ELSE Absent)
    BY <1>7 DEF DropAliases
  <2>2. call[p].keep = "exact" => MayAnswer(p, call[p].digest)
    BY <2>1 DEF ContractInv, CallInv, Written
  <2>3. call[p].keep \in {"missing", "exact", "redacted"}
    BY CallType DEF CallRecord
  <2>. QED
    BY <1>5, <2>1, <2>2, <2>3 DEF Contract!States
<1>8. ASSUME NEW p \in Procs, ExpireManifest(p)
      PROVE  Contract!Next \/ UNCHANGED Contract!vars
  <2>1. \/ Return(p, "expired", Absent) /\ pc[p] # "idle" /\ UNCHANGED <<now, granted>>
        \/ UNCHANGED <<now, granted, reply, call>>
    BY <1>8 DEF ExpireManifest
  <2>. QED
    BY <1>5, <2>1, SilentStep DEF Contract!States
<1>9. ASSUME NEW p \in Procs, ReadManifest(p)
      PROVE  Contract!Next \/ UNCHANGED Contract!vars
  <2>1. \/ /\ \E s \in {"missing", "expired", "redacted"} : Return(p, s, Absent)
           /\ pc[p] # "idle" /\ UNCHANGED <<now, granted>>
        \/ UNCHANGED <<now, granted, reply, call>>
    BY <1>9 DEF ReadManifest, files
  <2>. QED
    BY <1>5, <2>1, SilentStep DEF Contract!States
<1>10. ASSUME NEW p \in Procs, ReadBlob(p) PROVE Contract!Next
  <2>1. /\ pc[p] = "read_blob" /\ UNCHANGED <<now, granted>>
        /\ \/ Return(p, "exact", call[p].digest)
           \/ Return(p, "corrupt", Absent)
    BY <1>10 DEF ReadBlob, Verified
  <2>2. MayAnswer(p, call[p].digest)
    BY <2>1 DEF ContractInv, CallInv
  <2>. QED
    BY <1>5, <2>1, <2>2 DEF Contract!States
<1>11. ASSUME NEW p \in Procs, Crash(p) PROVE Contract!Next
  <2>1. map' = [map EXCEPT ![p] = 0] /\ UNCHANGED <<now, granted, reply>>
    BY <1>11 DEF Crash, NoCall, TypeOK
  <2>. QED
    BY <2>1 DEF Contract!Next, Contract!Die
<1>12. CASE Tick
  <2>1. now' > now /\ UNCHANGED <<granted, map, reply>>
    BY <1>12 DEF Tick, TypeOK
  <2>. QED
    BY <2>1 DEF Contract!Next, Contract!ClockAdvances
<1>13. ASSUME NEW p \in Procs,
              \/ PutBlob(p) \/ PutAlias(p) \/ RetainFails(p) \/ UndoBlob(p)
              \/ ListManifests(p) \/ ListRecords(p) \/ UnlinkRecord(p)
              \/ ListAliases(p) \/ ExpireBlob(p)
              \/ \E d \in Digests : ReadListed(p, d) \/ EvictOldest(p, d) \/ ReadRecord(p, d)
       PROVE  UNCHANGED Contract!vars
  BY <1>13, SilentStep
     DEF PutBlob, PutAlias, RetainFails, UndoBlob, ListManifests, ListRecords,
         UnlinkRecord, ListAliases, ExpireBlob, ReadListed, EvictOldest, ReadRecord
<1>14. CASE (\E d \in Digests : Damage(d)) \/ UNCHANGED vars
  BY <1>14, SilentStep DEF Damage, vars
<1>. QED
  BY <1>1, <1>2, <1>3, <1>4, <1>6, <1>7, <1>8, <1>9, <1>10, <1>11, <1>12, <1>13, <1>14
     DEF Next, CallStart, Step, RetainStep, PruneStep

\* The store implements its contract for every number of callers, texts and
\* keys, with I/O errors, crashes and damaged payloads at any point.
THEOREM StoreImplementsContract == Spec => ImplementsContract
<1>1. Init => ContractInv
  BY InitContract
<1>2. Init => Contract!Init
  BY DEF Init, Contract!Init, NoCall, Pending, Contract!Pending
<1>3. TypeOK /\ ContractInv /\ [Next]_vars => [Contract!Next]_(Contract!vars)
  BY StepImplements
<1>. QED
  BY <1>1, <1>2, <1>3, ContractStep, TypeCorrect, PTL
     DEF Spec, ImplementsContract, Contract!Spec

-----------------------------------------------------------------------------
(* Quotas.                                                                 *)

ByteSets(S) == {{d} \X (1..Size[d]) : d \in S}

LEMMA BytesFinite ==
  ASSUME NEW S \in SUBSET Digests
  PROVE  IsFiniteSet(S) /\ IsFiniteSet(UNION ByteSets(S))
<1>1. IsFiniteSet(S)
  BY StoreAssumption, FS_Subset
<1>2. \A d \in S : IsFiniteSet({d} \X (1..Size[d]))
  <2>. TAKE d \in S
  <2>1. Size[d] \in Nat /\ 1 \in Int /\ Size[d] \in Int
    BY StoreAssumption
  <2>2. IsFiniteSet(1..Size[d])
    BY <2>1, FS_Interval
  <2>. QED
    BY <2>2, FS_Singleton, FS_Product
<1>. DEFINE f == [d \in S |-> {d} \X (1..Size[d])]
<1>3. f \in Surjection(S, ByteSets(S))
  <2>1. f \in [S -> ByteSets(S)]
    BY DEF ByteSets
  <2>2. \A t \in ByteSets(S) : \E d \in S : f[d] = t
    BY DEF ByteSets
  <2>. HIDE DEF f
  <2>. QED
    BY <2>1, <2>2 DEF Surjection
<1>4. IsFiniteSet(ByteSets(S))
  BY <1>1, <1>3, FS_Surjection
<1>5. \A T \in ByteSets(S) : IsFiniteSet(T)
  BY <1>2 DEF ByteSets
<1>. QED
  BY <1>1, <1>4, <1>5, FS_UNION

LEMMA QuotaShrinks ==
  ASSUME NEW S \in SUBSET Digests, NEW T \in SUBSET S, WithinQuota(S)
  PROVE  WithinQuota(T)
<1>1. /\ IsFiniteSet(S) /\ Cardinality(T) <= Cardinality(S)
      /\ Cardinality(S) \in Nat /\ Cardinality(T) \in Nat
  BY BytesFinite, FS_Subset, FS_CardinalityType
<1>2. UNION ByteSets(T) \subseteq UNION ByteSets(S)
  BY DEF ByteSets
<1>3. /\ Bytes(T) <= Bytes(S) /\ Bytes(T) \in Nat /\ Bytes(S) \in Nat
  BY <1>2, BytesFinite, FS_Subset, FS_CardinalityType DEF Bytes, ByteSets
<1>. QED
  BY <1>1, <1>3, StoreAssumption DEF WithinQuota

LEMMA NoneWithinQuota == WithinQuota({})
<1>1. UNION ByteSets({}) = {}
  BY DEF ByteSets
<1>. QED
  BY <1>1, FS_EmptySet, StoreAssumption DEF WithinQuota, Bytes, ByteSets

\* A retention that has written its manifest has every exact entry before it:
\* to be listed, to be read, read, or about to be expired.
Covers(q) ==
  \/ pc[q] \in {"put_alias", "list"}
  \/ pc[q] = "scan" /\ ExactEntries \subseteq scan[q].todo \cup ExactSeen(q)
  \/ /\ pc[q] \in {"expire_blob", "expire_manifest"} /\ scan[q].back = "scan"
     /\ ExactEntries \subseteq scan[q].todo \cup ExactSeen(q) \cup {scan[q].victim}
QuotaInv == WithinQuota(ExactEntries) \/ \E q \in Procs : Covers(q)
Orderly == Faults \cap {"put", "sweep", "crash"} = {}

\* What is within the quota, or covered by another, stays so.
LEMMA QuotaStays ==
  ASSUME TypeOK, QuotaInv, NEW p, ExactEntries' \subseteq ExactEntries,
         \A q \in Procs : q # p => pc'[q] = pc[q] /\ scan'[q] = scan[q],
         p \in Procs /\ Covers(p) => Covers(p)' \/ WithinQuota(ExactEntries)
  PROVE  QuotaInv'
<1>1. ExactEntries \subseteq Digests
  BY DEF ExactEntries
<1>2. CASE WithinQuota(ExactEntries)
  <2>1. WithinQuota(ExactEntries')
    BY <1>1, <1>2, QuotaShrinks
  <2>. QED
    BY <2>1 DEF QuotaInv, WithinQuota, Bytes
<1>3. ASSUME NEW q \in Procs, Covers(q), q # p
      PROVE  Covers(q)'
  BY <1>3 DEF Covers, ExactSeen
<1>. QED
  BY <1>2, <1>3 DEF QuotaInv

LEMMA OthersScan ==
  ASSUME TypeOK, NEW p \in Procs, CallStart(p) \/ Step(p) \/ Crash(p),
         NEW q \in Procs, q # p
  PROVE  scan'[q] = scan[q]
<1>1. CASE CallStart(p) \/ Crash(p)
  BY <1>1 DEF CallStart, RetainRefused, RetainStart, RetrieveStart, Crash, TypeOK
<1>2. CASE RetainStep(p)
  BY <1>2 DEF RetainStep, PutBlob, PutManifest, PutAlias, RetainFails, UndoAlias,
         UndoBlob, UndoManifest, UndoFails, Return, TypeOK
<1>3. CASE PruneStep(p) \/ ReadManifest(p) \/ ReadBlob(p)
  BY <1>3 DEF PruneStep, ListManifests, ListRecords, UnlinkRecord, ListAliases,
         DropAliases, ExpireBlob, ExpireManifest, ReadListed, EvictOldest,
         ReadRecord, ReadManifest, ReadBlob, Expire, Return, TypeOK
<1>. QED
  BY <1>1, <1>2, <1>3 DEF Step

\* Only a retention's own write adds an exact entry.
LEMMA EntriesShrink ==
  ASSUME TypeOK, [Next]_vars, \A p \in Procs : ~PutManifest(p)
  PROVE  ExactEntries' \subseteq ExactEntries
<1>1. ASSUME NEW p \in Procs, CallStart(p) \/ Step(p) \/ Crash(p),
             ~UndoManifest(p), ~ExpireManifest(p), ~UnlinkRecord(p)
      PROVE  manifest' = manifest
  BY <1>1 DEF CallStart, Step, RetainStep, PruneStep, RetainRefused,
         RetainStart, RetrieveStart, PutBlob, PutAlias, RetainFails, UndoAlias,
         UndoBlob, UndoFails, ListManifests, ListRecords, ListAliases,
         DropAliases, ExpireBlob, ReadListed, EvictOldest, ReadRecord,
         ReadManifest, ReadBlob, Crash, files
<1>2. ASSUME NEW p \in Procs, UndoManifest(p) \/ UnlinkRecord(p)
      PROVE  ExactEntries' \subseteq ExactEntries
  BY <1>2 DEF UndoManifest, UnlinkRecord, NoManifest, TypeOK, ExactEntries
<1>3. ASSUME NEW p \in Procs, ExpireManifest(p)
      PROVE  ExactEntries' \subseteq ExactEntries
  <2>. DEFINE d == scan[p].victim
              t == Tombstone(scan[p].seen[d])
  <2>1. d \in Digests => t.state = "expired"
    <3>1. d \in Digests => scan[p].seen[d] \in ManifestRecord
      BY ScanType DEF ScanRecord
    <3>. QED
      BY <3>1 DEF Tombstone, ManifestRecord
  <2>2. manifest' = manifest \/ manifest' = [manifest EXCEPT ![d] = t]
    BY <1>3 DEF ExpireManifest
  <2>. HIDE DEF d, t
  <2>. QED
    BY <2>1, <2>2 DEF ExactEntries, TypeOK
<1>4. Tick \/ (\E d \in Digests : Damage(d)) \/ UNCHANGED vars => manifest' = manifest
  BY DEF Tick, Damage, vars, files
<1>5. manifest' = manifest => ExactEntries' = ExactEntries
  BY DEF ExactEntries
<1>. QED
  BY <1>1, <1>2, <1>3, <1>4, <1>5 DEF Next

\* A pass that ends has seen what there is.
LEMMA CoveredIsWithin ==
  ASSUME TypeOK, NEW p \in Procs, Covers(p), pc[p] = "scan", scan[p].todo = {},
         WithinQuota(ExactSeen(p))
  PROVE  WithinQuota(ExactEntries)
<1>1. ExactEntries \subseteq ExactSeen(p) /\ ExactSeen(p) \subseteq Digests
  BY DEF Covers, ExactSeen
<1>. QED
  BY <1>1, QuotaShrinks

LEMMA CoversGoesOn ==
  ASSUME TypeOK, "sweep" \notin Faults, [Next]_vars, NEW p \in Procs, Step(p), Covers(p),
         ~RetainFails(p), ~ListRecords(p)
  PROVE  Covers(p)'
<1>0. /\ scan[p] \in ScanRecord /\ scan \in [Procs -> ScanRecord]
      /\ pc \in [Procs -> Labels] /\ ExactEntries \subseteq Digests
  BY ScanType DEF TypeOK, ExactEntries
<1>. USE DEF Goto
<1>1. CASE PutAlias(p)
  BY <1>0, <1>1 DEF PutAlias, Covers
<1>2. CASE ListManifests(p)
  <2>1. scan'[p].todo = Stored(Digests) /\ pc'[p] = "scan" /\ UNCHANGED manifest
    BY <1>0, <1>2 DEF ListManifests, files, ScanRecord
  <2>. QED
    BY <2>1 DEF Covers, Stored, ExactEntries
<1>4. ASSUME NEW d \in Digests, ReadListed(p, d)
      PROVE  Covers(p)'
  <2>1. pc[p] = "scan" /\ d \in scan[p].todo /\ UNCHANGED manifest
    BY <1>4 DEF ReadListed, files
  <2>2. /\ ExactEntries \subseteq scan[p].todo \cup ExactSeen(p)
        /\ ExactEntries' = ExactEntries
    BY <2>1 DEF Covers, ExactEntries
  <2>3. CASE /\ scan' = [scan EXCEPT ![p].seen[d] = manifest[d], ![p].todo = @ \ {d}]
             /\ UNCHANGED pc
    <3>1. /\ scan'[p].todo = scan[p].todo \ {d}
          /\ scan'[p].seen = [scan[p].seen EXCEPT ![d] = manifest[d]]
      BY <1>0, <2>3 DEF ScanRecord
    <3>2. \A e \in ExactEntries : e \in scan[p].todo \ {d} \/ scan'[p].seen[e].state = "exact"
      BY <1>0, <2>2, <3>1 DEF ExactSeen, ExactEntries, ScanRecord
    <3>. QED
      BY <1>0, <2>1, <2>2, <2>3, <3>1, <3>2 DEF Covers, ExactSeen
  <2>4. CASE Expire(p, d, manifest[d], "scan", scan[p].todo \ {d})
    <3>. DEFINE t == Tombstone(manifest[d])
    <3>1. scan' = [scan EXCEPT ![p].seen[d] = t, ![p].victim = d,
                               ![p].back = "scan", ![p].todo = scan[p].todo \ {d}]
      BY <2>4 DEF Expire
    <3>. HIDE DEF t
    <3>2. /\ scan'[p].todo = scan[p].todo \ {d}
          /\ scan'[p].seen = [scan[p].seen EXCEPT ![d] = t]
          /\ scan'[p].victim = d /\ scan'[p].back = "scan"
      BY <1>0, <3>1 DEF ScanRecord
    <3>3. \A e \in ExactEntries : e \in scan[p].todo \ {d} \/ e = d
                                    \/ scan'[p].seen[e].state = "exact"
      BY <1>0, <2>2, <3>2 DEF ExactSeen, ScanRecord
    <3>4. pc'[p] = "expire_blob"
      BY <1>0, <2>4 DEF Expire
    <3>. QED
      BY <1>0, <2>2, <3>2, <3>3, <3>4 DEF Covers, ExactSeen
  <2>. QED
    BY <1>4, <2>3, <2>4 DEF ReadListed
<1>5. ASSUME NEW d \in Digests, EvictOldest(p, d)
      PROVE  Covers(p)'
  <2>1. pc[p] = "scan" /\ scan[p].todo = {} /\ UNCHANGED manifest
        /\ Expire(p, d, scan[p].seen[d], "scan", {})
    BY <1>5 DEF EvictOldest, files
  <2>2. /\ ExactEntries \subseteq ExactSeen(p) /\ ExactEntries' = ExactEntries
    BY <2>1 DEF Covers, ExactEntries
  <2>. DEFINE t == Tombstone(scan[p].seen[d])
  <2>3. scan' = [scan EXCEPT ![p].seen[d] = t, ![p].victim = d,
                             ![p].back = "scan", ![p].todo = {}]
    BY <2>1 DEF Expire
  <2>. HIDE DEF t
  <2>4. /\ scan'[p].todo = {} /\ scan'[p].seen = [scan[p].seen EXCEPT ![d] = t]
        /\ scan'[p].victim = d /\ scan'[p].back = "scan"
    BY <1>0, <2>3 DEF ScanRecord
  <2>5. \A e \in ExactEntries : e = d \/ scan'[p].seen[e].state = "exact"
    BY <1>0, <2>2, <2>4 DEF ExactSeen, ScanRecord
  <2>6. pc'[p] = "expire_blob"
    BY <1>0, <2>1 DEF Expire
  <2>. QED
    BY <1>0, <2>2, <2>4, <2>5, <2>6 DEF Covers, ExactSeen
<1>6. CASE ExpireBlob(p)
  <2>1. /\ pc[p] = "expire_blob" /\ pc'[p] = "expire_manifest" /\ UNCHANGED <<scan, manifest>>
    BY <1>0, <1>6 DEF ExpireBlob
  <2>. QED
    BY <2>1 DEF Covers, ExactSeen, ExactEntries
<1>7. CASE ExpireManifest(p)
  <2>. DEFINE d == scan[p].victim
              t == Tombstone(scan[p].seen[d])
  <2>1. /\ pc[p] = "expire_manifest" /\ scan[p].back = "scan"
        /\ ExactEntries \subseteq scan[p].todo \cup ExactSeen(p) \cup {d}
    BY <1>7 DEF ExpireManifest, Covers
  <2>2. pc'[p] = "scan" /\ scan' = [scan EXCEPT ![p].victim = Absent]
        /\ manifest' = [manifest EXCEPT ![d] = t]
    BY <1>0, <1>7, <2>1 DEF ExpireManifest
  <2>3. scan'[p].todo = scan[p].todo /\ scan'[p].seen = scan[p].seen
    BY <1>0, <2>2 DEF ScanRecord
  <2>4. d \in Digests => t.state = "expired"
    <3>1. d \in Digests => scan[p].seen[d] \in ManifestRecord
      BY <1>0 DEF ScanRecord
    <3>. QED
      BY <3>1 DEF Tombstone, ManifestRecord
  <2>. HIDE DEF d, t
  <2>5. ExactEntries' \subseteq ExactEntries \ {d}
    BY <2>2, <2>4 DEF ExactEntries, TypeOK
  <2>. QED
    BY <2>1, <2>2, <2>3, <2>5 DEF Covers, ExactSeen
<1>8. CASE PutBlob(p) \/ PutManifest(p) \/ UndoAlias(p) \/ UndoBlob(p) \/ UndoManifest(p)
             \/ UndoFails(p) \/ UnlinkRecord(p) \/ ListAliases(p) \/ DropAliases(p)
             \/ ReadManifest(p) \/ ReadBlob(p) \/ \E d \in Digests : ReadRecord(p, d)
  BY <1>8 DEF Covers, PutBlob, PutManifest, UndoAlias, UndoBlob, UndoManifest, UndoFails,
       UnlinkRecord, ListAliases, DropAliases, ReadManifest, ReadBlob, ReadRecord
<1>. QED
  BY <1>1, <1>2, <1>4, <1>5, <1>6, <1>7, <1>8 DEF Step, RetainStep, PruneStep

LEMMA QuotaStep ==
  ASSUME TypeOK, Orderly, QuotaInv, [Next]_vars
  PROVE  QuotaInv'
<1>1. ASSUME NEW p \in Procs, PutManifest(p)
      PROVE  QuotaInv'
  BY <1>1 DEF PutManifest, Goto, TypeOK, QuotaInv, Covers
<1>2. ASSUME NEW p \in Procs, CallStart(p) \/ Step(p), \A q \in Procs : ~PutManifest(q)
      PROVE  QuotaInv'
  <2>1. ExactEntries' \subseteq ExactEntries
    BY <1>2, EntriesShrink
  <2>2. \A q \in Procs : q # p => pc'[q] = pc[q] /\ scan'[q] = scan[q]
    BY <1>2, OthersStay, OthersScan
  <2>3. CallStart(p) => ~Covers(p)
    BY DEF CallStart, RetainRefused, RetainStart, RetrieveStart, Covers
  <2>4. Covers(p) => Covers(p)' \/ WithinQuota(ExactEntries)
    <3>1. Covers(p) /\ (RetainFails(p) \/ ListRecords(p)) => WithinQuota(ExactEntries)
      BY CoveredIsWithin DEF RetainFails, ListRecords, Orderly, Covers
    <3>2. "sweep" \notin Faults
      BY DEF Orderly
    <3>. QED
      BY <1>2, <2>3, <3>1, <3>2, CoversGoesOn
  <2>. QED
    BY <2>1, <2>2, <2>4, QuotaStays
<1>3. \A p \in Procs : ~Crash(p)
  BY DEF Crash, Orderly
<1>4. CASE Tick \/ (\E d \in Digests : Damage(d)) \/ UNCHANGED vars
  <2>1. UNCHANGED <<manifest, pc, scan>>
    BY <1>4 DEF Tick, Damage, vars, files
  <2>. QED
    BY <2>1 DEF QuotaInv, WithinQuota, Bytes, ExactEntries, Covers, ExactSeen
<1>. QED
  BY <1>1, <1>2, <1>3, <1>4 DEF Next

\* However many callers share the directory without a lock, when all are done
\* the exact entries are within both quotas: whoever wrote last has listed
\* all of them since.  Where no write, deletion or caller fails: one that is
\* cut off after its manifest leaves the pruning to the next.
THEOREM QuotaHoldsAtRest == Orderly => (Spec => []QuotaAtRest)
<1>. SUFFICES ASSUME Orderly PROVE Spec => []QuotaAtRest
  OBVIOUS
<1>1. Init => QuotaInv
  <2>1. Init => ExactEntries = {}
    BY DEF Init, ExactEntries, NoManifest
  <2>. QED
    BY <2>1, NoneWithinQuota DEF QuotaInv
<1>2. TypeOK /\ QuotaInv /\ [Next]_vars => QuotaInv'
  BY QuotaStep
<1>3. QuotaInv => QuotaAtRest
  BY DEF QuotaInv, QuotaAtRest, AtRest, Covers, WithinQuota
<1>. QED
  BY <1>1, <1>2, <1>3, TypeCorrect, PTL DEF Spec

-----------------------------------------------------------------------------
(* One caller.                                                             *)

Sole == \E p : Procs = {p}

AliasSet == {a \in Aliases : alias[a].target # Absent}
Before == {"put_blob", "put_manifest"}
Expiring == {"expire_blob", "expire_manifest"}
Undoing == {"undo_alias", "undo_blob", "undo_manifest"}

\* Nothing bears a time that is still to come.
Timely(p) ==
  /\ pc[p] = "idle" => scan[p] = NoScan
  /\ call[p].observed <= now
  /\ \A d \in Digests : manifest[d].created <= now /\ scan[p].seen[d].created <= now
  /\ \A a \in Aliases : alias[a].mtime <= now

\* What the caller retains is the newest entry, as written and as read back,
\* with its payload, and its alias is the newest alias: neither pruning nor
\* culling picks them, until the caller itself undoes them.
Own(p) ==
  call[p].keep = "exact" /\ pc[p] \notin Undoing =>
    /\ pc[p] \in Before \cup Written
    /\ call[p].key \in Aliases /\ call[p].digest \in Digests
    /\ Size[call[p].digest] <= MaxBytes
    /\ call[p].observed > 0
    /\ \A e \in Digests \ {call[p].digest} :
         /\ manifest[e].created < call[p].observed
         /\ scan[p].seen[e].created < call[p].observed
    /\ scan[p].seen[call[p].digest].state = "exact" =>
         scan[p].seen[call[p].digest].created = call[p].observed
    /\ \A b \in Aliases : b # call[p].key => alias[b].mtime < call[p].observed
    /\ pc[p] # "put_blob" => blob[call[p].digest] = call[p].digest
    /\ pc[p] \notin Before =>
         /\ manifest[call[p].digest].state = "exact"
         /\ manifest[call[p].digest].created = call[p].observed
         /\ manifest[call[p].digest].expires = call[p].observed + TTL
    /\ pc[p] \notin Before \cup {"put_alias"} =>
         /\ alias[call[p].key].target = call[p].digest
         /\ alias[call[p].key].mtime >= call[p].observed
    /\ pc[p] = "drop_aliases" => call[p].key \notin scan[p].drop
    /\ pc[p] \in Expiring => scan[p].back = "scan"
    /\ pc[p] \in Expiring \cup {"unlink_record"} => scan[p].victim # call[p].digest

Fails(p) ==
  RetainFails(p) \/ UndoAlias(p) \/ UndoBlob(p) \/ UndoManifest(p) \/ UndoFails(p)

LEMMA SoleSteps ==
  ASSUME Sole, NEW p \in Procs, [Next]_vars
  PROVE  \/ RetainRefused(p)
         \/ \E a \in Aliases, b \in Protections : RetainStart(p, a, b)
         \/ \E k \in Queries : RetrieveStart(p, k)
         \/ PutBlob(p) \/ PutManifest(p) \/ PutAlias(p) \/ Fails(p)
         \/ PruneStep(p) \/ ReadManifest(p) \/ ReadBlob(p)
         \/ Tick \/ Crash(p) \/ (\E d \in Digests : Damage(d)) \/ UNCHANGED vars
<1>1. \A q \in Procs : q = p
  BY DEF Sole
<1>. QED
  BY <1>1 DEF Next, CallStart, Step, RetainStep, Fails

LEMMA ReturnEffect ==
  ASSUME TypeOK, NEW p \in Procs, NEW s, NEW c, Return(p, s, c)
  PROVE  /\ pc'[p] = "idle" /\ call'[p] = NoCall /\ scan'[p] = NoScan
         /\ reply'[p].key = call[p].key /\ reply'[p].state = s
BY DEF Return, Goto, TypeOK

LEMMA ExpireEffect ==
  ASSUME TypeOK, NEW p \in Procs, NEW d \in Digests, NEW m \in ManifestRecord,
         NEW b \in {"scan", "reply"}, NEW T \in SUBSET Digests,
         Expire(p, d, m, b, T)
  PROVE  /\ pc'[p] = "expire_blob"
         /\ scan'[p].todo = T /\ scan'[p].victim = d /\ scan'[p].back = b
         /\ scan'[p].seen = [scan[p].seen EXCEPT ![d] = Tombstone(m)]
<1>. DEFINE t == Tombstone(m)
<1>1. scan' = [scan EXCEPT ![p].seen[d] = t, ![p].victim = d, ![p].back = b, ![p].todo = T]
  BY DEF Expire
<1>2. scan[p] \in ScanRecord /\ scan \in [Procs -> ScanRecord] /\ pc \in [Procs -> Labels]
  BY DEF TypeOK
<1>. HIDE DEF t
<1>3. /\ scan'[p].todo = T /\ scan'[p].victim = d /\ scan'[p].back = b
      /\ scan'[p].seen = [scan[p].seen EXCEPT ![d] = t]
  BY <1>1, <1>2 DEF ScanRecord
<1>4. pc'[p] = "expire_blob"
  BY <1>2 DEF Expire, Goto
<1>. QED
  BY <1>3, <1>4 DEF t

LEMMA PassEffect ==
  ASSUME TypeOK, NEW p \in Procs
  PROVE  /\ ListManifests(p) =>
              /\ pc[p] = "list" /\ pc'[p] = "scan"
              /\ scan'[p] = [scan[p] EXCEPT !.todo = Stored(Digests)]
         /\ ListRecords(p) =>
              /\ pc[p] = "scan" /\ pc'[p] = "cull"
              /\ \E T \in SUBSET Stored(Digests) :
                   /\ Cardinality(Stored(Digests) \ T) <= RecordLimit
                   /\ scan'[p] = [scan[p] EXCEPT !.todo = T]
         /\ \A d \in Digests : ReadRecord(p, d) =>
              /\ pc[p] = "cull"
              /\ pc'[p] = (IF Culls(manifest[d]) THEN "unlink_record" ELSE "cull")
              /\ scan'[p] = [scan[p] EXCEPT !.todo = @ \ {d},
                               !.victim = IF Culls(manifest[d]) THEN d ELSE Absent]
         /\ UnlinkRecord(p) =>
              /\ pc[p] = "unlink_record" /\ pc'[p] = "cull"
              /\ scan'[p] = [scan[p] EXCEPT !.victim = Absent]
         /\ ListAliases(p) =>
              /\ pc[p] = "cull" /\ scan[p].todo = {} /\ pc'[p] = "drop_aliases"
              /\ \E T \in SUBSET AliasSet :
                   /\ AllButNewest(T, AliasSet, [a \in Aliases |-> alias[a].mtime])
                   /\ scan'[p] = [scan[p] EXCEPT !.drop = T]
         /\ ExpireManifest(p) /\ scan[p].back = "scan" =>
              /\ pc'[p] = "scan"
              /\ scan'[p] = [scan[p] EXCEPT !.victim = Absent]
<1>. USE DEF Goto, TypeOK
<1>1. ListManifests(p) =>
        /\ pc[p] = "list" /\ pc'[p] = "scan"
        /\ scan'[p] = [scan[p] EXCEPT !.todo = Stored(Digests)]
  BY DEF ListManifests
<1>2. ListRecords(p) =>
        /\ pc[p] = "scan" /\ pc'[p] = "cull"
        /\ \E T \in SUBSET Stored(Digests) :
             /\ Cardinality(Stored(Digests) \ T) <= RecordLimit
             /\ scan'[p] = [scan[p] EXCEPT !.todo = T]
  BY DEF ListRecords, AllButNewest
<1>3. ASSUME NEW d \in Digests, ReadRecord(p, d)
      PROVE  /\ pc[p] = "cull"
             /\ pc'[p] = (IF Culls(manifest[d]) THEN "unlink_record" ELSE "cull")
             /\ scan'[p] = [scan[p] EXCEPT !.todo = @ \ {d},
                              !.victim = IF Culls(manifest[d]) THEN d ELSE Absent]
  BY <1>3 DEF ReadRecord
<1>4. UnlinkRecord(p) =>
        /\ pc[p] = "unlink_record" /\ pc'[p] = "cull"
        /\ scan'[p] = [scan[p] EXCEPT !.victim = Absent]
  BY DEF UnlinkRecord
<1>5. ListAliases(p) =>
        /\ pc[p] = "cull" /\ scan[p].todo = {} /\ pc'[p] = "drop_aliases"
        /\ \E T \in SUBSET AliasSet :
             /\ AllButNewest(T, AliasSet, [a \in Aliases |-> alias[a].mtime])
             /\ scan'[p] = [scan[p] EXCEPT !.drop = T]
  BY DEF ListAliases, AliasSet
<1>6. ExpireManifest(p) /\ scan[p].back = "scan" =>
        /\ pc'[p] = "scan"
        /\ scan'[p] = [scan[p] EXCEPT !.victim = Absent]
  BY DEF ExpireManifest
<1>. QED
  BY <1>1, <1>2, <1>3, <1>4, <1>5, <1>6

\* What a pruning step leaves of a pass's copies, and of the manifests.
LEMMA Copies ==
  ASSUME TypeOK, NEW p \in Procs, PruneStep(p) \/ ReadManifest(p) \/ ReadBlob(p),
         NEW e \in Digests
  PROVE  /\ manifest'[e].created \in {manifest[e].created, scan[p].seen[e].created, 0}
         /\ \/ scan'[p] = NoScan
            \/ scan'[p].seen[e].created \in {manifest[e].created, scan[p].seen[e].created}
<1>0. scan[p] \in ScanRecord /\ manifest \in [Digests -> ManifestRecord]
      /\ scan[p].seen \in [Digests -> ManifestRecord]
      /\ pc \in [Procs -> Labels] /\ scan \in [Procs -> ScanRecord]
  BY ScanType DEF TypeOK, ScanRecord
<1>00. \A m \in ManifestRecord : Tombstone(m).created = m.created
  BY DEF Tombstone, ManifestRecord
<1>1. CASE ListManifests(p) \/ ListRecords(p) \/ ListAliases(p)
             \/ \E d \in Digests : ReadRecord(p, d)
  <2>1. scan'[p].seen = scan[p].seen
    <3>1. CASE ListManifests(p)
      BY <1>0, <3>1, PassEffect DEF ScanRecord
    <3>2. CASE ListRecords(p)
      BY <1>0, <3>2, PassEffect DEF ScanRecord
    <3>3. CASE ListAliases(p)
      BY <1>0, <3>3, PassEffect DEF ScanRecord
    <3>4. ASSUME NEW d \in Digests, ReadRecord(p, d) PROVE scan'[p].seen = scan[p].seen
      BY <1>0, <3>4, PassEffect DEF ScanRecord
    <3>. QED
      BY <1>1, <3>1, <3>2, <3>3, <3>4
  <2>2. UNCHANGED manifest
    BY <1>1 DEF ListManifests, ListRecords, ListAliases, ReadRecord, files
  <2>. QED
    BY <2>1, <2>2
<1>2. CASE UnlinkRecord(p)
  <2>1. scan'[p].seen = scan[p].seen
    BY <1>0, <1>2, PassEffect DEF ScanRecord
  <2>2. manifest'[e].created \in {manifest[e].created, 0}
    BY <1>0, <1>2 DEF UnlinkRecord, NoManifest
  <2>. QED
    BY <2>1, <2>2
<1>3. CASE ExpireManifest(p)
  <2>. DEFINE v == scan[p].victim
              t == Tombstone(scan[p].seen[v])
  <2>1. manifest' = manifest \/ manifest' = [manifest EXCEPT ![v] = t]
    BY <1>3 DEF ExpireManifest
  <2>2. v \in Digests => t.created = scan[p].seen[v].created
    BY <1>0, <1>00
  <2>3. scan'[p] = NoScan \/ scan'[p].seen = scan[p].seen
    <3>1. CASE scan[p].back = "scan"
      BY <1>0, <1>3, <3>1, PassEffect DEF ScanRecord
    <3>2. CASE Return(p, "expired", Absent)
      BY <3>2, ReturnEffect
    <3>. QED
      BY <1>3, <3>1, <3>2 DEF ExpireManifest
  <2>. HIDE DEF t
  <2>4. manifest'[e].created \in {manifest[e].created, scan[p].seen[e].created}
    BY <1>0, <2>1, <2>2
  <2>. QED
    BY <2>3, <2>4
<1>4. CASE ExpireBlob(p) \/ DropAliases(p) \/ ReadBlob(p)
  <2>1. UNCHANGED manifest
    BY <1>4 DEF ExpireBlob, DropAliases, ReadBlob, files
  <2>2. scan'[p] = scan[p] \/ \E s, c : Return(p, s, c)
    BY <1>4 DEF ExpireBlob, DropAliases, ReadBlob
  <2>. QED
    BY <2>1, <2>2, ReturnEffect
<1>5. ASSUME NEW d \in Digests, NEW m \in {manifest[d], scan[p].seen[d]},
             NEW b \in {"scan", "reply"}, NEW T \in SUBSET Digests, Expire(p, d, m, b, T)
      PROVE  scan'[p].seen[e].created \in {manifest[e].created, scan[p].seen[e].created}
  <2>1. /\ m \in ManifestRecord
        /\ m.created \in {manifest[d].created, scan[p].seen[d].created}
    BY <1>0
  <2>2. scan'[p].seen = [scan[p].seen EXCEPT ![d] = Tombstone(m)]
    BY <1>5, <2>1, ExpireEffect
  <2>3. CASE e = d
    <3>1. scan'[p].seen[d].created = m.created
      BY <1>0, <1>00, <2>1, <2>2
    <3>. QED
      BY <2>1, <2>3, <3>1
  <2>4. CASE e # d
    BY <1>0, <2>2, <2>4
  <2>. QED
    BY <2>3, <2>4
<1>6. ASSUME NEW d \in Digests, ReadListed(p, d)
      PROVE  scan'[p].seen[e].created \in {manifest[e].created, scan[p].seen[e].created}
  <2>1. CASE scan' = [scan EXCEPT ![p].seen[d] = manifest[d], ![p].todo = @ \ {d}]
    <3>1. scan'[p].seen = [scan[p].seen EXCEPT ![d] = manifest[d]]
      BY <1>0, <2>1 DEF ScanRecord
    <3>. QED
      BY <1>0, <3>1
  <2>2. scan[p].todo \ {d} \in SUBSET Digests
    BY <1>0 DEF ScanRecord
  <2>. QED
    BY <1>5, <1>6, <2>1, <2>2 DEF ReadListed
<1>7. ASSUME NEW d \in Digests, EvictOldest(p, d)
      PROVE  scan'[p].seen[e].created \in {manifest[e].created, scan[p].seen[e].created}
  BY <1>5, <1>7 DEF EvictOldest
<1>8. CASE ReadManifest(p)
  <2>. DEFINE d == call[p].digest
  <2>1. \/ \E s, c : Return(p, s, c)
        \/ d \in Digests /\ Expire(p, d, manifest[d], "reply", {})
        \/ UNCHANGED scan
    BY <1>8 DEF ReadManifest, NoManifest
  <2>2. UNCHANGED manifest
    BY <1>8 DEF ReadManifest, files
  <2>. QED
    BY <1>5, <2>1, <2>2, ReturnEffect
<1>9. (\E d \in Digests : ReadListed(p, d) \/ EvictOldest(p, d)) => UNCHANGED manifest
  BY DEF ReadListed, EvictOldest, files
<1>. QED
  BY <1>1, <1>2, <1>3, <1>4, <1>6, <1>7, <1>8, <1>9 DEF PruneStep

\* A retention that fails forgets its pass, or is still to be undone.
LEMMA FailsEffect ==
  ASSUME TypeOK, NEW p \in Procs, Fails(p) \/ Crash(p) \/ \E d \in Digests : Damage(d)
  PROVE  scan'[p] = NoScan \/ (scan'[p] = scan[p] /\ (pc'[p] = "idle" => pc[p] = "idle"))
<1>0. scan \in [Procs -> ScanRecord] /\ pc \in [Procs -> Labels]
  BY DEF TypeOK
<1>1. CASE RetainFails(p)
  BY <1>0, <1>1 DEF RetainFails
<1>2. CASE UndoAlias(p)
  BY <1>0, <1>2 DEF UndoAlias, Return, Goto
<1>3. CASE UndoBlob(p)
  BY <1>0, <1>3 DEF UndoBlob, Goto
<1>4. CASE UndoManifest(p)
  BY <1>0, <1>4 DEF UndoManifest, Return
<1>5. CASE UndoFails(p)
  BY <1>0, <1>5 DEF UndoFails, Return, Goto
<1>6. CASE Crash(p)
  BY <1>0, <1>6 DEF Crash
<1>7. CASE \E d \in Digests : Damage(d)
  BY <1>7 DEF Damage
<1>. QED
  BY <1>1, <1>2, <1>3, <1>4, <1>5, <1>6, <1>7 DEF Fails

LEMMA TimelyStep ==
  ASSUME TypeOK, Sole, [Next]_vars, NEW p \in Procs, Timely(p)
  PROVE  Timely(p)'
<1>0. /\ now \in Nat /\ call[p] \in CallRecord /\ manifest \in [Digests -> ManifestRecord]
      /\ scan[p].seen \in [Digests -> ManifestRecord]
      /\ alias \in [Aliases -> [target : Digests \cup {Absent}, mtime : Nat]]
      /\ call[p].observed \in Nat
      /\ pc \in [Procs -> Labels] /\ scan \in [Procs -> ScanRecord]
      /\ call \in [Procs -> CallRecord]
  BY ScanType DEF TypeOK, ScanRecord, CallRecord
<1>. USE DEF Timely
<1>1. CASE RetainRefused(p) \/ UNCHANGED vars
  BY <1>1 DEF RetainRefused, vars, files
<1>2. ASSUME NEW a \in Aliases, NEW b \in Protections, RetainStart(p, a, b)
      PROVE  Timely(p)'
  <2>1. /\ now' = now + 1 /\ UNCHANGED <<manifest, alias, scan>>
        /\ call'[p].observed = now + 1 /\ pc'[p] \in Before
    BY <1>0, <1>2 DEF RetainStart, Goto, files, Before
  <2>2. \A n \in Nat : n <= now => n <= now + 1
    BY <1>0
  <2>3. \A d \in Digests : manifest[d].created \in Nat /\ scan[p].seen[d].created \in Nat
    BY <1>0 DEF ManifestRecord
  <2>. QED
    BY <1>0, <2>1, <2>2, <2>3 DEF Before
<1>3. ASSUME NEW k \in Queries, RetrieveStart(p, k)
      PROVE  Timely(p)'
  BY <1>0, <1>3 DEF RetrieveStart, NoCall, Goto, files
<1>4. CASE PutBlob(p)
  BY <1>0, <1>4 DEF PutBlob, Goto
<1>5. CASE PutManifest(p)
  <2>1. \A d \in Digests : manifest'[d].created \in {manifest[d].created, call[p].observed}
    BY <1>0, <1>5 DEF PutManifest
  <2>. QED
    BY <1>0, <1>5, <2>1 DEF PutManifest, Goto
<1>6. CASE PutAlias(p)
  BY <1>0, <1>6 DEF PutAlias, Goto
<1>7. CASE PruneStep(p) \/ ReadManifest(p) \/ ReadBlob(p)
  <2>1. \A d \in Digests : manifest'[d].created <= now
    BY <1>0, <1>7, Copies
  <2>2. scan'[p] = NoScan \/ \A d \in Digests : scan'[p].seen[d].created <= now
    BY <1>0, <1>7, Copies
  <2>3. \A d \in Digests : scan'[p].seen[d].created <= now
    BY <1>0, <2>2 DEF NoScan, NoManifest
  <2>4. UNCHANGED now
    BY <1>7 DEF PruneStep, ListManifests, ListRecords, UnlinkRecord, ListAliases,
         DropAliases, ExpireBlob, ExpireManifest, ReadListed, EvictOldest,
         ReadRecord, ReadManifest, ReadBlob, files
  <2>5. \A a \in Aliases : alias'[a].mtime <= now
    <3>1. UNCHANGED alias \/ DropAliases(p)
      BY <1>7 DEF PruneStep, ListManifests, ListRecords, UnlinkRecord, ListAliases,
         ExpireBlob, ExpireManifest, ReadListed, EvictOldest,
         ReadRecord, ReadManifest, ReadBlob, files
    <3>. QED
      BY <1>0, <3>1 DEF DropAliases, NoAlias
  <2>6. \/ call' = call /\ pc'[p] # "idle"
        \/ call'[p] = NoCall /\ pc'[p] = "idle" /\ scan'[p] = NoScan
    BY <1>0, <1>7, ReturnEffect
       DEF PruneStep, ListManifests, ListRecords, UnlinkRecord, ListAliases,
         DropAliases, ExpireBlob, ExpireManifest, ReadListed, EvictOldest,
         ReadRecord, ReadManifest, ReadBlob, Expire, Goto
  <2>7. call'[p].observed <= now
    BY <1>0, <2>6 DEF NoCall
  <2>. QED
    BY <2>1, <2>3, <2>4, <2>5, <2>6, <2>7
<1>8. CASE Tick
  <2>1. /\ now' = now + 1
        /\ UNCHANGED <<manifest, alias, scan, call, pc>>
    BY <1>8 DEF Tick, files
  <2>2. \A n \in Nat : n <= now => n <= now + 1
    BY <1>0
  <2>3. \A d \in Digests : manifest[d].created \in Nat /\ scan[p].seen[d].created \in Nat
    BY <1>0 DEF ManifestRecord
  <2>. QED
    BY <1>0, <2>1, <2>2, <2>3
<1>9. CASE Fails(p) \/ Crash(p) \/ \E d \in Digests : Damage(d)
  <2>1. UNCHANGED now
    BY <1>9 DEF Fails, RetainFails, UndoAlias, UndoBlob, UndoManifest, UndoFails, Crash,
         Damage, files
  <2>2. \A d \in Digests : manifest'[d].created \in {manifest[d].created, 0}
    BY <1>0, <1>9 DEF Fails, RetainFails, UndoAlias, UndoBlob, UndoManifest, UndoFails,
         Crash, Damage, NoManifest, files
  <2>3. \A a \in Aliases : alias'[a].mtime \in {alias[a].mtime, 0}
    BY <1>0, <1>9 DEF Fails, RetainFails, UndoAlias, UndoBlob, UndoManifest, UndoFails,
         Crash, Damage, NoAlias, files
  <2>4. scan'[p] = NoScan \/ (scan'[p] = scan[p] /\ (pc'[p] = "idle" => pc[p] = "idle"))
    BY <1>9, FailsEffect
  <2>5. call'[p] = call[p] \/ call'[p] = NoCall
    BY <1>0, <1>9, ReturnEffect DEF Fails, RetainFails, UndoAlias, UndoBlob, UndoManifest,
         UndoFails, Crash, Damage
  <2>6. \A d \in Digests : scan'[p].seen[d].created <= now
    BY <1>0, <2>4 DEF NoScan, NoManifest
  <2>. QED
    BY <1>0, <2>1, <2>2, <2>3, <2>4, <2>5, <2>6 DEF NoCall
<1>. QED
  BY <1>1, <1>2, <1>3, <1>4, <1>5, <1>6, <1>7, <1>8, <1>9, SoleSteps

LEMMA OneWithinQuota ==
  ASSUME NEW d \in Digests, Size[d] <= MaxBytes
  PROVE  WithinQuota({d})
<1>1. Size[d] \in Nat /\ MaxBytes \in Nat /\ MaxEntries \in Nat \ {0} /\ Size[d] \in Int /\ 1 \in Int
  BY StoreAssumption
<1>2. IsFiniteSet({d}) /\ Cardinality({d}) = 1
  BY FS_Singleton
<1>3. IsFiniteSet(1..Size[d]) /\ Cardinality(1..Size[d]) = Size[d]
  <2>1. /\ IsFiniteSet(1..Size[d])
        /\ Cardinality(1..Size[d]) = IF 1 > Size[d] THEN 0 ELSE Size[d] - 1 + 1
    BY <1>1, FS_Interval
  <2>. QED
    BY <1>1, <2>1
<1>4. Cardinality({d} \X (1..Size[d])) = Size[d]
  <2>1. Cardinality({d} \X (1..Size[d])) = 1 * Cardinality(1..Size[d])
    BY <1>2, <1>3, FS_Product
  <2>. QED
    BY <1>1, <1>3, <2>1
<1>5. UNION {{e} \X (1..Size[e]) : e \in {d}} = {d} \X (1..Size[d])
  OBVIOUS
<1>. QED
  BY <1>1, <1>2, <1>4, <1>5 DEF WithinQuota, Bytes

\* The entry just written is not the one a pass evicts.
LEMMA NewestStays ==
  ASSUME TypeOK, NEW p \in Procs, Own(p), call[p].keep = "exact", pc[p] \notin Undoing,
         NEW d \in Digests, EvictOldest(p, d)
  PROVE  d # call[p].digest
<1>. DEFINE own == call[p].digest
<1>. SUFFICES ASSUME d = own PROVE FALSE
  OBVIOUS
<1>1. own \in ExactSeen(p) /\ ~WithinQuota(ExactSeen(p)) /\ ExactSeen(p) \subseteq Digests
  BY DEF EvictOldest, ExactSeen
<1>2. ExactSeen(p) # {own}
  BY <1>1, OneWithinQuota DEF Own
<1>3. PICK e \in ExactSeen(p) : e # own
  BY <1>1, <1>2
<1>4. scan[p].seen[own].created = call[p].observed /\ scan[p].seen[e].created < call[p].observed
  BY <1>1, <1>3 DEF Own, ExactSeen
<1>5. scan[p].seen[own].created <= scan[p].seen[e].created
  BY <1>3 DEF EvictOldest, EvictsBefore
<1>6. scan[p].seen[e].created \in Nat /\ call[p].observed \in Nat
  BY <1>1, <1>3, ScanType, CallType DEF ScanRecord, ManifestRecord, CallRecord
<1>. QED
  BY <1>4, <1>5, <1>6

\* The alias just written is not one a pass drops.
LEMMA NewestAliasStays ==
  ASSUME TypeOK, NEW p \in Procs, Own(p), call[p].keep = "exact", pc[p] = "cull",
         NEW T \in SUBSET AliasSet,
         AllButNewest(T, AliasSet, [a \in Aliases |-> alias[a].mtime])
  PROVE  call[p].key \notin T
<1>. DEFINE k == call[p].key
<1>. SUFFICES ASSUME k \in T PROVE FALSE
  OBVIOUS
<1>1. k \in AliasSet /\ alias[k].mtime >= call[p].observed
  BY DEF Own, Before, Undoing
<1>2. Cardinality(AliasSet \ T) = RecordLimit
  BY DEF AllButNewest
<1>3. RecordLimit # 0
  BY StoreAssumption DEF RecordLimit, Later
<1>4. AliasSet \ T # {}
  BY <1>2, <1>3, FS_EmptySet
<1>5. PICK b \in AliasSet \ T : TRUE
  BY <1>4
<1>6. b \in Aliases /\ b # k
  BY <1>5 DEF AliasSet
<1>7. alias[b].mtime < call[p].observed
  BY <1>6 DEF Own, Undoing
<1>8. alias[k].mtime <= alias[b].mtime
  BY <1>1, <1>5, <1>6 DEF AllButNewest, AliasSet
<1>9. call[p].observed \in Nat /\ alias[k].mtime \in Nat /\ alias[b].mtime \in Nat
  BY <1>1, <1>6, CallType DEF TypeOK, CallRecord, AliasSet
<1>. QED
  BY <1>1, <1>7, <1>8, <1>9

LEMMA OwnByOthers ==
  ASSUME TypeOK, NEW p \in Procs, Own(p),
         \/ call'[p].keep # "exact" \/ pc'[p] \in Undoing
         \/ call'[p] = call[p] /\ pc[p] \notin Before \cup Written \cup Undoing
  PROVE  Own(p)'
BY DEF Own

LEMMA OwnWrites ==
  ASSUME TypeOK, ContractInv, NEW p \in Procs, Timely(p), Own(p),
         \/ \E a \in Aliases, b \in Protections : RetainStart(p, a, b)
         \/ PutBlob(p) \/ PutManifest(p) \/ PutAlias(p)
  PROVE  Own(p)'
<1>0. /\ now \in Nat /\ call[p] \in CallRecord /\ manifest \in [Digests -> ManifestRecord]
      /\ scan[p].seen \in [Digests -> ManifestRecord]
      /\ alias \in [Aliases -> [target : Digests \cup {Absent}, mtime : Nat]]
      /\ blob \in [Digests -> Digests \cup {Absent, Garbage}]
      /\ call[p].observed \in Nat
      /\ pc \in [Procs -> Labels] /\ call \in [Procs -> CallRecord]
  BY ScanType DEF TypeOK, ScanRecord, CallRecord
<1>1. ASSUME NEW a \in Aliases, NEW b \in Protections, RetainStart(p, a, b)
      PROVE  Own(p)'
  <2>1. /\ UNCHANGED <<manifest, alias, scan>>
        /\ call'[p].observed = now + 1 /\ call'[p].key = a
        /\ call'[p].digest = SourceOf[a] /\ Size[SourceOf[a]] <= MaxBytes
        /\ scan[p] = NoScan
    BY <1>0, <1>1 DEF RetainStart, files, Timely
  <2>2. call'[p].keep = "exact" => pc'[p] = "put_blob"
    BY <1>0, <1>1 DEF RetainStart, Goto
  <2>3. \A d \in Digests : /\ manifest[d].created < now + 1
                           /\ scan[p].seen[d].created < now + 1
                           /\ scan[p].seen[d].state # "exact"
    <3>1. \A d \in Digests : manifest[d].created \in Nat /\ manifest[d].created <= now
      BY <1>0 DEF Timely, ManifestRecord
    <3>2. \A d \in Digests : scan[p].seen[d] = NoManifest
      BY <2>1 DEF NoScan
    <3>. QED
      BY <1>0, <3>1, <3>2 DEF NoManifest
  <2>4. \A c \in Aliases : alias[c].mtime < now + 1
    BY <1>0 DEF Timely
  <2>5. SourceOf[a] \in Digests
    BY StoreAssumption
  <2>. QED
    BY <1>0, <2>1, <2>2, <2>3, <2>4, <2>5 DEF Own, Before, Expiring
<1>2. CASE PutBlob(p)
  <2>1. /\ pc[p] = "put_blob" /\ pc'[p] = "put_manifest"
        /\ UNCHANGED <<alias, scan, call, manifest>>
        /\ call[p].digest \in Digests => blob'[call[p].digest] = call[p].digest
    BY <1>0, <1>2 DEF PutBlob, Goto
  <2>. QED
    BY <2>1 DEF Own, Before, Expiring, Undoing
<1>3. CASE PutManifest(p)
  <2>. DEFINE d == call[p].digest
  <2>1. /\ UNCHANGED <<alias, scan, call, blob>>
        /\ pc[p] = "put_manifest" /\ pc'[p] = "put_alias"
        /\ \A e \in Digests \ {d} : manifest'[e] = manifest[e]
    BY <1>0, <1>3 DEF PutManifest, Goto
  <2>2. d \in Digests => /\ manifest'[d].state = call[p].keep
                         /\ manifest'[d].created = call[p].observed
                         /\ manifest'[d].expires = call[p].observed + TTL
    BY <1>0, <1>3 DEF PutManifest
  <2>. QED
    BY <2>1, <2>2 DEF Own, Before, Written, Expiring, Undoing
<1>4. CASE PutAlias(p)
  <2>. DEFINE k == call[p].key
  <2>1. /\ UNCHANGED <<manifest, scan, call, blob>>
        /\ pc[p] = "put_alias" /\ pc'[p] = "list"
        /\ \A b \in Aliases \ {k} : alias'[b] = alias[b]
    BY <1>0, <1>4 DEF PutAlias, Goto
  <2>2. k \in Aliases => alias'[k].target = call[p].digest /\ alias'[k].mtime = now
    BY <1>0, <1>4 DEF PutAlias
  <2>3. now >= call[p].observed
    BY DEF Timely
  <2>. QED
    BY <1>0, <2>1, <2>2, <2>3 DEF Own, Before, Written, Expiring, Undoing
<1>. QED
  BY <1>1, <1>2, <1>3, <1>4

\* What a pruning step has to leave alone for the retained entry to stand.
LEMMA OwnIsLeftAlone ==
  ASSUME TypeOK, NEW p \in Procs, Own(p), call[p].keep = "exact", PruneStep(p),
         UNCHANGED <<alias, call>>,
         pc[p] \notin Before \cup {"put_alias"}, pc'[p] \in Written \ {"put_alias"},
         manifest'[call[p].digest] = manifest[call[p].digest],
         blob'[call[p].digest] = blob[call[p].digest],
         scan'[p].seen[call[p].digest].state = "exact" =>
           scan'[p].seen[call[p].digest] \in
             {manifest[call[p].digest], scan[p].seen[call[p].digest]},
         pc'[p] = "drop_aliases" => call[p].key \notin scan'[p].drop,
         pc'[p] \in Expiring => scan'[p].back = "scan",
         pc'[p] \in Expiring \cup {"unlink_record"} => scan'[p].victim # call[p].digest
  PROVE  Own(p)'
<1>u. pc[p] \notin Undoing /\ pc'[p] \notin Undoing
  <2>1. pc[p] \notin Undoing
    BY DEF PruneStep, ListManifests, ListRecords, UnlinkRecord, ListAliases, DropAliases,
         ExpireBlob, ExpireManifest, ReadListed, EvictOldest, ReadRecord, Undoing
  <2>. QED
    BY <2>1 DEF Written, Undoing
<1>0. /\ call[p].digest \in Digests /\ call[p].key \in Aliases
      /\ call[p].observed \in Nat /\ call[p].observed > 0
      /\ Size[call[p].digest] <= MaxBytes
  BY <1>u, CallType DEF Own, CallRecord
<1>1. \A e \in Digests \ {call[p].digest} : manifest'[e].created < call[p].observed
  <2>. TAKE e \in Digests \ {call[p].digest}
  <2>1. manifest[e].created < call[p].observed /\ scan[p].seen[e].created < call[p].observed
    BY <1>u DEF Own
  <2>2. manifest'[e].created \in {manifest[e].created, scan[p].seen[e].created, 0}
    BY Copies
  <2>. QED
    BY <1>0, <2>1, <2>2
<1>2. \A e \in Digests \ {call[p].digest} : scan'[p].seen[e].created < call[p].observed
  <2>. TAKE e \in Digests \ {call[p].digest}
  <2>1. manifest[e].created < call[p].observed /\ scan[p].seen[e].created < call[p].observed
    BY <1>u DEF Own
  <2>2. \/ scan'[p] = NoScan
        \/ scan'[p].seen[e].created \in {manifest[e].created, scan[p].seen[e].created}
    BY Copies
  <2>. QED
    BY <1>0, <2>1, <2>2 DEF NoScan, NoManifest
<1>3. /\ blob'[call[p].digest] = call[p].digest
      /\ manifest[call[p].digest].state = "exact"
      /\ manifest[call[p].digest].created = call[p].observed
      /\ manifest[call[p].digest].expires = call[p].observed + TTL
      /\ alias[call[p].key].target = call[p].digest
      /\ alias[call[p].key].mtime >= call[p].observed
      /\ \A b \in Aliases : b # call[p].key => alias[b].mtime < call[p].observed
  BY <1>u DEF Own, Before
<1>4. scan'[p].seen[call[p].digest].state = "exact" =>
        scan'[p].seen[call[p].digest].created = call[p].observed
  BY <1>3, <1>u DEF Own
<1>5. pc'[p] \in Before \cup Written
  OBVIOUS
<1>6. call'[p] = call[p] /\ alias' = alias
  OBVIOUS
<1>. QED
  BY <1>0, <1>1, <1>2, <1>3, <1>4, <1>5, <1>6, <1>u DEF Own

LEMMA OwnPrunes ==
  ASSUME TypeOK, NEW p \in Procs, Own(p), PruneStep(p)
  PROVE  Own(p)'
<1>0. /\ scan[p] \in ScanRecord /\ scan \in [Procs -> ScanRecord]
      /\ call[p] \in CallRecord /\ call \in [Procs -> CallRecord]
      /\ manifest \in [Digests -> ManifestRecord] /\ pc \in [Procs -> Labels]
      /\ scan[p].seen \in [Digests -> ManifestRecord] /\ call[p].observed \in Nat
      /\ blob \in [Digests -> Digests \cup {Absent, Garbage}]
  BY ScanType, CallType DEF TypeOK, ScanRecord, CallRecord
<1>1. CASE call[p].keep # "exact"
  <2>1. UNCHANGED call \/ call'[p] = NoCall
    BY <1>0 DEF PruneStep, ListManifests, ListRecords, UnlinkRecord, ListAliases,
         DropAliases, ExpireBlob, ExpireManifest, ReadListed, EvictOldest, ReadRecord,
         Return
  <2>. QED
    BY <1>1, <2>1 DEF Own, NoCall
<1>. SUFFICES ASSUME call[p].keep = "exact" PROVE Own(p)'
  BY <1>1
<1>u. pc[p] \notin Undoing
  BY DEF PruneStep, ListManifests, ListRecords, UnlinkRecord, ListAliases, DropAliases,
         ExpireBlob, ExpireManifest, ReadListed, EvictOldest, ReadRecord, Undoing
<1>. DEFINE d == call[p].digest
<1>2. /\ d \in Digests
      /\ manifest[d].state = "exact" \/ pc[p] \in Before
      /\ pc[p] \in Expiring => scan[p].victim # d /\ scan[p].back = "scan"
      /\ pc[p] = "unlink_record" => scan[p].victim # d
  BY <1>u DEF Own, Expiring
<1>b. blob'[d] = blob[d]
  <2>1. CASE ExpireBlob(p)
    BY <1>0, <1>2, <2>1 DEF ExpireBlob, Expiring
  <2>2. CASE ~ExpireBlob(p)
    BY <2>2 DEF PruneStep, ListManifests, ListRecords, UnlinkRecord, ListAliases, DropAliases,
         ExpireManifest, ReadListed, EvictOldest, ReadRecord, files
  <2>. QED
    BY <2>1, <2>2
<1>3. CASE ListManifests(p)
  <2>1. /\ scan'[p].seen = scan[p].seen /\ pc[p] = "list" /\ pc'[p] = "scan"
        /\ UNCHANGED <<alias, call, manifest>>
    BY <1>0, <1>3, PassEffect DEF ScanRecord, ListManifests, files
  <2>. QED
    BY <2>1, <1>b, OwnIsLeftAlone DEF Before, Written, Expiring
<1>4. CASE ListRecords(p)
  <2>1. /\ scan'[p].seen = scan[p].seen /\ pc[p] = "scan" /\ pc'[p] = "cull"
        /\ UNCHANGED <<alias, call, manifest>>
    BY <1>0, <1>4, PassEffect DEF ScanRecord, ListRecords, files
  <2>. QED
    BY <2>1, <1>b, OwnIsLeftAlone DEF Before, Written, Expiring
<1>5. CASE UnlinkRecord(p)
  <2>1. /\ scan'[p].seen = scan[p].seen /\ pc[p] = "unlink_record" /\ pc'[p] = "cull"
        /\ UNCHANGED <<alias, call>> /\ manifest'[d] = manifest[d]
    BY <1>0, <1>2, <1>5, PassEffect DEF ScanRecord, UnlinkRecord, Before
  <2>. QED
    BY <2>1, <1>b, OwnIsLeftAlone DEF Before, Written, Expiring
<1>6. CASE ListAliases(p)
  <2>1. PICK T \in SUBSET AliasSet :
          /\ AllButNewest(T, AliasSet, [a \in Aliases |-> alias[a].mtime])
          /\ scan'[p] = [scan[p] EXCEPT !.drop = T]
    BY <1>6, PassEffect
  <2>2. /\ scan'[p].seen = scan[p].seen /\ pc[p] = "cull" /\ pc'[p] = "drop_aliases"
        /\ scan'[p].drop = T /\ UNCHANGED <<alias, call, manifest>>
    BY <1>0, <1>6, <2>1, PassEffect DEF ScanRecord, ListAliases, files
  <2>3. call[p].key \notin T
    BY <1>u, <2>1, <2>2, NewestAliasStays
  <2>. QED
    BY <2>2, <2>3, <1>b, OwnIsLeftAlone DEF Before, Written, Expiring
<1>7. CASE DropAliases(p)
  BY <1>7, ReturnEffect DEF DropAliases, Own, NoCall
<1>8. CASE ExpireBlob(p)
  <2>1. /\ UNCHANGED <<alias, call, manifest, scan>>
        /\ pc[p] = "expire_blob" /\ pc'[p] = "expire_manifest"
    BY <1>0, <1>8 DEF ExpireBlob, Goto
  <2>. QED
    BY <1>2, <2>1, <1>b, OwnIsLeftAlone DEF Before, Written, Expiring
<1>9. CASE ExpireManifest(p)
  <2>1. pc[p] = "expire_manifest" /\ scan[p].back = "scan" /\ scan[p].victim # d
    BY <1>2, <1>9 DEF ExpireManifest, Expiring
  <2>2. /\ scan'[p].seen = scan[p].seen /\ pc'[p] = "scan"
    BY <1>0, <1>9, <2>1, PassEffect DEF ScanRecord
  <2>3. UNCHANGED <<alias, call>>
    BY <1>9, <2>1 DEF ExpireManifest
  <2>. DEFINE t == Tombstone(scan[p].seen[scan[p].victim])
  <2>4. manifest' = manifest \/ manifest' = [manifest EXCEPT ![scan[p].victim] = t]
    BY <1>9 DEF ExpireManifest
  <2>. HIDE DEF t
  <2>5. manifest'[d] = manifest[d]
    BY <1>0, <1>2, <2>1, <2>4
  <2>. QED
    BY <2>1, <2>2, <2>3, <2>5, <1>b, OwnIsLeftAlone DEF Before, Written, Expiring
<1>10. ASSUME NEW e \in Digests, NEW m \in ManifestRecord, NEW T \in SUBSET Digests,
              Expire(p, e, m, "scan", T), e # d, pc[p] = "scan",
              UNCHANGED <<alias, call, manifest>>
       PROVE  Own(p)'
  <2>1. /\ pc'[p] = "expire_blob" /\ scan'[p].victim = e /\ scan'[p].back = "scan"
        /\ scan'[p].seen = [scan[p].seen EXCEPT ![e] = Tombstone(m)]
    BY <1>10, ExpireEffect
  <2>2. scan'[p].seen[d] = scan[p].seen[d]
    BY <1>0, <1>10, <2>1
  <2>. QED
    BY <1>10, <2>1, <2>2, <1>b, OwnIsLeftAlone DEF Before, Written, Expiring
<1>11. ASSUME NEW e \in Digests, ReadListed(p, e)
       PROVE  Own(p)'
  <2>1. pc[p] = "scan" /\ UNCHANGED <<alias, call, manifest>>
        /\ scan[p].todo \ {e} \in SUBSET Digests /\ manifest[e] \in ManifestRecord
    BY <1>0, <1>11 DEF ReadListed, files, ScanRecord
  <2>2. CASE OverdueAt(manifest[e], call[p].observed)
             /\ Expire(p, e, manifest[e], "scan", scan[p].todo \ {e})
    <3>1. manifest[d].expires > call[p].observed
      <4>1. manifest[d].expires = call[p].observed + TTL
        BY <1>u, <2>1 DEF Own, Before
      <4>2. TTL \in Nat \ {0} /\ call[p].observed \in Nat
        BY <1>0, StoreAssumption
      <4>3. call[p].observed + TTL > call[p].observed
        BY <4>2
      <4>. QED
        BY <4>1, <4>3
    <3>2. manifest[d].expires \in Nat
      BY <1>0, <1>2 DEF ManifestRecord
    <3>3. e # d
      BY <1>0, <2>2, <3>1, <3>2 DEF OverdueAt
    <3>. QED
      BY <1>10, <2>1, <2>2, <3>3
  <2>3. CASE /\ scan' = [scan EXCEPT ![p].seen[e] = manifest[e], ![p].todo = @ \ {e}]
             /\ UNCHANGED pc
    <3>1. scan'[p].seen = [scan[p].seen EXCEPT ![e] = manifest[e]]
      BY <1>0, <2>3 DEF ScanRecord
    <3>2. scan'[p].seen[d] \in {manifest[d], scan[p].seen[d]}
      BY <1>0, <1>u, <3>1 DEF Own
    <3>. QED
      BY <2>1, <2>3, <3>2, <1>b, OwnIsLeftAlone DEF Before, Written, Expiring
  <2>. QED
    BY <1>11, <2>2, <2>3 DEF ReadListed
<1>12. ASSUME NEW e \in Digests, EvictOldest(p, e)
       PROVE  Own(p)'
  <2>1. pc[p] = "scan" /\ UNCHANGED <<alias, call, manifest>> /\ {} \in SUBSET Digests
        /\ Expire(p, e, scan[p].seen[e], "scan", {}) /\ scan[p].seen[e] \in ManifestRecord
    BY <1>0, <1>12 DEF EvictOldest, files
  <2>2. e # d
    BY <1>u, <1>12, NewestStays
  <2>. QED
    BY <1>10, <2>1, <2>2
<1>13. ASSUME NEW e \in Digests, ReadRecord(p, e)
       PROVE  Own(p)'
  <2>1. /\ scan'[p].seen = scan[p].seen /\ pc[p] = "cull"
        /\ pc'[p] = (IF Culls(manifest[e]) THEN "unlink_record" ELSE "cull")
        /\ scan'[p].victim = (IF Culls(manifest[e]) THEN e ELSE Absent)
        /\ UNCHANGED <<alias, call, manifest>>
    BY <1>0, <1>13, PassEffect DEF ScanRecord, ReadRecord, files
  <2>2. Culls(manifest[e]) => e # d
    BY <1>2, <2>1 DEF Culls, Before
  <2>. QED
    BY <2>1, <2>2, <1>b, OwnIsLeftAlone DEF Before, Written, Expiring
<1>. QED
  BY <1>3, <1>4, <1>5, <1>6, <1>7, <1>8, <1>9, <1>11, <1>12, <1>13 DEF PruneStep

LEMMA OwnStep ==
  ASSUME TypeOK, ContractInv, Sole, "damage" \notin Faults, [Next]_vars, NEW p \in Procs,
         Timely(p), Own(p)
  PROVE  Own(p)'
<1>0. /\ call \in [Procs -> CallRecord] /\ scan \in [Procs -> ScanRecord]
      /\ pc \in [Procs -> Labels]
  BY DEF TypeOK
<1>1. CASE RetainRefused(p) \/ Tick \/ UNCHANGED vars
  <2>1. UNCHANGED <<call, pc, scan, manifest, alias, blob>>
    BY <1>1 DEF RetainRefused, Tick, vars, files
  <2>. QED
    BY <2>1 DEF Own
<1>2. ASSUME NEW k \in Queries, RetrieveStart(p, k)
      PROVE  Own(p)'
  <2>1. call'[p].keep # "exact"
    BY <1>0, <1>2 DEF RetrieveStart, NoCall
  <2>. QED
    BY <2>1, OwnByOthers
<1>3. CASE ReadManifest(p) \/ ReadBlob(p)
  <2>1. pc[p] \in {"read_manifest", "read_blob"} /\ (call' = call \/ call'[p] = NoCall)
    BY <1>0, <1>3, ReturnEffect DEF ReadManifest, ReadBlob
  <2>. QED
    BY <2>1, OwnByOthers DEF Before, Written, Undoing, NoCall
<1>4. CASE Fails(p) \/ Crash(p)
  <2>1. call'[p] = NoCall \/ pc'[p] \in Undoing
    BY <1>0, <1>4, ReturnEffect DEF Fails, RetainFails, UndoAlias, UndoBlob, UndoManifest,
         UndoFails, Crash, Goto, Undoing
  <2>. QED
    BY <2>1, OwnByOthers DEF NoCall
<1>5. \A d \in Digests : ~Damage(d)
  BY DEF Damage
<1>. QED
  BY <1>1, <1>2, <1>3, <1>4, <1>5, OwnWrites, OwnPrunes, SoleSteps

\* A retrieval looks at the text its key leads to, and the exact answer a
\* caller holds between calls still stands.
Answers(p) ==
  /\ pc[p] \in {"read_manifest", "read_blob"} => call[p].digest = Target(call[p].key)
  /\ pc[p] = "read_blob" => call[p].digest \in ExactEntries
  /\ pc[p] # "idle" => reply[p] = Pending
  /\ pc[p] = "idle" /\ reply[p].state = "exact" => Retrievable(reply[p].key)

LEMMA AnswersStep ==
  ASSUME TypeOK, Sole, "damage" \notin Faults, [Next]_vars, NEW p \in Procs,
         Own(p), Answers(p)
  PROVE  Answers(p)'
<1>0. /\ scan \in [Procs -> ScanRecord] /\ call \in [Procs -> CallRecord]
      /\ call[p] \in CallRecord /\ reply \in [Procs -> ReplyRecord]
      /\ pc \in [Procs -> Labels] /\ manifest \in [Digests -> ManifestRecord]
  BY DEF TypeOK
<1>1. CASE Tick \/ UNCHANGED vars
  <2>1. UNCHANGED <<call, pc, reply, manifest, alias, blob>>
    BY <1>1 DEF Tick, vars, files
  <2>. QED
    BY <2>1 DEF Answers, Target, Retrievable, ExactEntries
<1>2. CASE RetainRefused(p)
  <2>1. pc'[p] = "idle" /\ reply'[p].state # "exact"
    BY <1>0, <1>2, StoreAssumption DEF RetainRefused
  <2>. QED
    BY <2>1 DEF Answers
<1>3. CASE \/ \E a \in Aliases, b \in Protections : RetainStart(p, a, b)
           \/ PutBlob(p) \/ PutManifest(p) \/ PutAlias(p)
           \/ PruneStep(p) /\ ~DropAliases(p) /\ ~ExpireManifest(p)
  <2>1. /\ pc'[p] \notin {"idle", "read_manifest", "read_blob"}
        /\ reply'[p] = Pending \/ (UNCHANGED reply /\ pc[p] # "idle")
    BY <1>0, <1>3
       DEF RetainStart, PutBlob, PutManifest, PutAlias, PruneStep, ListManifests,
         ListRecords, UnlinkRecord, ListAliases, ExpireBlob, ReadListed, EvictOldest,
         ReadRecord, Expire, Goto
  <2>. QED
    BY <2>1 DEF Answers
<1>4. ASSUME NEW k \in Queries, RetrieveStart(p, k)
      PROVE  Answers(p)'
  <2>1. /\ pc'[p] = "read_manifest" /\ call'[p].key = k /\ call'[p].digest = Target(k)
        /\ UNCHANGED alias /\ reply'[p] = Pending
    BY <1>0, <1>4 DEF RetrieveStart, Goto, NoCall, files
  <2>. QED
    BY <2>1 DEF Answers, Target
<1>5. CASE ReadManifest(p)
  <2>. DEFINE d == call[p].digest
              m == IF d \in Digests THEN manifest[d] ELSE NoManifest
  <2>1. /\ UNCHANGED <<manifest, alias, blob>> /\ pc[p] = "read_manifest"
        /\ \/ \E s \in {"missing", "expired", "redacted"} : Return(p, s, Absent)
           \/ pc'[p] = "expire_blob" /\ UNCHANGED reply
           \/ m.state = "exact" /\ pc'[p] = "read_blob" /\ UNCHANGED <<call, reply>>
    BY <1>0, <1>5 DEF ReadManifest, Expire, Goto, Servable, files
  <2>2. m.state = "exact" => d \in ExactEntries
    BY DEF NoManifest, ExactEntries
  <2>3. ASSUME NEW s \in {"missing", "expired", "redacted"}, Return(p, s, Absent)
        PROVE  Answers(p)'
    <3>1. pc'[p] = "idle" /\ reply'[p].state # "exact"
      BY <2>3, ReturnEffect
    <3>. QED
      BY <3>1 DEF Answers
  <2>4. CASE pc'[p] = "expire_blob" /\ UNCHANGED reply
    BY <2>1, <2>4 DEF Answers
  <2>5. CASE m.state = "exact" /\ pc'[p] = "read_blob" /\ UNCHANGED <<call, reply>>
    <3>1. d = Target(call[p].key) /\ ExactEntries' = ExactEntries
      BY <2>1 DEF Answers, ExactEntries
    <3>. QED
      BY <2>1, <2>2, <2>5, <3>1 DEF Answers, Target
  <2>. QED
    BY <2>1, <2>3, <2>4, <2>5
<1>6. CASE ReadBlob(p)
  <2>. DEFINE k == call[p].key
              d == call[p].digest
  <2>1. /\ pc[p] = "read_blob" /\ UNCHANGED <<manifest, alias, blob>>
        /\ pc'[p] = "idle" /\ reply'[p].key = k
        /\ reply'[p].state = "exact" => blob[d] = d
    BY <1>0, <1>6, ReturnEffect DEF ReadBlob, files, Verified
  <2>2. d = Target(k) /\ d \in Digests /\ manifest[d].state = "exact"
    BY <2>1 DEF Answers, ExactEntries
  <2>. QED
    BY <2>1, <2>2 DEF Answers, Retrievable, Target
<1>7. CASE DropAliases(p)
  <2>. DEFINE k == call[p].key
              d == call[p].digest
  <2>1. /\ pc[p] = "drop_aliases" /\ UNCHANGED <<manifest, blob>>
        /\ pc'[p] = "idle" /\ reply'[p].key = k /\ reply'[p].state = call[p].keep
    BY <1>0, <1>7, ReturnEffect DEF DropAliases
  <2>a. PICK T \in SUBSET scan[p].drop :
          alias' = [a \in Aliases |-> IF a \in T THEN NoAlias ELSE alias[a]]
    BY <1>7 DEF DropAliases
  <2>2. CASE call[p].keep = "exact"
    <3>1. /\ k \in Aliases /\ d \in Digests /\ manifest[d].state = "exact"
          /\ alias[k].target = d /\ k \notin scan[p].drop /\ blob[d] = d
      BY <2>1, <2>2 DEF Own, Before, Undoing
    <3>2. alias'[k].target = d
      BY <2>a, <3>1
    <3>. QED
      BY <2>1, <3>1, <3>2 DEF Answers, Retrievable, Target
  <2>3. CASE call[p].keep # "exact"
    BY <2>1, <2>3 DEF Answers
  <2>. QED
    BY <2>2, <2>3
<1>8. CASE ExpireManifest(p)
  <2>1. \/ pc'[p] = "scan" /\ pc[p] # "idle" /\ UNCHANGED reply
        \/ pc'[p] = "idle" /\ reply'[p].state = "expired"
    BY <1>0, <1>8, ReturnEffect DEF ExpireManifest, Goto
  <2>. QED
    BY <2>1 DEF Answers
<1>9. CASE Fails(p)
  <2>1. \/ pc'[p] \in Undoing /\ pc[p] # "idle" /\ UNCHANGED reply
        \/ pc'[p] = "idle" /\ reply'[p].state = "error"
    <3>1. RetainFails(p) => pc'[p] \in Undoing /\ pc[p] # "idle" /\ UNCHANGED reply
      BY <1>0 DEF RetainFails, Goto, Undoing
    <3>2. UndoBlob(p) => pc'[p] \in Undoing /\ pc[p] # "idle" /\ UNCHANGED reply
      BY <1>0 DEF UndoBlob, Goto, Undoing
    <3>3. CASE UndoAlias(p)
      BY <1>0, <3>3, ReturnEffect DEF UndoAlias, Goto, Undoing
    <3>4. CASE UndoManifest(p)
      BY <3>4, ReturnEffect DEF UndoManifest
    <3>5. CASE UndoFails(p)
      BY <1>0, <3>5, ReturnEffect DEF UndoFails, Goto, Undoing
    <3>. QED
      BY <1>9, <3>1, <3>2, <3>3, <3>4, <3>5 DEF Fails
  <2>. QED
    BY <2>1 DEF Answers, Undoing
<1>10. CASE Crash(p)
  <2>1. pc[p] # "idle" /\ pc'[p] = "idle" /\ UNCHANGED reply
    BY <1>0, <1>10 DEF Crash, Goto
  <2>. QED
    BY <2>1 DEF Answers, Pending
<1>11. \A d \in Digests : ~Damage(d)
  BY DEF Damage
<1>. QED
  BY <1>1, <1>2, <1>3, <1>4, <1>5, <1>6, <1>7, <1>8, <1>9, <1>10, <1>11, SoleSteps

AnswersInv ==
  /\ TypeOK /\ ContractInv
  /\ \A p \in Procs : Timely(p) /\ Own(p) /\ Answers(p)

\* The exact answer a single caller last got stands until its next call, also
\* through writes, undos and deletions that fail, and calls that are cut off:
\* what was retained is never evicted, culled or expired by its own pass.
THEOREM AnswersStand ==
  Sole /\ "damage" \notin Faults => (Spec => []AnsweredIsRetrievable)
<1>. SUFFICES ASSUME Sole, "damage" \notin Faults PROVE Spec => []AnsweredIsRetrievable
  OBVIOUS
<1>1. Init => AnswersInv
  <2>. SUFFICES ASSUME Init, NEW p \in Procs PROVE Timely(p) /\ Own(p) /\ Answers(p)
    BY InitType, InitContract DEF AnswersInv
  <2>1. /\ pc[p] = "idle" /\ scan[p] = NoScan /\ call[p] = NoCall /\ reply[p] = Pending
        /\ \A d \in Digests : manifest[d] = NoManifest
        /\ \A a \in Aliases : alias[a] = NoAlias
        /\ now = 0
    BY DEF Init
  <2>2. Timely(p)
    BY <2>1 DEF Timely, NoScan, NoCall, NoManifest, NoAlias
  <2>3. Own(p)
    BY <2>1 DEF Own, NoCall
  <2>4. Answers(p)
    BY <2>1 DEF Answers, Pending
  <2>. QED
    BY <2>2, <2>3, <2>4
<1>2. AnswersInv /\ [Next]_vars => AnswersInv'
  BY NextType, ContractStep, TimelyStep, OwnStep, AnswersStep DEF AnswersInv
<1>3. AnswersInv => AnsweredIsRetrievable
  BY DEF AnswersInv, Answers, AnsweredIsRetrievable
<1>. QED
  BY <1>1, <1>2, <1>3, PTL DEF Spec

-----------------------------------------------------------------------------
(* Any number of callers, one at a time.                                   *)

OneAtATime == \A p, q \in Procs : pc[p] # "idle" /\ pc[q] # "idle" => p = q

\* A step that is nobody's, or of a call that is refused.
Quiet ==
  \/ \E q \in Procs : RetainRefused(q)
  \/ Tick \/ (\E d \in Digests : Damage(d)) \/ UNCHANGED vars
Starts(p) ==
  \/ \E a \in Aliases, b \in Protections : RetainStart(p, a, b)
  \/ \E k \in Queries : RetrieveStart(p, k)
Acts(p) == Starts(p) \/ Step(p) \/ Crash(p) \/ Quiet
Alone(p) == \A q \in Procs \ {p} : pc[q] = "idle"

LEMMA BusySteps ==
  ASSUME TypeOK, NEW p \in Procs, Step(p) \/ Crash(p)
  PROVE  pc[p] # "idle"
<1>1. RetainStep(p) => pc[p] # "idle"
  BY DEF RetainStep, PutBlob, PutManifest, PutAlias, RetainFails, UndoAlias, UndoBlob,
       UndoManifest, UndoFails
<1>2. PruneStep(p) => pc[p] # "idle"
  BY DEF PruneStep, ListManifests, ListRecords, UnlinkRecord, ListAliases, DropAliases,
       ExpireBlob, ExpireManifest, ReadListed, EvictOldest, ReadRecord
<1>. QED
  BY <1>1, <1>2 DEF Step, ReadManifest, ReadBlob, Crash

\* Where calls do not overlap, whoever acts is alone before and after.
LEMMA Turns ==
  ASSUME TypeOK, OneAtATime, OneAtATime', [Next]_vars
  PROVE  \/ Quiet
         \/ \E p \in Procs :
              /\ Acts(p) /\ Alone(p) /\ Alone(p)'
              /\ \A q \in Procs \ {p} : scan'[q] = scan[q]
<1>1. ASSUME NEW p \in Procs, Starts(p) \/ Step(p) \/ Crash(p)
      PROVE  /\ Acts(p) /\ Alone(p) /\ Alone(p)'
             /\ \A q \in Procs \ {p} : scan'[q] = scan[q]
  <2>1. CallStart(p) \/ Step(p) \/ Crash(p)
    BY <1>1 DEF Starts, CallStart
  <2>2. \A q \in Procs \ {p} : pc'[q] = pc[q] /\ scan'[q] = scan[q]
    BY <2>1, OthersStay, OthersScan
  <2>3. pc[p] # "idle" \/ pc'[p] # "idle"
    <3>1. Starts(p) => pc'[p] # "idle"
      <4>1. ASSUME NEW a \in Aliases, NEW b \in Protections, RetainStart(p, a, b)
            PROVE  pc'[p] # "idle"
        BY <4>1 DEF RetainStart, Goto, TypeOK
      <4>2. ASSUME NEW k \in Queries, RetrieveStart(p, k)
            PROVE  pc'[p] # "idle"
        BY <4>2 DEF RetrieveStart, Goto, TypeOK
      <4>. QED
        BY <4>1, <4>2 DEF Starts
    <3>. QED
      BY <1>1, <3>1, BusySteps
  <2>4. (\A q \in Procs \ {p} : pc[q] = "idle") \/ (\A q \in Procs \ {p} : pc'[q] = "idle")
    BY <2>3 DEF OneAtATime
  <2>. QED
    BY <1>1, <2>2, <2>4 DEF Acts, Alone
<1>. QED
  BY <1>1 DEF Next, CallStart, Starts, Quiet

\* An exact entry has its payload, unless the caller is about to expire it or
\* has undone the payload and is about to undo the manifest.
Payloads(p) ==
  /\ \A d \in ExactEntries :
       \/ blob[d] = d
       \/ pc[p] = "expire_manifest" /\ d = scan[p].victim
       \/ pc[p] = "undo_manifest" /\ d = call[p].digest
  /\ pc[p] = "put_manifest" /\ call[p].keep = "exact" =>
       blob[call[p].digest] = call[p].digest

LEMMA PayloadsStay ==
  ASSUME NEW p \in Procs, Payloads(p), UNCHANGED blob, ExactEntries' \subseteq ExactEntries,
         pc[p] \notin {"expire_manifest", "undo_manifest"}, pc'[p] = "put_manifest" => call'[p].keep # "exact"
  PROVE  Payloads(p)'
BY DEF Payloads

LEMMA PayloadsStep ==
  ASSUME TypeOK, ContractInv, Faults \subseteq {"put"}, [Next]_vars,
         NEW p \in Procs, Acts(p), Payloads(p)
  PROVE  Payloads(p)'
<1>0. /\ scan[p] \in ScanRecord /\ scan \in [Procs -> ScanRecord]
      /\ call[p] \in CallRecord /\ call \in [Procs -> CallRecord]
      /\ manifest \in [Digests -> ManifestRecord] /\ pc \in [Procs -> Labels]
      /\ blob \in [Digests -> Digests \cup {Absent, Garbage}]
  BY ScanType, CallType DEF TypeOK
<1>a. ExactEntries \subseteq Digests
  BY DEF ExactEntries
<1>1. CASE (\E q \in Procs : RetainRefused(q)) \/ Tick \/ UNCHANGED vars
  <2>1. UNCHANGED <<call, pc, scan, manifest, blob>>
    BY <1>1 DEF RetainRefused, Tick, vars, files
  <2>. QED
    BY <2>1 DEF Payloads, ExactEntries
<1>2. CASE \/ \E a \in Aliases, b \in Protections : RetainStart(p, a, b)
           \/ \E k \in Queries : RetrieveStart(p, k)
           \/ PutAlias(p) \/ ReadManifest(p) \/ ReadBlob(p)
           \/ PruneStep(p) /\ ~ExpireBlob(p) /\ ~ExpireManifest(p)
  <2>1. UNCHANGED blob
    BY <1>2 DEF RetainStart, RetrieveStart, PutAlias, ReadManifest, ReadBlob, PruneStep,
         ListManifests, ListRecords, UnlinkRecord, ListAliases, DropAliases,
         ReadListed, EvictOldest, ReadRecord, files
  <2>2. pc[p] \notin {"expire_manifest", "put_manifest", "undo_manifest"}
    BY <1>2 DEF RetainStart, RetrieveStart, PutAlias, ReadManifest, ReadBlob, PruneStep,
         ListManifests, ListRecords, UnlinkRecord, ListAliases, DropAliases,
         ReadListed, EvictOldest, ReadRecord
  <2>3. pc'[p] = "put_manifest" => call'[p].keep # "exact"
    <3>1. ASSUME NEW a \in Aliases, NEW b \in Protections, RetainStart(p, a, b)
          PROVE  pc'[p] = "put_manifest" => call'[p].keep # "exact"
      BY <1>0, <3>1 DEF RetainStart, Goto
    <3>2. ASSUME NEW k \in Queries, RetrieveStart(p, k)
          PROVE  pc'[p] # "put_manifest"
      BY <1>0, <3>2 DEF RetrieveStart, Goto
    <3>3. ASSUME \/ PutAlias(p) \/ ReadManifest(p) \/ ReadBlob(p)
                 \/ PruneStep(p) /\ ~ExpireBlob(p) /\ ~ExpireManifest(p)
          PROVE  pc'[p] # "put_manifest"
      BY <1>0, <2>2, <3>3
         DEF PutAlias, ReadManifest, ReadBlob, PruneStep, ListManifests, ListRecords,
         UnlinkRecord, ListAliases, DropAliases, ReadListed, EvictOldest, ReadRecord,
         Expire, Return, Goto
    <3>. QED
      BY <1>2, <3>1, <3>2, <3>3
  <2>4. \A q \in Procs : ~PutManifest(q)
    <3>1. ASSUME NEW q \in Procs, q # p, PutManifest(q)
          PROVE  FALSE
      <4>1. CallStart(p) \/ Step(p)
        BY <1>2 DEF CallStart, Step, RetainStep
      <4>2. pc'[q] = pc[q]
        BY <3>1, <4>1, OthersStay
      <4>. QED
        BY <1>0, <3>1, <4>2 DEF PutManifest, Goto
    <3>. QED
      BY <2>2, <3>1 DEF PutManifest
  <2>5. ExactEntries' \subseteq ExactEntries
    BY <2>4, EntriesShrink
  <2>. QED
    BY <2>1, <2>2, <2>3, <2>5, PayloadsStay
<1>3. CASE PutBlob(p)
  <2>1. call[p].digest \in Digests
    BY <1>3 DEF PutBlob, ContractInv, CallInv
  <2>2. /\ pc[p] = "put_blob" /\ pc'[p] = "put_manifest"
        /\ UNCHANGED <<manifest, call, scan>>
        /\ blob' = [blob EXCEPT ![call[p].digest] = call[p].digest]
    BY <1>0, <1>3 DEF PutBlob, Goto
  <2>3. ExactEntries' = ExactEntries
    BY <2>2 DEF ExactEntries
  <2>. QED
    BY <1>0, <1>a, <2>1, <2>2, <2>3 DEF Payloads
<1>4. CASE PutManifest(p)
  <2>. DEFINE d == call[p].digest
              m == [state |-> call[p].keep, created |-> call[p].observed,
                    expires |-> call[p].observed + TTL, mtime |-> now]
  <2>1. /\ pc[p] = "put_manifest" /\ pc'[p] = "put_alias" /\ UNCHANGED <<blob, call, scan>>
        /\ manifest' = [manifest EXCEPT ![d] = m]
    BY <1>0, <1>4 DEF PutManifest, Goto
  <2>2. m.state = call[p].keep
    OBVIOUS
  <2>. HIDE DEF m
  <2>3. \A e \in ExactEntries' : e \in ExactEntries \/ (e = d /\ call[p].keep = "exact")
    BY <1>0, <2>1, <2>2 DEF ExactEntries
  <2>. QED
    BY <2>1, <2>3 DEF Payloads
<1>5. CASE ExpireBlob(p)
  <2>1. /\ pc[p] = "expire_blob" /\ pc'[p] = "expire_manifest"
        /\ UNCHANGED <<manifest, call, scan>>
        /\ blob' = [blob EXCEPT ![scan[p].victim] = Absent]
    BY <1>0, <1>5 DEF ExpireBlob, Goto
  <2>2. ExactEntries' = ExactEntries
    BY <2>1 DEF ExactEntries
  <2>. QED
    BY <1>0, <1>a, <2>1, <2>2 DEF Payloads
<1>6. CASE ExpireManifest(p)
  <2>. DEFINE v == scan[p].victim
              t == Tombstone(scan[p].seen[v])
  <2>1. /\ pc[p] = "expire_manifest" /\ UNCHANGED blob
        /\ manifest' = [manifest EXCEPT ![v] = t]
    BY <1>6 DEF ExpireManifest
  <2>2. v \in Digests => t.state = "expired"
    <3>1. v \in Digests => scan[p].seen[v] \in ManifestRecord
      BY <1>0 DEF ScanRecord
    <3>. QED
      BY <3>1 DEF Tombstone, ManifestRecord
  <2>3. pc'[p] \in {"scan", "idle"}
    BY <1>0, <1>6 DEF ExpireManifest, Return, Goto
  <2>. HIDE DEF v, t
  <2>4. ExactEntries' \subseteq ExactEntries \ {v}
    BY <1>0, <2>1, <2>2 DEF ExactEntries
  <2>. QED
    BY <2>1, <2>3, <2>4 DEF Payloads, v
<1>7. CASE RetainFails(p) \/ UndoAlias(p)
  <2>1. /\ UNCHANGED <<manifest, blob>> /\ pc'[p] # "put_manifest"
        /\ pc[p] \notin {"expire_manifest", "undo_manifest"}
    BY <1>0, <1>7 DEF RetainFails, UndoAlias, Return, Goto, files
  <2>2. ExactEntries' = ExactEntries
    BY <2>1 DEF ExactEntries
  <2>. QED
    BY <2>1, <2>2, PayloadsStay
<1>8. CASE UndoBlob(p)
  <2>1. /\ pc[p] = "undo_blob" /\ pc'[p] = "undo_manifest" /\ UNCHANGED <<manifest, call, scan>>
        /\ blob' = [blob EXCEPT ![call[p].digest] = Absent]
    BY <1>0, <1>8 DEF UndoBlob, Goto
  <2>2. ExactEntries' = ExactEntries
    BY <2>1 DEF ExactEntries
  <2>. QED
    BY <1>0, <1>a, <2>1, <2>2 DEF Payloads
<1>9. CASE UndoManifest(p)
  <2>. DEFINE d == call[p].digest
  <2>1. /\ pc[p] = "undo_manifest" /\ pc'[p] = "idle" /\ UNCHANGED blob
        /\ manifest' = [manifest EXCEPT ![d] = NoManifest]
    BY <1>0, <1>9 DEF UndoManifest, Return, Goto
  <2>2. ExactEntries' \subseteq ExactEntries \ {d}
    BY <1>0, <2>1 DEF ExactEntries, NoManifest
  <2>. QED
    BY <2>1, <2>2 DEF Payloads
<1>10. ~UndoFails(p) /\ ~Crash(p) /\ \A d \in Digests : ~Damage(d)
  BY DEF UndoFails, Crash, Damage
<1>. QED
  BY <1>1, <1>2, <1>3, <1>4, <1>5, <1>6, <1>7, <1>8, <1>9, <1>10
     DEF Acts, Quiet, Starts, Step, RetainStep

PayloadsInv ==
  TypeOK /\ ContractInv /\ \A p \in Procs : Alone(p) => Payloads(p)

\* Between calls every exact manifest has its payload, for any number of callers
\* whose calls do not overlap: expiry deletes the payload first and a retention
\* writes it first, and one whose write fails takes both away again.
THEOREM EntriesAreWhole ==
  Procs # {} /\ Faults \subseteq {"put"} =>
    (Spec /\ []OneAtATime => []EntryHasPayload)
<1>. SUFFICES ASSUME Procs # {}, Faults \subseteq {"put"}
     PROVE  Spec /\ []OneAtATime => []EntryHasPayload
  OBVIOUS
<1>1. Init => PayloadsInv
  BY InitType, InitContract DEF Init, PayloadsInv, Payloads, ExactEntries, NoManifest
<1>2. PayloadsInv /\ OneAtATime /\ OneAtATime' /\ [Next]_vars => PayloadsInv'
  <2>. SUFFICES ASSUME PayloadsInv, OneAtATime, OneAtATime', [Next]_vars,
                       NEW q \in Procs, Alone(q)'
       PROVE  Payloads(q)'
    BY NextType, ContractStep DEF PayloadsInv
  <2>0. TypeOK /\ ContractInv
    BY DEF PayloadsInv
  <2>1. CASE Quiet
    <3>1. Acts(q) /\ UNCHANGED pc
      BY <2>1 DEF Acts, Quiet, RetainRefused, Tick, Damage, vars
    <3>2. Payloads(q)
      BY <3>1 DEF PayloadsInv, Alone
    <3>. QED
      BY <2>0, <3>1, <3>2, PayloadsStep
  <2>2. ASSUME NEW p \in Procs, Acts(p), Alone(p), Alone(p)'
        PROVE  Payloads(q)'
    <3>1. Payloads(p)'
      BY <2>0, <2>2, PayloadsStep DEF PayloadsInv
    <3>2. q # p => pc'[q] = "idle" /\ pc'[p] = "idle"
      BY <2>2 DEF Alone
    <3>. QED
      BY <3>1, <3>2 DEF Payloads
  <2>. QED
    BY <2>0, <2>1, <2>2, Turns
<1>3. PayloadsInv => EntryHasPayload
  BY DEF PayloadsInv, Payloads, EntryHasPayload, AtRest, Alone
<1>. QED
  BY <1>1, <1>2, <1>3, PTL DEF Spec

\* Where the directory is as the last retention left it.
Reading(p) ==
  \/ pc[p] \in {"idle", "read_manifest", "read_blob"}
  \/ pc[p] \in Expiring /\ scan[p].back = "reply"

\* From a retention's manifest to the end of its pass over the quotas.
Passing(p) ==
  \/ pc[p] \in {"put_alias", "list", "scan"}
  \/ pc[p] \in Expiring /\ scan[p].back = "scan"

\* A pass starts afresh, has seen only what is stored and has before it what it
\* has not seen; what is expired is stored.
Passes(p) ==
  /\ pc[p] \in Before \cup {"idle", "put_alias", "list"} => scan[p] = NoScan
  /\ pc[p] \in {"scan", "cull"} => scan[p].victim = Absent
  /\ Passing(p) => ExactSeen(p) \subseteq Stored(Digests) /\ Covers(p)
  /\ pc[p] \in Expiring => scan[p].victim \in Stored(Digests)

\* The manifests there are without the one that a failing retention takes away.
Base(p) ==
  IF call[p].existed THEN Stored(Digests) ELSE Stored(Digests) \ {call[p].digest}

\* Without what the retention under way has added, the directory is as bounded
\* as before: it may still fail and leave it so.
Kept(p) ==
  /\ Reading(p) => Cardinality(Stored(Digests)) <= RecordLimit + MaxEntries
  /\ Reading(p) \/ pc[p] \in {"undo_blob", "undo_manifest"} =>
       Cardinality(AliasSet) <= RecordLimit
  /\ ~Reading(p) =>
       /\ Cardinality(Base(p)) <= RecordLimit + MaxEntries
       /\ Cardinality(AliasSet \ {call[p].key}) <= RecordLimit
  /\ pc[p] \in Before /\ call[p].existed => call[p].digest \in Stored(Digests)
  /\ pc[p] \in {"undo_blob", "undo_manifest"} => ~call[p].existed

\* What is yet to be looked at or to be dropped is all that is over the limit.
Culling(p) ==
  /\ pc[p] \in {"cull", "unlink_record"} =>
       /\ Cardinality(ExactEntries) <= MaxEntries
       /\ Cardinality(Stored(Digests) \ (scan[p].todo \cup ExactEntries \cup {scan[p].victim}))
            <= RecordLimit
  /\ pc[p] = "drop_aliases" =>
       /\ Cardinality(Stored(Digests)) <= RecordLimit + MaxEntries
       /\ Cardinality(AliasSet \ scan[p].drop) <= RecordLimit

LEMMA Fewer ==
  ASSUME NEW S, S \in SUBSET Digests \/ S \in SUBSET Aliases, NEW T \in SUBSET S,
         NEW n \in Nat, Cardinality(S) <= n
  PROVE  Cardinality(T) <= n
<1>1. IsFiniteSet(S)
  BY StoreAssumption, FS_Subset
<1>2. /\ Cardinality(T) <= Cardinality(S)
      /\ Cardinality(T) \in Nat /\ Cardinality(S) \in Nat
  BY <1>1, FS_Subset, FS_CardinalityType
<1>. QED
  BY <1>2

LEMMA LimitIsNatural == RecordLimit \in Nat /\ RecordLimit + MaxEntries \in Nat
BY StoreAssumption DEF RecordLimit, Later

\* The exact entries and the rest make up all that is stored.
LEMMA ExactAndTheRest ==
  ASSUME Cardinality(Stored(Digests) \ ExactEntries) <= RecordLimit,
         Cardinality(ExactEntries) <= MaxEntries
  PROVE  Cardinality(Stored(Digests)) <= RecordLimit + MaxEntries
<1>. DEFINE R == Stored(Digests) \ ExactEntries
<1>1. Stored(Digests) = R \cup ExactEntries /\ R \cap ExactEntries = {}
  BY DEF Stored, ExactEntries
<1>2. IsFiniteSet(R) /\ IsFiniteSet(ExactEntries)
  BY StoreAssumption, FS_Subset DEF Stored, ExactEntries
<1>3. Cardinality(R \cup ExactEntries) =
        Cardinality(R) + Cardinality(ExactEntries) - Cardinality(R \cap ExactEntries)
  BY <1>2, FS_Union
<1>4. /\ Cardinality(R \cap ExactEntries) = 0
      /\ Cardinality(R) \in Nat /\ Cardinality(ExactEntries) \in Nat
  BY <1>1, <1>2, FS_EmptySet, FS_CardinalityType
<1>. HIDE DEF R
<1>5. Cardinality(Stored(Digests)) = Cardinality(R) + Cardinality(ExactEntries)
  BY <1>1, <1>3, <1>4
<1>6. MaxEntries \in Nat /\ Cardinality(R) <= RecordLimit
  BY StoreAssumption DEF R
<1>. QED
  BY <1>4, <1>5, <1>6, LimitIsNatural

\* What the steps of a pass and of a retrieval do to the directory.
LEMMA PassLeaves ==
  ASSUME TypeOK, "sweep" \notin Faults, NEW p \in Procs, Passes(p),
         PruneStep(p) \/ ReadManifest(p) \/ ReadBlob(p)
  PROVE  /\ Stored(Digests)' \subseteq Stored(Digests)
         /\ ~UnlinkRecord(p) => Stored(Digests)' = Stored(Digests)
         /\ ~DropAliases(p) => UNCHANGED alias
<1>0. scan[p] \in ScanRecord /\ manifest \in [Digests -> ManifestRecord]
  BY ScanType DEF TypeOK
<1>1. CASE UnlinkRecord(p)
  <2>1. manifest' = [manifest EXCEPT ![scan[p].victim] = NoManifest] /\ UNCHANGED alias
    BY <1>1 DEF UnlinkRecord
  <2>2. ~DropAliases(p)
    BY <1>1 DEF UnlinkRecord, DropAliases
  <2>. QED
    BY <1>0, <1>1, <2>1, <2>2 DEF Stored, NoManifest
<1>2. CASE ExpireManifest(p)
  <2>. DEFINE v == scan[p].victim
              t == Tombstone(scan[p].seen[v])
  <2>1. v \in Digests /\ manifest[v].state # "missing"
    BY <1>2 DEF ExpireManifest, Passes, Expiring, Stored
  <2>2. t.state = "expired"
    <3>1. scan[p].seen[v] \in ManifestRecord
      BY <1>0, <2>1 DEF ScanRecord
    <3>. QED
      BY <3>1 DEF Tombstone, ManifestRecord
  <2>3. manifest' = [manifest EXCEPT ![v] = t] /\ UNCHANGED alias
    BY <1>2 DEF ExpireManifest
  <2>. HIDE DEF v, t
  <2>. QED
    BY <1>0, <2>1, <2>2, <2>3 DEF Stored
<1>3. CASE ~UnlinkRecord(p) /\ ~ExpireManifest(p)
  <2>1. UNCHANGED manifest
    BY <1>3 DEF PruneStep, ListManifests, ListRecords, ListAliases, DropAliases,
         ExpireBlob, ReadListed, EvictOldest, ReadRecord, ReadManifest, ReadBlob, files
  <2>2. ~DropAliases(p) => UNCHANGED alias
    BY <1>3 DEF PruneStep, ListManifests, ListRecords, ListAliases,
         ExpireBlob, ReadListed, EvictOldest, ReadRecord, ReadManifest, ReadBlob, files
  <2>. QED
    BY <2>1, <2>2 DEF Stored
<1>. QED
  BY <1>1, <1>2, <1>3

LEMMA PassesStep ==
  ASSUME TypeOK, Faults \subseteq {"put", "damage"}, [Next]_vars,
         NEW p \in Procs, Acts(p), Passes(p)
  PROVE  Passes(p)'
<1>0. /\ scan[p] \in ScanRecord /\ scan \in [Procs -> ScanRecord]
      /\ pc \in [Procs -> Labels] /\ manifest \in [Digests -> ManifestRecord]
      /\ scan[p].seen \in [Digests -> ManifestRecord]
  BY ScanType DEF TypeOK, ScanRecord
<1>a. "sweep" \notin Faults
  OBVIOUS
<1>1. CASE Quiet
  <2>1. UNCHANGED <<pc, scan, manifest>>
    BY <1>1 DEF Quiet, RetainRefused, Tick, Damage, vars, files
  <2>. QED
    BY <2>1 DEF Passes, Passing, Covers, ExactSeen, ExactEntries, Stored
<1>2. ASSUME NEW a \in Aliases, NEW b \in Protections, RetainStart(p, a, b)
      PROVE  Passes(p)'
  <2>1. pc[p] = "idle" /\ pc'[p] \in Before /\ UNCHANGED scan
    BY <1>0, <1>2 DEF RetainStart, Goto, Before
  <2>. QED
    BY <2>1 DEF Passes, Passing, Before, Expiring
<1>3. ASSUME NEW k \in Queries, RetrieveStart(p, k)
      PROVE  Passes(p)'
  <2>1. pc'[p] = "read_manifest"
    BY <1>0, <1>3 DEF RetrieveStart, Goto
  <2>. QED
    BY <2>1 DEF Passes, Passing, Before, Expiring
<1>4. CASE PutBlob(p) \/ PutManifest(p) \/ PutAlias(p)
  <2>1. /\ pc'[p] \in {"put_manifest", "put_alias", "list"}
        /\ pc[p] \in Before \cup {"put_alias"} /\ UNCHANGED scan
    BY <1>0, <1>4 DEF PutBlob, PutManifest, PutAlias, Goto, Before
  <2>2. scan[p] = NoScan
    BY <2>1 DEF Passes
  <2>3. ExactSeen(p)' = {}
    BY <2>1, <2>2 DEF ExactSeen, NoScan, NoManifest
  <2>. QED
    BY <2>1, <2>2, <2>3 DEF Passes, Passing, Covers, Before, Expiring
<1>5. CASE Fails(p)
  <2>1. pc'[p] \in Undoing \/ (pc'[p] = "idle" /\ scan'[p] = NoScan)
    BY <1>0, <1>5 DEF Fails, RetainFails, UndoAlias, UndoBlob, UndoManifest, UndoFails,
         Return, Goto, Undoing
  <2>. QED
    BY <2>1 DEF Passes, Passing, Before, Expiring, Undoing
<1>6. CASE DropAliases(p) \/ ReadBlob(p)
  <2>1. pc'[p] = "idle" /\ scan'[p] = NoScan
    BY <1>6, ReturnEffect DEF DropAliases, ReadBlob
  <2>. QED
    BY <2>1 DEF Passes, Passing, Expiring
<1>7. CASE ListRecords(p) \/ ListAliases(p) \/ UnlinkRecord(p)
  <2>1. \/ pc'[p] = "cull" /\ scan'[p].victim = Absent
        \/ pc'[p] = "drop_aliases"
    BY <1>0, <1>7, PassEffect DEF ScanRecord, Passes
  <2>. QED
    BY <2>1 DEF Passes, Passing, Before, Expiring
<1>8. ASSUME NEW d \in Digests, ReadRecord(p, d)
      PROVE  Passes(p)'
  <2>1. \/ pc'[p] = "cull" /\ scan'[p].victim = Absent
        \/ pc'[p] = "unlink_record"
    BY <1>0, <1>8, PassEffect DEF ScanRecord
  <2>. QED
    BY <2>1 DEF Passes, Passing, Before, Expiring
<1>9. CASE ListManifests(p)
  <2>1. /\ pc[p] = "list" /\ pc'[p] = "scan" /\ UNCHANGED manifest
        /\ scan'[p].seen = scan[p].seen /\ scan'[p].victim = scan[p].victim
    BY <1>0, <1>9, PassEffect DEF ScanRecord, ListManifests, files
  <2>2. scan[p] = NoScan
    BY <2>1 DEF Passes
  <2>3. ExactSeen(p)' = {} /\ scan'[p].victim = Absent
    BY <2>1, <2>2 DEF ExactSeen, NoScan, NoManifest
  <2>4. Covers(p)'
    <3>1. Covers(p) /\ Step(p) /\ ~RetainFails(p) /\ ~ListRecords(p)
      BY <1>9, <2>1 DEF Covers, Step, PruneStep, RetainFails, ListRecords
    <3>. QED
      BY <1>a, <3>1, CoversGoesOn
  <2>. QED
    BY <2>1, <2>3, <2>4 DEF Passes, Before, Expiring
<1>10. ASSUME NEW d \in Digests, ReadListed(p, d) \/ EvictOldest(p, d)
       PROVE  Passes(p)'
  <2>1. /\ pc[p] = "scan" /\ UNCHANGED manifest
        /\ scan[p].todo \ {d} \in SUBSET Digests /\ {} \in SUBSET Digests
        /\ scan[p].seen[d] \in ManifestRecord /\ manifest[d] \in ManifestRecord
    BY <1>0, <1>10 DEF ReadListed, EvictOldest, ScanRecord, files
  <2>2. Covers(p) /\ ExactSeen(p) \subseteq Stored(Digests) /\ scan[p].victim = Absent
    BY <2>1 DEF Passes, Passing
  <2>3. Covers(p)'
    <3>1. Step(p) /\ ~RetainFails(p) /\ ~ListRecords(p)
      <4>1. Step(p)
        BY <1>10 DEF Step, PruneStep
      <4>2. pc'[p] # "undo_alias" /\ pc'[p] # "cull"
        BY <1>0, <1>10 DEF ReadListed, EvictOldest, Expire, Goto
      <4>. QED
        BY <1>0, <4>1, <4>2 DEF RetainFails, ListRecords, Goto
    <3>. QED
      BY <1>a, <2>2, <3>1, CoversGoesOn
  <2>4. Stored(Digests)' = Stored(Digests)
    BY <2>1 DEF Stored
  <2>5. CASE /\ scan' = [scan EXCEPT ![p].seen[d] = manifest[d], ![p].todo = @ \ {d}]
             /\ UNCHANGED pc
    <3>1. scan'[p].victim = scan[p].victim
          /\ scan'[p].seen = [scan[p].seen EXCEPT ![d] = manifest[d]]
      BY <1>0, <2>5 DEF ScanRecord
    <3>2. ExactSeen(p)' \subseteq ExactSeen(p) \cup {e \in {d} : manifest[e].state = "exact"}
      BY <1>0, <3>1 DEF ExactSeen
    <3>3. ExactSeen(p)' \subseteq Stored(Digests)
      BY <2>2, <3>2 DEF Stored
    <3>. QED
      BY <2>1, <2>2, <2>3, <2>4, <2>5, <3>1, <3>3 DEF Passes, Before, Expiring
  <2>6. ASSUME NEW m \in ManifestRecord, NEW T \in SUBSET Digests,
               Expire(p, d, m, "scan", T), d \in Stored(Digests)
        PROVE  Passes(p)'
    <3>1. /\ pc'[p] = "expire_blob" /\ scan'[p].victim = d
          /\ scan'[p].seen = [scan[p].seen EXCEPT ![d] = Tombstone(m)]
      BY <2>6, ExpireEffect
    <3>2. Tombstone(m).state = "expired"
      BY DEF Tombstone, ManifestRecord
    <3>3. ExactSeen(p)' \subseteq ExactSeen(p)
      BY <1>0, <3>1, <3>2 DEF ExactSeen
    <3>. QED
      BY <2>2, <2>3, <2>4, <2>6, <3>1, <3>3 DEF Passes, Before, Expiring
  <2>7. ReadListed(p, d) =>
          \/ /\ scan' = [scan EXCEPT ![p].seen[d] = manifest[d], ![p].todo = @ \ {d}]
             /\ UNCHANGED pc
          \/ d \in Stored(Digests) /\ Expire(p, d, manifest[d], "scan", scan[p].todo \ {d})
    BY DEF ReadListed, Stored
  <2>8. EvictOldest(p, d) =>
          d \in Stored(Digests) /\ Expire(p, d, scan[p].seen[d], "scan", {})
    BY <2>2 DEF EvictOldest
  <2>. QED
    BY <1>10, <2>1, <2>5, <2>6, <2>7, <2>8
<1>11. CASE ExpireBlob(p)
  <2>1. /\ pc[p] = "expire_blob" /\ pc'[p] = "expire_manifest"
        /\ UNCHANGED <<scan, manifest>>
    BY <1>0, <1>11 DEF ExpireBlob, Goto
  <2>2. /\ Stored(Digests)' = Stored(Digests) /\ ExactSeen(p)' = ExactSeen(p)
        /\ Passing(p)' => Passing(p) /\ (Covers(p) => Covers(p)')
    BY <2>1 DEF Stored, ExactSeen, Passing, Covers, ExactEntries, Expiring
  <2>. QED
    BY <2>1, <2>2 DEF Passes, Before, Expiring
<1>12. CASE ExpireManifest(p)
  <2>1. CASE scan[p].back = "scan"
    <3>1. /\ pc[p] = "expire_manifest" /\ pc'[p] = "scan" /\ scan'[p].victim = Absent
          /\ scan'[p].seen = scan[p].seen
      BY <1>0, <1>12, <2>1, PassEffect DEF ScanRecord, ExpireManifest
    <3>2. Covers(p) /\ ExactSeen(p) \subseteq Stored(Digests)
      BY <2>1, <3>1 DEF Passes, Passing, Expiring
    <3>3. Step(p) /\ ~RetainFails(p) /\ ~ListRecords(p) /\ ~UnlinkRecord(p)
      BY <1>12, <3>1 DEF Step, PruneStep, RetainFails, ListRecords, UnlinkRecord
    <3>4. Covers(p)'
      BY <1>a, <3>2, <3>3, CoversGoesOn
    <3>5. Stored(Digests)' = Stored(Digests) /\ ExactSeen(p)' = ExactSeen(p)
      BY <1>a, <1>12, <3>1, <3>3, PassLeaves DEF PruneStep, ExactSeen
    <3>. QED
      BY <3>1, <3>2, <3>4, <3>5 DEF Passes, Before, Expiring
  <2>2. CASE Return(p, "expired", Absent)
    <3>1. pc'[p] = "idle" /\ scan'[p] = NoScan
      BY <2>2, ReturnEffect
    <3>. QED
      BY <3>1 DEF Passes, Passing, Expiring
  <2>. QED
    BY <1>12, <2>1, <2>2 DEF ExpireManifest
<1>13. CASE ReadManifest(p)
  <2>. DEFINE d == call[p].digest
  <2>1. /\ UNCHANGED manifest
        /\ \/ pc'[p] = "idle" /\ scan'[p] = NoScan
           \/ pc'[p] = "read_blob"
           \/ /\ d \in Digests /\ manifest[d].state # "missing"
              /\ Expire(p, d, manifest[d], "reply", {})
    BY <1>0, <1>13, ReturnEffect DEF ReadManifest, NoManifest, Goto, files
  <2>2. CASE pc'[p] = "read_blob" \/ (pc'[p] = "idle" /\ scan'[p] = NoScan)
    BY <2>2 DEF Passes, Passing, Before, Expiring
  <2>3. CASE /\ d \in Digests /\ manifest[d].state # "missing"
             /\ Expire(p, d, manifest[d], "reply", {})
    <3>1. manifest[d] \in ManifestRecord /\ {} \in SUBSET Digests
      BY <1>0, <2>3
    <3>2. pc'[p] = "expire_blob" /\ scan'[p].victim = d /\ scan'[p].back = "reply"
      <4>. HIDE DEF d
      <4>. QED
        BY <2>3, <3>1, ExpireEffect
    <3>3. d \in Stored(Digests)'
      BY <2>1, <2>3 DEF Stored
    <3>. QED
      BY <3>2, <3>3 DEF Passes, Passing, Before, Expiring
  <2>. QED
    BY <2>1, <2>2, <2>3
<1>14. ~Crash(p)
  BY DEF Crash
<1>. QED
  BY <1>1, <1>2, <1>3, <1>4, <1>5, <1>6, <1>7, <1>8, <1>9, <1>10, <1>11, <1>12, <1>13,
     <1>14 DEF Acts, Starts, Step, RetainStep, Fails, PruneStep

\* A pass keeps to itself, a retrieval too, until the pass drops its aliases.
LEMMA PassGoesOn ==
  ASSUME TypeOK, NEW p \in Procs, PruneStep(p) \/ ReadManifest(p) \/ ReadBlob(p),
         ~DropAliases(p)
  PROVE  /\ Reading(p) => Reading(p)'
         /\ ~Reading(p) => ~Reading(p)' /\ call'[p] = call[p]
         /\ pc'[p] \notin Before \cup Undoing
<1>0. /\ scan[p] \in ScanRecord /\ scan \in [Procs -> ScanRecord]
      /\ pc \in [Procs -> Labels] /\ manifest \in [Digests -> ManifestRecord]
      /\ scan[p].seen \in [Digests -> ManifestRecord]
  BY ScanType DEF TypeOK, ScanRecord
<1>1. CASE ReadManifest(p) \/ ReadBlob(p)
  <2>. DEFINE d == call[p].digest
  <2>1. /\ pc[p] \in {"read_manifest", "read_blob"}
        /\ \/ pc'[p] \in {"idle", "read_blob"}
           \/ d \in Digests /\ Expire(p, d, manifest[d], "reply", {})
    BY <1>0, <1>1, ReturnEffect DEF ReadManifest, ReadBlob, NoManifest, Goto
  <2>2. CASE pc'[p] \in {"idle", "read_blob"}
    BY <2>1, <2>2 DEF Reading, Before, Undoing
  <2>3. CASE d \in Digests /\ Expire(p, d, manifest[d], "reply", {})
    <3>1. manifest[d] \in ManifestRecord /\ {} \in SUBSET Digests
      BY <1>0, <2>3
    <3>2. pc'[p] = "expire_blob" /\ scan'[p].back = "reply"
      <4>. HIDE DEF d
      <4>. QED
        BY <2>3, <3>1, ExpireEffect
    <3>. QED
      BY <2>1, <3>2 DEF Reading, Expiring, Before, Undoing
  <2>. QED
    BY <2>1, <2>2, <2>3
<1>2. CASE ListManifests(p) \/ ListRecords(p) \/ UnlinkRecord(p) \/ ListAliases(p)
  <2>1. /\ pc[p] \in {"list", "scan", "unlink_record", "cull"} /\ UNCHANGED call
        /\ pc'[p] \in {"scan", "cull", "drop_aliases"}
    BY <1>0, <1>2 DEF ListManifests, ListRecords, UnlinkRecord, ListAliases, Goto
  <2>. QED
    BY <2>1 DEF Reading, Expiring, Before, Undoing
<1>3. ASSUME NEW d \in Digests, ReadRecord(p, d)
      PROVE  /\ ~Reading(p) /\ ~Reading(p)' /\ call'[p] = call[p]
             /\ pc'[p] \notin Before \cup Undoing
  BY <1>0, <1>3, PassEffect DEF ReadRecord, Reading, Expiring, Before, Undoing
<1>4. ASSUME NEW d \in Digests, ReadListed(p, d) \/ EvictOldest(p, d)
      PROVE  /\ ~Reading(p) /\ ~Reading(p)' /\ call'[p] = call[p]
             /\ pc'[p] \notin Before \cup Undoing
  <2>1. /\ pc[p] = "scan" /\ UNCHANGED call
        /\ scan[p].todo \ {d} \in SUBSET Digests /\ {} \in SUBSET Digests
        /\ scan[p].seen[d] \in ManifestRecord /\ manifest[d] \in ManifestRecord
    BY <1>0, <1>4 DEF ReadListed, EvictOldest, ScanRecord
  <2>2. \/ UNCHANGED pc
        \/ \E m \in ManifestRecord, T \in SUBSET Digests : Expire(p, d, m, "scan", T)
    BY <1>4, <2>1 DEF ReadListed, EvictOldest
  <2>3. pc'[p] = "scan" \/ (pc'[p] = "expire_blob" /\ scan'[p].back = "scan")
    BY <2>1, <2>2, ExpireEffect
  <2>. QED
    BY <2>1, <2>3 DEF Reading, Expiring, Before, Undoing
<1>5. CASE ExpireBlob(p)
  <2>1. /\ pc[p] = "expire_blob" /\ pc'[p] = "expire_manifest" /\ UNCHANGED <<scan, call>>
    BY <1>0, <1>5 DEF ExpireBlob, Goto
  <2>. QED
    BY <2>1 DEF Reading, Expiring, Before, Undoing
<1>6. CASE ExpireManifest(p)
  <2>1. /\ pc[p] = "expire_manifest"
        /\ \/ scan[p].back = "scan" /\ pc'[p] = "scan" /\ UNCHANGED call
           \/ scan[p].back = "reply" /\ pc'[p] = "idle"
    BY <1>0, <1>6, ReturnEffect DEF ExpireManifest, Goto
  <2>. QED
    BY <2>1 DEF Reading, Expiring, Before, Undoing
<1>. QED
  BY <1>1, <1>2, <1>3, <1>4, <1>5, <1>6 DEF PruneStep

LEMMA KeptStep ==
  ASSUME TypeOK, Faults \subseteq {"put", "damage"}, [Next]_vars,
         NEW p \in Procs, Acts(p), Passes(p), Kept(p), Culling(p)
  PROVE  Kept(p)'
<1>0. /\ scan[p] \in ScanRecord /\ scan \in [Procs -> ScanRecord]
      /\ pc \in [Procs -> Labels] /\ manifest \in [Digests -> ManifestRecord]
      /\ call \in [Procs -> CallRecord] /\ call[p] \in CallRecord
      /\ alias \in [Aliases -> [target : Digests \cup {Absent}, mtime : Nat]]
  BY DEF TypeOK
<1>l. RecordLimit' = RecordLimit
  BY DEF RecordLimit
<1>s. Stored(Digests) \subseteq Digests /\ AliasSet \subseteq Aliases
      /\ Base(p) \subseteq Stored(Digests)
  BY DEF Stored, AliasSet, Base
<1>n. RecordLimit \in Nat /\ RecordLimit + MaxEntries \in Nat
  BY LimitIsNatural
<1>1. CASE Quiet
  <2>1. UNCHANGED <<pc, scan, call, manifest, alias>>
    BY <1>1 DEF Quiet, RetainRefused, Tick, Damage, vars, files
  <2>. QED
    BY <1>l, <2>1 DEF Kept, Reading, Base, Stored, AliasSet
<1>2. ASSUME NEW a \in Aliases, NEW b \in Protections, RetainStart(p, a, b)
      PROVE  Kept(p)'
  <2>1. /\ pc[p] = "idle" /\ pc'[p] \in Before /\ UNCHANGED <<alias, manifest>>
        /\ call'[p].digest = SourceOf[a] /\ SourceOf[a] \in Digests
        /\ call'[p].existed <=> manifest[SourceOf[a]].state # "missing"
    BY <1>0, <1>2, StoreAssumption DEF RetainStart, Goto, Before, files
  <2>2. /\ Stored(Digests)' = Stored(Digests) /\ AliasSet' = AliasSet
        /\ Base(p)' \subseteq Stored(Digests)
        /\ AliasSet \ {call'[p].key} \subseteq AliasSet
    BY <2>1 DEF Stored, AliasSet, Base
  <2>3. /\ Cardinality(Stored(Digests)) <= RecordLimit + MaxEntries
        /\ Cardinality(AliasSet) <= RecordLimit
    BY <2>1 DEF Kept, Reading
  <2>4. Cardinality(Base(p)') <= RecordLimit + MaxEntries
    BY <1>n, <1>s, <2>2, <2>3, Fewer
  <2>5. Cardinality(AliasSet \ {call'[p].key}) <= RecordLimit
    BY <1>n, <1>s, <2>2, <2>3, Fewer
  <2>6. call'[p].existed => call'[p].digest \in Stored(Digests)'
    BY <2>1 DEF Stored
  <2>. QED
    BY <1>l, <2>1, <2>2, <2>4, <2>5, <2>6 DEF Kept, Reading, Before, Expiring
<1>3. ASSUME NEW k \in Queries, RetrieveStart(p, k)
      PROVE  Kept(p)'
  <2>1. /\ pc[p] = "idle" /\ pc'[p] = "read_manifest" /\ UNCHANGED <<alias, manifest>>
    BY <1>0, <1>3 DEF RetrieveStart, Goto, files
  <2>. QED
    BY <1>l, <2>1 DEF Kept, Reading, Stored, AliasSet, Before
<1>4. CASE PutBlob(p)
  <2>1. /\ pc[p] = "put_blob" /\ pc'[p] = "put_manifest" /\ UNCHANGED <<alias, manifest, call>>
    BY <1>0, <1>4 DEF PutBlob, Goto
  <2>. QED
    BY <1>l, <2>1 DEF Kept, Reading, Stored, AliasSet, Base, Before, Expiring
<1>5. CASE PutManifest(p)
  <2>1. /\ pc[p] = "put_manifest" /\ pc'[p] = "put_alias" /\ UNCHANGED <<alias, call>>
        /\ \A e \in Digests : e # call[p].digest => manifest'[e] = manifest[e]
    BY <1>0, <1>5 DEF PutManifest, Goto
  <2>2. Stored(Digests)' \subseteq Stored(Digests) \cup {call[p].digest}
    BY <2>1 DEF Stored
  <2>3. Base(p)' \subseteq Base(p)
    BY <2>1, <2>2 DEF Base, Kept, Before
  <2>4. Cardinality(Base(p)') <= RecordLimit + MaxEntries
    <3>1. Base(p) \in SUBSET Digests /\ Cardinality(Base(p)) <= RecordLimit + MaxEntries
      BY <1>s, <2>1 DEF Kept, Reading, Expiring
    <3>. QED
      BY <1>n, <2>3, <3>1, Fewer
  <2>. QED
    BY <1>l, <2>1, <2>4 DEF Kept, Reading, AliasSet, Before, Expiring
<1>6. CASE PutAlias(p)
  <2>1. /\ pc[p] = "put_alias" /\ pc'[p] = "list" /\ UNCHANGED <<manifest, call>>
        /\ \A b \in Aliases : b # call[p].key => alias'[b] = alias[b]
    BY <1>0, <1>6 DEF PutAlias, Goto
  <2>2. /\ AliasSet' \ {call[p].key} \subseteq AliasSet \ {call[p].key}
        /\ Base(p)' = Base(p)
    BY <2>1 DEF AliasSet, Base, Stored
  <2>3. Cardinality(AliasSet' \ {call[p].key}) <= RecordLimit
    <3>1. Cardinality(AliasSet \ {call[p].key}) <= RecordLimit
          /\ AliasSet \ {call[p].key} \in SUBSET Aliases
      BY <1>s, <2>1 DEF Kept, Reading, Expiring
    <3>. QED
      BY <1>n, <2>2, <3>1, Fewer
  <2>. QED
    BY <1>l, <2>1, <2>2, <2>3 DEF Kept, Reading, Before, Expiring
<1>7. CASE RetainFails(p) \/ UndoBlob(p)
  <2>1. /\ pc[p] \in {"put_blob", "put_manifest", "put_alias", "scan", "cull", "undo_blob"}
        /\ pc'[p] \in {"undo_alias", "undo_manifest"}
        /\ pc'[p] = "undo_manifest" => pc[p] = "undo_blob"
        /\ UNCHANGED <<manifest, alias, call>>
    BY <1>0, <1>7 DEF RetainFails, UndoBlob, Goto, files
  <2>. QED
    BY <1>l, <2>1 DEF Kept, Reading, Stored, AliasSet, Base, Before, Expiring
<1>8. CASE UndoAlias(p)
  <2>1. /\ pc[p] = "undo_alias" /\ UNCHANGED manifest
        /\ \/ call[p].existed /\ pc'[p] = "idle"
           \/ ~call[p].existed /\ pc'[p] = "undo_blob" /\ UNCHANGED call
        /\ alias' = [alias EXCEPT ![call[p].key] = NoAlias]
    BY <1>0, <1>8, ReturnEffect DEF UndoAlias, Goto
  <2>2. AliasSet' \subseteq AliasSet \ {call[p].key} /\ Stored(Digests)' = Stored(Digests)
    BY <1>0, <2>1 DEF AliasSet, NoAlias, Stored
  <2>3. /\ Cardinality(Base(p)) <= RecordLimit + MaxEntries
        /\ Cardinality(AliasSet \ {call[p].key}) <= RecordLimit
    BY <2>1 DEF Kept, Reading, Expiring
  <2>4. Cardinality(AliasSet') <= RecordLimit
    BY <1>n, <1>s, <2>2, <2>3, Fewer
  <2>5. CASE call[p].existed /\ pc'[p] = "idle"
    BY <1>l, <2>2, <2>3, <2>4, <2>5 DEF Kept, Reading, Base, Before
  <2>6. CASE ~call[p].existed /\ pc'[p] = "undo_blob" /\ UNCHANGED call
    <3>1. Cardinality(AliasSet' \ {call[p].key}) <= RecordLimit
      <4>1. AliasSet' \in SUBSET Aliases /\ AliasSet' \ {call[p].key} \in SUBSET AliasSet'
        BY DEF AliasSet
      <4>. QED
        BY <1>n, <2>4, <4>1, Fewer
    <3>2. Base(p)' = Base(p)
      BY <2>2, <2>6 DEF Base
    <3>. QED
      BY <1>l, <2>3, <2>4, <2>6, <3>1, <3>2 DEF Kept, Reading, Before, Expiring
  <2>. QED
    BY <2>1, <2>5, <2>6
<1>9. CASE UndoManifest(p)
  <2>1. /\ pc[p] = "undo_manifest" /\ pc'[p] = "idle" /\ UNCHANGED alias
        /\ manifest' = [manifest EXCEPT ![call[p].digest] = NoManifest]
    BY <1>9, ReturnEffect DEF UndoManifest
  <2>2. Stored(Digests)' \subseteq Base(p) /\ AliasSet' = AliasSet
    BY <1>0, <2>1 DEF Stored, NoManifest, Kept, Base, AliasSet
  <2>3. /\ Cardinality(Base(p)) <= RecordLimit + MaxEntries
        /\ Cardinality(AliasSet) <= RecordLimit
    BY <2>1 DEF Kept, Reading, Expiring
  <2>4. Cardinality(Stored(Digests)') <= RecordLimit + MaxEntries
    <3>1. Base(p) \in SUBSET Digests
      BY <1>s
    <3>. QED
      BY <1>n, <2>2, <2>3, <3>1, Fewer
  <2>. QED
    BY <1>l, <2>1, <2>2, <2>3, <2>4 DEF Kept, Reading, Before
<1>10. CASE DropAliases(p)
  <2>1. /\ pc[p] = "drop_aliases" /\ pc'[p] = "idle" /\ UNCHANGED manifest
        /\ alias' = [a \in Aliases |-> IF a \in scan[p].drop THEN NoAlias ELSE alias[a]]
    BY <1>10, ReturnEffect DEF DropAliases
  <2>2. AliasSet' = AliasSet \ scan[p].drop /\ Stored(Digests)' = Stored(Digests)
    BY <2>1 DEF AliasSet, NoAlias, Stored
  <2>. QED
    BY <1>l, <2>1, <2>2 DEF Culling, Kept, Reading, Before
<1>11. CASE (PruneStep(p) \/ ReadManifest(p) \/ ReadBlob(p)) /\ ~DropAliases(p)
  <2>1. Stored(Digests)' \subseteq Stored(Digests) /\ AliasSet' = AliasSet
    <3>1. "sweep" \notin Faults
      OBVIOUS
    <3>. QED
      BY <1>11, <3>1, PassLeaves DEF AliasSet
  <2>2. pc'[p] \notin Before \cup Undoing
    BY <1>11, PassGoesOn
  <2>3. CASE Reading(p)
    <3>1. Reading(p)' /\ Cardinality(Stored(Digests)) <= RecordLimit + MaxEntries
          /\ Cardinality(AliasSet) <= RecordLimit
      BY <1>11, <2>3, PassGoesOn DEF Kept
    <3>2. Cardinality(Stored(Digests)') <= RecordLimit + MaxEntries
      BY <1>n, <1>s, <2>1, <3>1, Fewer
    <3>. QED
      BY <1>l, <2>1, <2>2, <3>1, <3>2 DEF Kept, Undoing
  <2>4. CASE ~Reading(p)
    <3>1. ~Reading(p)' /\ call'[p] = call[p] /\ Cardinality(Base(p)) <= RecordLimit + MaxEntries
          /\ Cardinality(AliasSet \ {call[p].key}) <= RecordLimit
      BY <1>11, <2>4, PassGoesOn DEF Kept
    <3>2. Base(p)' \subseteq Base(p)
      BY <2>1, <3>1 DEF Base
    <3>3. Cardinality(Base(p)') <= RecordLimit + MaxEntries
      <4>1. Base(p) \in SUBSET Digests
        BY <1>s
      <4>. QED
        BY <1>n, <3>1, <3>2, <4>1, Fewer
    <3>. QED
      BY <1>l, <2>1, <2>2, <3>1, <3>3 DEF Kept, Undoing
  <2>. QED
    BY <2>3, <2>4
<1>12. ~UndoFails(p) /\ ~Crash(p)
  BY DEF UndoFails, Crash
<1>. QED
  BY <1>1, <1>2, <1>3, <1>4, <1>5, <1>6, <1>7, <1>8, <1>9, <1>10, <1>11, <1>12
     DEF Acts, Starts, Step, RetainStep, Fails

LEMMA CullingStep ==
  ASSUME TypeOK, Faults \subseteq {"put", "damage"}, [Next]_vars,
         NEW p \in Procs, Acts(p), Passes(p), Culling(p)
  PROVE  Culling(p)'
<1>0. /\ scan[p] \in ScanRecord /\ scan \in [Procs -> ScanRecord]
      /\ pc \in [Procs -> Labels] /\ manifest \in [Digests -> ManifestRecord]
  BY DEF TypeOK
<1>1. CASE Quiet
  <2>1. UNCHANGED <<pc, scan, manifest, alias>>
    BY <1>1 DEF Quiet, RetainRefused, Tick, Damage, vars, files
  <2>. QED
    BY <2>1 DEF Culling, Stored, ExactEntries, AliasSet, RecordLimit
<1>2. CASE ListRecords(p)
  <2>1. PICK T \in SUBSET Stored(Digests) :
          /\ Cardinality(Stored(Digests) \ T) <= RecordLimit
          /\ scan'[p] = [scan[p] EXCEPT !.todo = T]
    BY <1>2, PassEffect
  <2>2. /\ pc[p] = "scan" /\ pc'[p] = "cull" /\ UNCHANGED <<manifest, alias>>
        /\ scan'[p].todo = T /\ scan'[p].victim = scan[p].victim
    BY <1>0, <1>2, <2>1, PassEffect DEF ScanRecord, ListRecords, files
  <2>3. Stored(Digests)' = Stored(Digests) /\ Stored(Digests) \subseteq Digests
        /\ ExactEntries' = ExactEntries
    BY <2>2 DEF Stored, ExactEntries
  <2>4. Cardinality(Stored(Digests) \ (T \cup ExactEntries \cup {Absent})) <= RecordLimit
    BY <2>1, <2>3, Fewer, LimitIsNatural
  <2>5. Cardinality(ExactEntries) <= MaxEntries
    <3>1. Covers(p) /\ scan[p].todo = {} /\ WithinQuota(ExactSeen(p))
      BY <1>2, <2>2 DEF Passes, Passing, ListRecords
    <3>2. WithinQuota(ExactEntries)
      BY <2>2, <3>1, CoveredIsWithin
    <3>. QED
      BY <3>2 DEF WithinQuota
  <2>6. scan[p].victim = Absent
    BY <2>2 DEF Passes
  <2>. QED
    BY <2>2, <2>3, <2>4, <2>5, <2>6 DEF Culling, RecordLimit
<1>3. ASSUME NEW d \in Digests, ReadRecord(p, d)
      PROVE  Culling(p)'
  <2>1. /\ pc[p] = "cull" /\ UNCHANGED <<manifest, alias>>
        /\ pc'[p] = (IF Culls(manifest[d]) THEN "unlink_record" ELSE "cull")
        /\ scan'[p].todo = scan[p].todo \ {d}
        /\ scan'[p].victim = (IF Culls(manifest[d]) THEN d ELSE Absent)
    BY <1>0, <1>3, PassEffect DEF ScanRecord, ReadRecord, files
  <2>2. Stored(Digests)' = Stored(Digests) /\ Stored(Digests) \subseteq Digests
        /\ ExactEntries' = ExactEntries
    BY <2>1 DEF Stored, ExactEntries
  <2>3. Stored(Digests) \ (scan'[p].todo \cup ExactEntries \cup {scan'[p].victim})
          \subseteq Stored(Digests) \ (scan[p].todo \cup ExactEntries \cup {scan[p].victim})
    <3>1. scan[p].victim = Absent
      BY <2>1 DEF Passes
    <3>2. ~Culls(manifest[d]) => d \in ExactEntries \/ d \notin Stored(Digests)
      BY DEF Culls, Stored, ExactEntries
    <3>3. Absent \notin Digests
      BY StoreAssumption
    <3>. QED
      BY <2>1, <2>2, <3>1, <3>2, <3>3
  <2>4. Cardinality(Stored(Digests) \ (scan[p].todo \cup ExactEntries \cup {scan[p].victim}))
          <= RecordLimit
    BY <2>1 DEF Culling
  <2>5. Cardinality(Stored(Digests) \ (scan'[p].todo \cup ExactEntries \cup {scan'[p].victim}))
          <= RecordLimit
    BY <2>2, <2>3, <2>4, Fewer, LimitIsNatural
  <2>. QED
    BY <2>1, <2>2, <2>5 DEF Culling, RecordLimit
<1>4. CASE UnlinkRecord(p)
  <2>. DEFINE v == scan[p].victim
  <2>1. /\ pc[p] = "unlink_record" /\ pc'[p] = "cull" /\ UNCHANGED alias
        /\ scan'[p].todo = scan[p].todo /\ scan'[p].victim = Absent
        /\ manifest' = [manifest EXCEPT ![v] = NoManifest]
    BY <1>0, <1>4, PassEffect DEF ScanRecord, UnlinkRecord
  <2>2. Stored(Digests)' = Stored(Digests) \ {v} /\ ExactEntries' = ExactEntries \ {v}
    BY <1>0, <2>1 DEF Stored, ExactEntries, NoManifest
  <2>3. Stored(Digests)' \ (scan[p].todo \cup ExactEntries' \cup {Absent})
          \subseteq Stored(Digests) \ (scan[p].todo \cup ExactEntries \cup {v})
    BY <2>2
  <2>4. Cardinality(Stored(Digests) \ (scan[p].todo \cup ExactEntries \cup {v})) <= RecordLimit
    BY <2>1 DEF Culling
  <2>5. Stored(Digests) \subseteq Digests
    BY DEF Stored
  <2>. HIDE DEF v
  <2>6. Cardinality(Stored(Digests)' \ (scan[p].todo \cup ExactEntries' \cup {Absent}))
          <= RecordLimit
    BY <2>3, <2>4, <2>5, Fewer, LimitIsNatural
  <2>7. Cardinality(ExactEntries') <= MaxEntries
    <3>1. Cardinality(ExactEntries) <= MaxEntries /\ MaxEntries \in Nat
          /\ ExactEntries \in SUBSET Digests /\ ExactEntries' \in SUBSET ExactEntries
      BY <2>1, <2>2, StoreAssumption DEF Culling, ExactEntries
    <3>. QED
      BY <3>1, Fewer
  <2>. QED
    BY <2>1, <2>6, <2>7 DEF Culling, RecordLimit
<1>5. CASE ListAliases(p)
  <2>1. PICK T \in SUBSET AliasSet :
          /\ AllButNewest(T, AliasSet, [a \in Aliases |-> alias[a].mtime])
          /\ scan'[p] = [scan[p] EXCEPT !.drop = T]
    BY <1>5, PassEffect
  <2>2. /\ pc[p] = "cull" /\ scan[p].todo = {} /\ pc'[p] = "drop_aliases"
        /\ scan'[p].drop = T /\ UNCHANGED <<manifest, alias>>
    BY <1>0, <1>5, <2>1, PassEffect DEF ScanRecord, ListAliases, files
  <2>3. Cardinality(AliasSet \ T) <= RecordLimit
    BY <2>1 DEF AllButNewest
  <2>4. Cardinality(ExactEntries) <= MaxEntries
    BY <2>2 DEF Culling
  <2>5. Cardinality(Stored(Digests) \ ExactEntries) <= RecordLimit
    <3>1. scan[p].victim = Absent /\ Absent \notin Digests /\ Stored(Digests) \subseteq Digests
      BY <2>2, StoreAssumption DEF Passes, Stored
    <3>2. Stored(Digests) \ (scan[p].todo \cup ExactEntries \cup {scan[p].victim})
            = Stored(Digests) \ ExactEntries
      BY <2>2, <3>1
    <3>. QED
      BY <2>2, <3>2 DEF Culling
  <2>6. Cardinality(Stored(Digests)) <= RecordLimit + MaxEntries
    BY <2>4, <2>5, ExactAndTheRest
  <2>7. Stored(Digests)' = Stored(Digests) /\ AliasSet' = AliasSet
    BY <2>2 DEF Stored, AliasSet
  <2>. QED
    BY <2>2, <2>3, <2>6, <2>7 DEF Culling, RecordLimit
<1>6. CASE \/ \E a \in Aliases, c \in Protections : RetainStart(p, a, c)
           \/ \E k \in Queries : RetrieveStart(p, k)
           \/ PutBlob(p) \/ PutManifest(p) \/ PutAlias(p) \/ Fails(p)
  <2>1. pc'[p] \notin {"cull", "unlink_record", "drop_aliases"}
    BY <1>0, <1>6 DEF RetainStart, RetrieveStart, PutBlob, PutManifest, PutAlias, Fails,
         RetainFails, UndoAlias, UndoBlob, UndoManifest, UndoFails, Return, Goto
  <2>. QED
    BY <2>1 DEF Culling
<1>7. CASE \/ ListManifests(p) \/ DropAliases(p) \/ ExpireBlob(p) \/ ExpireManifest(p)
           \/ (\E d \in Digests : ReadListed(p, d) \/ EvictOldest(p, d))
           \/ ReadManifest(p) \/ ReadBlob(p)
  <2>1. pc'[p] \notin {"cull", "unlink_record", "drop_aliases"}
    BY <1>0, <1>7 DEF ListManifests, DropAliases, ExpireBlob, ExpireManifest, ReadListed,
         EvictOldest, ReadManifest, ReadBlob, Expire, Return, Goto
  <2>. QED
    BY <2>1 DEF Culling
<1>8. ~Crash(p)
  BY DEF Crash
<1>. QED
  BY <1>1, <1>2, <1>3, <1>4, <1>5, <1>6, <1>7, <1>8
     DEF Acts, Starts, Step, RetainStep, Fails, PruneStep

RecordsInv ==
  /\ TypeOK
  /\ \A p \in Procs : pc[p] = "idle" => scan[p] = NoScan
  /\ \A p \in Procs : Alone(p) => Passes(p) /\ Kept(p) /\ Culling(p)

\* Between calls the directory is bounded, for any number of callers whose calls
\* do not overlap and however many texts went through it, also when a write fails
\* and is undone.
THEOREM DirectoryIsBounded ==
  Procs # {} /\ Faults \subseteq {"put", "damage"} =>
    (Spec /\ []OneAtATime => []RecordsBoundedAtRest)
<1>. SUFFICES ASSUME Procs # {}, Faults \subseteq {"put", "damage"}
     PROVE  Spec /\ []OneAtATime => []RecordsBoundedAtRest
  OBVIOUS
<1>1. Init => RecordsInv
  <2>. SUFFICES ASSUME Init, NEW p \in Procs
       PROVE  scan[p] = NoScan /\ Passes(p) /\ Kept(p) /\ Culling(p)
    BY InitType DEF RecordsInv
  <2>1. pc[p] = "idle" /\ scan[p] = NoScan
    BY DEF Init
  <2>2. Stored(Digests) = {} /\ AliasSet = {}
    BY DEF Init, Stored, AliasSet, NoManifest, NoAlias
  <2>3. Cardinality(Stored(Digests)) = 0 /\ Cardinality(AliasSet) = 0
    BY <2>2, FS_EmptySet
  <2>4. Passes(p)
    BY <2>1 DEF Passes, Passing, Expiring
  <2>5. Kept(p)
    BY <2>1, <2>3, LimitIsNatural DEF Kept, Reading, Before
  <2>6. Culling(p)
    BY <2>1 DEF Culling
  <2>. QED
    BY <2>1, <2>4, <2>5, <2>6
<1>2. RecordsInv /\ OneAtATime /\ OneAtATime' /\ [Next]_vars => RecordsInv'
  <2>. SUFFICES ASSUME RecordsInv, OneAtATime, OneAtATime', [Next]_vars, NEW q \in Procs
       PROVE  /\ pc'[q] = "idle" => scan'[q] = NoScan
              /\ Alone(q)' => Passes(q)' /\ Kept(q)' /\ Culling(q)'
    BY NextType DEF RecordsInv
  <2>0. TypeOK
    BY DEF RecordsInv
  <2>1. CASE Quiet
    <3>1. Acts(q) /\ UNCHANGED <<pc, scan>>
      BY <2>1 DEF Acts, Quiet, RetainRefused, Tick, Damage, vars
    <3>2. Alone(q)' => Passes(q)' /\ Kept(q)' /\ Culling(q)'
      <4>. SUFFICES ASSUME Alone(q)' PROVE Passes(q)' /\ Kept(q)' /\ Culling(q)'
        OBVIOUS
      <4>1. Passes(q) /\ Kept(q) /\ Culling(q)
        BY <3>1 DEF RecordsInv, Alone
      <4>. QED
        BY <2>0, <3>1, <4>1, PassesStep, KeptStep, CullingStep
    <3>. QED
      BY <3>1, <3>2 DEF RecordsInv
  <2>2. ASSUME NEW p \in Procs, Acts(p), Alone(p), Alone(p)',
               \A r \in Procs \ {p} : scan'[r] = scan[r]
        PROVE  /\ pc'[q] = "idle" => scan'[q] = NoScan
               /\ Alone(q)' => Passes(q)' /\ Kept(q)' /\ Culling(q)'
    <3>1. Passes(p)' /\ Kept(p)' /\ Culling(p)'
      BY <2>0, <2>2, PassesStep, KeptStep, CullingStep DEF RecordsInv
    <3>2. pc'[q] = "idle" => scan'[q] = NoScan
      <4>1. CASE q = p
        BY <3>1, <4>1 DEF Passes
      <4>2. CASE q # p
        BY <2>2, <4>2 DEF RecordsInv, Alone
      <4>. QED
        BY <4>1, <4>2
    <3>3. ASSUME q # p, Alone(q)'
          PROVE  Passes(q)' /\ Kept(q)' /\ Culling(q)'
      <4>1. pc'[q] = "idle" /\ pc'[p] = "idle" /\ scan'[q] = NoScan
        BY <2>2, <3>2, <3>3 DEF Alone
      <4>2. Passes(q)'
        BY <4>1 DEF Passes, Passing, Expiring
      <4>3. Kept(q)'
        BY <3>1, <4>1 DEF Kept, Reading, Before
      <4>4. Culling(q)'
        BY <4>1 DEF Culling
      <4>. QED
        BY <4>2, <4>3, <4>4
    <3>. QED
      BY <3>1, <3>2, <3>3
  <2>. QED
    BY <2>0, <2>1, <2>2, Turns
<1>3. RecordsInv => RecordsBoundedAtRest
  BY DEF RecordsInv, Alone, Kept, Reading, RecordsBoundedAtRest, AtRest, AliasSet
<1>. QED
  BY <1>1, <1>2, <1>3, PTL DEF Spec
=============================================================================
