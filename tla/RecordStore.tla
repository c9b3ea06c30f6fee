---------------------------- MODULE RecordStore ----------------------------
(***************************************************************************)
(* Declared records, their audit journal, retention, legal holds and       *)
(* backups: modules/records-audit/record_audit.go and retention_export.go. *)
(*                                                                         *)
(* RetentionManager holds its own lock before it takes the store's, always *)
(* in that order, and nothing removes a record while only the first is     *)
(* held: each method is one step.  Identifiers are trimmed and non-blank.  *)
(* An archive is held by whoever made it and outlives the process; one     *)
(* whose digest does not match is refused.                                 *)
(***************************************************************************)
EXTENDS Naturals, Sequences, FiniteSets

CONSTANTS
    Record,       \* tenant and record ID
    Version, Digest, Hold,
    Period,       \* retention periods in use; one record type
    None,         \* no policy, no archive, a blank state or version
    MaxTime,      \* bound on the clock
    MaxAudit,     \* bound on the audit log and its sequence numbers
    MaxCrashes    \* bound on process restarts

VARIABLES
    records,      \* RecordStore.records; state None is not declared
    snapshots,    \* RecordStore.snapshots
    auditLog,     \* RecordStore.auditLog
    seqCounter,   \* RecordStore.seqCounter
    policy,       \* RetentionManager.policies, of the one record type
    legalHolds,   \* RetentionManager.legalHolds
    recordHolds,  \* RetentionManager.recordHolds
    archive,      \* the BackupArchive made last, or None
    now,
    crashes

live == <<records, snapshots, auditLog, seqCounter, policy, legalHolds, recordHolds>>
vars == <<live, archive, now, crashes>>

States == {"ACCEPTED", "ARCHIVED"}
NoRecord == [state |-> None, version |-> None, createdAt |-> 0]
NoHold == [record |-> None, active |-> FALSE]

\* DeclaredRecord, RecordSnapshot, AuditEntry, LegalHold.
DeclaredRecord == [state : States, version : Version, createdAt : 1 .. MaxTime]
RecordSnapshot == [version : Version, digest : Digest, state : States]
AuditEntry == [seq : Nat, record : Record,
               event : {"RECORD_DECLARED", "RECORD_VERSIONED", "STATE_CHANGED", "ACCESS_DENIED"},
               prior : States \cup {None}, current : States \cup {None},
               version : Version \cup {None}]
LegalHold == [record : Record, active : BOOLEAN]


\* BackupArchive: what is kept of the store and the manager.
BackupArchive == [records : [Record -> DeclaredRecord \cup {NoRecord}],
                  snapshots : [Record -> Seq(RecordSnapshot)],
                  auditLog : Seq(AuditEntry), policy : Period \cup {None},
                  legalHolds : [Hold -> LegalHold \cup {NoHold}]]

RecordStoreAssumption ==
    /\ Period \subseteq Nat \ {0} /\ {MaxTime, MaxAudit, MaxCrashes} \subseteq Nat
    /\ MaxTime > 0 /\ None \notin States

Kept == [records |-> records, snapshots |-> snapshots, auditLog |-> auditLog,
         policy |-> policy, legalHolds |-> legalHolds]

TypeOK ==
    /\ Kept \in BackupArchive /\ archive \in BackupArchive \cup {None}
    /\ recordHolds \in [Record -> SUBSET Hold]
    /\ seqCounter \in Nat /\ now \in 1 .. MaxTime

Empty ==
    [records |-> [r \in Record |-> NoRecord], snapshots |-> [r \in Record |-> <<>>],
     auditLog |-> <<>>, policy |-> None, legalHolds |-> [h \in Hold |-> NoHold]]

Init ==
    /\ records = Empty.records /\ snapshots = Empty.snapshots /\ auditLog = <<>>
    /\ seqCounter = 0
    /\ policy = None /\ legalHolds = Empty.legalHolds
    /\ recordHolds = [r \in Record |-> {}]
    /\ archive = None /\ now = 1 /\ crashes = 0

-----------------------------------------------------------------------------
\* Deliberate faults, used only to show that the properties can fail.
Indexed_Forgotten(holds) == [r \in Record |-> {}]
NewVersion_Any(r, v) == TRUE
Current_Kept(r, v) == records[r]
-----------------------------------------------------------------------------

Declared(r) == records[r].state # None

\* A version is accepted once.
NewVersion(r, v) == \A i \in DOMAIN snapshots[r] : snapshots[r][i].version # v

Current(r, v) == [records[r] EXCEPT !.version = v]

\* The audit entry of a change, under the next sequence number.
Log(r, event, prior, current, v) ==
    /\ Len(auditLog) < MaxAudit /\ seqCounter < MaxAudit
    /\ seqCounter' = seqCounter + 1
    /\ auditLog' = Append(auditLog, [seq |-> seqCounter + 1, record |-> r, event |-> event,
                                     prior |-> prior, current |-> current, version |-> v])

\* Methods of RecordStore leave the retention side alone.
StoreOnly == UNCHANGED <<policy, legalHolds, recordHolds, archive, now, crashes>>

\* RecordStore.DeclareRecord.
DeclareRecord(r, v, d) ==
    /\ ~Declared(r)
    /\ records' = [records EXCEPT ![r] = [state |-> "ACCEPTED", version |-> v, createdAt |-> now]]
    /\ snapshots' = [snapshots EXCEPT ![r] = <<[version |-> v, digest |-> d, state |-> "ACCEPTED"]>>]
    /\ Log(r, "RECORD_DECLARED", None, "ACCEPTED", v)
    /\ StoreOnly

\* RecordStore.CreateNewVersion.
CreateNewVersion(r, v, d) ==
    LET s == records[r].state IN
    /\ Declared(r) /\ s # "ARCHIVED"
    /\ NewVersion(r, v)
    /\ records' = [records EXCEPT ![r] = Current(r, v)]
    /\ snapshots' = [snapshots EXCEPT ![r] = Append(@, [version |-> v, digest |-> d, state |-> s])]
    /\ Log(r, "RECORD_VERSIONED", s, s, v)
    /\ StoreOnly

\* RecordStore.TransitionRecordState: no declared record is a draft, so archiving is
\* the one change; to the present state it is a no-op.
TransitionRecordState(r) ==
    /\ records[r].state = "ACCEPTED"
    /\ records' = [records EXCEPT ![r].state = "ARCHIVED"]
    /\ Log(r, "STATE_CHANGED", "ACCEPTED", "ARCHIVED", records[r].version)
    /\ UNCHANGED snapshots
    /\ StoreOnly

\* RecordStore.RecordAccessDenied, for records that need not exist.
RecordAccessDenied(r) ==
    /\ Log(r, "ACCESS_DENIED", None, None, None)
    /\ UNCHANGED <<records, snapshots>>
    /\ StoreOnly

\* Methods of RetentionManager leave the store alone.
ManagerOnly == UNCHANGED <<records, snapshots, auditLog, seqCounter, archive, now, crashes>>

\* RetentionManager.RegisterRetentionPolicy: one per record type.
RegisterRetentionPolicy(period) ==
    /\ policy = None
    /\ policy' = period
    /\ UNCHANGED <<legalHolds, recordHolds>>
    /\ ManagerOnly

\* RetentionManager.PlaceLegalHold; a hold ID is used once, released or not.
PlaceLegalHold(h, r) ==
    /\ legalHolds[h] = NoHold
    /\ Declared(r)
    /\ legalHolds' = [legalHolds EXCEPT ![h] = [record |-> r, active |-> TRUE]]
    /\ recordHolds' = [recordHolds EXCEPT ![r] = @ \cup {h}]
    /\ UNCHANGED policy
    /\ ManagerOnly

\* RetentionManager.ReleaseLegalHold by the hold's tenant; the index keeps the ID.
ReleaseLegalHold(h) ==
    /\ legalHolds[h] # NoHold
    /\ legalHolds' = [legalHolds EXCEPT ![h].active = FALSE]
    /\ UNCHANGED <<policy, recordHolds>>
    /\ ManagerOnly

\* RetentionManager.CreateSyntheticBackup: neither the sequence counter nor the hold
\* index is in the archive.
CreateSyntheticBackup ==
    /\ archive' = Kept
    /\ UNCHANGED <<live, now, crashes>>

\* The hold index of a restored manager: active holds only.
Indexed(holds) == [r \in Record |-> {h \in Hold : holds[h].record = r /\ holds[h].active}]

Adopt(a) ==
    /\ records' = a.records /\ snapshots' = a.snapshots /\ auditLog' = a.auditLog
    /\ policy' = a.policy /\ legalHolds' = a.legalHolds
    /\ recordHolds' = Indexed(a.legalHolds)

\* RetentionManager.RestoreSyntheticBackup, into a running store or a fresh one; the
\* counter stays what it is.
RestoreSyntheticBackup ==
    /\ archive # None
    /\ Adopt(archive)
    /\ UNCHANGED <<seqCounter, archive, now, crashes>>

\* NewRecordStore and NewRetentionManager in a new process.
Restart ==
    /\ crashes < MaxCrashes /\ crashes' = crashes + 1
    /\ Adopt(Empty) /\ seqCounter' = 0
    /\ UNCHANGED <<archive, now>>

\* The clock advances (environment).
Tick == now < MaxTime /\ now' = now + 1 /\ UNCHANGED <<live, archive, crashes>>

Next ==
    \/ \E r \in Record, v \in Version, d \in Digest :
          DeclareRecord(r, v, d) \/ CreateNewVersion(r, v, d)
    \/ \E r \in Record : TransitionRecordState(r) \/ RecordAccessDenied(r)
    \/ \E period \in Period : RegisterRetentionPolicy(period)
    \/ \E h \in Hold, r \in Record : PlaceLegalHold(h, r)
    \/ \E h \in Hold : ReleaseLegalHold(h)
    \/ CreateSyntheticBackup \/ RestoreSyntheticBackup \/ Restart \/ Tick

Spec == Init /\ [][Next]_vars

-----------------------------------------------------------------------------
\* RetentionManager.CanDelete at time t: through the index, then the policy.
CanDelete(r, t) ==
    /\ Declared(r)
    /\ \A h \in recordHolds[r] : ~legalHolds[h].active
    /\ policy = None \/ t >= records[r].createdAt + policy

\* RetentionManager.GenerateExportPackage's item of a record: the record's version
\* with the digest of its newest snapshot; VerifyRecordIntegrity compares with that.
ExportItem(r) ==
    [version |-> records[r].version, state |-> records[r].state,
     digest |-> snapshots[r][Len(snapshots[r])].digest]

\* A legal hold that is active blocks deletion of its record, through every order of
\* placing, releasing, backup, restart and restore, and so does the retention period.
HoldsBind ==
    /\ \A h \in Hold, r \in Record :
          legalHolds[h].record = r /\ legalHolds[h].active => ~CanDelete(r, now)
    /\ \A r \in Record : policy # None /\ now < records[r].createdAt + policy
          => ~CanDelete(r, now)

\* Where the journal up to its i-th entry has record r's entries, and those among them
\* that bring a version.
Trail(log, r, i) == {j \in 1 .. i : log[j].record = r /\ log[j].event # "ACCESS_DENIED"}
Versions(log, r, i) == {j \in Trail(log, r, i) : log[j].event # "STATE_CHANGED"}

\* Record rec of r, its snapshots s and the journal tell one story: the trail starts with
\* the declaration and ends in the record's state and version, its k-th version is the
\* k-th snapshot's, and no version comes twice.
Accounts(log, r, rec, s) ==
    LET n == Len(log)
        trail == Trail(log, r, n)
    IN  IF rec.state = None THEN trail = {} /\ s = <<>>
        ELSE /\ \E first \in trail : log[first].event = "RECORD_DECLARED"
                                     /\ \A i \in trail : first <= i
             /\ \E last \in trail : /\ log[last].current = rec.state
                                    /\ log[last].version = rec.version
                                    /\ \A i \in trail : i <= last
             /\ Cardinality(Versions(log, r, n)) = Len(s)
             /\ \A i \in Versions(log, r, n) :
                   log[i].version = s[Cardinality(Versions(log, r, i))].version
             /\ \A i, j \in 1 .. Len(s) : s[i].version = s[j].version => i = j

\* Restored or not, every record is accounted for, and what is exported carries the
\* digest declared for the version it names.
RecordsAccounted ==
    TypeOK /\
    \A r \in Record :
        /\ Accounts(auditLog, r, records[r], snapshots[r])
        /\ Declared(r) => \E i \in DOMAIN snapshots[r] :
                             /\ snapshots[r][i].version = ExportItem(r).version
                             /\ snapshots[r][i].digest = ExportItem(r).digest

\* "Append-only store; immutable monotonic ordering": sequence numbers of the
\* journal increase.
SequenceIncreases ==
    \A i, j \in DOMAIN auditLog : i < j => auditLog[i].seq < auditLog[j].seq
=============================================================================
