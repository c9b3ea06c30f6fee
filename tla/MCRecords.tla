----------------------------- MODULE MCRecords -----------------------------
(***************************************************************************)
(* Small instances of what the platform keeps on file and publishes:       *)
(* RecordStore and IntegrityRegistry of modules/records-audit,             *)
(* EvidenceChain of modules/files-evidence, TemplateLifecycle of           *)
(* modules/configuration-checklist, and SnapshotRegistry,                  *)
(* PublicationLifecycle and ImmutableStore of                              *)
(* modules/publication-snapshot.  They are objects of their own that never *)
(* call one another: focus picks the one that moves.                       *)
(*                                                                         *)
(* One record with one hold, its retention over on the next day, is enough *)
(* for every order of hold, archival, backup, crash and restore.  The      *)
(* immutable store keeps the chains of two snapshots, the others one.      *)
(***************************************************************************)
EXTENDS Naturals, Sequences

CONSTANTS None, Record, Version, Digest, Hold, Period, MaxTime, MaxAudit, MaxCrashes,
          Object, Evidence, Payload, Length, MaxEvents, Template, Content, Checklist,
          Snapshot, Chain, MaxVersion, Field, Prohibited, Allowlist, Subject, MaxExports,
          Role, AuthorizedRole, MaxWindow, ApprovalAges, MaxDays, MaxLinks

VARIABLES records, snapshots, auditLog, seqCounter, policy, legalHolds, recordHolds,
          archive, now, crashes,
          originals, derived,
          evidence, custodyChain, manifest,
          versions, instances,
          registered, activePub, held, exports,
          snaps, ledger,
          store, lineageIndex, links,
          focus

R == INSTANCE RecordStore
I == INSTANCE IntegrityRegistry
E == INSTANCE EvidenceChain WITH Size <- Length, records <- evidence
T == INSTANCE TemplateLifecycle WITH Version <- Template, Instance <- Checklist
P == INSTANCE SnapshotRegistry WITH snapshots <- registered
L == INSTANCE PublicationLifecycle WITH MaxTime <- MaxDays
S == INSTANCE ImmutableStore WITH Snapshot <- Chain

ASSUME RecordsAssumption ==
    /\ R!RecordStoreAssumption /\ I!IntegrityRegistryAssumption /\ E!EvidenceChainAssumption
    /\ T!TemplateLifecycleAssumption /\ P!SnapshotRegistryAssumption
    /\ L!PublicationLifecycleAssumption /\ S!ImmutableStoreAssumption

rOnly == <<records, snapshots, auditLog, seqCounter, policy, legalHolds, recordHolds,
           archive, crashes>>
iOnly == <<originals, derived>>
eOnly == <<evidence, custodyChain, manifest>>
tOnly == <<versions, instances>>
pOnly == <<registered, activePub, held, exports>>
lOnly == <<snaps, ledger>>
sOnly == <<store, lineageIndex, links>>
vars == <<rOnly, iOnly, eOnly, tOnly, pOnly, lOnly, sOnly, now, focus>>

Init ==
    /\ R!Init /\ I!Init /\ E!Init /\ T!Init /\ P!Init /\ L!Init /\ S!Init
    /\ focus \in {"records", "integrity", "evidence", "templates", "registry", "lifecycle",
                  "store"}

Records ==
    focus = "records" /\ R!Next /\ UNCHANGED <<iOnly, eOnly, tOnly, pOnly, lOnly, sOnly>>
Integrity ==
    focus = "integrity" /\ I!Next
    /\ UNCHANGED <<rOnly, eOnly, tOnly, pOnly, lOnly, sOnly, now>>
Custody ==
    focus = "evidence" /\ E!Next
    /\ UNCHANGED <<rOnly, iOnly, tOnly, pOnly, lOnly, sOnly, now>>
Templates ==
    focus = "templates" /\ T!Next
    /\ UNCHANGED <<rOnly, iOnly, eOnly, pOnly, lOnly, sOnly, now>>
Registry ==
    focus = "registry" /\ P!Next
    /\ UNCHANGED <<rOnly, iOnly, eOnly, tOnly, lOnly, sOnly, now>>
Lifecycle ==
    focus = "lifecycle" /\ L!Next /\ UNCHANGED <<rOnly, iOnly, eOnly, tOnly, pOnly, sOnly>>
Store ==
    focus = "store" /\ S!Next
    /\ UNCHANGED <<rOnly, iOnly, eOnly, tOnly, pOnly, lOnly, now>>

Next == (Records \/ Integrity \/ Custody \/ Templates \/ Registry \/ Lifecycle \/ Store)
        /\ UNCHANGED focus

Spec == Init /\ [][Next]_vars

\* The payloads of the run: two, of different lengths.
Payloads == {"short", "long"}
Lengths == [p \in Payloads |-> IF p = "short" THEN 1 ELSE 2]

-----------------------------------------------------------------------------
\* Each property is about the part in focus; the others are as they started.

\* CanDelete respects every active hold and the retention period, restored or not, and
\* records, snapshots and audit journal of RecordStore agree.
HoldsBind == focus = "records" => R!HoldsBind /\ R!RecordsAccounted

\* VerifyIntegrityLinkage fails only on an archived parent.
LinkageHolds == focus = "integrity" => I!LinkageHolds

\* The chain of custody of EvidenceIntegrityManager tells each record's story, and
\* derived artifacts and manifests rest on committed evidence.
CustodyReplays == focus = "evidence" => E!CustodyReplays /\ E!DerivedFromCommitted

\* Instantiate hands out what Approve approved.
InstancesAsApproved == focus = "templates" => T!InstancesAsApproved

\* PublishSnapshot, CreateNewVersion and WithdrawSnapshot keep one published version, and
\* NewExportPackage exports what was published, in the form it was published in.
ExportedWasPublished == focus = "registry" => P!OnePublished /\ P!ExportedWasPublished

\* GetActivePublishedSnapshot serves what was freshly approved, within its window, and
\* the lifecycle ledger reproduces the state of every snapshot.
ServedOnFreshApproval == focus = "lifecycle" => L!LedgerReplays /\ L!ServedOnFreshApproval

\* ReconstructPublicationAuditTrail finds an intact, gapless chain.
LineageIntact == focus = "store" => S!LineageIntact

\* "Append-only store; immutable monotonic ordering" of the audit journal.
SequenceIncreases == R!SequenceIncreases
=============================================================================
