--------------------------- MODULE EvidenceChain ---------------------------
(***************************************************************************)
(* Evidence objects of one tenant, their chain of custody and the export   *)
(* manifest: EvidenceIntegrityManager of                                   *)
(* modules/files-evidence/evidence_chain.go, with the upload states of     *)
(* file_metadata.go.                                                       *)
(*                                                                         *)
(* Every method holds m.mu throughout: one step each.  A payload stands    *)
(* for its SHA-256 digest; identifiers, file names and media types are     *)
(* valid and the names left out.  The links of the chain are not modelled: *)
(* each event's digest covers the one before it, and nothing rewrites one. *)
(***************************************************************************)
EXTENDS Naturals, Sequences, FiniteSets

CONSTANTS
    Evidence,     \* evidence IDs
    Payload,      \* payloads, as good as their digests
    Size,         \* length of each payload
    None,         \* not registered; no parent; no manifest
    MaxEvents     \* bound on each chain

VARIABLES
    records,      \* EvidenceIntegrityManager.records, None if absent
    custodyChain, \* EvidenceIntegrityManager.custodyChain
    manifest      \* the ExportManifest produced last, in its exporter's hands

vars == <<records, custodyChain, manifest>>

Sizes == {Size[p] : p \in Payload}

\* UploadLifecycleState; the manager never aborts.
UploadLifecycleState == {"INITIALIZED", "TRANSFERRING", "COMPLETED", "FAILED"}

EvidenceRecord ==
    [objectType : {"ORIGINAL", "DERIVED"}, parent : Evidence \cup {None},
     sizeBytes : Sizes, digest : Payload, state : UploadLifecycleState,
     committed : BOOLEAN]

CustodyEvent ==
    [type : {"CAPTURE_LOCAL", "DERIVED_GENERATED", "TRANSFER_INTERRUPTED",
             "TRANSFER_RESUMED", "INTEGRITY_VERIFIED", "ORIGINAL_COMMITTED",
             "EXPORT_PACKAGED", "TAMPER_DETECTED"},
     digest : Payload]

EvidenceChainAssumption ==
    /\ Size \in [Payload -> Nat \ {0}] /\ MaxEvents \in Nat
    /\ None \notin EvidenceRecord

TypeOK ==
    /\ records \in [Evidence -> EvidenceRecord \cup {None}]
    /\ custodyChain \in [Evidence -> Seq(CustodyEvent)]

Init ==
    /\ records = [e \in Evidence |-> None]
    /\ custodyChain = [e \in Evidence |-> <<>>]
    /\ manifest = None

-----------------------------------------------------------------------------
\* Deliberate faults, used only to show that the properties can fail.
Open_Always(e) == records[e] # None
ParentOK_Uncommitted(e) == records[e] # None /\ records[e].objectType = "ORIGINAL"
-----------------------------------------------------------------------------

Registered(e) == records[e] # None
Committed(e) == Registered(e) /\ records[e].committed

\* What the transfer and commit methods require of their record.
Open(e) == Registered(e) /\ ~records[e].committed

\* recordEventLocked for each of the given events in turn.
Log(e, types, p) ==
    /\ Len(custodyChain[e]) + Len(types) <= MaxEvents
    /\ custodyChain' = [custodyChain EXCEPT ![e] =
          @ \o [i \in DOMAIN types |-> [type |-> types[i], digest |-> p]]]

Register(e, type, parent, p, n) ==
    /\ ~Registered(e)
    /\ records' = [records EXCEPT ![e] =
          [objectType |-> type, parent |-> parent, sizeBytes |-> n, digest |-> p,
           state |-> "INITIALIZED", committed |-> FALSE]]
    /\ UNCHANGED manifest

\* RegisterOriginal; the size is what the caller declares.
RegisterOriginal(e, p, n) ==
    /\ Register(e, "ORIGINAL", None, p, n)
    /\ Log(e, <<"CAPTURE_LOCAL">>, p)

\* An original that is committed.
ParentOK(e) == Committed(e) /\ records[e].objectType = "ORIGINAL"

RegisterDerived(e, parent, p, n) ==
    /\ ParentOK(parent)
    /\ Register(e, "DERIVED", parent, p, n)
    /\ Log(e, <<"DERIVED_GENERATED">>, p)

\* The digest does not match: the attempt is logged and nothing else changes.
CommitTampered(e, p) ==
    /\ Open(e) /\ p # records[e].digest
    /\ Log(e, <<"TAMPER_DETECTED">>, p)
    /\ UNCHANGED <<records, manifest>>

Complete(e) ==
    /\ records' = [records EXCEPT ![e].state = "COMPLETED", ![e].committed = TRUE]
    /\ UNCHANGED manifest

\* CommitOriginal of a genuine payload of the declared size.
CommitOriginal(e, p) ==
    /\ Open(e) /\ records[e].objectType = "ORIGINAL"
    /\ p = records[e].digest /\ Size[p] = records[e].sizeBytes
    /\ Complete(e)
    /\ Log(e, <<"INTEGRITY_VERIFIED", "ORIGINAL_COMMITTED">>, p)

\* CommitDerived of a genuine payload; the size is not looked at.
CommitDerived(e, p) ==
    /\ Open(e) /\ records[e].objectType = "DERIVED"
    /\ p = records[e].digest
    /\ Complete(e)
    /\ Log(e, <<"INTEGRITY_VERIFIED">>, p)

\* RecordTransferInterrupted and RecordTransferResumed, from any state but committed.
MoveTo(e, state, event) ==
    /\ Open(e)
    /\ records' = [records EXCEPT ![e].state = state]
    /\ Log(e, <<event>>, records[e].digest)
    /\ UNCHANGED manifest

RecordTransferInterrupted(e) == MoveTo(e, "FAILED", "TRANSFER_INTERRUPTED")
RecordTransferResumed(e) == MoveTo(e, "TRANSFERRING", "TRANSFER_RESUMED")

\* HandleDuplicateUpload of what is committed already; of anything else it changes nothing.
HandleDuplicateUpload(e) ==
    /\ Committed(e)
    /\ Log(e, <<"INTEGRITY_VERIFIED">>, records[e].digest)
    /\ UNCHANGED <<records, manifest>>

\* VerifyTamper of a payload that is not the record's, committed or not.
VerifyTamper(e, p) ==
    /\ Registered(e) /\ p # records[e].digest
    /\ Log(e, <<"TAMPER_DETECTED">>, p)
    /\ UNCHANGED <<records, manifest>>

ExportManifestItem(e) ==
    [evidence |-> e, digest |-> records[e].digest, sizeBytes |-> records[e].sizeBytes]

\* GenerateExportManifest of the IDs in order: each item is logged as it is taken, so
\* the ones before an item that cannot be exported are logged although there is no
\* manifest.
GenerateExportManifest(ids) ==
    LET bad == {i \in DOMAIN ids : ~Committed(ids[i])}
        taken(e) == {i \in DOMAIN ids : ids[i] = e /\ \A j \in bad : i < j}
        events(e) == [k \in 1 .. Cardinality(taken(e)) |->
                        [type |-> "EXPORT_PACKAGED", digest |-> records[e].digest]]
    IN  /\ \A e \in Evidence : Len(custodyChain[e]) + Cardinality(taken(e)) <= MaxEvents
        /\ custodyChain' = [e \in Evidence |-> custodyChain[e] \o events(e)]
        /\ manifest' = IF bad # {} THEN manifest
                       ELSE [i \in DOMAIN ids |-> ExportManifestItem(ids[i])]
        /\ UNCHANGED records

Requests == {<<e>> : e \in Evidence} \cup (Evidence \X Evidence)

Next ==
    \/ \E e \in Evidence, p \in Payload, n \in Sizes :
          \/ RegisterOriginal(e, p, n)
          \/ \E parent \in Evidence : RegisterDerived(e, parent, p, n)
    \/ \E e \in Evidence, p \in Payload :
          CommitTampered(e, p) \/ CommitOriginal(e, p) \/ CommitDerived(e, p) \/ VerifyTamper(e, p)
    \/ \E e \in Evidence :
          RecordTransferInterrupted(e) \/ RecordTransferResumed(e) \/ HandleDuplicateUpload(e)
    \/ \E ids \in Requests : GenerateExportManifest(ids)

Spec == Init /\ [][Next]_vars

-----------------------------------------------------------------------------
\* VerifyExportManifest of a manifest as it was produced, with the genuine payloads.
VerifyExportManifest(m) ==
    \A i \in DOMAIN m : Size[m[i].digest] = m[i].sizeBytes

\* Where a transfer event, or a verification, leaves the upload.
After(type) ==
    CASE type = "INTEGRITY_VERIFIED"   -> "COMPLETED"
      [] type = "TRANSFER_INTERRUPTED" -> "FAILED"
      [] type = "TRANSFER_RESUMED"     -> "TRANSFERRING"

At(chain, types) == {i \in 1 .. Len(chain) : chain[i].type \in types}

\* Where the chain says the upload is: whatever the last of those events left.
Tells(chain, state) ==
    LET moves == At(chain, {"TRANSFER_INTERRUPTED", "TRANSFER_RESUMED", "INTEGRITY_VERIFIED"})
    IN  IF moves = {} THEN state = "INITIALIZED"
        ELSE \E last \in moves : /\ \A i \in moves : i <= last
                                 /\ state = After(chain[last].type)

\* The chain tells the record's story: it opens with the registration, ends where the
\* record is, has a verification before anything is packaged and no transfer after it,
\* and names the registered digest except where it reports another one as tampering.
Story(chain, rec) ==
    LET verified == At(chain, {"INTEGRITY_VERIFIED"}) IN
    /\ Len(chain) > 0
    /\ chain[1].type = IF rec.objectType = "ORIGINAL" THEN "CAPTURE_LOCAL" ELSE "DERIVED_GENERATED"
    /\ Tells(chain, rec.state)
    /\ rec.committed <=> verified # {}
    /\ \A i \in At(chain, {"EXPORT_PACKAGED"}) : \E j \in verified : j < i
    /\ \A i \in At(chain, {"TRANSFER_INTERRUPTED", "TRANSFER_RESUMED"}), j \in verified : i < j
    /\ \A i \in 1 .. Len(chain) :
          chain[i].digest = rec.digest <=> chain[i].type # "TAMPER_DETECTED"

\* So it does for every record, through interruptions, retries and duplicate uploads.
CustodyReplays ==
    TypeOK /\
    \A e \in Evidence : IF Registered(e) THEN Story(custodyChain[e], records[e])
                        ELSE custodyChain[e] = <<>>

\* A derived artifact hangs off a committed original, never off another artifact, and
\* a manifest in someone's hands lists committed evidence under its own digest.
DerivedFromCommitted ==
    /\ \A e \in Evidence : Registered(e) /\ records[e].objectType = "DERIVED"
          => /\ Committed(records[e].parent)
             /\ records[records[e].parent].objectType = "ORIGINAL"
    /\ manifest # None =>
          \A i \in DOMAIN manifest :
             /\ Committed(manifest[i].evidence)
             /\ records[manifest[i].evidence].digest = manifest[i].digest

\* "GenerateExportManifest produces a verified export manifest": it passes
\* VerifyExportManifest when every payload is the one that was committed.
ManifestVerifies == manifest # None => VerifyExportManifest(manifest)
=============================================================================
