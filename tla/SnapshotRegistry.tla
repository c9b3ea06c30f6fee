-------------------------- MODULE SnapshotRegistry --------------------------
(***************************************************************************)
(* Versioned publication snapshots:                                        *)
(* modules/publication-snapshot/publication_snapshot.go.                   *)
(*                                                                         *)
(* A payload is the set of its field names, a SHA-256 digest the value it  *)
(* was computed from.  SnapshotRegistry's methods run under its mutex;     *)
(* GetSnapshot hands out copies, and NewExportPackage works on copies that *)
(* may have aged since.                                                    *)
(***************************************************************************)
EXTENDS Naturals, Sequences

CONSTANTS
    Snapshot,      \* tenant and snapshot ID
    Field,
    Prohibited,    \* fields whose name or value matches a prohibited pattern
    Allowlist,     \* the allowlists in use: sets of fields
    Subject,       \* reviewers
    None,          \* no value, the blank subject, the empty decision hash
    MaxVersion,    \* bound on versions
    MaxExports     \* bound on export packages

SnapshotRegistryAssumption ==
    /\ Prohibited \subseteq Field /\ MaxVersion \in Nat \ {0}
    /\ \A a \in Allowlist : a \subseteq Field /\ a \cap Prohibited = {}  \* NewPublicationFieldAllowlist

VARIABLES
    snapshots,   \* [Snapshot -> Seq(PublicationSnapshot)]: the versions, 1 to latestVer
    activePub,   \* [Snapshot -> 0 .. MaxVersion]: the published version, 0 for none
    held,        \* a copy a caller got from GetSnapshot, or None
    exports      \* the snapshot copies sealed into export packages

vars == <<snapshots, activePub, held, exports>>

\* ReviewerContext: who decided what; the decision hash covers both.
Context == [subject : Subject \cup {None},
            status : {"PENDING_REVIEW", "APPROVED_FOR_PUBLICATION", "REJECTED", "WITHDRAWN"},
            hash : (Subject \X {"PENDING_REVIEW", "APPROVED_FOR_PUBLICATION", "REJECTED"})
                   \cup {None}]

\* The contexts callers pass: NewReviewerContext's, and a literal without a subject.
GivenContext ==
    {[subject |-> p, status |-> st, hash |-> <<p, st>>] :
        p \in Subject, st \in {"APPROVED_FOR_PUBLICATION", "REJECTED"}}
    \cup {[subject |-> None, status |-> "APPROVED_FOR_PUBLICATION", hash |-> None]}

\* PublicationSnapshot; the signature is what ComputeSignatureDigest covers.
PublicationSnapshot ==
    [id : Snapshot, version : 1 .. MaxVersion,
     status : {"DRAFT", "PUBLISHED", "SUPERSEDED", "WITHDRAWN"},
     allowlist : Allowlist, payload : SUBSET Field, reviewer : Context,
     payloadDigest : SUBSET Field,
     signature : Snapshot \X (1 .. MaxVersion) \X (SUBSET Field)
                 \X ((Subject \X {"APPROVED_FOR_PUBLICATION", "REJECTED"}) \cup {None})]

TypeOK ==
    /\ snapshots \in [Snapshot -> Seq(PublicationSnapshot)]
    /\ \A s \in Snapshot : Len(snapshots[s]) <= MaxVersion
    /\ activePub \in [Snapshot -> 0 .. MaxVersion]
    /\ held \in PublicationSnapshot \cup {None} /\ exports \in Seq(PublicationSnapshot)

Init ==
    /\ snapshots = [s \in Snapshot |-> <<>>]
    /\ activePub = [s \in Snapshot |-> 0]
    /\ held = None
    /\ exports = <<>>

-----------------------------------------------------------------------------
\* Deliberate faults, used only to show that the properties can fail.
Deactivated_Forgotten(s) == activePub
Exportable_AnyStatus(v) == v.payloadDigest = v.payload
-----------------------------------------------------------------------------

ComputeSignatureDigest(s, version, payloadDigest, decision) ==
    <<s, version, payloadDigest, decision>>

\* RedactPayload refuses prohibited fields, and others not allowed if it is strict.
Acceptable(raw, allow, strict) ==
    raw \cap Prohibited = {} /\ (strict => raw \subseteq allow)

RedactPayload(raw, allow) == raw \cap allow

\* PublicationSnapshot.VerifyIntegrity.
VerifyIntegrity(v) ==
    /\ v.payloadDigest = v.payload
    /\ v.signature = ComputeSignatureDigest(v.id, v.version, v.payloadDigest, v.reviewer.hash)

Latest(s) == Len(snapshots[s])
Approves(ctx) == ctx.status = "APPROVED_FOR_PUBLICATION"
Superseded(v) == [v EXCEPT !.status = "SUPERSEDED"]
Ended(s, n) == [snapshots[s] EXCEPT ![n] = Superseded(snapshots[s][n])]
Deactivated(s) == [activePub EXCEPT ![s] = 0]

\* NewDraftSnapshot and SnapshotRegistry.RegisterDraft; a draft has no decision yet.
RegisterDraft(s, raw, allow, strict) ==
    LET payload == RedactPayload(raw, allow) IN
    /\ Latest(s) = 0
    /\ Acceptable(raw, allow, strict)
    /\ snapshots' = [snapshots EXCEPT ![s] = <<
           [id |-> s, version |-> 1, status |-> "DRAFT", allowlist |-> allow,
            payload |-> payload, payloadDigest |-> payload,
            reviewer |-> [subject |-> None, status |-> "PENDING_REVIEW", hash |-> None],
            signature |-> ComputeSignatureDigest(s, 1, payload, None)]>>]
    /\ UNCHANGED <<activePub, held, exports>>

\* SnapshotRegistry.PublishSnapshot of the latest version.
PublishSnapshot(s, ctx) ==
    LET n == Latest(s) IN
    /\ n > 0
    /\ snapshots[s][n].status \notin {"PUBLISHED", "WITHDRAWN"}
    /\ Approves(ctx) /\ ctx.subject # None
    /\ snapshots' = [snapshots EXCEPT ![s][n].status = "PUBLISHED", ![s][n].reviewer = ctx,
           ![s][n].signature =
              ComputeSignatureDigest(s, n, snapshots[s][n].payloadDigest, ctx.hash)]
    /\ activePub' = [activePub EXCEPT ![s] = n]
    /\ UNCHANGED <<held, exports>>

\* SnapshotRegistry.CreateNewVersion: the new version is published at once.
CreateNewVersion(s, raw, allow, strict, ctx) ==
    LET n == Latest(s)
        payload == RedactPayload(raw, allow)
    IN  /\ n > 0 /\ n < MaxVersion
        /\ snapshots[s][n].status = "PUBLISHED"
        /\ Approves(ctx)
        /\ Acceptable(raw, allow, strict)
        /\ snapshots' = [snapshots EXCEPT ![s] = Append(Ended(s, n),
              [id |-> s, version |-> n + 1, status |-> "PUBLISHED", allowlist |-> allow,
               payload |-> payload, payloadDigest |-> payload, reviewer |-> ctx,
               signature |-> ComputeSignatureDigest(s, n + 1, payload, ctx.hash)])]
        /\ activePub' = [activePub EXCEPT ![s] = n + 1]
        /\ UNCHANGED <<held, exports>>

\* SnapshotRegistry.WithdrawSnapshot of the latest version, whatever its status; the
\* reviewer's context replaces the publication's, the signature stays.
WithdrawSnapshot(s, ctx) ==
    LET n == Latest(s) IN
    /\ n > 0
    /\ snapshots' = [snapshots EXCEPT ![s][n].status = "WITHDRAWN",
                        ![s][n].reviewer = [ctx EXCEPT !.status = "WITHDRAWN"]]
    /\ activePub' = Deactivated(s)
    /\ UNCHANGED <<held, exports>>

\* SnapshotRegistry.GetSnapshot: the published version, else the latest.
GetSnapshot(s) ==
    /\ Latest(s) > 0
    /\ held' = snapshots[s][IF activePub[s] # 0 THEN activePub[s] ELSE Latest(s)]
    /\ UNCHANGED <<snapshots, activePub, exports>>

Exportable(v) == v.status = "PUBLISHED" /\ VerifyIntegrity(v)

\* NewExportPackage over the copy held.
NewExportPackage ==
    /\ held # None
    /\ Exportable(held)
    /\ Len(exports) < MaxExports
    /\ exports' = Append(exports, held)
    /\ UNCHANGED <<snapshots, activePub, held>>

Next ==
    \/ \E s \in Snapshot, raw \in SUBSET Field, allow \in Allowlist, strict \in BOOLEAN :
          \/ RegisterDraft(s, raw, allow, strict)
          \/ \E ctx \in GivenContext : CreateNewVersion(s, raw, allow, strict, ctx)
    \/ \E s \in Snapshot, ctx \in GivenContext : PublishSnapshot(s, ctx) \/ WithdrawSnapshot(s, ctx)
    \/ \E s \in Snapshot : GetSnapshot(s)
    \/ NewExportPackage

Spec == Init /\ [][Next]_vars

-----------------------------------------------------------------------------
\* At most the latest version of a snapshot is PUBLISHED and activePub names exactly
\* it; every other version was superseded, and what any version carries is allowed
\* by its own allowlist.
OnePublished ==
    TypeOK /\
    \A s \in Snapshot :
        /\ \A v \in DOMAIN snapshots[s] :
              /\ snapshots[s][v].status = "PUBLISHED" <=> activePub[s] = v
              /\ v < Latest(s) => snapshots[s][v].status = "SUPERSEDED"
              /\ snapshots[s][v].payload \subseteq snapshots[s][v].allowlist \ Prohibited
        /\ activePub[s] \in {0, Latest(s)}

\* What was exported was published in that very form: the export's copy differs from
\* the registry's version in status and, after a withdrawal, in reviewer at most.
ExportedWasPublished ==
    \A i \in DOMAIN exports :
        LET e == exports[i]
            v == snapshots[e.id][e.version]
        IN  /\ e.version <= Latest(e.id)
            /\ e.payload = v.payload /\ e.signature = v.signature
            /\ v.status # "DRAFT" /\ (v.status # "WITHDRAWN" => e.reviewer = v.reviewer)

\* VerifySnapshotIntegrity succeeds on every stored version: "Every snapshot seals
\* canonical SHA-256 payload and signature digests" (header).
SealVerifies ==
    \A s \in Snapshot : \A v \in DOMAIN snapshots[s] : VerifyIntegrity(snapshots[s][v])
=============================================================================
