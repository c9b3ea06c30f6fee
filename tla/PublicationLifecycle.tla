------------------------ MODULE PublicationLifecycle ------------------------
(***************************************************************************)
(* Review, approval, publication, withdrawal and replacement of snapshots: *)
(* modules/publication-snapshot/publication_lifecycle.go.                  *)
(*                                                                         *)
(* Each LifecycleController method is one step under its mutex, the append *)
(* to the audit ledger included.  The caller passes the time: now here is  *)
(* the time of the call.                                                   *)
(***************************************************************************)
EXTENDS Naturals, Sequences

CONSTANTS
    Snapshot,           \* tenant and snapshot ID
    Digest,             \* content digests
    Role,
    AuthorizedRole,     \* authorizedRoles: AUDITOR and TENANT_ADMIN
    MaxWindow,          \* MaxPublicationWindowDuration
    ApprovalAges,       \* the MaxApprovalAge values in use
    None,
    MaxTime             \* bound on the clock

VARIABLES
    now,         \* the callers' clock
    snaps,       \* LifecycleController.snapshots
    ledger       \* LifecycleAuditLedger.records

vars == <<now, snaps, ledger>>

Times == 1 .. MaxTime
States == {"DRAFT", "UNDER_REVIEW", "APPROVED", "PUBLISHED", "WITHDRAWN", "REPLACED", "SUPERSEDED"}

\* ApprovalEvidence, and the LifecycleManagedSnapshot; publishedAt is UpdatedAt at
\* publication.
ApprovalEvidence == [role : Role, approvedAt : Times, digest : Digest, maxAge : ApprovalAges]
Managed == [state : States, digest : Digest, approval : ApprovalEvidence \cup {None},
            from : Times \cup {0}, expires : Times \cup {0}, publishedAt : Times \cup {0},
            successor : Snapshot \cup {None}]

\* LifecycleAuditRecord.
Audit == [snapshot : Snapshot, from : States \cup {None}, to : States, role : Role \cup {"CREATOR"},
          at : Times]

PublicationLifecycleAssumption ==
    /\ AuthorizedRole \subseteq Role /\ MaxWindow \in Nat /\ ApprovalAges \subseteq Nat
    /\ MaxTime \in Nat \ {0} /\ None \notin Snapshot \cup Digest \cup Managed

TypeOK ==
    /\ now \in Times
    /\ snaps \in [Snapshot -> Managed \cup {None}]
    /\ ledger \in Seq(Audit)

Init == now = 1 /\ snaps = [s \in Snapshot |-> None] /\ ledger = <<>>

-----------------------------------------------------------------------------
\* Deliberate faults, used only to show that the properties can fail.
IsStale_AtApproval(a, t) == a.approvedAt > t
Withdrawable_Replaced(m) == m.state \in {"APPROVED", "PUBLISHED", "REPLACED"}
-----------------------------------------------------------------------------

\* ApprovalEvidence.IsStale: an approval dated in the future is not stale.
IsStale(a, t) == t >= a.approvedAt /\ t - a.approvedAt > a.maxAge

\* EffectiveWindow.Validate and IsExpired.
ValidWindow(from, expires) == expires > from /\ expires - from <= MaxWindow
IsExpired(expires, t) == t >= expires

\* LifecycleManagedSnapshot.EffectiveState and IsActive, GetActivePublishedSnapshot.
EffectiveState(m, t) ==
    IF m.state = "PUBLISHED" /\ IsExpired(m.expires, t) THEN "EXPIRED" ELSE m.state
IsActive(m, t) == EffectiveState(m, t) = "PUBLISHED" /\ t >= m.from

\* Approve compares the approved digest with the registered one.
Matches(a, m) == a.digest = m.digest

Withdrawable(m) == m.state \in {"APPROVED", "PUBLISHED"}

In(s, states) == snaps[s] # None /\ snaps[s].state \in states

\* Snapshot s becomes m, and the ledger records the transition.
Move(s, m, role) ==
    /\ snaps' = [snaps EXCEPT ![s] = m]
    /\ ledger' = Append(ledger, [snapshot |-> s, to |-> m.state, role |-> role, at |-> now,
                                 from |-> IF snaps[s] = None THEN None ELSE snaps[s].state])
    /\ UNCHANGED now

RegisterDraft(s, d) ==
    /\ snaps[s] = None
    /\ Move(s, [state |-> "DRAFT", digest |-> d, approval |-> None, from |-> 0,
                expires |-> 0, publishedAt |-> 0, successor |-> None], "CREATOR")

SubmitForReview(s, role) ==
    /\ In(s, {"DRAFT"})
    /\ Move(s, [snaps[s] EXCEPT !.state = "UNDER_REVIEW"], role)

\* LifecycleController.Approve, with evidence a.
Approve(s, a) ==
    /\ In(s, {"UNDER_REVIEW"})
    /\ a.role \in AuthorizedRole
    /\ ~IsStale(a, now)
    /\ Matches(a, snaps[s])
    /\ Move(s, [snaps[s] EXCEPT !.state = "APPROVED", !.approval = a], a.role)

Publish(s, role, from, expires) ==
    /\ In(s, {"APPROVED"})
    /\ role \in AuthorizedRole
    /\ ~IsStale(snaps[s].approval, now)
    /\ ValidWindow(from, expires) /\ ~IsExpired(expires, now)
    /\ Move(s, [snaps[s] EXCEPT !.state = "PUBLISHED", !.from = from, !.expires = expires,
                                !.publishedAt = now], role)

\* LifecycleController.Withdraw, with a reason.
Withdraw(s, role) ==
    /\ role \in AuthorizedRole
    /\ snaps[s] # None /\ Withdrawable(snaps[s])
    /\ Move(s, [snaps[s] EXCEPT !.state = "WITHDRAWN"], role)

\* LifecycleController.Replace and Supersede: neither looks at the actor's role nor at
\* the successor.
Replace(s, t, role) ==
    /\ In(s, {"PUBLISHED"})
    /\ Move(s, [snaps[s] EXCEPT !.state = "REPLACED", !.successor = t], role)

Supersede(s, t, role) ==
    /\ In(s, {"PUBLISHED"})
    /\ Move(s, [snaps[s] EXCEPT !.state = "SUPERSEDED", !.successor = t], role)

\* Time passes (environment).
Tick == now < MaxTime /\ now' = now + 1 /\ UNCHANGED <<snaps, ledger>>

Next ==
    \/ Tick
    \/ \E s \in Snapshot, d \in Digest : RegisterDraft(s, d)
    \/ \E s \in Snapshot, a \in ApprovalEvidence : Approve(s, a)
    \/ \E s \in Snapshot, role \in Role :
          \/ SubmitForReview(s, role)
          \/ Withdraw(s, role)
          \/ \E from, expires \in Times : Publish(s, role, from, expires)
          \/ \E t \in Snapshot : Replace(s, t, role) \/ Supersede(s, t, role)

Spec == Init /\ [][Next]_vars

-----------------------------------------------------------------------------
\* The records of snapshot s in log are one chain: the first comes from nothing to DRAFT,
\* every other starts where the one before it ended, no earlier and not after
\* WITHDRAWN, REPLACED or SUPERSEDED, and the last leads to m's state.
Tells(log, s, m) ==
    LET mine == {i \in 1 .. Len(log) : log[i].snapshot = s} IN
    IF m = None THEN mine = {}
    ELSE /\ \E last \in mine : log[last].to = m.state /\ \A i \in mine : i <= last
         /\ \A i \in mine :
               \/ /\ log[i].from = None /\ log[i].to = "DRAFT"
                  /\ \A j \in mine : i <= j
               \/ \E p \in mine :
                     /\ p < i /\ \A j \in mine : j <= p \/ i <= j
                     /\ log[i].from = log[p].to /\ log[i].at >= log[p].at
                     /\ log[p].to \notin {"WITHDRAWN", "REPLACED", "SUPERSEDED"}

\* The ledger alone reproduces every snapshot's state.
LedgerReplays == TypeOK /\ \A s \in Snapshot : Tells(ledger, s, snaps[s])

\* Whatever is served as active was approved by an authorized role for the very
\* content registered, the approval was not older than it allows when publication
\* happened, the window was open then, and it is open now.
ServedOnFreshApproval ==
    \A s \in Snapshot : snaps[s] # None /\ IsActive(snaps[s], now) =>
        LET m == snaps[s] IN
        /\ m.approval.role \in AuthorizedRole /\ m.approval.digest = m.digest
        /\ m.publishedAt <= m.approval.approvedAt + m.approval.maxAge
        /\ m.publishedAt < m.expires /\ m.from <= now /\ now < m.expires
        /\ m.expires - m.from <= MaxWindow
=============================================================================
