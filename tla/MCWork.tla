------------------------------- MODULE MCWork -------------------------------
(***************************************************************************)
(* Small instances of modules/workflow-action: WorkflowEngine,             *)
(* ActionLifecycle, ActionGovernance, Reinspection over a governed action  *)
(* of its own, FindingLifecycle, Scoring and FailClosedGovernor.  But for  *)
(* reinspection, which reads the action engine, none calls another: focus  *)
(* picks the part that moves, out of those a run looks at.                 *)
(***************************************************************************)
EXTENDS Naturals, Sequences, TLC

CONSTANTS Focus, None,
          \* workflow engine and corrective actions
          Workflow, Client, Request, MaxAudit,
          Action, Staff, Evidence, Needed, DueDate, Timer, MaxTime, MaxHistory,
          \* governance and reinspection
          Ask, Dates, MaxChanges,
          Order, ActionOf, Inspector, Person, DueDates, MaxVersion, Spelling, TrimSpace,
          Supervisor, Closer, Auditor,
          Rules, Required, Nobody, Idle,
          \* findings
          Finding, Rule, AI, RuleSet, Severities, MaxRules, MaxCreates,
          \* scoring
          Section, Graded, SectionOf, MaxPoints, Weight, NotScored, MaxEarned,
          \* governor
          Target, CriticalFinding, Question, Actor, Bot, Role, AIRole, SupervisorRole, NewRule,
          Rebound, Query, MaxLedger

CONSTANTS a1, f1, t1, insp, sup, bot, padded

-----------------------------------------------------------------------------
\* Values of the constants in the runs.

\* Every action needs one piece of evidence and is due at time 1.
OneEach == [a \in Action |-> 1]

\* The order is on the one action, first inspected by insp.
TheAction == [o \in Order |-> a1]
TheInspector == [o \in Order |-> insp]

\* The padded spelling is the supervisor's name with a blank.
Trimmed == [s \in Spelling |-> IF s = padded THEN sup ELSE s]

\* A rule that is mandatory-critical and one that is mild.
RuleDefinitions == {[mandatory |-> TRUE, control |-> TRUE, default |-> 4],
                    [mandatory |-> FALSE, control |-> FALSE, default |-> 2]}

\* Two sections weighted 0.7 and 0.3, of two questions and one.
Sections == [q \in Graded |-> IF q = "q3" THEN "B" ELSE "A"]
Points == [q \in Graded |-> IF q = "q1" THEN 2 ELSE 1]
Weights == [sec \in Section |-> IF sec = "A" THEN 700 ELSE 300]

\* A good closure, a good approval, and the approval with one field spoilt.
Approval == [target |-> t1, kind |-> "WORKFLOW", from |-> "UNDER_REVIEW", to |-> "APPROVED",
             actor |-> sup, role |-> "SUPERVISOR", blank |-> FALSE, currentVersion |-> TRUE,
             conditions |-> {"review_passed"}, evidence |-> 1, critical |-> FALSE,
             unknown |-> FALSE, bps |-> 8000, override |-> FALSE]
Closure == [Approval EXCEPT !.kind = "ACTION", !.from = "IN_REVIEW", !.to = "CLOSED",
                            !.role = "REVIEWER", !.conditions = {"inspection_verified"}]
Spoilt(r) ==
    {[r EXCEPT !.from = "ARCHIVED"], [r EXCEPT !.to = "IN_PROGRESS"], [r EXCEPT !.actor = bot],
     [r EXCEPT !.role = "AI"], [r EXCEPT !.blank = TRUE], [r EXCEPT !.currentVersion = FALSE],
     [r EXCEPT !.conditions = {}], [r EXCEPT !.evidence = 0], [r EXCEPT !.critical = TRUE],
     [r EXCEPT !.unknown = TRUE], [r EXCEPT !.bps = 7999], [r EXCEPT !.override = TRUE]}
Queries == {Approval, Closure} \cup Spoilt(Approval)
Rebindings == {<<"WORKFLOW", "APPROVED", "CLOSED">>}

-----------------------------------------------------------------------------
VARIABLES instances, auditLog, idempotency, view,
          correctives, now,
          governed,
          actions, orders, revokedActors, busy, basis,
          catalog, findings, pending, changes, creates,
          sheet,
          rules, transitions, criticalTargets, quarantinedTargets, auditLedger, raised, passed,
          focus

W == INSTANCE WorkflowEngine
A == INSTANCE ActionLifecycle WITH actions <- correctives, Person <- Staff, Required <- Needed
G == INSTANCE ActionGovernance WITH actions <- governed, Person <- Staff, Request <- Ask,
                                    DueDates <- Dates, MaxVersion <- MaxChanges
R == INSTANCE Reinspection
F == INSTANCE FindingLifecycle
S == INSTANCE Scoring WITH Question <- Graded
Q == INSTANCE FailClosedGovernor WITH Finding <- CriticalFinding, Request <- Query

ASSUME WorkAssumption ==
    /\ W!WorkflowAssumption /\ A!ActionAssumption /\ G!GovernanceAssumption
    /\ R!GovernanceAssumption /\ R!ReinspectionAssumption /\ F!FindingAssumption
    /\ S!ScoringAssumption /\ Q!GovernorAssumption

workflowVars == <<instances, auditLog, idempotency, view>>
correctiveVars == <<correctives, now>>
reinspectionVars == <<actions, orders, revokedActors, busy, basis>>
findingVars == <<catalog, findings, pending, changes, creates>>
governorVars == <<rules, transitions, criticalTargets, quarantinedTargets, auditLedger, raised,
                  passed>>
vars == <<workflowVars, correctiveVars, governed, reinspectionVars, findingVars, sheet,
          governorVars, focus>>

\* The findings are looked at twice: one that is reclassified, and two that are linked.
\* A part at rest starts with one catalog of the many.
Init ==
    /\ W!Init /\ A!Init /\ G!GovernanceInit /\ R!Init /\ F!Init /\ S!Init /\ Q!Init
    /\ focus \in Focus
    /\ focus # "reclassification" => \A r \in Rule : ~catalog[r].mandatory

\* What each of the two explores: who asks, for what, and how long the trails grow.  Two
\* creations, counted before the step is tried, race for one finding that is reclassified.
Reclassifying ==
    \A p \in Person : pending'[p] # None => /\ pending'[p].id = f1
                                            /\ pending'[p].record.recurrence = None
Linking ==
    /\ catalog' = catalog
    /\ \A p \in Person : pending'[p] # None => /\ p # bot /\ pending'[p].record.severity = 2
                                               /\ ~pending'[p].record.control
    /\ \A f \in Finding : Len(findings'[f].history) <= 2

\* What reinspection explores: one spelling revoked, and a full history ends in a
\* closure or a reopening.
Reinspecting ==
    /\ R!Cardinality(revokedActors') <= 1
    /\ \A o \in Order : Len(orders'[o].history) = MaxHistory
                        => orders'[o].state \in {"CLOSED", "REOPENED"}

Workflows ==
    focus = "workflow" /\ W!Next
    /\ UNCHANGED <<correctiveVars, governed, reinspectionVars, findingVars, sheet, governorVars>>
Correctives ==
    focus = "actions" /\ A!Next
    /\ UNCHANGED <<workflowVars, governed, reinspectionVars, findingVars, sheet, governorVars>>
Governance ==
    focus = "governance" /\ G!GovernanceNext
    /\ UNCHANGED <<workflowVars, correctiveVars, reinspectionVars, findingVars, sheet,
                   governorVars>>
Reinspections ==
    focus = "reinspection" /\ R!Next /\ Reinspecting
    /\ UNCHANGED <<workflowVars, correctiveVars, governed, findingVars, sheet, governorVars>>
Findings ==
    /\ \/ focus = "reclassification" /\ creates' \in creates .. 2 /\ F!Next /\ Reclassifying
       \/ focus = "recurrence" /\ F!Next /\ Linking
    /\ UNCHANGED <<workflowVars, correctiveVars, governed, reinspectionVars, sheet, governorVars>>
Scores ==
    focus = "scoring" /\ S!Next
    /\ UNCHANGED <<workflowVars, correctiveVars, governed, reinspectionVars, findingVars,
                   governorVars>>
Gate ==
    focus = "governor" /\ Q!Next
    /\ UNCHANGED <<workflowVars, correctiveVars, governed, reinspectionVars, findingVars, sheet>>

Next ==
    /\ Workflows \/ Correctives \/ Governance \/ Reinspections \/ Findings \/ Scores \/ Gate
    /\ UNCHANGED focus

Spec == Init /\ [][Next]_vars

WorkflowSymmetry == Permutations(Workflow) \cup Permutations(Client) \cup Permutations(Request)
                    \cup Permutations(Staff) \cup Permutations(Evidence)
RemediationSymmetry == Permutations(Staff) \cup Permutations(Ask)

-----------------------------------------------------------------------------
\* Transition and Rollback: the audit log replays to the instances, a request is applied
\* once however often it is sent, and CLOSED is reached through a review only.
AuditReplays == W!AuditReplays /\ W!RequestAppliedOnce /\ W!ClosedWasApproved

\* Transition changes what its client read, or nothing.
AppliedToWhatWasRead == W!AppliedToWhatWasRead

\* The history of an action replays to its state and evidence, and CloseAction closes out
\* of an uninterrupted review with enough evidence.
HistoryReplays == A!HistoryReplays /\ A!ClosureEarned

\* ReassignOwner and RevokeOwner keep one unbroken trail of ownership, and what
\* ReviewExtension, AcknowledgeEscalation and ReviewEvidence decide another asked for.
OneActiveCustodian == G!OneActiveCustodian /\ G!DecidedByAnother

\* VerifySatisfactory rests on accepted evidence although it walks without a lock, and
\* FinalClose closes what was verified immediately before.
VerifiedOnAccepted == R!VerifiedOnAccepted /\ R!ClosedAfterVerification

\* Only ReviewExtension moves the due date, to the date asked for.
DueDateIsApproved == G!DueDateIsApproved

\* CreateFinding, UpdateSeverity, UpdateCriticalFlag and TransitionState log what they do
\* and keep mandatory findings critical; recurrences are linked backwards only.
AuditAccounts == F!AuditAccounts /\ F!MandatoryIsCritical /\ F!RecurrenceAcyclic

\* CreateFinding never replaces a finding, although it validates before it locks.
IdentityIsFixed == F!IdentityIsFixed

\* Evaluate returns a mean of the active sections and never rewards a lost point.
FailureNeverHelps == []S!ScoreIsMean /\ S!FailureNeverHelps

\* FailClosedGovernor.Qualify lets nothing pass that was not resolved.
ResolvedBeforePassing == Q!TypeOK /\ Q!ResolvedBeforePassing
=============================================================================
