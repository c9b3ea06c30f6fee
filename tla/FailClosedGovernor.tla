------------------------ MODULE FailClosedGovernor ------------------------
(***************************************************************************)
(* The gate in front of state transitions:                                 *)
(* modules/workflow-action/fail_closed_governance.go over the rule matrix  *)
(* and transition catalog of modules/workflow-action/business_rules.go.    *)
(*                                                                         *)
(* Each call is one step under FailClosedGovernor.mu.  A call carries the  *)
(* caller's claims (role, conditions, score, flags); only the registered   *)
(* critical findings and quarantined questions are the governor's own.     *)
(* Identifiers are non-blank, except where a request says otherwise.       *)
(***************************************************************************)
EXTENDS Naturals, Sequences, TLC

CONSTANTS
    Target,        \* <<tenant, target>> pairs
    Finding, Question,
    Actor,
    Bot,           \* actors whose name contains AI_AGENT
    Role, AIRole, SupervisorRole,
    NewRule,       \* rule IDs registered later; such a rule asks for nothing
    Rebound,       \* the transitions <<kind, from, to>> RegisterTransition is called for
    Request,       \* the qualification requests callers make
    None,          \* no owner role, no item, never
    MaxLedger      \* bound on the audit ledger

Item == Finding \cup Question
Protected == {"APPROVED", "CLOSED", "REMEDIATED", "PUBLISHED", "SCORED_PASS"}
Threshold == 8000

\* BusinessRule: what Qualify reads of it.  DeterministicResult and FailureBehavior
\* are stored and never read.
BusinessRule(owner, conditions, minEvidence) ==
    [owner |-> owner, conditions |-> conditions, minEvidence |-> minEvidence]

DefaultRuleMatrix ==
    ("TMPL-SUBMIT" :> BusinessRule("AUTHOR", {"questions_non_empty"}, 0)) @@
    ("TMPL-APPROVE" :> BusinessRule("REVIEWER", {"review_recorded"}, 0)) @@
    ("TMPL-PUBLISH" :> BusinessRule("ADMIN", {"approval_recorded"}, 0)) @@
    ("TMPL-RETIRE" :> BusinessRule("ADMIN", {"superseded_or_deprecated"}, 0)) @@
    ("WF-START" :> BusinessRule("OPERATOR", {}, 0)) @@
    ("WF-SUBMIT" :> BusinessRule("OPERATOR", {"draft_complete"}, 0)) @@
    ("WF-APPROVE" :> BusinessRule("SUPERVISOR", {"review_passed"}, 0)) @@
    ("WF-CLOSE" :> BusinessRule("SUPERVISOR", {"signoff_complete"}, 0)) @@
    ("ACT-START" :> BusinessRule("OWNER", {}, 0)) @@
    ("ACT-SUBMIT" :> BusinessRule("OWNER", {"remediation_complete"}, 1)) @@
    ("ACT-REJECT" :> BusinessRule("REVIEWER", {"rejection_reason_provided"}, 0)) @@
    ("ACT-CLOSE" :> BusinessRule("REVIEWER", {"inspection_verified"}, 1)) @@
    ("ACT-REOPEN" :> BusinessRule("REVIEWER", {"reopen_justification"}, 0)) @@
    ("SCORING-EVAL" :> BusinessRule("INSPECTOR", {"pinned_version_verified", "model_2_weighted"}, 0))

\* State names are compared with isProtectedTargetState in upper case.
DefaultTransitionCatalog ==
    (<<"TEMPLATE", "DRAFT", "INREVIEW">> :> "TMPL-SUBMIT") @@
    (<<"TEMPLATE", "INREVIEW", "APPROVED">> :> "TMPL-APPROVE") @@
    (<<"TEMPLATE", "APPROVED", "PUBLISHED">> :> "TMPL-PUBLISH") @@
    (<<"TEMPLATE", "PUBLISHED", "RETIRED">> :> "TMPL-RETIRE") @@
    (<<"WORKFLOW", "DRAFT", "IN_PROGRESS">> :> "WF-START") @@
    (<<"WORKFLOW", "IN_PROGRESS", "UNDER_REVIEW">> :> "WF-SUBMIT") @@
    (<<"WORKFLOW", "UNDER_REVIEW", "APPROVED">> :> "WF-APPROVE") @@
    (<<"WORKFLOW", "APPROVED", "CLOSED">> :> "WF-CLOSE") @@
    (<<"ACTION", "ASSIGNED", "IN_PROGRESS">> :> "ACT-START") @@
    (<<"ACTION", "IN_PROGRESS", "IN_REVIEW">> :> "ACT-SUBMIT") @@
    (<<"ACTION", "IN_REVIEW", "REJECTED">> :> "ACT-REJECT") @@
    (<<"ACTION", "IN_REVIEW", "CLOSED">> :> "ACT-CLOSE") @@
    (<<"ACTION", "CLOSED", "REOPENED">> :> "ACT-REOPEN") @@
    (<<"SCORING", "UNSCORED", "SCORED">> :> "SCORING-EVAL")

\* The last two lines: callers name a target, an actor and a role, and every transition
\* of the default catalog names a rule of the default matrix.
GovernorAssumption ==
    /\ Bot \subseteq Actor /\ AIRole \subseteq Role /\ SupervisorRole \subseteq Role
    /\ AIRole \cap SupervisorRole = {} /\ Finding \cap Question = {}
    /\ MaxLedger \in Nat
    /\ \A r \in Request : r.target \in Target /\ r.actor \in Actor /\ r.role \in Role
    /\ \A x \in DOMAIN DefaultTransitionCatalog :
          DefaultTransitionCatalog[x] \in DOMAIN DefaultRuleMatrix

RuleID == DOMAIN DefaultRuleMatrix \cup NewRule
RuleBody(rule) == IF rule \in NewRule THEN BusinessRule(None, {}, 0) ELSE DefaultRuleMatrix[rule]

VARIABLES
    rules,               \* RuleMatrix.rules: the registered rule IDs
    transitions,         \* TransitionCatalog.transitions: [<<kind, from, to>> -> RuleID]
    criticalTargets,     \* [Target -> SUBSET Finding]
    quarantinedTargets,  \* [Target -> SUBSET Question]
    auditLedger,         \* the entries, in order of their sequence numbers
    raised,              \* observer: ledger length when an item was last registered
    passed               \* observer: ledger indices of permits into Protected states

vars == <<rules, transitions, criticalTargets, quarantinedTargets, auditLedger, raised, passed>>
books == <<rules, transitions>>

\* FailClosedAuditEntry; item is the question or finding of a resolution.
Entry == [action : {"UNKNOWN_RESOLVED", "CRITICAL_CLEARED", "OVERRIDE_ATTEMPT_DENIED",
                    "AI_BOUNDARY_BLOCKED", "CRITICAL_FAIL_BLOCKED",
                    "UNKNOWN_QUARANTINE_RECORDED", "SCORE_BELOW_THRESHOLD",
                    "TRANSITION_PERMITTED", "TRANSITION_DENIED"},
          target : Target, actor : Actor, role : Role, item : Item \cup {None}]

TypeOK ==
    /\ rules \subseteq RuleID
    /\ transitions \in [DOMAIN DefaultTransitionCatalog \cup Rebound -> RuleID \cup {None}]
    /\ criticalTargets \in [Target -> SUBSET Finding]
    /\ quarantinedTargets \in [Target -> SUBSET Question]
    /\ auditLedger \in Seq(Entry)
    /\ passed \subseteq DOMAIN auditLedger

Init ==
    /\ rules = DOMAIN DefaultRuleMatrix
    /\ transitions = [x \in DOMAIN DefaultTransitionCatalog \cup Rebound |->
                        IF x \in DOMAIN DefaultTransitionCatalog
                        THEN DefaultTransitionCatalog[x] ELSE None]
    /\ criticalTargets = [t \in Target |-> {}]
    /\ quarantinedTargets = [t \in Target |-> {}]
    /\ auditLedger = <<>>
    /\ raised = [t \in Target |-> [x \in Item |-> None]]
    /\ passed = {}

-----------------------------------------------------------------------------
\* Deliberate faults, used only to show that the properties can fail.
MayResolve_AnyRole(p, role) == p \notin Bot
CriticalActive_Claimed(r) == r.critical
-----------------------------------------------------------------------------

\* ResolveUnknownQuestion and ClearCriticalFinding: a supervisor's role, neither an AI
\* role nor an actor named as an AI agent.
MayResolve(p, role) == role \notin AIRole /\ p \notin Bot /\ role \in SupervisorRole

\* The other items of the target stay.
Cleared(items, x) == items \ {x}

\* Claimed by the caller, or registered.
CriticalActive(r) == r.critical \/ criticalTargets[r.target] # {}
UnknownActive(r) == r.unknown \/ quarantinedTargets[r.target] # {}

\* A score of 0 is taken for an inspection that was not scored.
BelowThreshold(r) == r.bps > 0 /\ r.bps < Threshold

\* TransitionCatalog.Qualify, in the order of its checks; the governor passes no rule
\* ID, so the catalog's rule is the one looked up.
Qualifies(r) ==
    LET key == <<r.kind, r.from, r.to>>
        rule == RuleBody(transitions[key])
    IN  /\ ~r.blank
        /\ r.currentVersion
        /\ r.from \notin {"ARCHIVED", "RETIRED"}
        /\ key \in DOMAIN transitions /\ transitions[key] \in rules
        /\ rule.owner \in {None, r.role}
        /\ rule.conditions \subseteq r.conditions
        /\ r.evidence >= rule.minEvidence

\* FailClosedGovernor.Qualify's priority hierarchy.
Decision(r) ==
    CASE r.override -> "OVERRIDE_ATTEMPT_DENIED"
      [] ~r.override /\ r.role \in AIRole /\ r.to \in Protected -> "AI_BOUNDARY_BLOCKED"
      [] OTHER ->
         IF CriticalActive(r) /\ r.to \in Protected THEN "CRITICAL_FAIL_BLOCKED"
         ELSE IF UnknownActive(r) /\ r.to \in Protected THEN "UNKNOWN_QUARANTINE_RECORDED"
         ELSE IF BelowThreshold(r) /\ r.to \in Protected THEN "SCORE_BELOW_THRESHOLD"
         ELSE IF Qualifies(r) THEN "TRANSITION_PERMITTED" ELSE "TRANSITION_DENIED"

Log(action, t, p, role, x) ==
    /\ Len(auditLedger) < MaxLedger
    /\ auditLedger' = Append(auditLedger, [action |-> action, target |-> t, actor |-> p,
                                           role |-> role, item |-> x])

\* FailClosedGovernor.RegisterCriticalFinding.
RegisterCriticalFinding(t, f) ==
    /\ criticalTargets' = [criticalTargets EXCEPT ![t] = @ \cup {f}]
    /\ raised' = [raised EXCEPT ![t][f] = Len(auditLedger)]
    /\ UNCHANGED <<books, quarantinedTargets, auditLedger, passed>>

\* FailClosedGovernor.RegisterQuarantinedQuestion.
RegisterQuarantinedQuestion(t, q) ==
    /\ quarantinedTargets' = [quarantinedTargets EXCEPT ![t] = @ \cup {q}]
    /\ raised' = [raised EXCEPT ![t][q] = Len(auditLedger)]
    /\ UNCHANGED <<books, criticalTargets, auditLedger, passed>>

\* FailClosedGovernor.ResolveUnknownQuestion, with a rationale; logged even if the
\* question was not quarantined.
ResolveUnknownQuestion(t, q, p, role) ==
    /\ MayResolve(p, role)
    /\ quarantinedTargets' = [quarantinedTargets EXCEPT ![t] = Cleared(@, q)]
    /\ Log("UNKNOWN_RESOLVED", t, p, role, q)
    /\ UNCHANGED <<books, criticalTargets, raised, passed>>

\* FailClosedGovernor.ClearCriticalFinding.
ClearCriticalFinding(t, f, p, role) ==
    /\ MayResolve(p, role)
    /\ criticalTargets' = [criticalTargets EXCEPT ![t] = Cleared(@, f)]
    /\ Log("CRITICAL_CLEARED", t, p, role, f)
    /\ UNCHANGED <<books, quarantinedTargets, raised, passed>>

\* FailClosedGovernor.Qualify.
Qualify(r) ==
    /\ Log(Decision(r), r.target, r.actor, r.role, None)
    /\ passed' = IF Decision(r) = "TRANSITION_PERMITTED" /\ r.to \in Protected
                 THEN passed \cup {Len(auditLedger) + 1} ELSE passed
    /\ UNCHANGED <<books, criticalTargets, quarantinedTargets, raised>>

\* RuleMatrix.RegisterRule: an ID is registered once.
RegisterRule(rule) ==
    /\ rule \notin rules
    /\ rules' = rules \cup {rule}
    /\ UNCHANGED <<transitions, criticalTargets, quarantinedTargets, auditLedger, raised, passed>>

\* TransitionCatalog.RegisterTransition: an earlier binding is replaced.
RegisterTransition(key, rule) ==
    /\ transitions' = [transitions EXCEPT ![key] = rule]
    /\ UNCHANGED <<rules, criticalTargets, quarantinedTargets, auditLedger, raised, passed>>

Next ==
    \/ \E t \in Target, f \in Finding : RegisterCriticalFinding(t, f)
    \/ \E t \in Target, q \in Question : RegisterQuarantinedQuestion(t, q)
    \/ \E t \in Target, q \in Question, p \in Actor, role \in Role :
          ResolveUnknownQuestion(t, q, p, role)
    \/ \E t \in Target, f \in Finding, p \in Actor, role \in Role :
          ClearCriticalFinding(t, f, p, role)
    \/ \E r \in Request : Qualify(r)
    \/ \E rule \in NewRule : RegisterRule(rule)
    \/ \E key \in Rebound, rule \in NewRule : RegisterTransition(key, rule)

Spec == Init /\ [][Next]_vars

-----------------------------------------------------------------------------
\* A critical finding or quarantined question, once registered for a target, keeps
\* it out of every protected state until a human supervisor resolved that very item
\* of that very target, and the ledger shows the resolution between the two: however
\* rules and transitions are registered and whatever the request claims.
ResolvedBeforePassing ==
    \A i \in passed, x \in Item :
        LET t == auditLedger[i].target
            since == raised[t][x]
        IN  since # None /\ since < i =>
               \E j \in since + 1 .. i - 1 :
                  /\ auditLedger[j].action \in {"UNKNOWN_RESOLVED", "CRITICAL_CLEARED"}
                  /\ auditLedger[j].target = t /\ auditLedger[j].item = x
                  /\ auditLedger[j].actor \notin Bot
                  /\ auditLedger[j].role \in SupervisorRole
=============================================================================
