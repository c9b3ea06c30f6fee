-------------------------- MODULE FindingLifecycle --------------------------
(***************************************************************************)
(* Safety findings: modules/workflow-action/finding_lifecycle.go.          *)
(*                                                                         *)
(* CreateFinding reads the rule catalog, validates and only then takes     *)
(* FindingManager.mu, so a rule may be re-registered, or the same finding  *)
(* created by somebody else, in between: it is two steps here.  The other  *)
(* methods are one step under the lock.                                    *)
(***************************************************************************)
EXTENDS Naturals, Sequences

CONSTANTS
    Finding, Rule, Person,
    Supervisor,   \* people with a supervisory classification role
    Closer,       \* people with human closure authority
    AI,           \* actors the code recognises as autonomous agents
    RuleSet,      \* the rule definitions that may be registered
    Severities,   \* ranks in use: 1 LOW, 2 MEDIUM, 3 HIGH, 4 CRITICAL
    None,         \* no recurrence link, no request in flight, not closed
    MaxHistory,   \* bound on the length of a finding's history
    MaxRules,     \* bound on re-registrations
    MaxCreates    \* bound on CreateFinding calls

RuleDefinition == [mandatory : BOOLEAN, control : BOOLEAN, default : 1 .. 4]

FindingAssumption ==
    /\ Supervisor \cup Closer \cup AI \subseteq Person
    /\ RuleSet \subseteq RuleDefinition
    /\ Severities \subseteq 1 .. 4
    /\ {MaxHistory, MaxRules, MaxCreates} \subseteq Nat /\ None \notin Finding \cup Rule

VARIABLES
    catalog,    \* FindingRuleCatalog.rules
    findings,   \* FindingManager.findings of one tenant
    pending,    \* [Person -> a validated CreateFinding waiting for the lock, or None]
    changes,    \* re-registrations so far
    creates     \* CreateFinding calls so far

vars == <<catalog, findings, pending, changes, creates>>

States == {"ABSENT", "OPEN", "UNDER_REVIEW", "REMEDIATED", "CLOSED"}

\* FindingAuditEntry.  state is <<FromState, ToState>>; severity and critical are the
\* values before and after that Details names.  What an entry does not name is blank.
Entry == [action : {"CREATED", "SEVERITY_UPDATED", "CRITICAL_FLAG_UPDATED", "STATE_TRANSITION"},
          actor : Person, state : States \X States, severity : (0 .. 4) \X (0 .. 4),
          critical : BOOLEAN \X BOOLEAN]

FindingRecord == [state : States, rule : Rule \cup {None}, severity : 0 .. 4,
                  critical : BOOLEAN, control : BOOLEAN,
                  recurrence : Finding \cup {None}, closedBy : Person \cup {None},
                  history : Seq(Entry)]

NoFinding == [state |-> "ABSENT", rule |-> None, severity |-> 0, critical |-> FALSE,
              control |-> FALSE, recurrence |-> None, closedBy |-> None, history |-> <<>>]

TypeOK ==
    /\ catalog \in [Rule -> RuleSet]
    /\ findings \in [Finding -> FindingRecord]
    /\ \A p \in Person : pending[p] = None \/ pending[p].id \in Finding
    /\ changes \in 0 .. MaxRules /\ creates \in 0 .. MaxCreates

Init ==
    /\ catalog \in [Rule -> RuleSet]
    /\ findings = [f \in Finding |-> NoFinding]
    /\ pending = [p \in Person |-> None]
    /\ changes = 0 /\ creates = 0

-----------------------------------------------------------------------------
\* Deliberate faults, used only to show that the properties can fail.
Free_NotRechecked(f) == TRUE
SeverityEntry_AfterWrite(r, severity, p) ==
    [action |-> "SEVERITY_UPDATED", actor |-> p, state |-> <<"ABSENT", "ABSENT">>,
     severity |-> <<severity, severity>>, critical |-> <<FALSE, FALSE>>]
Resolved_CallerFlag(rule, critical) == critical
Linked_Self(f, g) == TRUE
-----------------------------------------------------------------------------

\* The finding exists and is not CLOSED.
Open(f) == findings[f].state \notin {"ABSENT", "CLOSED"}

\* The ID is free in the tenant's map.
Free(f) == findings[f].state = "ABSENT"

\* A recurrence link must name a finding that already exists.
Linked(f, g) == g = None \/ ~Free(g)

\* Lowering a severity, or dropping the critical flag.
MayLower(p) == p \in Supervisor
MayClose(p) == p \in Closer /\ p \notin AI

\* The critical flag of a new finding: a mandatory rule overrides the caller.
Resolved(rule, critical) == critical \/ rule.mandatory

\* When CreateFinding demands an immediate-control note.
NeedsControl(rule, severity, critical) ==
    Resolved(rule, critical) \/ severity = 4 \/ rule.control

\* Permitted transitions of TransitionState.
Successors ==
    [OPEN |-> {"UNDER_REVIEW", "REMEDIATED", "CLOSED"},
     UNDER_REVIEW |-> {"REMEDIATED", "CLOSED", "OPEN"},
     REMEDIATED |-> {"CLOSED", "UNDER_REVIEW"}]

\* The entries of the four methods, made from the record as it was.  That of CreateFinding
\* names state, severity and flag, the others only what their method changes.
BlankEntry(action, p) ==
    [action |-> action, actor |-> p, state |-> <<"ABSENT", "ABSENT">>, severity |-> <<0, 0>>,
     critical |-> <<FALSE, FALSE>>]
CreatedEntry(r, p) ==
    [action |-> "CREATED", actor |-> p, state |-> <<"ABSENT", "OPEN">>,
     severity |-> <<0, r.severity>>, critical |-> <<FALSE, r.critical>>]
SeverityEntry(r, severity, p) ==
    [BlankEntry("SEVERITY_UPDATED", p) EXCEPT !.severity = <<r.severity, severity>>]
CriticalEntry(r, critical, p) ==
    [BlankEntry("CRITICAL_FLAG_UPDATED", p) EXCEPT !.critical = <<r.critical, critical>>]
StateEntry(r, to, p) ==
    [BlankEntry("STATE_TRANSITION", p) EXCEPT !.state = <<r.state, to>>]

\* The record r is written with one more audit entry.
Write(f, r, entry) ==
    /\ Len(findings[f].history) < MaxHistory
    /\ findings' = [findings EXCEPT ![f] = [r EXCEPT !.history = Append(@, entry)]]

\* FindingRuleCatalog.RegisterRule: overwrites, no check.
RegisterRule(rule, def) ==
    /\ changes < MaxRules
    /\ changes' = changes + 1
    /\ catalog' = [catalog EXCEPT ![rule] = def]
    /\ UNCHANGED <<findings, pending, creates>>

\* FindingManager.CreateFinding up to the lock; severity 0 is a blank input.
ValidateFinding(p, f, rule, severity, critical, control, recurrence) ==
    LET def == catalog[rule]
        rank == IF severity = 0 THEN def.default ELSE severity
    IN  /\ creates < MaxCreates /\ creates' = creates + 1
        /\ pending[p] = None
        /\ p \in AI => severity # 0 \/ def.mandatory
        /\ NeedsControl(def, rank, critical) => control
        /\ pending' = [pending EXCEPT ![p] =
              [id |-> f,
               record |-> [NoFinding EXCEPT !.state = "OPEN", !.rule = rule,
                                            !.severity = rank,
                                            !.critical = Resolved(def, critical),
                                            !.control = control,
                                            !.recurrence = recurrence]]]
        /\ UNCHANGED <<catalog, findings, changes>>

\* The rest of CreateFinding under the lock; the map is looked at only here.
InsertFinding(p) ==
    /\ pending[p] # None
    /\ IF Free(pending[p].id) /\ Linked(pending[p].id, pending[p].record.recurrence)
       THEN Write(pending[p].id, pending[p].record, CreatedEntry(pending[p].record, p))
       ELSE UNCHANGED findings
    /\ pending' = [pending EXCEPT ![p] = None]
    /\ UNCHANGED <<catalog, changes, creates>>

\* FindingManager.UpdateSeverity.
UpdateSeverity(f, severity, p) ==
    /\ Open(f)
    /\ severity < findings[f].severity => MayLower(p)
    /\ p \notin AI
    /\ Write(f, [findings[f] EXCEPT !.severity = severity],
             SeverityEntry(findings[f], severity, p))
    /\ UNCHANGED <<catalog, pending, changes, creates>>

\* FindingManager.UpdateCriticalFlag: the rule is looked up as it is now.
UpdateCriticalFlag(f, critical, p) ==
    /\ Open(f)
    /\ critical \/ ~catalog[findings[f].rule].mandatory
    /\ findings[f].critical /\ ~critical => MayLower(p)
    /\ p \notin AI
    /\ Write(f, [findings[f] EXCEPT !.critical = critical],
             CriticalEntry(findings[f], critical, p))
    /\ UNCHANGED <<catalog, pending, changes, creates>>

\* FindingManager.TransitionState.
TransitionState(f, to, p) ==
    /\ Open(f)
    /\ to = "CLOSED" => MayClose(p)
    /\ to \in Successors[findings[f].state]
    /\ Write(f, [findings[f] EXCEPT !.state = to,
                                    !.closedBy = IF to = "CLOSED" THEN p ELSE @],
             StateEntry(findings[f], to, p))
    /\ UNCHANGED <<catalog, pending, changes, creates>>

Next ==
    \/ \E rule \in Rule, def \in RuleSet : RegisterRule(rule, def)
    \/ \E p \in Person, f \in Finding, rule \in Rule, severity \in Severities \cup {0},
          critical, control \in BOOLEAN, recurrence \in Finding \cup {None} :
          ValidateFinding(p, f, rule, severity, critical, control, recurrence)
    \/ \E p \in Person : InsertFinding(p)
    \/ \E f \in Finding, severity \in Severities, p \in Person : UpdateSeverity(f, severity, p)
    \/ \E f \in Finding, critical \in BOOLEAN, p \in Person : UpdateCriticalFlag(f, critical, p)
    \/ \E f \in Finding, to \in States \ {"ABSENT"}, p \in Person : TransitionState(f, to, p)

Spec == Init /\ [][Next]_vars

-----------------------------------------------------------------------------
\* The entries T tell of a value that is now so: each starts from what the one before it
\* in T ended with, and the newest ends with the present value.
Replays(T, told, now) ==
    /\ \A i \in T : (\A j \in T : j <= i) => told[i][2] = now
    /\ \A i, j \in T : i < j /\ (\A k \in T : k <= i \/ j <= k) => told[j][1] = told[i][2]

\* The entries of history h that name the value which the method called action changes.
Naming(h, action) == {i \in 1 .. Len(h) : h[i].action \in {"CREATED", action}}

\* The audit trail accounts for the finding although no entry but the first shows it
\* whole: the trail begins with the creation, and state, severity and flag each replay
\* through the entries that name them, whatever entries about the others lie between.
AuditAccounts ==
    TypeOK /\
    \A f \in Finding :
        LET r == findings[f]  h == r.history IN
        /\ h = <<>> <=> r.state = "ABSENT"
        /\ \A i \in 1 .. Len(h) : h[i].action = "CREATED" <=> i = 1
        /\ Replays(Naming(h, "STATE_TRANSITION"), [i \in 1 .. Len(h) |-> h[i].state], r.state)
        /\ Replays(Naming(h, "SEVERITY_UPDATED"), [i \in 1 .. Len(h) |-> h[i].severity],
                   r.severity)
        /\ Replays(Naming(h, "CRITICAL_FLAG_UPDATED"), [i \in 1 .. Len(h) |-> h[i].critical],
                   r.critical)

\* A finding, once created, is never replaced: its rule and recurrence link stay,
\* and its trail only grows, though creations race for one ID.
IdentityIsFixed ==
    [][\A f \in Finding : findings[f].state # "ABSENT" =>
          /\ findings'[f].rule = findings[f].rule
          /\ findings'[f].recurrence = findings[f].recurrence
          /\ SubSeq(findings'[f].history, 1, Len(findings[f].history))
                = findings[f].history]_vars

\* While the catalog is not edited, a finding under a mandatory-critical rule is
\* critical at every moment.
MandatoryIsCritical ==
    changes = 0 => \A f \in Finding :
        findings[f].rule # None /\ catalog[findings[f].rule].mandatory => findings[f].critical

\* Recurrence links lead back to older findings: no finding recurs to itself, directly
\* or through others, since every group has a member whose link leads out of it.
RecurrenceAcyclic ==
    /\ \A f \in Finding : findings[f].recurrence # None =>
          findings[findings[f].recurrence].state # "ABSENT"
    /\ \A group \in (SUBSET Finding) \ {{}} :
          \E f \in group : findings[f].recurrence \notin group

\* "immediate-control note is mandatory for critical or high-severity findings".
SevereHasControl ==
    \A f \in Finding : findings[f].critical \/ findings[f].severity >= 3 => findings[f].control
=============================================================================
