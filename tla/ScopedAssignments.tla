-------------------------- MODULE ScopedAssignments --------------------------
(***************************************************************************)
(* Time-bounded role assignments with separation of duties:                *)
(* modules/identity-authorization/scoped_assignment.go, with the state of  *)
(* PolicyEvaluator (access_policy.go).                                     *)
(*                                                                         *)
(* Times are days.  Callers pass the present moment to every method.  The  *)
(* conflict check looks at the assignments in force at that moment.        *)
(***************************************************************************)
EXTENDS AccessPolicy, Sequences

CONSTANTS
    AssignmentID,
    HeldRole,     \* the roles handed out, a subset of Role
    Scope,        \* the scopes handed out
    Window,       \* pairs <<validFrom, validTo>>
    Direct,       \* grants given to the evaluator without the registry
    None,         \* no assignment
    Moment        \* the days on which something happens, 0 among them

VARIABLES
    memberships,  \* PolicyEvaluator.memberships: the active ones; any other is refused alike
    assignments,  \* grants AddRoleAssignment put into the evaluator, in no order
    entitlements, \* tenants with the entitlement enabled
    registry,     \* [Tenant \X AssignmentID -> ScopedAssignment or None]
    ledger,       \* AssignmentLedger.records
    now

policyVars == <<memberships, assignments, entitlements>>
vars == <<policyVars, registry, ledger, now>>

ScopedAssignment ==
    [tenant : Tenant, subject : Subject, role : HeldRole,
     scope : {[s EXCEPT !.tenant = t] : s \in Scope, t \in Tenant},
     from : Nat, to : Nat, state : {"ACTIVE", "REVOKED"}]

\* The day is kept of creations only.
AssignmentAuditRecord ==
    [key : Tenant \X AssignmentID, at : Moment,
     transition : {"ASSIGNMENT_CREATED", "ASSIGNMENT_REVOKED"}]

ScopedAssumption ==
    /\ HeldRole \subseteq Role
    /\ \A w \in Window : w \in Nat \X Nat
    /\ 0 \in Moment /\ Moment \subseteq Nat
    /\ None \notin ScopedAssignment

TypeOK ==
    /\ memberships \subseteq Tenant \X Subject
    /\ entitlements \subseteq Tenant
    /\ registry \in [Tenant \X AssignmentID -> ScopedAssignment \cup {None}]
    /\ ledger \in Seq(AssignmentAuditRecord)
    /\ now \in Moment

Init ==
    /\ memberships = {}
    /\ assignments = {}
    /\ entitlements = {}
    /\ registry = [k \in Tenant \X AssignmentID |-> None]
    /\ ledger = <<>>
    /\ now = 0

-----------------------------------------------------------------------------
\* The window is open at both ends' days.
InForce(k, t) == registry[k] # None /\ registry[k].from <= t /\ t <= registry[k].to

\* Deliberate faults, used only to show that the properties can fail.
IsValidAt_Revoked(k, t) == InForce(k, t)
Clashes_SameOrder(a, b) ==
    a.role = b.role \/ <<a.role, b.role>> \in {<<"INSPECTOR", "AUDITOR">>}
-----------------------------------------------------------------------------

IsValidAt(k, t) == InForce(k, t) /\ registry[k].state = "ACTIVE"

Clashing ==
    {{"INSPECTOR", "AUDITOR"}, {"PROJECT_MANAGER", "AUDITOR"},
     {"CONTRACTOR", "TENANT_ADMIN"}, {"CONTRACTOR", "PROJECT_MANAGER"}}

\* The roles CheckRoleConflict keeps apart.
Clashes(a, b) == a.role = b.role \/ {a.role, b.role} \in Clashing

\* CheckRoleConflict of candidate a against assignment k.
Conflict(a, k) ==
    /\ registry[k].tenant = a.tenant
    /\ registry[k].subject = a.subject
    /\ CheckScopesOverlap(registry[k].scope, a.scope)
    /\ Clashes(a, registry[k])

Log(k, transition, at) ==
    ledger' = Append(ledger, [key |-> k, at |-> at, transition |-> transition])

\* NewScopedAssignment fills in the scope's tenant.
NewScopedAssignment(t, s, r, scope, w) ==
    [tenant |-> t, subject |-> s, role |-> r, scope |-> [scope EXCEPT !.tenant = t],
     from |-> w[1], to |-> w[2], state |-> "ACTIVE"]

Revoke(a) == [a EXCEPT !.state = "REVOKED"]

RegisterAssignment(k, s, r, scope, w) ==
    LET a == NewScopedAssignment(k[1], s, r, scope, w)
    IN  /\ scope.tenant \in {Blank, k[1]}
        /\ w[1] < w[2]
        /\ registry[k] = None
        /\ ~\E j \in DOMAIN registry : IsValidAt(j, now) /\ Conflict(a, j)
        /\ registry' = [registry EXCEPT ![k] = a]
        /\ Log(k, "ASSIGNMENT_CREATED", now)
        /\ UNCHANGED <<policyVars, now>>

RevokeAssignment(k) ==
    /\ registry[k] # None
    /\ registry[k].state # "REVOKED"
    /\ registry' = [registry EXCEPT ![k] = Revoke(@)]
    /\ Log(k, "ASSIGNMENT_REVOKED", 0)
    /\ UNCHANGED <<policyVars, now>>

ToRoleAssignment(k) ==
    Grant(registry[k].tenant, registry[k].subject, registry[k].role, registry[k].scope)

SetMembership(t, s, status) ==
    /\ memberships' = IF status = "ACTIVE" THEN memberships \cup {<<t, s>>}
                      ELSE memberships \ {<<t, s>>}
    /\ UNCHANGED <<assignments, entitlements, registry, ledger, now>>

SetEntitlement(t, enabled) ==
    /\ entitlements' = IF enabled THEN entitlements \cup {t} ELSE entitlements \ {t}
    /\ UNCHANGED <<memberships, assignments, registry, ledger, now>>

\* AddRoleAssignment of each grant of the set.
AddRoleAssignments(grants) ==
    /\ assignments' = assignments \cup grants
    /\ UNCHANGED <<memberships, entitlements, registry, ledger, now>>

\* Copies what is valid now into the evaluator, which never forgets a grant.
PopulateEvaluator(t) ==
    AddRoleAssignments({ToRoleAssignment(k) :
                          k \in {j \in {t} \X AssignmentID : IsValidAt(j, now)}})

Tick == now' \in {t \in Moment : t > now} /\ UNCHANGED <<policyVars, registry, ledger>>

Next ==
    \/ \E k \in Tenant \X AssignmentID, s \in Subject, r \in HeldRole, scope \in Scope,
          w \in Window : RegisterAssignment(k, s, r, scope, w)
    \/ \E k \in Tenant \X AssignmentID : RevokeAssignment(k)
    \/ \E t \in Tenant : PopulateEvaluator(t)
    \/ \E t \in Tenant, s \in Subject, status \in MembershipStatus : SetMembership(t, s, status)
    \/ \E t \in Tenant, enabled \in BOOLEAN : SetEntitlement(t, enabled)
    \/ AddRoleAssignments(Direct)
    \/ Tick

Spec == Init /\ [][Next]_vars

-----------------------------------------------------------------------------
\* EvaluateScopedAccess: the evaluator's members and entitlements, but only the
\* grants in force now.
EvaluateScopedAccess(req) ==
    Evaluate(req, <<req.tenant, req.subject>> \in memberships, req.tenant \in entitlements,
             {ToRoleAssignment(k) :
                k \in {j \in {req.tenant} \X AssignmentID :
                         IsValidAt(j, now) /\ registry[j].subject = req.subject}})

LoggedAs(k, transition) == {i \in 1 .. Len(ledger) : ledger[i].key = k
                                                     /\ ledger[i].transition = transition}

\* Access is granted only on an assignment that the ledger shows created and not
\* revoked and whose window is open, whatever PopulateEvaluator left in the evaluator.
AccessFollowsLedger ==
    \A req \in Request :
        "ALLOW" \in EvaluateScopedAccess(req) =>
            \E k \in {req.tenant} \X AssignmentID :
                /\ LoggedAs(k, "ASSIGNMENT_CREATED") # {}
                /\ LoggedAs(k, "ASSIGNMENT_REVOKED") = {}
                /\ InForce(k, now)
                /\ registry[k].subject = req.subject
                /\ scopeMatches(registry[k].scope, req.target)

\* Two assignments of different keys that clash and are both in force.
BothHeld(j, k) ==
    /\ j # k
    /\ IsValidAt(j, now)
    /\ IsValidAt(k, now)
    /\ Conflict(registry[k], j)

\* A subject holds clashing roles over the same place only when the second was
\* registered before the first came into force: CheckRoleConflict looks no further
\* than the moment of registration.
ClashOnlyByAdvanceGrant ==
    \A j, k \in DOMAIN registry :
        BothHeld(j, k) =>
            \E i \in LoggedAs(j, "ASSIGNMENT_CREATED"), m \in LoggedAs(k, "ASSIGNMENT_CREATED") :
                \/ i < m /\ ledger[m].at < registry[j].from
                \/ m < i /\ ledger[i].at < registry[k].from

\* "An Inspector cannot concurrently hold Auditor privileges within overlapping
\* project/company scopes" (authorization_matrix.go, line 378).
DutiesSeparated ==
    \A j, k \in DOMAIN registry :
        BothHeld(j, k) => {registry[j].role, registry[k].role} # {"INSPECTOR", "AUDITOR"}
=============================================================================
