---------------------------- MODULE AccessPolicy ----------------------------
(***************************************************************************)
(* Roles, scopes and the default-deny decision of                          *)
(* modules/identity-authorization: access_policy.go and                    *)
(* authorization_matrix.go.  The registries that collect grants use them.  *)
(*                                                                         *)
(* A scope names a tenant and optionally a company, project, site, area    *)
(* and object; Blank is the empty field.  Permissions are compared by      *)
(* inclusion only, so the matrix keeps, for each role, the roles whose     *)
(* permissions it has.  Of a decision only its verdict is kept, not the    *)
(* reason of a denial.                                                     *)
(***************************************************************************)
EXTENDS Naturals

CONSTANTS
    Tenant,
    Subject,
    Target,       \* scopes of resources, with their lifecycle
    Blank

Role == {"TENANT_ADMIN", "PROJECT_MANAGER", "INSPECTOR", "AUDITOR", "VIEWER",
         "CONTRACTOR", "SUPPORT"}
Action == {"READ", "CREATE", "UPDATE", "DELETE", "EXPORT"}
MembershipStatus == {"ACTIVE", "SUSPENDED", "INACTIVE"}
Level == {"tenant", "company", "project", "site", "area"}

\* RoleAssignment.
Grant(tenant, subject, role, scope) ==
    [tenant |-> tenant, subject |-> subject, role |-> role, scope |-> scope]

\* AccessRequest of an authenticated caller; needs: RequiredEntitlement is set.
Request == [tenant : Tenant, subject : Subject, target : Target, action : Action,
            needs : BOOLEAN]

rolePermitsAction ==
    [r \in Role |->
        CASE r = "TENANT_ADMIN" -> Action
          [] r = "PROJECT_MANAGER" -> {"READ", "CREATE", "UPDATE", "EXPORT"}
          [] r = "INSPECTOR" -> {"READ", "CREATE", "UPDATE"}
          [] r = "AUDITOR" -> {"READ", "EXPORT"}
          [] r = "CONTRACTOR" -> {"READ", "CREATE"}
          [] OTHER -> {"READ"}]

\* The roles whose permissions are among those of r in registerRoles.
Includes ==
    [r \in Role |->
        CASE r = "TENANT_ADMIN" -> Role
          [] r = "PROJECT_MANAGER" ->
                {"PROJECT_MANAGER", "INSPECTOR", "VIEWER", "CONTRACTOR", "SUPPORT"}
          [] r = "INSPECTOR" -> {"INSPECTOR", "VIEWER", "CONTRACTOR", "SUPPORT"}
          [] r = "AUDITOR" -> {"AUDITOR", "VIEWER", "SUPPORT"}
          [] r = "VIEWER" -> {"VIEWER", "SUPPORT"}
          [] OTHER -> {r}]

IsProtectedRole(r) == r = "TENANT_ADMIN"

\* MaxDelegationDays.
MaxDelegationDays ==
    [r \in Role |->
        CASE r = "TENANT_ADMIN" -> 0
          [] r \in {"PROJECT_MANAGER", "AUDITOR"} -> 14
          [] r \in {"INSPECTOR", "CONTRACTOR"} -> 7
          [] r = "VIEWER" -> 30
          [] r = "SUPPORT" -> 3]

-----------------------------------------------------------------------------
\* scopeMatches and ScopeContains: the object field is in neither.
scopeMatches(grant, target) == \A l \in Level : grant[l] \in {Blank, target[l]}
ScopeContains(outer, inner) == scopeMatches(outer, inner)

CheckScopesOverlap(a, b) ==
    \A l \in Level : Blank \in {a[l], b[l]} \/ a[l] = b[l]

\* What the loop of Evaluate does on meeting a grant: decide, or go on.
Verdict(grant, target, action) ==
    LET covers ==
            /\ grant.role \in {"PROJECT_MANAGER", "INSPECTOR", "CONTRACTOR", "SUPPORT"}
                  => grant.scope.project # Blank \/ grant.scope.site # Blank
            /\ scopeMatches(grant.scope, target)
            /\ grant.scope.object \in {Blank, target.object}
            /\ action \in rolePermitsAction[grant.role]
    IN  IF ~covers THEN "GO_ON"
        ELSE IF target.archived /\ grant.role \notin {"AUDITOR", "TENANT_ADMIN"}
             THEN "DENY" ELSE "ALLOW"

\* Evaluate over the given grants of the caller, who is an active member or not, in
\* a tenant with the entitlement or without.  The first grant that decides wins; the
\* grants come out of a Go map, so that may be any of them.
Evaluate(req, active, entitled, grants) ==
    LET open ==
            /\ req.tenant = req.target.tenant
            /\ active
            /\ req.needs => entitled
            /\ req.target.archived => req.action = "READ"
        decisive == {Verdict(g, req.target, req.action) : g \in grants} \ {"GO_ON"}
    IN  IF open /\ decisive # {} THEN decisive ELSE {"DENY"}
=============================================================================
