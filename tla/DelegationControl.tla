-------------------------- MODULE DelegationControl --------------------------
(***************************************************************************)
(* Time-bounded delegation of a role:                                      *)
(* modules/identity-authorization/delegation_control.go, with              *)
(* ValidateDelegationRequest of authorization_matrix.go.                   *)
(*                                                                         *)
(* A request states the delegator's role and scope itself; nothing looks   *)
(* them up.  Times are days.                                               *)
(***************************************************************************)
EXTENDS AccessPolicy, Sequences

CONSTANTS
    DelegationID,
    Claim,        \* pairs <<role, scope>> a delegator claims or hands on
    Term,         \* pairs <<validFrom, validTo>>
    None,         \* no delegation
    Moment        \* the days on which something happens, 0 among them

VARIABLES
    memberships,  \* PolicyEvaluator.memberships: the active ones; any other is refused alike
    entitlements, \* PolicyEvaluator.entitlements: tenants with the entitlement enabled
    delegations,  \* [Tenant \X DelegationID -> DelegationRecord or None]
    trail,        \* DelegationLedger.records
    now

policyVars == <<memberships, entitlements>>
vars == <<policyVars, delegations, trail, now>>

MaxDelegationDuration == 30

\* The claims with the tenant filled in.
Held == {<<c[1], [c[2] EXCEPT !.tenant = t]>> : c \in Claim, t \in Tenant}

DelegationRecord ==
    [delegator : Subject, claim : Held, delegatee : Subject, handed : Held,
     from : Nat, to : Nat, state : {"ACTIVE", "REVOKED"}]

DelegationAssumption ==
    /\ \A c \in Claim : c[1] \in Role
    /\ \A w \in Term : w \in Nat \X Nat
    /\ 0 \in Moment /\ Moment \subseteq Nat
    /\ None \notin DelegationRecord

TypeOK ==
    /\ memberships \subseteq Tenant \X Subject
    /\ entitlements \subseteq Tenant
    /\ delegations \in [Tenant \X DelegationID -> DelegationRecord \cup {None}]
    /\ trail \in Seq([key : Tenant \X DelegationID,
                      transition : {"DELEGATION_CREATED", "DELEGATION_REVOKED"}])
    /\ now \in Moment

Init ==
    /\ memberships = {}
    /\ entitlements = {}
    /\ delegations = [k \in Tenant \X DelegationID |-> None]
    /\ trail = <<>>
    /\ now = 0

-----------------------------------------------------------------------------
\* Deliberate faults, used only to show that the properties can fail.
Contained_Swapped(claim, handed) ==
    handed[1] \in Includes[claim[1]] /\ ScopeContains(handed[2], claim[2])
-----------------------------------------------------------------------------

\* Permissions and scope handed on are within the ones claimed.
Contained(claim, handed) ==
    handed[1] \in Includes[claim[1]] /\ ScopeContains(claim[2], handed[2])

\* NewDelegationRecord and ValidateDelegationRequest.
Valid(d) ==
    /\ d.delegator # d.delegatee
    /\ d.from < d.to
    /\ d.to - d.from <= MaxDelegationDuration
    /\ ~IsProtectedRole(d.claim[1])
    /\ ~IsProtectedRole(d.handed[1])
    /\ MaxDelegationDays[d.claim[1]] > 0 => d.to - d.from <= MaxDelegationDays[d.claim[1]]
    /\ Contained(d.claim, d.handed)

Log(k, transition) == trail' = Append(trail, [key |-> k, transition |-> transition])

CreateDelegation(k, delegator, claim, delegatee, handed, w) ==
    LET In(c) == <<c[1], [c[2] EXCEPT !.tenant = k[1]]>>
        d == [delegator |-> delegator, claim |-> In(claim), delegatee |-> delegatee,
              handed |-> In(handed), from |-> w[1], to |-> w[2], state |-> "ACTIVE"]
    IN  /\ Valid(d)
        /\ delegations[k] = None
        /\ delegations' = [delegations EXCEPT ![k] = d]
        /\ Log(k, "DELEGATION_CREATED")
        /\ UNCHANGED <<policyVars, now>>

Revoke(d) == [d EXCEPT !.state = "REVOKED"]

RevokeDelegation(k) ==
    /\ delegations[k] # None
    /\ delegations[k].state # "REVOKED"
    /\ delegations' = [delegations EXCEPT ![k] = Revoke(@)]
    /\ Log(k, "DELEGATION_REVOKED")
    /\ UNCHANGED <<policyVars, now>>

SetMembership(t, s, status) ==
    /\ memberships' = IF status = "ACTIVE" THEN memberships \cup {<<t, s>>}
                      ELSE memberships \ {<<t, s>>}
    /\ UNCHANGED <<entitlements, delegations, trail, now>>

SetEntitlement(t, enabled) ==
    /\ entitlements' = IF enabled THEN entitlements \cup {t} ELSE entitlements \ {t}
    /\ UNCHANGED <<memberships, delegations, trail, now>>

Tick == now' \in {t \in Moment : t > now} /\ UNCHANGED <<policyVars, delegations, trail>>

Next ==
    \/ \E k \in Tenant \X DelegationID, s, u \in Subject, claim, handed \in Claim, w \in Term :
          CreateDelegation(k, s, claim, u, handed, w)
    \/ \E k \in Tenant \X DelegationID : RevokeDelegation(k)
    \/ \E t \in Tenant, s \in Subject, status \in MembershipStatus : SetMembership(t, s, status)
    \/ \E t \in Tenant, enabled \in BOOLEAN : SetEntitlement(t, enabled)
    \/ Tick

Spec == Init /\ [][Next]_vars

-----------------------------------------------------------------------------
IsValidAt(k, t) ==
    /\ delegations[k] # None
    /\ delegations[k].state = "ACTIVE"
    /\ delegations[k].from <= t /\ t <= delegations[k].to

\* ListActiveDelegationsForDelegatee.
ActiveDelegations(tenant, subject) ==
    {k \in {tenant} \X DelegationID : IsValidAt(k, now) /\ delegations[k].delegatee = subject}

\* The search for a matching scope and role before the scoped evaluation repeats
\* part of it.
EvaluateDelegatedAccess(req) ==
    Evaluate(req, <<req.tenant, req.subject>> \in memberships, req.tenant \in entitlements,
             {Grant(k[1], req.subject, delegations[k].handed[1], delegations[k].handed[2]) :
                k \in ActiveDelegations(req.tenant, req.subject)})

\* What the trail says of a delegation.
Logged(k) == {trail[i].transition : i \in {j \in 1 .. Len(trail) : trail[j].key = k}}

\* Whoever acts on a delegation does what the delegator's claimed role may do, in the
\* tenant, company, project, site and area claimed and inside the role's limit in days, on
\* a delegation the trail shows created and not revoked.  Of objects, he reaches the one
\* handed on, if one was.  The evaluator decides by its table of actions and the matrix
\* compares permissions: the two must agree.
DelegationAmplifiesNothing ==
    \A req \in Request :
        "ALLOW" \in EvaluateDelegatedAccess(req) =>
            \E k \in {req.tenant} \X DelegationID :
                LET d == delegations[k]
                IN  /\ Logged(k) = {"DELEGATION_CREATED"}
                    /\ d.delegatee = req.subject /\ d.delegator # req.subject
                    /\ req.action \in rolePermitsAction[d.claim[1]]
                    /\ scopeMatches(d.claim[2], req.target)
                    /\ d.handed[2].object \in {Blank, req.target.object}
                    /\ now - d.from <= MaxDelegationDays[d.claim[1]]

\* "A delegator cannot delegate permissions or scopes exceeding their own active
\* entitlements": the object claimed binds what is handed on.
ObjectStaysDelegated ==
    \A req \in Request :
        "ALLOW" \in EvaluateDelegatedAccess(req) =>
            \E k \in ActiveDelegations(req.tenant, req.subject) :
                delegations[k].claim[2].object \in {Blank, req.target.object}
=============================================================================
