------------------------------ MODULE MCAccess ------------------------------
(***************************************************************************)
(* Small instances of modules/identity-authorization: sessions, access     *)
(* conditions, scoped assignments, delegations, project participation, the *)
(* directory, scanned labels and external users.  They do not call one     *)
(* another: focus picks the one that moves.                                *)
(*                                                                         *)
(* Subjects of one registry do not affect one another, so one or two are   *)
(* enough.  The scopes are the tenant, a project, and for delegations one  *)
(* site and one object of it; the targets are an object of each of two     *)
(* projects and an archived one at another site of the first.              *)
(***************************************************************************)
EXTENDS Naturals, Sequences, FiniteSets, TLC

CONSTANTS None, Blank, Tenant, Subject, Moment,
          Token, TTL, MaxEvents,
          Condition, Sponsor, Session, Span, Extension, MaxLedger,
          Target, Scope, Window, AssignmentID, HeldRole, Direct,
          DelegationID, Claim, Term,
          Project, Within, Engagement, GivenRole, Deed,
          Post, Attribute, Viewer, Filter, MaxCalls,
          LabelTenant, LabelSite, ObjectID, OtherID, Label, Context, MaxScans,
          Proposed, Internal, Stay, ScopeSet, Visited

VARIABLES memberships, assignments, entitlements, registry, ledger, now,
          delegations, trail,
          identities, sessions, globalGeneration, revokedSessions, subjectRevocations,
          tenantGenerations, auditLog, issued,
          conditions, history, tokens,
          participations, attributions, ended,
          profiles, changes, calls, begun, crossed, bypassed, inactivated,
          objects, auditRecords, scans,
          externals, enrolments,
          focus

S == INSTANCE SessionControl
C == INSTANCE AccessConditions
A == INSTANCE ScopedAssignments
D == INSTANCE DelegationControl
P == INSTANCE ProjectParticipation WITH Period <- Window
F == INSTANCE DirectoryProfiles
       WITH ProfileID <- Deed, Call <- AssignmentID, ledger <- changes, MaxLedger <- MaxCalls
R == INSTANCE ScanResolution
       WITH Tenant <- LabelTenant, Site <- LabelSite, Scanner <- Token, MaxRecords <- MaxScans
X == INSTANCE ExternalUsers
       WITH Target <- Visited, Sponsor <- Proposed, Window <- Stay

ASSUME AccessAssumption ==
    /\ S!SessionAssumption /\ C!ConditionAssumption /\ A!ScopedAssumption
    /\ D!DelegationAssumption /\ P!ParticipationAssumption /\ R!ScanAssumption
    /\ X!ExternalAssumption /\ F!DirectoryAssumption

sOnly == <<identities, sessions, globalGeneration, revokedSessions, subjectRevocations,
           tenantGenerations, auditLog, issued>>
cOnly == <<conditions, history, tokens>>
aOnly == <<assignments, registry, ledger>>
dOnly == <<delegations, trail>>
pOnly == <<participations, attributions, ended>>
fOnly == <<profiles, changes, calls, begun, crossed, bypassed, inactivated>>
rOnly == <<objects, auditRecords, scans>>
xOnly == <<externals, enrolments>>
policy == <<memberships, entitlements>>
vars == <<sOnly, cOnly, aOnly, dOnly, pOnly, fOnly, rOnly, xOnly, policy, now, focus>>

Part == {"sessions", "conditions", "assignments", "delegations", "participation",
         "directory", "scans", "externals"}

Init ==
    /\ S!Init /\ C!Init /\ A!Init /\ D!Init /\ P!Init /\ F!Init /\ R!Init /\ X!Init
    /\ focus \in Part

Sessions ==
    focus = "sessions" /\ S!Next
    /\ UNCHANGED <<cOnly, aOnly, dOnly, pOnly, fOnly, rOnly, xOnly, policy>>
Conditions ==
    focus = "conditions" /\ C!Next
    /\ UNCHANGED <<sOnly, aOnly, dOnly, pOnly, fOnly, rOnly, xOnly, policy>>
Assignments ==
    focus = "assignments" /\ A!Next
    /\ UNCHANGED <<sOnly, cOnly, dOnly, pOnly, fOnly, rOnly, xOnly>>
Delegations ==
    focus = "delegations" /\ D!Next
    /\ UNCHANGED <<sOnly, cOnly, aOnly, pOnly, fOnly, rOnly, xOnly>>
Participation ==
    focus = "participation" /\ P!Next
    /\ UNCHANGED <<sOnly, cOnly, aOnly, dOnly, fOnly, rOnly, xOnly, policy>>
Directory ==
    focus = "directory" /\ F!Next
    /\ UNCHANGED <<sOnly, cOnly, aOnly, dOnly, pOnly, rOnly, xOnly, policy, now>>
Scans ==
    focus = "scans" /\ R!Next
    /\ UNCHANGED <<sOnly, cOnly, aOnly, dOnly, pOnly, fOnly, xOnly, policy>>
Externals ==
    focus = "externals" /\ X!Next
    /\ UNCHANGED <<sOnly, cOnly, aOnly, dOnly, pOnly, fOnly, rOnly, policy, now>>

Next == (Sessions \/ Conditions \/ Assignments \/ Delegations \/ Participation
           \/ Directory \/ Scans \/ Externals)
        /\ UNCHANGED focus

Spec == Init /\ [][Next]_vars

\* Subjects and IDs are interchangeable.  Assignments, participations and the calls of the
\* directory have the same names: no part uses them in two roles.
Symmetry == Permutations(Subject) \cup Permutations(AssignmentID)

-----------------------------------------------------------------------------
\* The instance the runs check.

Place(project, site, object) ==
    [tenant |-> Blank, company |-> Blank, project |-> project, site |-> site, area |-> Blank,
     object |-> object]
At(tenant, project, site, object, archived) ==
    [tenant |-> tenant, company |-> "c", project |-> project, site |-> site, area |-> "a",
     object |-> object, archived |-> archived]

Targets == {At(t, p, "s1", "o1", FALSE) : t \in Tenant, p \in {"p1", "p2"}}
           \cup {At(t, "p1", "s2", "o2", TRUE) : t \in Tenant}
Scopes == {Place(Blank, Blank, Blank), Place("p1", Blank, Blank)}
Claims == ({"PROJECT_MANAGER", "INSPECTOR", "AUDITOR"}
             \X (Scopes \cup {Place("p1", "s1", Blank), Place("p1", Blank, "o1")}))
          \cup {<<"TENANT_ADMIN", Place(Blank, Blank, Blank)>>}
DirectGrants == {[tenant |-> t, subject |-> s, role |-> "INSPECTOR",
                  scope |-> [Place(Blank, Blank, Blank) EXCEPT !.tenant = t]] :
                   t \in Tenant, s \in Subject}

\* Windows that open at once, later, and one too long for some roles to delegate.
Windows == {<<0, 1>>, <<1, 8>>}
Terms == {<<0, 2>>, <<1, 8>>, <<0, 8>>}
Spans == {<<0, 2>>, <<1, 15>>, <<0, 15>>}

\* Participations confined to nothing, and to an object of an area of a site.
Confined(site, area, object) ==
    [company |-> Blank, site |-> site, area |-> area, object |-> object]
Withins == {Confined(Blank, Blank, Blank), Confined("s1", "a", "o1")}

\* Profiles of every depth, and viewers held to every level.
Position(company, project, site) == [company |-> company, project |-> project, site |-> site]
Posts == {Position("c1", "p1", "s1"), Position("c1", "p1", "s2"), Position("c1", "p1", Blank),
          Position("c1", "p2", "s1"), Position("c2", Blank, Blank)}
Viewers == [role : {"TENANT_ADMIN", "CONTRACTOR", "VIEWER"},
            scope : {[company |-> c, project |-> p, site |-> s, area |-> a] :
                       c \in {Blank, "c1"}, p \in {Blank, "p1"}, s \in {Blank, "s1"},
                       a \in {Blank, "a1"}}]
Filters == {[company |-> q.company, project |-> q.project, site |-> q.site, inactive |-> i] :
              q \in {Position(Blank, Blank, Blank), Position("c1", "p2", Blank),
                     Position("c2", Blank, Blank), Position(Blank, "p1", "s2")},
              i \in BOOLEAN}

\* Labels of both tenants, callers of one: the other's objects must not matter.
Labels == [scheme : {"uri", "compact", "other"}, tenant : {"t1", "t2", Blank},
           id : {"obj", "odd"}, exp : {0, None, Blank}]
Known == [authenticated : {TRUE}, tenant : {"t1"}, role : {"INSPECTOR", "VIEWER"},
          site : {"s1", Blank}, action : {"inspection:create", Blank}]
Callers == Known \cup {[c EXCEPT !.authenticated = FALSE] :
                          c \in {k \in Known : k.role = "INSPECTOR" /\ k.action = Blank}}

\* Scopes with and without a tenant, resources of a tenant without external users.
Stays == {<<0, 1>>, <<1, 8>>, <<8, 0>>}
ScopeSets == {{}, Scopes, {[Place("p1", Blank, Blank) EXCEPT !.tenant = t] : t \in Tenant}}
VisitedTargets == Targets \cup {At("t9", "p1", "s1", "o1", FALSE)}

-----------------------------------------------------------------------------
\* Each property is about the part in focus; the others are as they started.

\* EvaluateSession never admits a session revoked, itself or with its subject, since
\* it was issued.
RevokedStaysOut == focus = "sessions" => S!TypeOK /\ S!RevokedStaysOut

\* EvaluateConditionAccess refuses a session once its condition changed in any way;
\* RenewAccess and DeactivateAccess keep a condition within what the ledger accounts for.
StaleAfterChange ==
    focus = "conditions" => C!TypeOK /\ C!StaleAfterChange /\ C!WindowAccounted

\* EvaluateScopedAccess allows only on an assignment its ledger shows granted and open;
\* RegisterAssignment lets clashing roles be in force together only when the second was
\* registered before the first opened.
AccessFollowsLedger ==
    focus = "assignments" => A!TypeOK /\ A!AccessFollowsLedger /\ A!ClashOnlyByAdvanceGrant

\* EvaluateDelegatedAccess gives a delegatee nothing outside the role, days and places the
\* delegator claimed; the object claimed does not bind.
DelegationAmplifiesNothing == focus = "delegations" => D!TypeOK /\ D!DelegationAmplifiesNothing

\* EvaluateMultiProjectAccess opens the participation's own project only.
AccessStaysInProject == focus = "participation" => P!TypeOK /\ P!AccessStaysInProject

\* What SearchDirectory finds GetVisibleProfile opens, and what it opens
\* ListVisibleProfilesBySubject lists, all within the viewer's project and company; the
\* history of a profile replays to it unless two calls of the resolver overlapped.
VisibilityNested ==
    focus = "directory" => F!TypeOK /\ F!VisibilityNested /\ F!SerialHistoryReplays

\* Resolve tells a refused caller, in code and message, what it tells of no object.
RefusalsTellNothing == focus = "scans" => R!TypeOK /\ R!RefusalsTellNothing

\* EnrollExternalUser and RevokeEnrollment bound whom ListActiveExternalUsers shows and
\* what IsScopePermitted opens.
ExternalsBounded == focus = "externals" => X!TypeOK /\ X!ExternalsBounded

\* "Inactive profiles are omitted from active directory discovery"
\* (directory_resolution.go, line 14).
InactivatedIsOmitted == F!InactivatedIsOmitted

\* "An Inspector cannot concurrently hold Auditor privileges within overlapping
\* project/company scopes" (authorization_matrix.go, line 378).
DutiesSeparated == A!DutiesSeparated

\* BumpTenantPolicyGeneration makes older sessions stale (session_revocation.go, 193).
BumpInvalidates == S!BumpInvalidates
=============================================================================
