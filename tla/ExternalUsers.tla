--------------------------- MODULE ExternalUsers ---------------------------
(***************************************************************************)
(* Sponsored external users:                                               *)
(* modules/identity-authorization/external_user_profile.go.                *)
(*                                                                         *)
(* A profile is its sponsor, its window of validity, its status and the    *)
(* scopes it was given; names, contacts and their screening for personal   *)
(* data are left out.  Times are given by the caller, so there is no       *)
(* clock: validity is asked for any moment.  The registry holds its lock   *)
(* across the profile and the record of each call.                         *)
(***************************************************************************)
EXTENDS AccessPolicy, Sequences

CONSTANTS
    Sponsor,      \* those proposed as sponsors
    Internal,     \* those of them whose identity is an internal one
    Window,       \* <<from, to>>: the windows proposed
    ScopeSet,     \* the lists of scopes proposed, as sets
    Moment,       \* the days validity is asked for
    None          \* no profile

VARIABLES
    externals,    \* ExternalUserRegistry.profiles
    enrolments    \* ExternalUserLedger.records

vars == <<externals, enrolments>>

EnrollmentStatus == {"ACTIVE", "REVOKED", "EXPIRED"}
Transition == {"EXTERNAL_USER_ENROLLED", "EXTERNAL_USER_REVOKED"}

\* The scopes of a profile name its tenant.
ExternalUserProfile ==
    [sponsor : Internal, from : Nat, to : Nat, status : EnrollmentStatus,
     scopes : SUBSET {[s EXCEPT !.tenant = t] : s \in UNION ScopeSet, t \in Tenant}]
ExternalUserAuditRecord ==
    [tenant : Tenant, subject : Subject, sponsor : Sponsor, transition : Transition]

ExternalAssumption ==
    /\ Internal \subseteq Sponsor
    /\ Blank \notin Tenant
    /\ Moment \subseteq Nat
    /\ \A w \in Window : w \in Nat \X Nat
    /\ \A s \in UNION ScopeSet : "tenant" \in DOMAIN s
    /\ None \notin ExternalUserProfile

TypeOK ==
    /\ externals \in [Tenant \X Subject -> ExternalUserProfile \cup {None}]
    /\ enrolments \in Seq(ExternalUserAuditRecord)

Init ==
    /\ externals = [k \in Tenant \X Subject |-> None]
    /\ enrolments = <<>>

-----------------------------------------------------------------------------
\* Deliberate faults, used only to show that the properties can fail.
Bound_AsGiven(tenant, scopes) == scopes
-----------------------------------------------------------------------------

\* The cleaned scopes of NewExternalUserProfile: a scope without a tenant gets its own.
Bound(tenant, scopes) == {[s EXCEPT !.tenant = tenant] : s \in scopes}

IsValidAt(p, t) == p.status = "ACTIVE" /\ p.from <= t /\ t <= p.to

EffectiveStatus(p, t) ==
    CASE p.status = "REVOKED" -> "REVOKED"
      [] p.status # "REVOKED" /\ (t > p.to \/ t < p.from) -> "EXPIRED"
      [] OTHER -> "ACTIVE"

IsScopePermitted(p, target) == \E s \in p.scopes : scopeMatches(s, target)

ListActiveExternalUsers(tenant, t) ==
    {s \in Subject : externals[<<tenant, s>>] # None /\ IsValidAt(externals[<<tenant, s>>], t)}

Recorded(tenant, subject, sponsor, transition) ==
    Append(enrolments, [tenant |-> tenant, subject |-> subject, sponsor |-> sponsor,
                        transition |-> transition])

\* NewExternalUserProfile and EnrollExternalUser: once per tenant and subject.
EnrollExternalUser(tenant, subject, sponsor, window, scopes) ==
    /\ sponsor \in Internal
    /\ window[1] < window[2]
    /\ \A s \in scopes : s.tenant \in {Blank, tenant}
    /\ externals[<<tenant, subject>>] = None
    /\ externals' = [externals EXCEPT ![<<tenant, subject>>] =
          [sponsor |-> sponsor, from |-> window[1], to |-> window[2], status |-> "ACTIVE",
           scopes |-> Bound(tenant, scopes)]]
    /\ enrolments' = Recorded(tenant, subject, sponsor, "EXTERNAL_USER_ENROLLED")

Revoke(p) == [p EXCEPT !.status = "REVOKED"]

RevokeEnrollment(tenant, subject) ==
    LET p == externals[<<tenant, subject>>] IN
    /\ p # None
    /\ p.status # "REVOKED"
    /\ externals' = [externals EXCEPT ![<<tenant, subject>>] = Revoke(p)]
    /\ enrolments' = Recorded(tenant, subject, p.sponsor, "EXTERNAL_USER_REVOKED")

Next ==
    \E t \in Tenant, s \in Subject :
        \/ \E sponsor \in Sponsor, w \in Window, scopes \in ScopeSet :
              EnrollExternalUser(t, s, sponsor, w, scopes)
        \/ RevokeEnrollment(t, s)

Spec == Init /\ [][Next]_vars

-----------------------------------------------------------------------------
Entered(t, s, transition) ==
    {i \in 1 .. Len(enrolments) :
        /\ enrolments[i].tenant = t
        /\ enrolments[i].subject = s
        /\ enrolments[i].transition = transition}

\* The trail of a profile: one enrolment, at most one revocation, in this order.
Accounted(t, s) ==
    /\ \E i \in Entered(t, s, "EXTERNAL_USER_ENROLLED") :
          /\ Entered(t, s, "EXTERNAL_USER_ENROLLED") = {i}
          /\ \A j \in Entered(t, s, "EXTERNAL_USER_REVOKED") : i < j
    /\ \A i, j \in Entered(t, s, "EXTERNAL_USER_REVOKED") : i = j

\* An external user is in force exactly while the trail shows one enrolment and no
\* revocation and the window is open, the three ways to ask agree, and no scope he was
\* given, blank tenant or not, reaches a resource of another tenant.
ExternalsBounded ==
    \A t \in Tenant, s \in Subject :
        LET p == externals[<<t, s>>] IN
        IF p = None THEN \A x \in Transition : Entered(t, s, x) = {}
        ELSE /\ Accounted(t, s)
             /\ \A m \in Moment :
                  LET inForce == Entered(t, s, "EXTERNAL_USER_REVOKED") = {}
                                 /\ m \in p.from .. p.to
                  IN  /\ inForce <=> s \in ListActiveExternalUsers(t, m)
                      /\ inForce <=> EffectiveStatus(p, m) = "ACTIVE"
             /\ \A target \in Target : IsScopePermitted(p, target) => target.tenant = t
=============================================================================
