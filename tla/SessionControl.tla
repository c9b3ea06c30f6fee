--------------------------- MODULE SessionControl ---------------------------
(***************************************************************************)
(* Sessions and their revocation: IdentityManager of                       *)
(* modules/identity-authorization/local_identity.go and RevocationRegistry *)
(* of session_revocation.go, two objects with a lock each.  A token stands *)
(* for its digest.                                                         *)
(*                                                                         *)
(* The registry takes the generation of a session from its caller.  The    *)
(* package's tests draw it from what the registry reports, the generation  *)
(* of a decision or its successor; the issuer here does the same.          *)
(***************************************************************************)
EXTENDS Naturals, Sequences

CONSTANTS
    Subject,
    Tenant,
    Token,
    TTL,          \* lifetimes of sessions
    None,         \* no identity, no session, no subject in an event
    Moment,       \* the days on which something happens, 0 among them
    MaxEvents     \* bound on the registry's journal

VARIABLES
    identities,          \* IdentityManager.identities
    sessions,            \* IdentityManager.sessions
    now,
    globalGeneration,
    revokedSessions,     \* tokens with a revocation record
    subjectRevocations,  \* [Tenant \X Subject -> generation]; 0 when absent
    tenantGenerations,   \* [Tenant -> policy generation]
    auditLog,            \* RevocationRegistry.auditLog
    issued               \* observer: [generation given to the token, journal length then]

managerVars == <<identities, sessions, now>>
registryVars == <<globalGeneration, revokedSessions, subjectRevocations, tenantGenerations,
                  auditLog>>
vars == <<managerVars, registryVars, issued>>

Identity == [tenant : Tenant, state : {"ACTIVE", "DISABLED"}]
SessionRecord == [subject : Subject, tenant : Tenant, expires : Nat, revoked : BOOLEAN]
RevocationAuditEvent ==
    [type : {"SESSION_REVOKED", "SUBJECT_REVOKED", "POLICY_GENERATION_BUMPED"},
     tenant : Tenant, subject : Subject \cup {None}, token : Token \cup {None},
     generation : Nat]

SessionAssumption == 0 \in Moment /\ Moment \subseteq Nat /\ TTL \subseteq Nat

TypeOK ==
    /\ identities \in [Subject -> Identity \cup {None}]
    /\ sessions \in [Token -> SessionRecord \cup {None}]
    /\ now \in Moment
    /\ globalGeneration \in Nat
    /\ revokedSessions \subseteq Token
    /\ subjectRevocations \in [Tenant \X Subject -> Nat]
    /\ tenantGenerations \in [Tenant -> Nat]
    /\ auditLog \in Seq(RevocationAuditEvent)
    /\ issued \in [Token -> [generation : Nat, since : Nat]]

Init ==
    /\ identities = [s \in Subject |-> None]
    /\ sessions = [k \in Token |-> None]
    /\ now = 0
    /\ globalGeneration = 1
    /\ revokedSessions = {}
    /\ subjectRevocations = [k \in Tenant \X Subject |-> 0]
    /\ tenantGenerations = [t \in Tenant |-> 0]
    /\ auditLog = <<>>
    /\ issued = [k \in Token |-> [generation |-> 0, since |-> 0]]

-----------------------------------------------------------------------------
\* IdentityManager.

RegisterIdentity(s, t, state) ==
    /\ identities[s] = None
    /\ identities' = [identities EXCEPT ![s] = [tenant |-> t, state |-> state]]
    /\ UNCHANGED <<sessions, now, registryVars, issued>>

SetIdentityState(s, state) ==
    /\ identities[s] # None
    /\ identities' = [identities EXCEPT ![s].state = state]
    /\ UNCHANGED <<sessions, now, registryVars, issued>>

\* The issuer notes the generation it read off the registry, now or at an earlier moment.
IssueSession(s, k, ttl) ==
    /\ identities[s] # None
    /\ identities[s].state = "ACTIVE"
    /\ sessions[k] = None
    /\ sessions' = [sessions EXCEPT ![k] =
          [subject |-> s, tenant |-> identities[s].tenant, expires |-> now + ttl,
           revoked |-> FALSE]]
    /\ \E g \in 1 .. (globalGeneration + 1) :
          issued' = [issued EXCEPT ![k] = [generation |-> g, since |-> Len(auditLog)]]
    /\ UNCHANGED <<identities, now, registryVars>>

\* RevokeSession, and RevokeToken, which digests the token first.
RevokeSession(k) ==
    /\ sessions[k] # None
    /\ sessions' = [sessions EXCEPT ![k].revoked = TRUE]
    /\ UNCHANGED <<identities, now, registryVars, issued>>

\* ValidateSession; expected is None when the caller names no tenant.
ValidateSession(k, expected) ==
    /\ sessions[k] # None
    /\ ~sessions[k].revoked
    /\ now < sessions[k].expires
    /\ expected \in {None, sessions[k].tenant}
    /\ identities[sessions[k].subject] # None
    /\ identities[sessions[k].subject].state = "ACTIVE"

Tick == now' \in {t \in Moment : t > now} /\ UNCHANGED <<identities, sessions, registryVars, issued>>

-----------------------------------------------------------------------------
\* Deliberate faults, used only to show that the properties can fail.
StaleFor_Strict(generation, t, s) ==
    subjectRevocations[<<t, s>>] # 0 /\ generation < subjectRevocations[<<t, s>>]
-----------------------------------------------------------------------------
\* RevocationRegistry.

Journal(type, t, s, k, generation) ==
    /\ Len(auditLog) < MaxEvents
    /\ globalGeneration' = globalGeneration + 1
    /\ auditLog' = Append(auditLog, [type |-> type, tenant |-> t, subject |-> s, token |-> k,
                                     generation |-> generation])
    /\ UNCHANGED <<managerVars, issued>>

\* Tenant and subject are what the caller says.
RevokeSessionToken(k, t, s) ==
    /\ revokedSessions' = revokedSessions \cup {k}
    /\ Journal("SESSION_REVOKED", t, s, k, globalGeneration + 1)
    /\ UNCHANGED <<subjectRevocations, tenantGenerations>>

RevokeSubject(t, s) ==
    /\ subjectRevocations' = [subjectRevocations EXCEPT ![<<t, s>>] = globalGeneration + 1]
    /\ Journal("SUBJECT_REVOKED", t, s, None, globalGeneration + 1)
    /\ UNCHANGED <<revokedSessions, tenantGenerations>>

\* The policy generation has a counter of its own.
BumpTenantPolicyGeneration(t) ==
    /\ tenantGenerations' = [tenantGenerations EXCEPT ![t] = @ + 1]
    /\ Journal("POLICY_GENERATION_BUMPED", t, None, None, tenantGenerations[t] + 1)
    /\ UNCHANGED <<revokedSessions, subjectRevocations>>

StaleFor(generation, t, s) ==
    subjectRevocations[<<t, s>>] # 0 /\ generation <= subjectRevocations[<<t, s>>]

\* The decision is to allow.
EvaluateSession(k, caller, target, s, generation) ==
    /\ caller = target
    /\ k \notin revokedSessions
    /\ ~StaleFor(generation, caller, s)
    /\ ~(tenantGenerations[caller] > 0 /\ generation < tenantGenerations[caller])

Next ==
    \/ \E s \in Subject, t \in Tenant, state \in {"ACTIVE", "DISABLED"} : RegisterIdentity(s, t, state)
    \/ \E s \in Subject, state \in {"ACTIVE", "DISABLED"} : SetIdentityState(s, state)
    \/ \E s \in Subject, k \in Token, ttl \in TTL : IssueSession(s, k, ttl)
    \/ \E k \in Token : RevokeSession(k)
    \/ Tick
    \/ \E k \in Token, t \in Tenant, s \in Subject : RevokeSessionToken(k, t, s)
    \/ \E t \in Tenant, s \in Subject : RevokeSubject(t, s)
    \/ \E t \in Tenant : BumpTenantPolicyGeneration(t)

Spec == Init /\ [][Next]_vars

-----------------------------------------------------------------------------
\* The journal entries made since the token was issued.
Since(k) == {auditLog[i] : i \in issued[k].since + 1 .. Len(auditLog)}

\* The owner of a token presents it in their own tenant.
Admitted(k) ==
    LET r == sessions[k] IN EvaluateSession(k, r.tenant, r.tenant, r.subject, issued[k].generation)

\* Once the journal shows a session, or its subject in that tenant, revoked after the
\* session was issued, EvaluateSession never admits it again, whatever is issued,
\* revoked or bumped in between.
RevokedStaysOut ==
    \A k \in Token : sessions[k] # None =>
        \A e \in Since(k) :
            \/ e.type = "SESSION_REVOKED" /\ e.token = k
            \/ e.type = "SUBJECT_REVOKED" /\ e.tenant = sessions[k].tenant
                                          /\ e.subject = sessions[k].subject
            => ~Admitted(k)

\* A bump takes effect at once, "invalidating any cached decisions or sessions issued
\* under older policy generations" (session_revocation.go, line 193).
BumpInvalidates ==
    \A k \in Token : sessions[k] # None =>
        \A e \in Since(k) :
            e.type = "POLICY_GENERATION_BUMPED" /\ e.tenant = sessions[k].tenant => ~Admitted(k)
=============================================================================
