---------------------------- MODULE AccessProofs ----------------------------
(***************************************************************************)
(* Proofs about the components of MCAccess, for every value of their       *)
(* constants.  For each component: the inductive invariant, one step per   *)
(* action, and the property the run access checks, which follows because   *)
(* only the part in focus moves.                                           *)
(***************************************************************************)
EXTENDS MCAccess, FiniteSetTheorems, TLAPS

-----------------------------------------------------------------------------
\* SessionControl.  The registry counts its journal: the generation is one more than the
\* entries made, so a revocation entered later than a session was issued carries a
\* generation that is not below the session's.

\* What the journal says is in force, at the generation of its place or a later one.
JournalInForce ==
    /\ globalGeneration = Len(auditLog) + 1
    /\ \A i \in 1 .. Len(auditLog) :
          /\ auditLog[i].type = "SESSION_REVOKED" => auditLog[i].token \in revokedSessions
          /\ auditLog[i].type = "SUBJECT_REVOKED" =>
                \A t \in Tenant, s \in Subject :
                    auditLog[i].tenant = t /\ auditLog[i].subject = s =>
                        subjectRevocations[<<t, s>>] >= i + 1

\* A session's generation was read off the registry at its place in the journal.
IssuedInTime ==
    \A k \in Token : sessions[k] # None =>
        issued[k].since <= Len(auditLog) /\ issued[k].generation <= issued[k].since + 2

SessionInv == S!TypeOK /\ JournalInForce /\ IssuedInTime

\* No session issued, nothing in the journal.
LEMMA SessionsInitially == S!Init => SessionInv
<1> SUFFICES ASSUME S!Init PROVE SessionInv
  OBVIOUS
<1>1. S!TypeOK
  BY AccessAssumption DEF S!Init, S!TypeOK, S!SessionAssumption
<1>2. JournalInForce /\ IssuedInTime
  BY DEF S!Init, JournalInForce, IssuedInTime
<1> QED BY <1>1, <1>2 DEF SessionInv

\* The manager's actions leave the registry alone; a new session reads its generation.
LEMMA IssueStep ==
    ASSUME SessionInv, NEW s \in Subject, NEW k \in Token, NEW ttl \in TTL,
           S!IssueSession(s, k, ttl)
    PROVE  SessionInv'
<1>0. S!TypeOK /\ JournalInForce /\ IssuedInTime
  BY DEF SessionInv
<1>1. PICK g \in 1 .. (globalGeneration + 1) :
         issued' = [issued EXCEPT ![k] = [generation |-> g, since |-> Len(auditLog)]]
  BY DEF S!IssueSession
<1>2. identities[s] \in S!Identity
  BY <1>0 DEF S!TypeOK, S!IssueSession
<1>3. /\ globalGeneration \in Nat /\ Len(auditLog) \in Nat
      /\ g \in Nat /\ g <= Len(auditLog) + 2
  BY <1>0, <1>1 DEF S!TypeOK, JournalInForce
<1> DEFINE new == [subject |-> s, tenant |-> identities[s].tenant, expires |-> now + ttl,
                   revoked |-> FALSE]
           note == [generation |-> g, since |-> Len(auditLog)]
<1>4. now + ttl \in Nat
  BY <1>0, AccessAssumption DEF S!TypeOK, S!SessionAssumption
<1>5. new \in S!SessionRecord
  BY <1>2, <1>4 DEF S!SessionRecord, S!Identity
<1>6. note \in [generation : Nat, since : Nat] /\ note.since = Len(auditLog)
      /\ note.generation = g
  BY <1>3
<1>7. sessions' = [sessions EXCEPT ![k] = new] /\ issued' = [issued EXCEPT ![k] = note]
      /\ UNCHANGED <<identities, now, S!registryVars>>
  BY <1>1 DEF S!IssueSession
<1> HIDE DEF new, note
<1>8. S!TypeOK'
  BY <1>0, <1>5, <1>6, <1>7 DEF S!TypeOK, S!registryVars
<1>9. JournalInForce'
  BY <1>0, <1>7 DEF JournalInForce, S!registryVars
<1>10. IssuedInTime'
  <2> SUFFICES ASSUME NEW j \in Token, sessions'[j] # None
               PROVE  issued'[j].since <= Len(auditLog')
                      /\ issued'[j].generation <= issued'[j].since + 2
    BY DEF IssuedInTime
  <2>1. CASE j = k
    BY <1>0, <1>3, <1>6, <1>7, <2>1 DEF S!TypeOK, S!registryVars
  <2>2. CASE j # k
    BY <1>0, <1>7, <2>2 DEF S!TypeOK, S!registryVars, IssuedInTime
  <2> QED BY <2>1, <2>2
<1> QED BY <1>8, <1>9, <1>10 DEF SessionInv

\* An entry of the journal keeps the invariant when what it says is put in force with it.
LEMMA JournalStep ==
    ASSUME SessionInv, NEW type \in {"SESSION_REVOKED", "SUBJECT_REVOKED",
                                     "POLICY_GENERATION_BUMPED"},
           NEW t \in Tenant, NEW s \in Subject \cup {None}, NEW k \in Token \cup {None},
           NEW g \in Nat, S!Journal(type, t, s, k, g),
           revokedSessions \subseteq revokedSessions', revokedSessions' \subseteq Token,
           type = "SESSION_REVOKED" => k \in revokedSessions',
           subjectRevocations' \in [Tenant \X Subject -> Nat],
           \A u \in Tenant, v \in Subject :
              \/ subjectRevocations'[<<u, v>>] = subjectRevocations[<<u, v>>]
              \/ subjectRevocations'[<<u, v>>] = globalGeneration + 1,
           type = "SUBJECT_REVOKED" /\ s \in Subject =>
              subjectRevocations'[<<t, s>>] = globalGeneration + 1,
           tenantGenerations' \in [Tenant -> Nat]
    PROVE  SessionInv'
<1>0. S!TypeOK /\ JournalInForce /\ IssuedInTime
  BY DEF SessionInv
<1> DEFINE e == [type |-> type, tenant |-> t, subject |-> s, token |-> k, generation |-> g]
<1>1. e \in S!RevocationAuditEvent /\ e.type = type /\ e.tenant = t /\ e.subject = s
      /\ e.token = k
  BY DEF S!RevocationAuditEvent
<1>2. auditLog' = Append(auditLog, e) /\ globalGeneration' = globalGeneration + 1
      /\ UNCHANGED <<S!managerVars, issued>>
  BY DEF S!Journal
<1> HIDE DEF e
<1>3. S!TypeOK'
  BY <1>0, <1>1, <1>2 DEF S!TypeOK, S!managerVars
<1>4. /\ Len(auditLog') = Len(auditLog) + 1 /\ Len(auditLog) \in Nat
      /\ auditLog'[Len(auditLog) + 1] = e
      /\ \A i \in 1 .. Len(auditLog) : auditLog'[i] = auditLog[i]
  BY <1>0, <1>1, <1>2 DEF S!TypeOK
<1>5. JournalInForce'
  <2>1. globalGeneration' = Len(auditLog') + 1
    BY <1>0, <1>2, <1>4 DEF JournalInForce
  <2>2. ASSUME NEW i \in 1 .. Len(auditLog'), auditLog'[i].type = "SESSION_REVOKED"
        PROVE  auditLog'[i].token \in revokedSessions'
    BY <1>0, <1>1, <1>4, <2>2 DEF JournalInForce
  <2>3. ASSUME NEW i \in 1 .. Len(auditLog'), auditLog'[i].type = "SUBJECT_REVOKED",
               NEW u \in Tenant, NEW v \in Subject,
               auditLog'[i].tenant = u, auditLog'[i].subject = v
        PROVE  subjectRevocations'[<<u, v>>] >= i + 1
    <3>1. CASE i = Len(auditLog) + 1
      <4>1. type = "SUBJECT_REVOKED" /\ u = t /\ v = s
        BY <1>1, <1>4, <2>3, <3>1
      <4>2. subjectRevocations'[<<u, v>>] = globalGeneration + 1
        BY <4>1
      <4>3. globalGeneration + 1 = i + 1
        BY <1>0, <3>1 DEF JournalInForce
      <4> QED BY <1>4, <3>1, <4>2, <4>3
    <3>2. CASE i \in 1 .. Len(auditLog)
      <4>1. /\ auditLog[i].type = "SUBJECT_REVOKED" /\ auditLog[i].tenant = u
            /\ auditLog[i].subject = v
        BY <1>4, <2>3, <3>2
      <4>2. subjectRevocations[<<u, v>>] >= i + 1
        BY <1>0, <3>2, <4>1 DEF JournalInForce
      <4>3. globalGeneration = Len(auditLog) + 1
        BY <1>0 DEF JournalInForce
      <4>4. globalGeneration + 1 >= i + 1
        BY <1>4, <3>2, <4>3
      <4> QED BY <4>2, <4>4
    <3> QED BY <1>4, <3>1, <3>2
  <2> QED BY <2>1, <2>2, <2>3 DEF JournalInForce
<1>6. IssuedInTime'
  <2>1. UNCHANGED <<sessions, issued>>
    BY <1>2 DEF S!managerVars
  <2>2. \A j \in Token : issued[j].since \in Nat
    BY <1>0 DEF S!TypeOK
  <2> QED BY <1>0, <1>4, <2>1, <2>2 DEF IssuedInTime
<1> QED BY <1>3, <1>5, <1>6 DEF SessionInv

\* Each step of the manager or the registry keeps the invariant.
LEMMA SessionsStep == SessionInv /\ [S!Next]_(S!vars) => SessionInv'
<1> SUFFICES ASSUME SessionInv, [S!Next]_(S!vars) PROVE SessionInv'
  OBVIOUS
<1>0. S!TypeOK /\ JournalInForce /\ IssuedInTime
  BY DEF SessionInv
<1>1. ASSUME NEW s \in Subject, NEW t \in Tenant, NEW state \in {"ACTIVE", "DISABLED"},
             S!RegisterIdentity(s, t, state)
      PROVE  SessionInv'
  <2>1. [tenant |-> t, state |-> state] \in S!Identity
    BY DEF S!Identity
  <2>2. S!TypeOK'
    BY <1>0, <1>1, <2>1 DEF S!TypeOK, S!RegisterIdentity, S!registryVars
  <2> QED BY <1>0, <1>1, <2>2 DEF SessionInv, JournalInForce, IssuedInTime,
             S!RegisterIdentity, S!registryVars
<1>2. ASSUME NEW s \in Subject, NEW state \in {"ACTIVE", "DISABLED"},
             S!SetIdentityState(s, state)
      PROVE  SessionInv'
  <2>1. identities[s] \in S!Identity
    BY <1>0, <1>2 DEF S!TypeOK, S!SetIdentityState
  <2>2. [identities[s] EXCEPT !.state = state] \in S!Identity
    BY <2>1 DEF S!Identity
  <2>3. S!TypeOK'
    BY <1>0, <1>2, <2>2 DEF S!TypeOK, S!SetIdentityState, S!registryVars
  <2> QED BY <1>0, <1>2, <2>3 DEF SessionInv, JournalInForce, IssuedInTime,
             S!SetIdentityState, S!registryVars
<1>3. ASSUME NEW k \in Token, S!RevokeSession(k)
      PROVE  SessionInv'
  <2>1. sessions[k] \in S!SessionRecord
    BY <1>0, <1>3 DEF S!TypeOK, S!RevokeSession
  <2>2. [sessions[k] EXCEPT !.revoked = TRUE] \in S!SessionRecord
    BY <2>1 DEF S!SessionRecord
  <2>3. S!TypeOK'
    BY <1>0, <1>3, <2>2 DEF S!TypeOK, S!RevokeSession, S!registryVars
  <2>4. IssuedInTime'
    BY <1>0, <1>3 DEF IssuedInTime, S!TypeOK, S!RevokeSession, S!registryVars
  <2> QED BY <1>0, <1>3, <2>3, <2>4 DEF SessionInv, JournalInForce, S!RevokeSession,
             S!registryVars
<1>4. CASE S!Tick
  BY <1>0, <1>4 DEF SessionInv, S!TypeOK, JournalInForce, IssuedInTime, S!Tick,
     S!registryVars
<1>5. ASSUME NEW k \in Token, NEW t \in Tenant, NEW s \in Subject,
             S!RevokeSessionToken(k, t, s)
      PROVE  SessionInv'
  <2>1. globalGeneration + 1 \in Nat
    BY <1>0 DEF S!TypeOK
  <2>2. S!Journal("SESSION_REVOKED", t, s, k, globalGeneration + 1)
        /\ revokedSessions' = revokedSessions \cup {k}
        /\ UNCHANGED <<subjectRevocations, tenantGenerations>>
    BY <1>5 DEF S!RevokeSessionToken
  <2> QED BY <1>0, <2>1, <2>2, JournalStep DEF S!TypeOK
<1>6. ASSUME NEW t \in Tenant, NEW s \in Subject, S!RevokeSubject(t, s)
      PROVE  SessionInv'
  <2>1. globalGeneration + 1 \in Nat
    BY <1>0 DEF S!TypeOK
  <2>2. S!Journal("SUBJECT_REVOKED", t, s, None, globalGeneration + 1)
        /\ subjectRevocations' = [subjectRevocations EXCEPT ![<<t, s>>] = globalGeneration + 1]
        /\ UNCHANGED <<revokedSessions, tenantGenerations>>
    BY <1>6 DEF S!RevokeSubject
  <2>3. subjectRevocations' \in [Tenant \X Subject -> Nat]
    BY <1>0, <2>1, <2>2 DEF S!TypeOK
  <2>4. subjectRevocations'[<<t, s>>] = globalGeneration + 1
    BY <1>0, <2>2 DEF S!TypeOK
  <2>5. ASSUME NEW u \in Tenant, NEW v \in Subject
        PROVE  \/ subjectRevocations'[<<u, v>>] = subjectRevocations[<<u, v>>]
               \/ subjectRevocations'[<<u, v>>] = globalGeneration + 1
    BY <1>0, <2>2 DEF S!TypeOK
  <2> QED BY <1>0, <2>1, <2>2, <2>3, <2>4, <2>5, JournalStep DEF S!TypeOK
<1>7. ASSUME NEW t \in Tenant, S!BumpTenantPolicyGeneration(t)
      PROVE  SessionInv'
  <2>1. tenantGenerations[t] + 1 \in Nat
    BY <1>0 DEF S!TypeOK
  <2>2. S!Journal("POLICY_GENERATION_BUMPED", t, None, None, tenantGenerations[t] + 1)
        /\ tenantGenerations' \in [Tenant -> Nat]
        /\ UNCHANGED <<revokedSessions, subjectRevocations>>
    BY <1>0, <1>7 DEF S!BumpTenantPolicyGeneration, S!TypeOK
  <2> QED BY <1>0, <2>1, <2>2, JournalStep DEF S!TypeOK
<1>8. CASE UNCHANGED S!vars
  BY <1>0, <1>8 DEF SessionInv, S!TypeOK, JournalInForce, IssuedInTime, S!vars,
     S!managerVars, S!registryVars
<1> QED BY <1>1, <1>2, <1>3, <1>4, <1>5, <1>6, <1>7, <1>8, IssueStep DEF S!Next

\* An entry after the session's place stands in the registry at a generation that makes
\* the session stale.
LEMMA RevokedIsOut == SessionInv => S!RevokedStaysOut
<1> SUFFICES ASSUME SessionInv, NEW k \in Token, sessions[k] # None,
                    NEW i \in issued[k].since + 1 .. Len(auditLog),
                    \/ auditLog[i].type = "SESSION_REVOKED" /\ auditLog[i].token = k
                    \/ /\ auditLog[i].type = "SUBJECT_REVOKED"
                       /\ auditLog[i].tenant = sessions[k].tenant
                       /\ auditLog[i].subject = sessions[k].subject
             PROVE  ~S!Admitted(k)
  BY DEF S!RevokedStaysOut, S!Since
<1>0. S!TypeOK /\ JournalInForce /\ IssuedInTime
  BY DEF SessionInv
<1>1. sessions[k] \in S!SessionRecord /\ issued[k] \in [generation : Nat, since : Nat]
      /\ Len(auditLog) \in Nat
  BY <1>0 DEF S!TypeOK
<1>2. i \in 1 .. Len(auditLog) /\ issued[k].generation <= i + 1
  BY <1>0, <1>1 DEF IssuedInTime
<1>3. CASE auditLog[i].type = "SESSION_REVOKED" /\ auditLog[i].token = k
  BY <1>0, <1>2, <1>3 DEF JournalInForce, S!Admitted, S!EvaluateSession
<1>4. CASE /\ auditLog[i].type = "SUBJECT_REVOKED"
           /\ auditLog[i].tenant = sessions[k].tenant
           /\ auditLog[i].subject = sessions[k].subject
  <2> DEFINE t == sessions[k].tenant
             s == sessions[k].subject
  <2>1. t \in Tenant /\ s \in Subject
    BY <1>1 DEF S!SessionRecord
  <2>2. subjectRevocations[<<t, s>>] >= i + 1 /\ subjectRevocations[<<t, s>>] \in Nat
    BY <1>0, <1>2, <1>4, <2>1 DEF JournalInForce, S!TypeOK
  <2>3. S!StaleFor(issued[k].generation, t, s)
    BY <1>1, <1>2, <2>2 DEF S!StaleFor
  <2> QED BY <2>3 DEF S!Admitted, S!EvaluateSession
<1> QED BY <1>3, <1>4

\* For every number of subjects, tenants and sessions and every length of the journal:
\* EvaluateSession never admits a session revoked, itself or with its subject, since it
\* was issued.
THEOREM RevokedStaysOutHolds == Spec => []RevokedStaysOut
<1> DEFINE Inv == focus = "sessions" => SessionInv
<1>1. Init => Inv
  BY SessionsInitially DEF Init
<1>2. Inv /\ [Next]_vars => Inv'
  <2> SUFFICES ASSUME Inv, [Next]_vars, focus' = "sessions" PROVE SessionInv'
    OBVIOUS
  <2>1. focus = "sessions" /\ [S!Next]_(S!vars)
    BY DEF Next, vars, Sessions, Conditions, Assignments, Delegations, Participation,
       Directory, Scans, Externals, sOnly, S!vars, S!managerVars, S!registryVars
  <2> QED BY <2>1, SessionsStep
<1>3. Inv => RevokedStaysOut
  BY RevokedIsOut DEF RevokedStaysOut, SessionInv
<1> QED BY <1>1, <1>2, <1>3, PTL DEF Spec

-----------------------------------------------------------------------------
\* AccessConditions.  Every entry of a condition raises its generation, so a token made
\* before an entry is behind.

\* A token is behind its condition from the first entry made after it.
TokensBehind ==
    \A s \in Session : tokens[s] # None =>
        LET k == tokens[s] IN
            /\ k.since <= Len(history)
            /\ conditions[k.condition] # None
            /\ k.generation <= conditions[k.condition].generation
            /\ C!EntriesOf(k.condition, k.since + 1) # {} =>
                  k.generation < conditions[k.condition].generation

\* Nothing is entered of a condition before it is created.
NoneEntered == \A c \in Condition : conditions[c] = None => C!EntriesOf(c, 1) = {}

ConditionInv == C!TypeOK /\ TokensBehind /\ NoneEntered /\ C!WindowAccounted

\* The instance counts as its module does.
LEMMA Counted == \A T : C!Cardinality(T) = Cardinality(T)
  BY DEF C!Cardinality, Cardinality

\* No condition, no token, an empty ledger.
LEMMA ConditionsInitially == C!Init => ConditionInv
<1> SUFFICES ASSUME C!Init PROVE ConditionInv
  OBVIOUS
<1>1. C!TypeOK
  BY AccessAssumption DEF C!Init, C!TypeOK, C!ConditionAssumption
<1> QED BY <1>1 DEF C!Init, ConditionInv, TokensBehind, NoneEntered, C!EntriesOf,
           C!WindowAccounted

\* The fields of a changed record, one after the other.
LEMMA ConditionFields ==
    ASSUME NEW r \in C!AccessConditionRecord
    PROVE  /\ \A p \in Sponsor : [r EXCEPT !.sponsor = p] \in C!AccessConditionRecord
           /\ \A n \in Nat : /\ [r EXCEPT !.to = n] \in C!AccessConditionRecord
                            /\ [r EXCEPT !.generation = n] \in C!AccessConditionRecord
                            /\ [r EXCEPT !.renewals = n] \in C!AccessConditionRecord
           /\ \A s \in {"ACTIVE", "REVOKED"} :
                 [r EXCEPT !.status = s] \in C!AccessConditionRecord
           /\ r.sponsor \in Sponsor /\ r.from \in Nat /\ r.to \in Nat
           /\ r.generation \in Nat /\ r.renewals \in Nat
  BY DEF C!AccessConditionRecord

\* Save: the entry goes to the end of the ledger, and concerns its condition only.
LEMMA SaveEntries ==
    ASSUME C!TypeOK, NEW c \in Condition, NEW r \in C!AccessConditionRecord,
           NEW transition \in {"CONDITION_CREATED", "SPONSOR_CHANGED", "ACCESS_RENEWED",
                               "ACCESS_DEACTIVATED"},
           C!Save(c, r, transition)
    PROVE  /\ C!TypeOK'
           /\ Len(history') = Len(history) + 1 /\ Len(history) \in Nat
           /\ history'[Len(history) + 1].transition = transition
           /\ \A i \in 1 .. Len(history) : history'[i] = history[i]
           /\ conditions'[c] = r
           /\ \A b \in Condition : b # c => conditions'[b] = conditions[b]
           /\ \A b \in Condition, from \in Nat \ {0} : from <= Len(history) + 1 =>
                 C!EntriesOf(b, from)' = IF b = c THEN C!EntriesOf(b, from) \cup {Len(history) + 1}
                                         ELSE C!EntriesOf(b, from)
<1> DEFINE e == [condition |-> c, generation |-> r.generation, at |-> now,
                 transition |-> transition]
<1>1. e \in C!AccessConditionAuditRecord /\ e.condition = c /\ e.transition = transition
  BY DEF C!TypeOK, C!AccessConditionRecord, C!AccessConditionAuditRecord
<1>2. history' = Append(history, e) /\ conditions' = [conditions EXCEPT ![c] = r]
      /\ UNCHANGED <<tokens, now>>
  BY DEF C!Save
<1> HIDE DEF e
<1>3. C!TypeOK'
  BY <1>1, <1>2 DEF C!TypeOK
<1>4. /\ Len(history') = Len(history) + 1 /\ Len(history) \in Nat
      /\ history'[Len(history) + 1] = e
      /\ \A i \in 1 .. Len(history) : history'[i] = history[i]
  BY <1>1, <1>2 DEF C!TypeOK
<1>5. conditions'[c] = r /\ \A b \in Condition : b # c => conditions'[b] = conditions[b]
  BY <1>2 DEF C!TypeOK
<1>6. ASSUME NEW b \in Condition, NEW from \in Nat \ {0}, from <= Len(history) + 1
      PROVE  C!EntriesOf(b, from)' = IF b = c THEN C!EntriesOf(b, from) \cup {Len(history) + 1}
                                     ELSE C!EntriesOf(b, from)
  <2>1. from .. Len(history') = (from .. Len(history)) \cup {Len(history) + 1}
    BY <1>4, <1>6
  <2>2. \A i \in from .. Len(history) : history'[i].condition = history[i].condition
    BY <1>4
  <2> QED BY <1>1, <1>4, <2>1, <2>2 DEF C!EntriesOf
<1> QED BY <1>1, <1>3, <1>4, <1>5, <1>6

\* Whatever a method saves keeps the invariant when it raises the generation, extends the
\* window by no more than the renewals it enters, and the condition was not yet ended.
LEMMA SaveStep ==
    ASSUME ConditionInv, NEW c \in Condition, NEW r \in C!AccessConditionRecord,
           NEW transition \in {"CONDITION_CREATED", "SPONSOR_CHANGED", "ACCESS_RENEWED",
                               "ACCESS_DEACTIVATED"},
           C!Save(c, r, transition),
           conditions[c] = None =>
              /\ transition = "CONDITION_CREATED"
              /\ r.to - r.from <= C!MaxExternalAccessDuration
              /\ r.status = "ACTIVE",
           conditions[c] # None =>
              /\ conditions[c].status # "REVOKED"
              /\ r.generation = conditions[c].generation + 1
              /\ r.from = conditions[c].from
              /\ transition = "ACCESS_RENEWED" =>
                    r.to <= conditions[c].to + C!MaxRenewalExtension
              /\ transition # "ACCESS_RENEWED" => r.to = conditions[c].to
              /\ r.status = "REVOKED" <=> transition = "ACCESS_DEACTIVATED"
    PROVE  ConditionInv'
<1>0. C!TypeOK /\ TokensBehind /\ NoneEntered /\ C!WindowAccounted
  BY DEF ConditionInv
<1> DEFINE n == Len(history) + 1
<1>1. /\ C!TypeOK'
      /\ Len(history') = n /\ Len(history) \in Nat
      /\ history'[n].transition = transition
      /\ \A i \in 1 .. Len(history) : history'[i] = history[i]
      /\ conditions'[c] = r
      /\ \A b \in Condition : b # c => conditions'[b] = conditions[b]
      /\ \A b \in Condition, from \in Nat \ {0} : from <= n =>
            C!EntriesOf(b, from)' = IF b = c THEN C!EntriesOf(b, from) \cup {n}
                                    ELSE C!EntriesOf(b, from)
  BY <1>0, SaveEntries
<1>2. UNCHANGED tokens
  BY DEF C!Save
<1>3. r # None
  BY AccessAssumption DEF C!ConditionAssumption
<1>4. \A b \in Condition : C!EntriesOf(b, 1)' = IF b = c THEN C!EntriesOf(b, 1) \cup {n}
                                                ELSE C!EntriesOf(b, 1)
  BY <1>1
<1>5. \A b \in Condition : C!EntriesOf(b, 1) \subseteq 1 .. Len(history)
  BY DEF C!EntriesOf
<1>6. TokensBehind'
  <2> SUFFICES ASSUME NEW s \in Session, tokens[s] # None
               PROVE  LET k == tokens[s] IN
                        /\ k.since <= Len(history')
                        /\ conditions'[k.condition] # None
                        /\ k.generation <= conditions'[k.condition].generation
                        /\ C!EntriesOf(k.condition, k.since + 1)' # {} =>
                              k.generation < conditions'[k.condition].generation
    BY <1>2 DEF TokensBehind
  <2>1. PICK k \in [condition : Condition, generation : Nat, since : Nat] : k = tokens[s]
    BY <1>0 DEF C!TypeOK
  <2>2. /\ k.since <= Len(history)
        /\ conditions[k.condition] # None
        /\ k.generation <= conditions[k.condition].generation
        /\ C!EntriesOf(k.condition, k.since + 1) # {} =>
              k.generation < conditions[k.condition].generation
    BY <1>0, <2>1 DEF TokensBehind
  <2>3. k.condition \in Condition /\ k.since + 1 \in Nat \ {0} /\ k.since + 1 <= n
        /\ k.since \in Nat /\ k.generation \in Nat
    BY <1>1, <2>1, <2>2
  <2>4. conditions[k.condition] \in C!AccessConditionRecord
    BY <1>0, <2>2, <2>3 DEF C!TypeOK
  <2>5. conditions[k.condition].generation \in Nat
    BY <2>4 DEF C!AccessConditionRecord
  <2>6. /\ k.since <= Len(history')
        /\ conditions'[k.condition] # None
        /\ k.generation <= conditions'[k.condition].generation
        /\ C!EntriesOf(k.condition, k.since + 1)' # {} =>
              k.generation < conditions'[k.condition].generation
    <3>1. CASE k.condition = c
      BY <1>1, <1>3, <2>2, <2>3, <2>5, <3>1
    <3>2. CASE k.condition # c
      <4>1. C!EntriesOf(k.condition, k.since + 1)' = C!EntriesOf(k.condition, k.since + 1)
        BY <1>1, <2>3, <3>2
      <4> QED BY <1>1, <2>2, <2>3, <3>2, <4>1
    <3> QED BY <3>1, <3>2
  <2> QED BY <1>2, <2>1, <2>6
<1>7. NoneEntered'
  BY <1>0, <1>1, <1>3, <1>4 DEF NoneEntered
<1>8. ASSUME NEW b \in Condition
      PROVE  /\ C!Renewals(b)' = IF b = c /\ transition = "ACCESS_RENEWED"
                               THEN C!Renewals(b) \cup {n} ELSE C!Renewals(b)
             /\ C!Endings(b)' = IF b = c /\ transition = "ACCESS_DEACTIVATED"
                              THEN C!Endings(b) \cup {n} ELSE C!Endings(b)
  BY <1>1, <1>4, <1>5 DEF C!Renewals, C!Endings
<1>9. ASSUME NEW b \in Condition
      PROVE  IsFiniteSet(C!Renewals(b)) /\ Cardinality(C!Renewals(b)) \in Nat
             /\ n \notin C!Renewals(b)
  <2>1. IsFiniteSet(1 .. Len(history)) /\ C!Renewals(b) \subseteq 1 .. Len(history)
    BY <1>1, <1>5, FS_Interval DEF C!Renewals
  <2> QED BY <1>1, <2>1, FS_Subset, FS_CardinalityType
<1>10. C!WindowAccounted'
  <2> SUFFICES ASSUME NEW b \in Condition, conditions'[b] # None
               PROVE  /\ conditions'[b].to - conditions'[b].from
                           <= C!MaxExternalAccessDuration
                              + Cardinality(C!Renewals(b)') * C!MaxRenewalExtension
                      /\ conditions'[b].status = "REVOKED" <=> C!Endings(b)' # {}
                      /\ \A i \in C!Endings(b)', j \in C!EntriesOf(b, 1)' : j <= i
    BY Counted DEF C!WindowAccounted
  <2>0. conditions[b] # None =>
           /\ conditions[b].to - conditions[b].from
                <= C!MaxExternalAccessDuration
                   + Cardinality(C!Renewals(b)) * C!MaxRenewalExtension
           /\ conditions[b].status = "REVOKED" <=> C!Endings(b) # {}
           /\ \A i \in C!Endings(b), j \in C!EntriesOf(b, 1) : j <= i
    BY <1>0, Counted DEF C!WindowAccounted
  <2>1. CASE b # c
    BY <1>1, <1>4, <1>8, <2>0, <2>1
  <2>2. CASE b = c /\ conditions[c] = None
    <3>1. C!EntriesOf(c, 1) = {} /\ C!Renewals(c) = {} /\ C!Endings(c) = {}
      BY <1>0, <2>2 DEF NoneEntered, C!Renewals, C!Endings
    <3>2. C!Renewals(c)' = {} /\ C!Endings(c)' = {} /\ r.status = "ACTIVE"
          /\ r.to - r.from <= C!MaxExternalAccessDuration
      BY <1>8, <2>2, <3>1
    <3>3. Cardinality(C!Renewals(c)') = 0
      BY <3>2, FS_EmptySet
    <3> QED BY <1>1, <2>2, <3>2, <3>3 DEF C!MaxExternalAccessDuration, C!MaxRenewalExtension
  <2>3. CASE b = c /\ conditions[c] # None
    <3>1. C!Endings(c) = {}
      BY <2>0, <2>3
    <3>2. /\ r.from \in Nat /\ r.to \in Nat /\ conditions[c].to \in Nat
          /\ conditions[c].from \in Nat
      BY <1>0, <2>3 DEF C!TypeOK, C!AccessConditionRecord
    <3>3. Cardinality(C!Renewals(c)) \in Nat
      BY <1>9
    <3>4. r.to - r.from <= C!MaxExternalAccessDuration
                           + Cardinality(C!Renewals(c)') * C!MaxRenewalExtension
      <4>1. CASE transition = "ACCESS_RENEWED"
        <5>1. Cardinality(C!Renewals(c)') = Cardinality(C!Renewals(c)) + 1
          BY <1>8, <1>9, <4>1, FS_AddElement
        <5> QED BY <2>0, <2>3, <3>2, <3>3, <4>1, <5>1 DEF C!MaxExternalAccessDuration,
                   C!MaxRenewalExtension
      <4>2. CASE transition # "ACCESS_RENEWED"
        <5>1. C!Renewals(c)' = C!Renewals(c)
          BY <1>8, <4>2
        <5> QED BY <2>0, <2>3, <3>2, <3>3, <4>2, <5>1 DEF C!MaxExternalAccessDuration,
                   C!MaxRenewalExtension
      <4> QED BY <4>1, <4>2
    <3>5. r.status = "REVOKED" <=> C!Endings(c)' # {}
      BY <1>8, <2>3, <3>1
    <3>6. \A i \in C!Endings(c)', j \in C!EntriesOf(c, 1)' : j <= i
      BY <1>1, <1>4, <1>5, <1>8, <3>1
    <3> QED BY <1>1, <2>3, <3>4, <3>5, <3>6
  <2> QED BY <2>1, <2>2, <2>3
<1> QED BY <1>1, <1>6, <1>7, <1>10 DEF ConditionInv

\* Each method of the registry keeps the invariant.
LEMMA ConditionsStep == ConditionInv /\ [C!Next]_(C!vars) => ConditionInv'
<1> SUFFICES ASSUME ConditionInv, [C!Next]_(C!vars) PROVE ConditionInv'
  OBVIOUS
<1>0. C!TypeOK /\ TokensBehind /\ NoneEntered /\ C!WindowAccounted
  BY DEF ConditionInv
<1>1. \A c \in Condition : conditions[c] # None =>
         conditions[c] \in C!AccessConditionRecord
  BY <1>0 DEF C!TypeOK
<1>2. ASSUME NEW c \in Condition, NEW p \in Sponsor, NEW span \in Span,
             C!CreateCondition(c, p, span)
      PROVE  ConditionInv'
  <2> DEFINE r == [sponsor |-> p, from |-> span[1], to |-> span[2], status |-> "ACTIVE",
                   generation |-> 1, renewals |-> 0]
  <2>1. span[1] \in Nat /\ span[2] \in Nat
    BY AccessAssumption DEF C!ConditionAssumption
  <2>2. r \in C!AccessConditionRecord /\ r.to = span[2] /\ r.from = span[1]
        /\ r.status = "ACTIVE"
    BY <2>1 DEF C!AccessConditionRecord
  <2>3. C!Save(c, r, "CONDITION_CREATED") /\ conditions[c] = None
        /\ span[2] - span[1] <= C!MaxExternalAccessDuration
    BY <1>2 DEF C!CreateCondition, C!Acceptable
  <2> HIDE DEF r
  <2> QED BY <2>2, <2>3, SaveStep
<1>3. ASSUME NEW c \in Condition, NEW p \in Sponsor, C!ChangeSponsor(c, p)
      PROVE  ConditionInv'
  <2> DEFINE r == [conditions[c] EXCEPT !.sponsor = p, !.generation = @ + 1]
  <2>1. conditions[c] # None /\ conditions[c].status = "ACTIVE"
        /\ C!Save(c, r, "SPONSOR_CHANGED")
    BY <1>3 DEF C!ChangeSponsor, C!IsValidAt
  <2> DEFINE r1 == [conditions[c] EXCEPT !.sponsor = p]
  <2>2. r1 \in C!AccessConditionRecord /\ r1.generation = conditions[c].generation
    BY <1>1, <2>1, ConditionFields DEF C!AccessConditionRecord
  <2>3. /\ r = [r1 EXCEPT !.generation = @ + 1] /\ r.to = conditions[c].to
        /\ r.from = conditions[c].from /\ r.status = "ACTIVE"
        /\ r.generation = conditions[c].generation + 1
    BY <1>1, <2>1 DEF C!AccessConditionRecord
  <2> HIDE DEF r, r1
  <2>4. r \in C!AccessConditionRecord
    BY <2>2, <2>3 DEF C!AccessConditionRecord
  <2> QED BY <2>1, <2>3, <2>4, SaveStep
<1>4. ASSUME NEW c \in Condition, NEW x \in Extension, C!RenewAccess(c, x)
      PROVE  ConditionInv'
  <2> DEFINE r == C!Renewed(conditions[c], x)
  <2>0. x \in Nat /\ x <= C!MaxRenewalExtension
    BY <1>4, AccessAssumption DEF C!ConditionAssumption, C!RenewAccess, C!WithinCap
  <2>1. conditions[c] # None /\ conditions[c].status # "REVOKED"
        /\ C!Save(c, r, "ACCESS_RENEWED")
    BY <1>4 DEF C!RenewAccess
  <2> DEFINE r1 == [conditions[c] EXCEPT !.to = @ + x]
             r2 == [r1 EXCEPT !.status = "ACTIVE"]
             r3 == [r2 EXCEPT !.generation = @ + 1]
  <2>2. conditions[c].to + x \in Nat
    BY <1>1, <2>0, <2>1 DEF C!AccessConditionRecord
  <2>3. r1 \in C!AccessConditionRecord
    BY <1>1, <2>1, <2>2, ConditionFields
  <2>4. /\ r = [r3 EXCEPT !.renewals = @ + 1] /\ r.to = conditions[c].to + x
        /\ r.from = conditions[c].from /\ r.status = "ACTIVE"
        /\ r.generation = conditions[c].generation + 1
    BY <1>1, <2>0, <2>1 DEF C!AccessConditionRecord, C!Renewed
  <2> HIDE DEF r1
  <2>5. r2 \in C!AccessConditionRecord
    BY <2>3, ConditionFields
  <2> HIDE DEF r2
  <2>6. r3 \in C!AccessConditionRecord
    BY <2>5 DEF C!AccessConditionRecord
  <2> HIDE DEF r3
  <2>7. r \in C!AccessConditionRecord
    BY <2>4, <2>6 DEF C!AccessConditionRecord
  <2>8. r.to <= conditions[c].to + C!MaxRenewalExtension
    BY <1>1, <2>0, <2>1, <2>4 DEF C!AccessConditionRecord, C!MaxRenewalExtension
  <2> HIDE DEF r
  <2> QED BY <2>1, <2>4, <2>7, <2>8, SaveStep
<1>5. ASSUME NEW c \in Condition, C!DeactivateAccess(c)
      PROVE  ConditionInv'
  <2> DEFINE r == [conditions[c] EXCEPT !.status = "REVOKED", !.generation = @ + 1]
  <2>1. conditions[c] # None /\ conditions[c].status # "REVOKED"
        /\ C!Save(c, r, "ACCESS_DEACTIVATED")
    BY <1>5 DEF C!DeactivateAccess
  <2> DEFINE r1 == [conditions[c] EXCEPT !.status = "REVOKED"]
  <2>2. r1 \in C!AccessConditionRecord
    BY <1>1, <2>1, ConditionFields
  <2>3. /\ r = [r1 EXCEPT !.generation = @ + 1] /\ r.to = conditions[c].to
        /\ r.from = conditions[c].from /\ r.status = "REVOKED"
        /\ r.generation = conditions[c].generation + 1
    BY <1>1, <2>1 DEF C!AccessConditionRecord
  <2> HIDE DEF r, r1
  <2>4. r \in C!AccessConditionRecord
    BY <2>2, <2>3 DEF C!AccessConditionRecord
  <2> QED BY <2>1, <2>3, <2>4, SaveStep
<1>6. ASSUME NEW s \in Session, NEW c \in Condition, C!GetCondition(s, c)
      PROVE  ConditionInv'
  <2> DEFINE k == [condition |-> c, generation |-> conditions[c].generation,
                   since |-> Len(history)]
  <2>1. conditions[c] # None /\ conditions[c].generation \in Nat /\ Len(history) \in Nat
    BY <1>0, <1>6, <1>1 DEF C!GetCondition, C!AccessConditionRecord, C!TypeOK
  <2>2. /\ k \in [condition : Condition, generation : Nat, since : Nat]
        /\ k.condition = c /\ k.generation = conditions[c].generation
        /\ k.since = Len(history)
    BY <2>1
  <2>3. tokens' = [tokens EXCEPT ![s] = k] /\ UNCHANGED <<conditions, history, now>>
    BY <1>6 DEF C!GetCondition
  <2> HIDE DEF k
  <2>4. C!TypeOK'
    BY <1>0, <2>2, <2>3 DEF C!TypeOK
  <2>5. \A b \in Condition, from \in Nat : C!EntriesOf(b, from)' = C!EntriesOf(b, from)
    BY <2>3 DEF C!EntriesOf
  <2>6. C!EntriesOf(c, Len(history) + 1) = {}
    BY <2>1 DEF C!EntriesOf
  <2>7. TokensBehind'
    <3> SUFFICES ASSUME NEW x \in Session, tokens'[x] # None
                 PROVE  LET j == tokens'[x] IN
                          /\ j.since <= Len(history)
                          /\ conditions[j.condition] # None
                          /\ j.generation <= conditions[j.condition].generation
                          /\ C!EntriesOf(j.condition, j.since + 1) # {} =>
                                j.generation < conditions[j.condition].generation
      BY <2>3 DEF TokensBehind, C!EntriesOf
    <3>1. tokens'[x] = IF x = s THEN k ELSE tokens[x]
      BY <1>0, <2>3 DEF C!TypeOK
    <3> QED BY <1>0, <2>1, <2>2, <2>6, <3>1 DEF TokensBehind
  <2>8. NoneEntered'
    BY <1>0, <2>3 DEF NoneEntered, C!EntriesOf
  <2>9. C!WindowAccounted'
    <3>1. \A b \in Condition : C!EntriesOf(b, 1)' = C!EntriesOf(b, 1)
      BY <2>5
    <3>2. \A b \in Condition : /\ C!Renewals(b)' = C!Renewals(b)
                              /\ C!Endings(b)' = C!Endings(b)
      BY <2>3, <3>1 DEF C!Renewals, C!Endings
    <3> QED BY <1>0, <2>3, <3>1, <3>2 DEF C!WindowAccounted
  <2> QED BY <2>4, <2>7, <2>8, <2>9 DEF ConditionInv
<1>7. CASE C!Tick \/ UNCHANGED C!vars
  <2>1. UNCHANGED <<conditions, history, tokens>> /\ now' \in Moment
    BY <1>0, <1>7 DEF C!Tick, C!vars, C!TypeOK
  <2>2. C!TypeOK'
    BY <1>0, <2>1 DEF C!TypeOK
  <2>3. TokensBehind' /\ NoneEntered'
    BY <1>0, <2>1 DEF TokensBehind, NoneEntered, C!EntriesOf
  <2>4. C!WindowAccounted'
    BY <1>0, <2>1 DEF C!WindowAccounted, C!Renewals, C!Endings, C!EntriesOf
  <2> QED BY <2>2, <2>3, <2>4 DEF ConditionInv
<1> QED BY <1>2, <1>3, <1>4, <1>5, <1>6, <1>7 DEF C!Next

\* For all conditions, windows, extensions and sessions: a session works only as long as
\* nothing happened to its condition, and a condition reaches no further than its ledger
\* accounts for.
THEOREM StaleAfterChangeHolds == Spec => []StaleAfterChange
<1> DEFINE Inv == focus = "conditions" => ConditionInv
<1>1. Init => Inv
  BY ConditionsInitially DEF Init
<1>2. Inv /\ [Next]_vars => Inv'
  <2> SUFFICES ASSUME Inv, [Next]_vars, focus' = "conditions" PROVE ConditionInv'
    OBVIOUS
  <2>1. focus = "conditions" /\ [C!Next]_(C!vars)
    BY DEF Next, vars, Sessions, Conditions, Assignments, Delegations, Participation,
       Directory, Scans, Externals, cOnly, C!vars
  <2> QED BY <2>1, ConditionsStep
<1>3. Inv => StaleAfterChange
  <2> SUFFICES ASSUME ConditionInv PROVE C!TypeOK /\ C!StaleAfterChange /\ C!WindowAccounted
    BY DEF StaleAfterChange
  <2>1. ASSUME NEW s \in Session, tokens[s] # None,
               C!EvaluateConditionAccess(tokens[s].condition, tokens[s].generation)
        PROVE  C!EntriesOf(tokens[s].condition, tokens[s].since + 1) = {}
    <3>1. tokens[s] \in [condition : Condition, generation : Nat, since : Nat]
      BY <2>1 DEF ConditionInv, C!TypeOK
    <3>2. conditions[tokens[s].condition] \in C!AccessConditionRecord
      BY <2>1, <3>1 DEF ConditionInv, C!TypeOK, C!EvaluateConditionAccess
    <3>3. conditions[tokens[s].condition].generation \in Nat /\ tokens[s].generation \in Nat
      BY <3>1, <3>2 DEF C!AccessConditionRecord
    <3>4. tokens[s].generation >= conditions[tokens[s].condition].generation
      BY <2>1 DEF C!EvaluateConditionAccess
    <3>5. C!EntriesOf(tokens[s].condition, tokens[s].since + 1) # {} =>
             tokens[s].generation < conditions[tokens[s].condition].generation
      BY <2>1 DEF ConditionInv, TokensBehind
    <3> QED BY <3>3, <3>4, <3>5
  <2> QED BY <2>1 DEF ConditionInv, C!StaleAfterChange
<1> QED BY <1>1, <1>2, <1>3, PTL DEF Spec

-----------------------------------------------------------------------------
\* AccessPolicy.  Facts about the tables and the decision that the registries share.

\* The evaluator's table of actions is monotone in the matrix's order of permissions.
LEMMA ActionsFollowPermissions ==
    \A r, q \in D!Role : q \in D!Includes[r] =>
        D!rolePermitsAction[q] \subseteq D!rolePermitsAction[r]
  BY DEF D!Role, D!Includes, D!rolePermitsAction, D!Action

\* A scope within a scope that reaches the target reaches it as well.
LEMMA ContainmentIsTransitive ==
    ASSUME NEW outer, NEW inner, NEW target, D!ScopeContains(outer, inner),
           D!scopeMatches(inner, target)
    PROVE  D!scopeMatches(outer, target)
  BY DEF D!ScopeContains, D!scopeMatches

-----------------------------------------------------------------------------
\* DelegationControl.  What is recorded passed ValidateDelegationRequest, and the trail
\* tells a delegation's state.

DelegationInv ==
    /\ D!TypeOK
    /\ \A k \in Tenant \X DelegationID :
          /\ delegations[k] = None => D!Logged(k) = {}
          /\ delegations[k] # None => D!Valid(delegations[k])
          /\ delegations[k] # None /\ delegations[k].state = "ACTIVE" =>
                D!Logged(k) = {"DELEGATION_CREATED"}

\* No delegation, an empty trail.
LEMMA DelegationsInitially == D!Init => DelegationInv
<1> SUFFICES ASSUME D!Init PROVE DelegationInv
  OBVIOUS
<1>1. D!TypeOK
  BY AccessAssumption DEF D!Init, D!TypeOK, D!DelegationAssumption
<1>2. \A k \in Tenant \X DelegationID : D!Logged(k) = {} /\ delegations[k] = None
  BY DEF D!Init, D!Logged
<1> QED BY <1>1, <1>2 DEF DelegationInv

\* Log adds to what the trail says of its own delegation only.
LEMMA DelegationLogged ==
    ASSUME D!TypeOK, NEW k \in Tenant \X DelegationID,
           NEW transition \in {"DELEGATION_CREATED", "DELEGATION_REVOKED"},
           D!Log(k, transition)
    PROVE  /\ trail' \in Seq([key : Tenant \X DelegationID,
                              transition : {"DELEGATION_CREATED", "DELEGATION_REVOKED"}])
           /\ \A j \in Tenant \X DelegationID :
                 D!Logged(j)' = IF j = k THEN D!Logged(j) \cup {transition} ELSE D!Logged(j)
<1> DEFINE e == [key |-> k, transition |-> transition]
           Entry == [key : Tenant \X DelegationID,
                     transition : {"DELEGATION_CREATED", "DELEGATION_REVOKED"}]
<1>1. e \in Entry /\ e.key = k /\ e.transition = transition
  OBVIOUS
<1>2. trail \in Seq(Entry) /\ trail' = Append(trail, e)
  BY DEF D!TypeOK, D!Log
<1> HIDE DEF e, Entry
<1>3. /\ trail' \in Seq(Entry)
      /\ Len(trail') = Len(trail) + 1 /\ Len(trail) \in Nat
      /\ trail'[Len(trail) + 1] = e
      /\ \A i \in 1 .. Len(trail) : trail'[i] = trail[i]
  BY <1>1, <1>2
<1>4. 1 .. Len(trail') = (1 .. Len(trail)) \cup {Len(trail) + 1}
  BY <1>3
<1>5. ASSUME NEW j \in Tenant \X DelegationID
      PROVE  D!Logged(j)' = IF j = k THEN D!Logged(j) \cup {transition} ELSE D!Logged(j)
  BY <1>1, <1>3, <1>4 DEF D!Logged
<1> QED BY <1>3, <1>5 DEF Entry

\* CreateDelegation records what it has validated.
LEMMA CreateDelegationStep ==
    ASSUME DelegationInv, NEW k \in Tenant \X DelegationID, NEW s \in Subject,
           NEW u \in Subject, NEW claim \in Claim, NEW handed \in Claim, NEW w \in Term,
           D!CreateDelegation(k, s, claim, u, handed, w)
    PROVE  DelegationInv'
<1> DEFINE In(c) == <<c[1], [c[2] EXCEPT !.tenant = k[1]]>>
           d == [delegator |-> s, claim |-> In(claim), delegatee |-> u, handed |-> In(handed),
                 from |-> w[1], to |-> w[2], state |-> "ACTIVE"]
<1>0. D!TypeOK
  BY DEF DelegationInv
<1>1. /\ D!Valid(d) /\ delegations[k] = None
      /\ delegations' = [delegations EXCEPT ![k] = d]
      /\ D!Log(k, "DELEGATION_CREATED") /\ UNCHANGED <<D!policyVars, now>>
  BY DEF D!CreateDelegation
<1>2. In(claim) \in D!Held /\ In(handed) \in D!Held
  BY DEF D!Held
<1>3. w[1] \in Nat /\ w[2] \in Nat
  BY AccessAssumption DEF D!DelegationAssumption
<1> HIDE DEF In
<1>4. d \in D!DelegationRecord /\ d.state = "ACTIVE"
  BY <1>2, <1>3 DEF D!DelegationRecord
<1>5. d # None
  BY <1>4, AccessAssumption DEF D!DelegationAssumption
<1> HIDE DEF d
<1>6. /\ trail' \in Seq([key : Tenant \X DelegationID,
                         transition : {"DELEGATION_CREATED", "DELEGATION_REVOKED"}])
      /\ \A j \in Tenant \X DelegationID :
            D!Logged(j)' = IF j = k THEN D!Logged(j) \cup {"DELEGATION_CREATED"}
                           ELSE D!Logged(j)
  BY <1>0, <1>1, DelegationLogged
<1>7. D!TypeOK'
  BY <1>0, <1>1, <1>4, <1>6 DEF D!TypeOK, D!policyVars
<1>8. ASSUME NEW j \in Tenant \X DelegationID
      PROVE  /\ delegations'[j] = None => D!Logged(j)' = {}
             /\ delegations'[j] # None => D!Valid(delegations'[j])
             /\ delegations'[j] # None /\ delegations'[j].state = "ACTIVE" =>
                   D!Logged(j)' = {"DELEGATION_CREATED"}
  <2>1. delegations'[j] = IF j = k THEN d ELSE delegations[j]
    BY <1>0, <1>1 DEF D!TypeOK
  <2> QED BY <1>1, <1>5, <1>6, <2>1 DEF DelegationInv
<1>9. \A j \in Tenant \X DelegationID : D!Valid(delegations[j])' <=> D!Valid(delegations'[j])
  BY DEF D!Valid
<1> QED BY <1>7, <1>8, <1>9 DEF DelegationInv

\* Each step keeps the invariant: a revocation changes the state only.
LEMMA DelegationsStep == DelegationInv /\ [D!Next]_(D!vars) => DelegationInv'
<1> SUFFICES ASSUME DelegationInv, [D!Next]_(D!vars) PROVE DelegationInv'
  OBVIOUS
<1>0. D!TypeOK
  BY DEF DelegationInv
<1>1. ASSUME NEW k \in Tenant \X DelegationID, D!RevokeDelegation(k)
      PROVE  DelegationInv'
  <2> DEFINE d == [delegations[k] EXCEPT !.state = "REVOKED"]
  <2>1. /\ delegations[k] # None
        /\ delegations' = [delegations EXCEPT ![k] = d]
        /\ D!Log(k, "DELEGATION_REVOKED") /\ UNCHANGED <<D!policyVars, now>>
    BY <1>1 DEF D!RevokeDelegation, D!Revoke
  <2>2. delegations[k] \in D!DelegationRecord
    BY <1>0, <2>1 DEF D!TypeOK
  <2>3. /\ d \in D!DelegationRecord /\ d.state = "REVOKED"
        /\ d.delegator = delegations[k].delegator /\ d.delegatee = delegations[k].delegatee
        /\ d.from = delegations[k].from /\ d.to = delegations[k].to
        /\ d.claim = delegations[k].claim /\ d.handed = delegations[k].handed
    BY <2>2 DEF D!DelegationRecord
  <2>4. D!Valid(d)
    BY <2>1, <2>3 DEF DelegationInv, D!Valid
  <2>5. d # None
    BY <2>3, AccessAssumption DEF D!DelegationAssumption
  <2> HIDE DEF d
  <2>6. /\ trail' \in Seq([key : Tenant \X DelegationID,
                           transition : {"DELEGATION_CREATED", "DELEGATION_REVOKED"}])
        /\ \A j \in Tenant \X DelegationID : j # k => D!Logged(j)' = D!Logged(j)
    BY <1>0, <2>1, DelegationLogged
  <2>7. D!TypeOK'
    BY <1>0, <2>1, <2>3, <2>6 DEF D!TypeOK, D!policyVars
  <2>8. ASSUME NEW j \in Tenant \X DelegationID
        PROVE  /\ delegations'[j] = None => D!Logged(j)' = {}
               /\ delegations'[j] # None => D!Valid(delegations'[j])
               /\ delegations'[j] # None /\ delegations'[j].state = "ACTIVE" =>
                     D!Logged(j)' = {"DELEGATION_CREATED"}
    <3>1. delegations'[j] = IF j = k THEN d ELSE delegations[j]
      BY <1>0, <2>1 DEF D!TypeOK
    <3> QED BY <2>3, <2>4, <2>5, <2>6, <3>1 DEF DelegationInv
  <2>9. \A j \in Tenant \X DelegationID : D!Valid(delegations[j])' <=> D!Valid(delegations'[j])
    BY DEF D!Valid
  <2> QED BY <2>7, <2>8, <2>9 DEF DelegationInv
<1>2. ASSUME UNCHANGED <<delegations, trail>>, D!TypeOK'
      PROVE  DelegationInv'
  <2>1. \A k \in Tenant \X DelegationID :
           D!Logged(k)' = D!Logged(k) /\ (D!Valid(delegations[k])' <=> D!Valid(delegations[k]))
    BY <1>2 DEF D!Logged, D!Valid
  <2> QED BY <1>2, <2>1 DEF DelegationInv
<1>3. ASSUME NEW t \in Tenant, NEW s \in Subject, NEW status \in D!MembershipStatus,
             D!SetMembership(t, s, status)
      PROVE  DelegationInv'
  BY <1>0, <1>2, <1>3 DEF D!SetMembership, D!TypeOK
<1>4. ASSUME NEW t \in Tenant, NEW enabled \in BOOLEAN, D!SetEntitlement(t, enabled)
      PROVE  DelegationInv'
  BY <1>0, <1>2, <1>4 DEF D!SetEntitlement, D!TypeOK
<1>5. CASE D!Tick
  BY <1>0, <1>2, <1>5 DEF D!Tick, D!TypeOK, D!policyVars
<1>6. CASE UNCHANGED D!vars
  BY <1>0, <1>2, <1>6 DEF D!vars, D!policyVars, D!TypeOK
<1> QED BY <1>1, <1>3, <1>4, <1>5, <1>6, CreateDelegationStep DEF D!Next

\* A decision to allow rests on a grant that reaches the target and permits the action.
LEMMA AllowedOnGrant ==
    ASSUME NEW req, NEW active, NEW entitled, NEW grants,
           "ALLOW" \in D!Evaluate(req, active, entitled, grants)
    PROVE  \E g \in grants : /\ D!scopeMatches(g.scope, req.target)
                             /\ g.scope.object \in {Blank, req.target.object}
                             /\ req.action \in D!rolePermitsAction[g.role]
<1>1. PICK g \in grants : D!Verdict(g, req.target, req.action) = "ALLOW"
  BY DEF D!Evaluate
<1> QED BY <1>1 DEF D!Verdict

\* A delegation in force was validated: what it hands on is within what was claimed.
LEMMA DelegatedWithinClaim == DelegationInv => D!DelegationAmplifiesNothing
<1> SUFFICES ASSUME DelegationInv, NEW req \in D!Request,
                    "ALLOW" \in D!EvaluateDelegatedAccess(req)
             PROVE  \E k \in {req.tenant} \X DelegationID :
                       /\ D!Logged(k) = {"DELEGATION_CREATED"}
                       /\ delegations[k].delegatee = req.subject
                       /\ delegations[k].delegator # req.subject
                       /\ req.action \in D!rolePermitsAction[delegations[k].claim[1]]
                       /\ D!scopeMatches(delegations[k].claim[2], req.target)
                       /\ delegations[k].handed[2].object \in {Blank, req.target.object}
                       /\ now - delegations[k].from
                             <= D!MaxDelegationDays[delegations[k].claim[1]]
  BY DEF D!DelegationAmplifiesNothing
<1>1. PICK k \in D!ActiveDelegations(req.tenant, req.subject) :
         LET g == D!Grant(k[1], req.subject, delegations[k].handed[1], delegations[k].handed[2])
         IN  /\ D!scopeMatches(g.scope, req.target)
             /\ g.scope.object \in {Blank, req.target.object}
             /\ req.action \in D!rolePermitsAction[g.role]
  BY AllowedOnGrant DEF D!EvaluateDelegatedAccess
<1> DEFINE d == delegations[k]
<1>2. /\ D!scopeMatches(d.handed[2], req.target)
      /\ d.handed[2].object \in {Blank, req.target.object}
      /\ req.action \in D!rolePermitsAction[d.handed[1]]
  BY <1>1 DEF D!Grant
<1>3. /\ k \in {req.tenant} \X DelegationID /\ d # None /\ d.state = "ACTIVE"
      /\ now <= d.to /\ d.delegatee = req.subject
  BY <1>1 DEF D!ActiveDelegations, D!IsValidAt
<1>4. k \in Tenant \X DelegationID
  BY <1>3 DEF D!Request
<1>5. d \in D!DelegationRecord /\ now \in Nat
  BY <1>3, <1>4, AccessAssumption DEF DelegationInv, D!TypeOK, D!DelegationAssumption
<1>6. D!Logged(k) = {"DELEGATION_CREATED"} /\ D!Valid(d)
  BY <1>3, <1>4 DEF DelegationInv
<1>7. d.claim \in D!Held /\ d.handed \in D!Held /\ d.from \in Nat /\ d.to \in Nat
  BY <1>5 DEF D!DelegationRecord
<1>8. d.claim[1] \in D!Role /\ d.handed[1] \in D!Role
  BY <1>7, AccessAssumption DEF D!Held, D!DelegationAssumption
<1> HIDE DEF d
<1>9. req.action \in D!rolePermitsAction[d.claim[1]]
  BY <1>2, <1>6, <1>8, ActionsFollowPermissions DEF D!Valid, D!Contained
<1>10. D!scopeMatches(d.claim[2], req.target)
  BY <1>2, <1>6, ContainmentIsTransitive DEF D!Valid, D!Contained
<1>11. D!MaxDelegationDays[d.claim[1]] \in Nat \ {0}
  <2>1. d.claim[1] # "TENANT_ADMIN"
    BY <1>6 DEF D!Valid, D!IsProtectedRole
  <2> QED BY <1>8, <2>1 DEF D!MaxDelegationDays, D!Role
<1>12. d.to - d.from <= D!MaxDelegationDays[d.claim[1]] /\ d.delegator # d.delegatee
  BY <1>6, <1>11 DEF D!Valid
<1>13. now - d.from <= D!MaxDelegationDays[d.claim[1]]
  BY <1>3, <1>5, <1>7, <1>11, <1>12
<1> QED BY <1>2, <1>3, <1>6, <1>9, <1>10, <1>12, <1>13 DEF d

\* For all claims, scopes, terms and delegations: EvaluateDelegatedAccess lets a delegatee
\* do what the claimed role may, in the tenant, company, project, site and area claimed and
\* within the role's limit of days.  The object claimed is not among what binds:
\* ObjectStaysDelegated fails.
THEOREM DelegationAmplifiesNothingHolds == Spec => []DelegationAmplifiesNothing
<1> DEFINE Inv == focus = "delegations" => DelegationInv
<1>1. Init => Inv
  BY DelegationsInitially DEF Init
<1>2. Inv /\ [Next]_vars => Inv'
  <2> SUFFICES ASSUME Inv, [Next]_vars, focus' = "delegations" PROVE DelegationInv'
    OBVIOUS
  <2>1. focus = "delegations" /\ [D!Next]_(D!vars)
    BY DEF Next, vars, Sessions, Conditions, Assignments, Delegations, Participation,
       Directory, Scans, Externals, dOnly, policy, D!vars, D!policyVars
  <2> QED BY <2>1, DelegationsStep
<1>3. Inv => DelegationAmplifiesNothing
  BY DelegatedWithinClaim DEF DelegationAmplifiesNothing, DelegationInv
<1> QED BY <1>1, <1>2, <1>3, PTL DEF Spec

-----------------------------------------------------------------------------
\* ProjectParticipation.  An ID is given once, so deactivating one participation never
\* ends another.

ParticipationInv ==
    /\ P!TypeOK
    /\ \A k \in P!Key : participations[k] # None =>
          /\ P!Bounded(participations[k].role, participations[k].contractor)
          /\ participations[k].status = "ACTIVE" => participations[k].id \notin ended
    /\ \A j, k \in P!Key :
          participations[j] # None /\ participations[k] # None
            /\ participations[j].id = participations[k].id => j = k

\* Nobody takes part.
LEMMA ParticipationInitially == P!Init => ParticipationInv
  BY AccessAssumption DEF P!Init, ParticipationInv, P!TypeOK, P!ParticipationAssumption

\* AssignParticipation, under an ID not used before.
LEMMA AssignStep ==
    ASSUME ParticipationInv, NEW k \in P!Key, NEW id \in Engagement, NEW role \in GivenRole,
           NEW contractor \in BOOLEAN, NEW within \in Within, NEW w \in Window, id \notin ended,
           \A j \in P!Key : participations[j] # None => participations[j].id # id,
           P!AssignParticipation(k, id, role, contractor, within, w)
    PROVE  ParticipationInv'
<1> DEFINE p == [id |-> id, role |-> role, contractor |-> contractor, within |-> within,
                 from |-> w[1], to |-> w[2], status |-> "ACTIVE"]
<1>1. w[1] \in Nat /\ w[2] \in Nat
  BY AccessAssumption DEF P!ParticipationAssumption
<1>2. p \in P!ProjectParticipationRecord /\ p.id = id /\ p.role = role
      /\ p.contractor = contractor /\ p.status = "ACTIVE"
  BY <1>1 DEF P!ProjectParticipationRecord
<1>3. participations' = [participations EXCEPT ![k] = p] /\ P!Bounded(role, contractor)
      /\ UNCHANGED <<attributions, ended, now>>
  BY DEF P!AssignParticipation
<1> HIDE DEF p
<1>4. P!TypeOK'
  BY <1>2, <1>3 DEF ParticipationInv, P!TypeOK
<1>5. \A j \in P!Key : participations'[j] = IF j = k THEN p ELSE participations[j]
  BY <1>3 DEF ParticipationInv, P!TypeOK
<1>6. ASSUME NEW j \in P!Key, participations'[j] # None
      PROVE  /\ P!Bounded(participations'[j].role, participations'[j].contractor)
             /\ participations'[j].status = "ACTIVE" => participations'[j].id \notin ended'
  BY <1>2, <1>3, <1>5, <1>6 DEF ParticipationInv
<1>7. ASSUME NEW i \in P!Key, NEW j \in P!Key, participations'[i] # None,
             participations'[j] # None, participations'[i].id = participations'[j].id
      PROVE  i = j
  BY <1>2, <1>5, <1>7 DEF ParticipationInv
<1> QED BY <1>4, <1>6, <1>7 DEF ParticipationInv, P!Bounded

\* DeactivateParticipation ends the ID of this participation, which no other has.
LEMMA DeactivateParticipationStep ==
    ASSUME ParticipationInv, NEW k \in P!Key, P!DeactivateParticipation(k)
    PROVE  ParticipationInv'
<1> DEFINE p == [participations[k] EXCEPT !.status = "DEACTIVATED"]
<1>1. /\ participations[k] # None
      /\ participations' = [participations EXCEPT ![k] = p]
      /\ ended' = ended \cup {participations[k].id} /\ UNCHANGED <<attributions, now>>
  BY DEF P!DeactivateParticipation, P!Deactivate
<1>2. participations[k] \in P!ProjectParticipationRecord
  BY <1>1 DEF ParticipationInv, P!TypeOK
<1>3. /\ p \in P!ProjectParticipationRecord /\ p.id = participations[k].id
      /\ p.role = participations[k].role /\ p.contractor = participations[k].contractor
      /\ p.status = "DEACTIVATED" /\ participations[k].id \in Engagement
  BY <1>2 DEF P!ProjectParticipationRecord
<1> HIDE DEF p
<1>4. P!TypeOK'
  BY <1>1, <1>3 DEF ParticipationInv, P!TypeOK
<1>5. \A j \in P!Key : participations'[j] = IF j = k THEN p ELSE participations[j]
  BY <1>1 DEF ParticipationInv, P!TypeOK
<1>6. ASSUME NEW j \in P!Key, participations'[j] # None
      PROVE  /\ P!Bounded(participations'[j].role, participations'[j].contractor)
             /\ participations'[j].status = "ACTIVE" => participations'[j].id \notin ended'
  BY <1>1, <1>3, <1>5, <1>6 DEF ParticipationInv
<1>7. ASSUME NEW i \in P!Key, NEW j \in P!Key, participations'[i] # None,
             participations'[j] # None, participations'[i].id = participations'[j].id
      PROVE  i = j
  BY <1>1, <1>3, <1>5, <1>7 DEF ParticipationInv
<1> QED BY <1>4, <1>6, <1>7 DEF ParticipationInv, P!Bounded

\* Each step keeps the invariant.
LEMMA ParticipationStep == ParticipationInv /\ [P!Next]_(P!vars) => ParticipationInv'
<1> SUFFICES ASSUME ParticipationInv, [P!Next]_(P!vars) PROVE ParticipationInv'
  OBVIOUS
<1>1. ASSUME NEW t \in Tenant, NEW id \in Deed, NEW k \in P!Key,
             P!RecordAttribution(t, id, k)
      PROVE  ParticipationInv'
  BY <1>1 DEF P!RecordAttribution, ParticipationInv, P!TypeOK, P!Bounded
<1>2. CASE P!Tick \/ UNCHANGED P!vars
  BY <1>2 DEF P!Tick, P!vars, ParticipationInv, P!TypeOK, P!Bounded
<1> QED BY <1>1, <1>2, AssignStep, DeactivateParticipationStep DEF P!Next

\* What EvaluateMultiProjectAccess opens rests on the caller's own participation.
LEMMA OpensOwnProject == ParticipationInv => P!AccessStaysInProject
<1> SUFFICES ASSUME ParticipationInv, NEW req \in P!Request,
                    "ALLOW" \in P!EvaluateMultiProjectAccess(req)
             PROVE  LET p == participations[<<req.tenant, req.subject, req.target.project>>]
                    IN  /\ p.id \notin ended
                        /\ p.contractor => req.action # "DELETE"
                                           /\ p.role \notin {"TENANT_ADMIN", "PROJECT_MANAGER"}
                        /\ p.role = "AUDITOR" => req.action \in {"READ", "EXPORT"}
                        /\ \A l \in {"company", "site", "area", "object"} :
                              p.within[l] \in {Blank, req.target[l]}
  BY DEF P!AccessStaysInProject
<1> DEFINE k == <<req.tenant, req.subject, req.target.project>>
           p == participations[k]
           scope == [l \in P!Level \cup {"object"} |->
                       CASE l = "tenant" -> req.tenant
                         [] l = "project" -> req.target.project
                         [] OTHER -> p.within[l]]
<1>1. /\ req.target.project # Blank /\ p # None /\ P!Usable(p)
      /\ ~(p.role = "AUDITOR" /\ req.action \in {"CREATE", "UPDATE", "DELETE"})
      /\ ~((p.contractor \/ p.role = "CONTRACTOR") /\ req.action = "DELETE")
      /\ "ALLOW" \in P!Evaluate(req, TRUE, FALSE,
                               {P!Grant(req.tenant, req.subject, p.role, scope)})
  BY DEF P!EvaluateMultiProjectAccess
<1>2. k \in P!Key
  BY <1>1, AccessAssumption DEF P!Request, P!Key, P!ParticipationAssumption
<1>3. P!Bounded(p.role, p.contractor) /\ p.id \notin ended
  BY <1>1, <1>2 DEF ParticipationInv, P!Usable
<1>4. P!scopeMatches(scope, req.target) /\ scope["object"] \in {Blank, req.target["object"]}
  <2> DEFINE g == P!Grant(req.tenant, req.subject, p.role, scope)
  <2>1. g.scope = scope
    BY DEF P!Grant
  <2> HIDE DEF scope, g
  <2>2. P!Verdict(g, req.target, req.action) = "ALLOW"
    BY <1>1 DEF P!Evaluate, g
  <2> QED BY <2>1, <2>2 DEF P!Verdict
<1>5. ASSUME NEW l \in {"company", "site", "area", "object"}
      PROVE  p.within[l] \in {Blank, req.target[l]}
  <2>1. scope[l] = p.within[l]
    BY DEF P!Level
  <2> HIDE DEF scope
  <2>2. CASE l \in P!Level
    BY <1>4, <2>1, <2>2 DEF P!scopeMatches
  <2>3. CASE l = "object"
    BY <1>4, <2>1, <2>3
  <2> QED BY <2>2, <2>3 DEF P!Level
<1> QED BY <1>1, <1>3, <1>5 DEF P!Bounded, P!Request, P!Action

\* For all subjects, projects, roles and windows: access to a project rests on a
\* participation in that project that was never deactivated.
THEOREM AccessStaysInProjectHolds == Spec => []AccessStaysInProject
<1> DEFINE Inv == focus = "participation" => ParticipationInv
<1>1. Init => Inv
  BY ParticipationInitially DEF Init
<1>2. Inv /\ [Next]_vars => Inv'
  <2> SUFFICES ASSUME Inv, [Next]_vars, focus' = "participation" PROVE ParticipationInv'
    OBVIOUS
  <2>1. focus = "participation" /\ [P!Next]_(P!vars)
    BY DEF Next, vars, Sessions, Conditions, Assignments, Delegations, Participation,
       Directory, Scans, Externals, pOnly, P!vars
  <2> QED BY <2>1, ParticipationStep
<1>3. Inv => AccessStaysInProject
  BY OpensOwnProject DEF AccessStaysInProject, ParticipationInv
<1> QED BY <1>1, <1>2, <1>3, PTL DEF Spec

-----------------------------------------------------------------------------
\* ScopedAssignments.  The ledger tells the state of an assignment; of two assignments
\* that clash and are not revoked, the later was registered on a day on which the
\* earlier was not in force.

Incompatible(a, b) ==
    /\ a.tenant = b.tenant
    /\ a.subject = b.subject
    /\ A!CheckScopesOverlap(b.scope, a.scope)
    /\ A!Clashes(a, b)

Outside(day, a) == day < a.from \/ day > a.to

\* Both are registered and active.
Standing(j, k) ==
    /\ j # k
    /\ registry[j] # None /\ registry[j].state = "ACTIVE"
    /\ registry[k] # None /\ registry[k].state = "ACTIVE"

RegisteredApart(j, k) ==
    \E i \in A!LoggedAs(j, "ASSIGNMENT_CREATED"), m \in A!LoggedAs(k, "ASSIGNMENT_CREATED") :
        \/ i < m /\ Outside(ledger[m].at, registry[j])
        \/ m < i /\ Outside(ledger[i].at, registry[k])

LedgerTells ==
    \A k \in Tenant \X AssignmentID :
        /\ registry[k] = None => \A x \in {"ASSIGNMENT_CREATED", "ASSIGNMENT_REVOKED"} :
                                    A!LoggedAs(k, x) = {}
        /\ registry[k] # None => A!LoggedAs(k, "ASSIGNMENT_CREATED") # {}
        /\ registry[k] # None /\ registry[k].state = "ACTIVE" =>
              A!LoggedAs(k, "ASSIGNMENT_REVOKED") = {}

AssignmentInv ==
    /\ A!TypeOK
    /\ LedgerTells
    /\ \A i \in 1 .. Len(ledger) : ledger[i].at <= now
    /\ \A j, k \in Tenant \X AssignmentID :
          Standing(j, k) /\ Incompatible(registry[k], registry[j]) => RegisteredApart(j, k)

\* CheckRoleConflict does not depend on which of the two comes first.
LEMMA ConflictIsSymmetric ==
    ASSUME NEW a, NEW b, Incompatible(a, b)
    PROVE  Incompatible(b, a)
<1>1. A!CheckScopesOverlap(a.scope, b.scope)
  BY DEF Incompatible, A!CheckScopesOverlap
<1>2. {a.role, b.role} = {b.role, a.role}
  OBVIOUS
<1> QED BY <1>1, <1>2 DEF Incompatible, A!Clashes

\* The days of the ledger are numbers.
LEMMA LoggedDays == A!TypeOK => \A i \in 1 .. Len(ledger) : ledger[i].at \in Nat
<1> SUFFICES ASSUME A!TypeOK, NEW i \in 1 .. Len(ledger) PROVE ledger[i].at \in Nat
  OBVIOUS
<1>1. ledger[i] \in A!AssignmentAuditRecord
  BY DEF A!TypeOK
<1>2. ledger[i].at \in Moment
  BY <1>1 DEF A!AssignmentAuditRecord
<1> QED BY <1>2, AccessAssumption DEF A!ScopedAssumption

\* Nothing registered.
LEMMA AssignmentsInitially == A!Init => AssignmentInv
<1> SUFFICES ASSUME A!Init PROVE AssignmentInv
  OBVIOUS
<1>1. A!TypeOK
  BY AccessAssumption DEF A!Init, A!TypeOK, A!ScopedAssumption
<1> QED BY <1>1 DEF A!Init, AssignmentInv, LedgerTells, A!LoggedAs, Standing

\* Log adds one place, to the entries of its own assignment.
LEMMA AssignmentLogged ==
    ASSUME A!TypeOK, NEW k \in Tenant \X AssignmentID, NEW day \in Moment,
           NEW transition \in {"ASSIGNMENT_CREATED", "ASSIGNMENT_REVOKED"},
           A!Log(k, transition, day)
    PROVE  /\ ledger' \in Seq(A!AssignmentAuditRecord)
           /\ Len(ledger') = Len(ledger) + 1 /\ Len(ledger) \in Nat
           /\ ledger'[Len(ledger) + 1].at = day
           /\ \A i \in 1 .. Len(ledger) : ledger'[i] = ledger[i]
           /\ \A j \in Tenant \X AssignmentID, x \in {"ASSIGNMENT_CREATED", "ASSIGNMENT_REVOKED"} :
                 /\ A!LoggedAs(j, x)' = IF j = k /\ x = transition
                                        THEN A!LoggedAs(j, x) \cup {Len(ledger) + 1}
                                        ELSE A!LoggedAs(j, x)
                 /\ A!LoggedAs(j, x) \subseteq 1 .. Len(ledger)
<1> DEFINE e == [key |-> k, at |-> day, transition |-> transition]
<1>1. e \in A!AssignmentAuditRecord /\ e.key = k /\ e.transition = transition /\ e.at = day
  BY DEF A!AssignmentAuditRecord
<1>2. ledger' = Append(ledger, e) /\ ledger \in Seq(A!AssignmentAuditRecord)
  BY DEF A!Log, A!TypeOK
<1> HIDE DEF e
<1>3. /\ ledger' \in Seq(A!AssignmentAuditRecord)
      /\ Len(ledger') = Len(ledger) + 1 /\ Len(ledger) \in Nat
      /\ ledger'[Len(ledger) + 1] = e
      /\ \A i \in 1 .. Len(ledger) : ledger'[i] = ledger[i]
  BY <1>1, <1>2
<1>4. 1 .. Len(ledger') = (1 .. Len(ledger)) \cup {Len(ledger) + 1}
  BY <1>3
<1>5. ASSUME NEW j \in Tenant \X AssignmentID,
             NEW x \in {"ASSIGNMENT_CREATED", "ASSIGNMENT_REVOKED"}
      PROVE  /\ A!LoggedAs(j, x)' = IF j = k /\ x = transition
                                    THEN A!LoggedAs(j, x) \cup {Len(ledger) + 1}
                                    ELSE A!LoggedAs(j, x)
             /\ A!LoggedAs(j, x) \subseteq 1 .. Len(ledger)
  BY <1>1, <1>3, <1>4 DEF A!LoggedAs
<1> QED BY <1>1, <1>3, <1>5

\* RegisterAssignment: nothing in force that day clashes with the new assignment.
LEMMA RegisterAssignmentStep ==
    ASSUME AssignmentInv, NEW k \in Tenant \X AssignmentID, NEW s \in Subject,
           NEW r \in HeldRole, NEW scope \in Scope, NEW w \in Window,
           A!RegisterAssignment(k, s, r, scope, w)
    PROVE  AssignmentInv'
<1> DEFINE a == A!NewScopedAssignment(k[1], s, r, scope, w)
           n == Len(ledger) + 1
<1>0. A!TypeOK /\ LedgerTells
  BY DEF AssignmentInv
<1>1. /\ registry[k] = None
      /\ ~\E j \in DOMAIN registry : A!IsValidAt(j, now) /\ A!Conflict(a, j)
      /\ registry' = [registry EXCEPT ![k] = a]
      /\ A!Log(k, "ASSIGNMENT_CREATED", now) /\ UNCHANGED <<A!policyVars, now>>
  BY DEF A!RegisterAssignment
<1>2. a \in A!ScopedAssignment /\ a.state = "ACTIVE"
  <2>1. w[1] \in Nat /\ w[2] \in Nat
    BY AccessAssumption DEF A!ScopedAssumption
  <2> DEFINE at == [scope EXCEPT !.tenant = k[1]]
  <2>2. at \in {[x EXCEPT !.tenant = t] : x \in Scope, t \in Tenant}
    OBVIOUS
  <2> HIDE DEF at
  <2>3. a = [tenant |-> k[1], subject |-> s, role |-> r, scope |-> at, from |-> w[1],
             to |-> w[2], state |-> "ACTIVE"]
    BY DEF A!NewScopedAssignment, at
  <2> HIDE DEF a
  <2> QED BY <2>1, <2>2, <2>3 DEF A!ScopedAssignment
<1>3. a # None
  BY <1>2, AccessAssumption DEF A!ScopedAssumption
<1>4. ASSUME NEW j \in Tenant \X AssignmentID, registry[j] # None,
             registry[j].state = "ACTIVE", Incompatible(a, registry[j])
      PROVE  Outside(now, registry[j])
  <2>1. registry[j].from \in Nat /\ registry[j].to \in Nat /\ now \in Nat
        /\ DOMAIN registry = Tenant \X AssignmentID
    BY <1>0, <1>4, AccessAssumption DEF A!TypeOK, A!ScopedAssignment, A!ScopedAssumption
  <2>2. A!Conflict(a, j)
    BY <1>4 DEF Incompatible, A!Conflict
  <2>3. ~(registry[j].from <= now /\ now <= registry[j].to)
    BY <1>1, <1>4, <2>1, <2>2 DEF A!IsValidAt, A!InForce
  <2> QED BY <2>1, <2>3 DEF Outside
<1> HIDE DEF a
<1>5. now \in Moment
  BY <1>0 DEF A!TypeOK
<1>6. /\ ledger' \in Seq(A!AssignmentAuditRecord)
      /\ Len(ledger') = n /\ Len(ledger) \in Nat
      /\ ledger'[n].at = now
      /\ \A i \in 1 .. Len(ledger) : ledger'[i] = ledger[i]
      /\ \A j \in Tenant \X AssignmentID, x \in {"ASSIGNMENT_CREATED", "ASSIGNMENT_REVOKED"} :
            /\ A!LoggedAs(j, x)' = IF j = k /\ x = "ASSIGNMENT_CREATED"
                                   THEN A!LoggedAs(j, x) \cup {n} ELSE A!LoggedAs(j, x)
            /\ A!LoggedAs(j, x) \subseteq 1 .. Len(ledger)
  BY <1>0, <1>1, <1>5, AssignmentLogged
<1>7. \A j \in Tenant \X AssignmentID : registry'[j] = IF j = k THEN a ELSE registry[j]
  BY <1>0, <1>1 DEF A!TypeOK
<1>8. A!TypeOK'
  BY <1>0, <1>1, <1>2, <1>6 DEF A!TypeOK, A!policyVars
<1>9. LedgerTells'
  BY <1>0, <1>1, <1>3, <1>6, <1>7 DEF LedgerTells
<1>10. \A i \in 1 .. Len(ledger') : ledger'[i].at <= now'
  <2>1. now \in Nat /\ now' = now
    BY <1>1, <1>5, AccessAssumption DEF A!ScopedAssumption
  <2> QED BY <1>6, <2>1 DEF AssignmentInv
<1>11. ASSUME NEW i \in Tenant \X AssignmentID, NEW j \in Tenant \X AssignmentID,
              Standing(i, j)', Incompatible(registry'[j], registry'[i])
       PROVE  RegisteredApart(i, j)'
  <2>1. CASE j = k
    <3>1. PICK p \in A!LoggedAs(i, "ASSIGNMENT_CREATED") : TRUE
      BY <1>0, <1>7, <1>11, <2>1 DEF LedgerTells, Standing
    <3>2. Outside(now, registry[i]) /\ registry'[i] = registry[i]
      BY <1>4, <1>7, <1>11, <2>1 DEF Standing
    <3>3. p \in A!LoggedAs(i, "ASSIGNMENT_CREATED")' /\ n \in A!LoggedAs(j, "ASSIGNMENT_CREATED")'
          /\ p < n
      BY <1>6, <1>11, <2>1, <3>1
    <3> QED BY <1>6, <3>2, <3>3 DEF RegisteredApart
  <2>2. CASE i = k
    <3>1. j # k
      BY <1>11, <2>2 DEF Standing
    <3>2. PICK p \in A!LoggedAs(j, "ASSIGNMENT_CREATED") : TRUE
      BY <1>0, <1>7, <1>11, <3>1 DEF LedgerTells, Standing
    <3>3. Incompatible(a, registry[j])
      BY <1>7, <1>11, <2>2, <3>1, ConflictIsSymmetric
    <3>4. Outside(now, registry[j]) /\ registry'[j] = registry[j]
      BY <1>4, <1>7, <1>11, <3>1, <3>3 DEF Standing
    <3>5. p \in A!LoggedAs(j, "ASSIGNMENT_CREATED")' /\ n \in A!LoggedAs(i, "ASSIGNMENT_CREATED")'
          /\ p < n
      BY <1>6, <2>2, <3>1, <3>2
    <3> QED BY <1>6, <3>4, <3>5 DEF RegisteredApart
  <2>3. CASE i # k /\ j # k
    <3>1. registry'[i] = registry[i] /\ registry'[j] = registry[j]
      BY <1>7, <2>3
    <3>2. Standing(i, j)
      BY <1>11, <3>1 DEF Standing
    <3>3. RegisteredApart(i, j)
      BY <1>11, <3>1, <3>2 DEF AssignmentInv
    <3> QED BY <1>6, <2>3, <3>1, <3>3 DEF RegisteredApart
  <2> QED BY <2>1, <2>2, <2>3
<1> QED BY <1>8, <1>9, <1>10, <1>11 DEF AssignmentInv

\* RevokeAssignment takes one assignment out of every pair it is in.
LEMMA RevokeAssignmentStep ==
    ASSUME AssignmentInv, NEW k \in Tenant \X AssignmentID, A!RevokeAssignment(k)
    PROVE  AssignmentInv'
<1> DEFINE a == [registry[k] EXCEPT !.state = "REVOKED"]
<1>0. A!TypeOK /\ LedgerTells
  BY DEF AssignmentInv
<1>1. /\ registry[k] # None
      /\ registry' = [registry EXCEPT ![k] = a]
      /\ A!Log(k, "ASSIGNMENT_REVOKED", 0) /\ UNCHANGED <<A!policyVars, now>>
  BY DEF A!RevokeAssignment, A!Revoke
<1>2. registry[k] \in A!ScopedAssignment
  BY <1>0, <1>1 DEF A!TypeOK
<1>3. a \in A!ScopedAssignment /\ a.state = "REVOKED"
  BY <1>2 DEF A!ScopedAssignment
<1>4. a # None
  BY <1>3, AccessAssumption DEF A!ScopedAssumption
<1> HIDE DEF a
<1>5. 0 \in Moment /\ now \in Nat /\ now' = now
  BY <1>0, <1>1, AccessAssumption DEF A!ScopedAssumption, A!TypeOK
<1>6. /\ ledger' \in Seq(A!AssignmentAuditRecord)
      /\ Len(ledger') = Len(ledger) + 1 /\ Len(ledger) \in Nat
      /\ ledger'[Len(ledger) + 1].at = 0
      /\ \A i \in 1 .. Len(ledger) : ledger'[i] = ledger[i]
      /\ \A j \in Tenant \X AssignmentID, x \in {"ASSIGNMENT_CREATED", "ASSIGNMENT_REVOKED"} :
            /\ A!LoggedAs(j, x)' = IF j = k /\ x = "ASSIGNMENT_REVOKED"
                                   THEN A!LoggedAs(j, x) \cup {Len(ledger) + 1}
                                   ELSE A!LoggedAs(j, x)
            /\ A!LoggedAs(j, x) \subseteq 1 .. Len(ledger)
  BY <1>0, <1>1, <1>5, AssignmentLogged
<1>7. \A j \in Tenant \X AssignmentID : registry'[j] = IF j = k THEN a ELSE registry[j]
  BY <1>0, <1>1 DEF A!TypeOK
<1>8. A!TypeOK'
  BY <1>0, <1>1, <1>3, <1>6 DEF A!TypeOK, A!policyVars
<1>9. LedgerTells'
  BY <1>0, <1>1, <1>3, <1>4, <1>6, <1>7 DEF LedgerTells
<1>10. \A i \in 1 .. Len(ledger') : ledger'[i].at <= now'
  BY <1>5, <1>6 DEF AssignmentInv
<1>11. ASSUME NEW i \in Tenant \X AssignmentID, NEW j \in Tenant \X AssignmentID,
              Standing(i, j)', Incompatible(registry'[j], registry'[i])
       PROVE  RegisteredApart(i, j)'
  <2>1. i # k /\ j # k
    BY <1>3, <1>7, <1>11 DEF Standing
  <2>2. registry'[i] = registry[i] /\ registry'[j] = registry[j]
    BY <1>7, <2>1
  <2>3. Standing(i, j)
    BY <1>11, <2>2 DEF Standing
  <2>4. RegisteredApart(i, j)
    BY <1>11, <2>2, <2>3 DEF AssignmentInv
  <2> QED BY <1>6, <2>1, <2>2, <2>4 DEF RegisteredApart
<1> QED BY <1>8, <1>9, <1>10, <1>11 DEF AssignmentInv

\* Each step keeps the invariant; the evaluator's copies are not part of it.
LEMMA AssignmentsStep == AssignmentInv /\ [A!Next]_(A!vars) => AssignmentInv'
<1> SUFFICES ASSUME AssignmentInv, [A!Next]_(A!vars) PROVE AssignmentInv'
  OBVIOUS
<1>0. A!TypeOK
  BY DEF AssignmentInv
<1>1. ASSUME UNCHANGED <<registry, ledger>>, A!TypeOK', now <= now'
      PROVE  AssignmentInv'
  <2>1. \A k \in Tenant \X AssignmentID, x \in {"ASSIGNMENT_CREATED", "ASSIGNMENT_REVOKED"} :
           A!LoggedAs(k, x)' = A!LoggedAs(k, x)
    BY <1>1 DEF A!LoggedAs
  <2>2. LedgerTells'
    BY <1>1, <2>1 DEF AssignmentInv, LedgerTells
  <2>3. \A i \in 1 .. Len(ledger') : ledger'[i].at <= now'
    <3>1. now \in Nat /\ now' \in Nat
      BY <1>0, <1>1, AccessAssumption DEF A!TypeOK, A!ScopedAssumption
    <3>2. \A i \in 1 .. Len(ledger) : ledger[i].at \in Nat
      BY <1>0, LoggedDays
    <3> QED BY <1>1, <3>1, <3>2 DEF AssignmentInv
  <2>4. \A j, k \in Tenant \X AssignmentID :
           /\ Standing(j, k)' <=> Standing(j, k)
           /\ RegisteredApart(j, k)' <=> RegisteredApart(j, k)
    BY <1>1, <2>1 DEF Standing, RegisteredApart, Outside
  <2>5. \A j, k \in Tenant \X AssignmentID :
           Incompatible(registry[k], registry[j])' <=> Incompatible(registry[k], registry[j])
    BY <1>1 DEF Incompatible, A!CheckScopesOverlap, A!Clashes
  <2> QED BY <1>1, <2>2, <2>3, <2>4, <2>5 DEF AssignmentInv
<1>2. now \in Nat
  BY <1>0, AccessAssumption DEF A!TypeOK, A!ScopedAssumption
<1>3. ASSUME NEW grants, A!AddRoleAssignments(grants)
      PROVE  AssignmentInv'
  BY <1>0, <1>1, <1>2, <1>3 DEF A!AddRoleAssignments, A!TypeOK
<1>4. ASSUME NEW t \in Tenant, A!PopulateEvaluator(t)
      PROVE  AssignmentInv'
  BY <1>3, <1>4 DEF A!PopulateEvaluator
<1>5. ASSUME NEW t \in Tenant, NEW s \in Subject, NEW status \in A!MembershipStatus,
             A!SetMembership(t, s, status)
      PROVE  AssignmentInv'
  BY <1>0, <1>1, <1>2, <1>5 DEF A!SetMembership, A!TypeOK
<1>6. ASSUME NEW t \in Tenant, NEW enabled \in BOOLEAN, A!SetEntitlement(t, enabled)
      PROVE  AssignmentInv'
  BY <1>0, <1>1, <1>2, <1>6 DEF A!SetEntitlement, A!TypeOK
<1>7. CASE A!Tick
  <2>1. now' \in Moment /\ now < now' /\ UNCHANGED <<A!policyVars, registry, ledger>>
    BY <1>7 DEF A!Tick
  <2>2. now <= now'
    BY <1>2, <2>1, AccessAssumption DEF A!ScopedAssumption
  <2>3. A!TypeOK'
    BY <1>0, <2>1 DEF A!TypeOK, A!policyVars
  <2> QED BY <1>1, <2>1, <2>2, <2>3
<1>8. CASE UNCHANGED A!vars
  BY <1>0, <1>1, <1>2, <1>8 DEF A!vars, A!policyVars, A!TypeOK
<1> QED BY <1>3, <1>4, <1>5, <1>6, <1>7, <1>8, RegisterAssignmentStep,
           RevokeAssignmentStep DEF A!Next

\* Access rests on an assignment the ledger shows granted, not revoked, and open.
LEMMA AllowedByLedger == AssignmentInv => A!AccessFollowsLedger
<1> SUFFICES ASSUME AssignmentInv, NEW req \in A!Request,
                    "ALLOW" \in A!EvaluateScopedAccess(req)
             PROVE  \E k \in {req.tenant} \X AssignmentID :
                       /\ A!LoggedAs(k, "ASSIGNMENT_CREATED") # {}
                       /\ A!LoggedAs(k, "ASSIGNMENT_REVOKED") = {}
                       /\ A!InForce(k, now)
                       /\ registry[k].subject = req.subject
                       /\ A!scopeMatches(registry[k].scope, req.target)
  BY DEF A!AccessFollowsLedger
<1>1. PICK k \in {req.tenant} \X AssignmentID :
         /\ A!IsValidAt(k, now) /\ registry[k].subject = req.subject
         /\ A!Verdict(A!ToRoleAssignment(k), req.target, req.action) = "ALLOW"
  BY DEF A!EvaluateScopedAccess, A!Evaluate
<1>2. A!scopeMatches(registry[k].scope, req.target)
  BY <1>1 DEF A!Verdict, A!ToRoleAssignment, A!Grant
<1>3. k \in Tenant \X AssignmentID
  BY <1>1 DEF A!Request
<1> QED BY <1>1, <1>2, <1>3 DEF A!IsValidAt, A!InForce, AssignmentInv, LedgerTells

\* Of two assignments in force, the day of the later is before the earlier opened: after
\* it closed it would not be in force any more.
LEMMA ClashOnlyInAdvance == AssignmentInv => A!ClashOnlyByAdvanceGrant
<1> SUFFICES ASSUME AssignmentInv, NEW j \in Tenant \X AssignmentID,
                    NEW k \in Tenant \X AssignmentID, A!BothHeld(j, k)
             PROVE  \E i \in A!LoggedAs(j, "ASSIGNMENT_CREATED"),
                       m \in A!LoggedAs(k, "ASSIGNMENT_CREATED") :
                       \/ i < m /\ ledger[m].at < registry[j].from
                       \/ m < i /\ ledger[i].at < registry[k].from
  BY DEF AssignmentInv, A!TypeOK, A!ClashOnlyByAdvanceGrant
<1>1. Standing(j, k) /\ Incompatible(registry[k], registry[j])
  BY DEF A!BothHeld, A!IsValidAt, A!InForce, A!Conflict, Standing, Incompatible
<1>2. now <= registry[j].to /\ now <= registry[k].to
  BY DEF A!BothHeld, A!IsValidAt, A!InForce
<1>3. /\ registry[j].to \in Nat /\ registry[k].to \in Nat /\ now \in Nat
  BY <1>1, AccessAssumption DEF Standing, AssignmentInv, A!TypeOK, A!ScopedAssignment,
     A!ScopedAssumption
<1>4. PICK i \in A!LoggedAs(j, "ASSIGNMENT_CREATED"),
           m \in A!LoggedAs(k, "ASSIGNMENT_CREATED") :
         \/ i < m /\ Outside(ledger[m].at, registry[j])
         \/ m < i /\ Outside(ledger[i].at, registry[k])
  BY <1>1 DEF AssignmentInv, RegisteredApart
<1>5. i \in 1 .. Len(ledger) /\ m \in 1 .. Len(ledger)
  BY DEF A!LoggedAs
<1>6. /\ ledger[i].at <= now /\ ledger[m].at <= now
      /\ ledger[i].at \in Nat /\ ledger[m].at \in Nat
  BY <1>5, LoggedDays DEF AssignmentInv
<1>7. ~(ledger[m].at > registry[j].to) /\ ~(ledger[i].at > registry[k].to)
  BY <1>2, <1>3, <1>6
<1> QED BY <1>4, <1>7 DEF Outside

\* For all roles, scopes, windows and assignments: EvaluateScopedAccess allows only on an
\* assignment its ledger shows granted and open, and clashing roles are in force together
\* only by a grant made in advance.
THEOREM AccessFollowsLedgerHolds == Spec => []AccessFollowsLedger
<1> DEFINE Inv == focus = "assignments" => AssignmentInv
<1>1. Init => Inv
  BY AssignmentsInitially DEF Init
<1>2. Inv /\ [Next]_vars => Inv'
  <2> SUFFICES ASSUME Inv, [Next]_vars, focus' = "assignments" PROVE AssignmentInv'
    OBVIOUS
  <2>1. focus = "assignments" /\ [A!Next]_(A!vars)
    BY DEF Next, vars, Sessions, Conditions, Assignments, Delegations, Participation,
       Directory, Scans, Externals, aOnly, policy, A!vars, A!policyVars
  <2> QED BY <2>1, AssignmentsStep
<1>3. Inv => AccessFollowsLedger
  BY AllowedByLedger, ClashOnlyInAdvance DEF AccessFollowsLedger, AssignmentInv
<1> QED BY <1>1, <1>2, <1>3, PTL DEF Spec

-----------------------------------------------------------------------------
\* ScanResolution.

\* Resolve gives one of its diagnostics.
LEMMA Diagnostics ==
    ASSUME R!TypeOK, NEW ctx \in Context, NEW label \in Label
    PROVE  R!Resolve(ctx, label, objects) \in R!Diagnostic
  BY DEF R!Resolve, R!Checked, R!Diagnostic

\* Each step keeps a scan under way one that recordAudit can append.
LEMMA ScansStep == R!TypeOK /\ [R!Next]_(R!vars) => R!TypeOK'
<1> SUFFICES ASSUME R!TypeOK, [R!Next]_(R!vars) PROVE R!TypeOK'
  OBVIOUS
<1>1. ASSUME NEW t \in LabelTenant, NEW id \in ObjectID, NEW o \in R!Object,
             R!RegisterObject(t, id, o)
      PROVE  R!TypeOK'
  BY <1>1 DEF R!RegisterObject, R!TypeOK
<1>2. ASSUME NEW s \in Token, NEW ctx \in Context, NEW label \in Label,
             R!Look(s, ctx, label)
      PROVE  R!TypeOK'
  <2> DEFINE scan == [diagnostic |-> R!Resolve(ctx, label, objects), tenant |-> ctx.tenant,
                      id |-> label.id]
  <2>1. ctx.tenant \in LabelTenant /\ label.id \in ObjectID \cup OtherID
    BY AccessAssumption DEF R!ScanAssumption
  <2>2. scan \in R!ScanRecord
    BY <2>1, Diagnostics DEF R!ScanRecord
  <2>3. scans' = [scans EXCEPT ![s] = scan] /\ UNCHANGED <<objects, auditRecords, now>>
    BY <1>2 DEF R!Look
  <2> HIDE DEF scan
  <2> QED BY <2>2, <2>3 DEF R!TypeOK
<1>3. ASSUME NEW s \in Token, R!recordAudit(s)
      PROVE  R!TypeOK'
  <2>1. scans[s] \in R!ScanRecord
    BY <1>3 DEF R!recordAudit, R!TypeOK
  <2> QED BY <1>3, <2>1 DEF R!recordAudit, R!TypeOK
<1>4. CASE R!Tick \/ UNCHANGED R!vars
  BY <1>4 DEF R!Tick, R!vars, R!TypeOK
<1> QED BY <1>1, <1>2, <1>3, <1>4 DEF R!Next

\* A refusal is told as for a missing object, and only the objects of the caller's tenant
\* are looked up.
LEMMA RefusedAsMissing == R!TypeOK => R!RefusalsTellNothing
<1> SUFFICES ASSUME R!TypeOK, NEW ctx \in Context, NEW label \in Label
             PROVE  /\ R!Resolve(ctx, label, objects) # "RESOLVED" =>
                          R!Told(R!Resolve(ctx, label, objects))
                             = R!Told(R!Resolve(ctx, label, R!Empty))
                    /\ R!Resolve(ctx, label, objects)
                          = R!Resolve(ctx, label, R!Own(ctx.tenant))
  BY DEF R!RefusalsTellNothing
<1> DEFINE payload == R!ParseScan(label)
<1>1. CASE \/ ~ctx.authenticated \/ payload = None
           \/ payload.expires # None /\ now > payload.expires
           \/ payload.tenant # ctx.tenant
  BY <1>1 DEF R!Resolve
<1>2. CASE /\ ctx.authenticated /\ payload # None
           /\ ~(payload.expires # None /\ now > payload.expires)
           /\ payload.tenant = ctx.tenant
  <2> DEFINE k == <<ctx.tenant, payload.id>>
  <2>1. k \in LabelTenant \X ObjectID /\ k[1] = ctx.tenant
    <3>1. ctx.tenant \in LabelTenant /\ label.id \in ObjectID \cup OtherID
      BY AccessAssumption DEF R!ScanAssumption
    <3>2. payload.id = label.id /\ label.id \notin OtherID
      BY <1>2 DEF R!ParseScan
    <3> QED BY <3>1, <3>2
  <2>2. R!Empty[k] = None /\ R!Own(ctx.tenant)[k] = objects[k]
    BY <2>1 DEF R!Empty, R!Own
  <2>3. R!Resolve(ctx, label, objects) = R!Resolve(ctx, label, R!Own(ctx.tenant))
    BY <1>2, <2>2 DEF R!Resolve
  <2>4. R!Resolve(ctx, label, R!Empty) = "MISSING"
    BY <1>2, <2>2 DEF R!Resolve
  <2>5. R!Resolve(ctx, label, objects)
           \in {"RESOLVED", "MISSING", "INACTIVE", "SCOPE", "PERMISSION"}
    BY <1>2 DEF R!Resolve, R!Checked
  <2> HIDE DEF payload, k
  <2> QED BY <2>3, <2>4, <2>5 DEF R!Told
<1> QED BY <1>1, <1>2

\* For all labels, callers, objects and scanners: code and message of a refusal are those
\* for an object that does not exist, and another tenant's objects never matter.  The
\* diagnostic in the record of the result is not covered: ResultTellsNothing fails.
THEOREM RefusalsTellNothingHolds == Spec => []RefusalsTellNothing
<1> DEFINE Inv == focus = "scans" => R!TypeOK
<1>1. Init => Inv
  BY AccessAssumption DEF Init, R!Init, R!TypeOK, R!ScanAssumption
<1>2. Inv /\ [Next]_vars => Inv'
  <2> SUFFICES ASSUME Inv, [Next]_vars, focus' = "scans" PROVE R!TypeOK'
    OBVIOUS
  <2>1. focus = "scans" /\ [R!Next]_(R!vars)
    BY DEF Next, vars, Sessions, Conditions, Assignments, Delegations, Participation,
       Directory, Scans, Externals, rOnly, R!vars
  <2> QED BY <2>1, ScansStep
<1>3. Inv => RefusalsTellNothing
  BY RefusedAsMissing DEF RefusalsTellNothing
<1> QED BY <1>1, <1>2, <1>3, PTL DEF Spec

-----------------------------------------------------------------------------
\* ExternalUsers.  The status of a profile is the one its trail tells, and its scopes name
\* its own tenant.

StatusAsEntered(t, s) ==
    /\ externals[<<t, s>>] = None => \A x \in X!Transition : X!Entered(t, s, x) = {}
    /\ externals[<<t, s>>] # None =>
          /\ X!Accounted(t, s)
          /\ externals[<<t, s>>].status \in {"ACTIVE", "REVOKED"}
          /\ externals[<<t, s>>].status = "REVOKED" <=>
                X!Entered(t, s, "EXTERNAL_USER_REVOKED") # {}
          /\ \A scope \in externals[<<t, s>>].scopes : scope["tenant"] = t

ExternalInv == X!TypeOK /\ \A t \in Tenant, s \in Subject : StatusAsEntered(t, s)

\* Nobody enrolled.
LEMMA ExternalsInitially == X!Init => ExternalInv
<1> SUFFICES ASSUME X!Init PROVE ExternalInv
  OBVIOUS
<1>1. X!TypeOK
  BY DEF X!Init, X!TypeOK
<1>2. \A t \in Tenant, s \in Subject : externals[<<t, s>>] = None
  BY DEF X!Init
<1> QED BY <1>1, <1>2 DEF X!Init, ExternalInv, StatusAsEntered, X!Entered

\* A record adds one place, to the trail of its own profile.
LEMMA EnrolmentRecorded ==
    ASSUME X!TypeOK, NEW t \in Tenant, NEW s \in Subject, NEW sponsor \in Proposed,
           NEW transition \in X!Transition,
           enrolments' = X!Recorded(t, s, sponsor, transition)
    PROVE  /\ enrolments' \in Seq(X!ExternalUserAuditRecord)
           /\ Len(enrolments) \in Nat
           /\ \A u \in Tenant, v \in Subject, x \in X!Transition :
                 /\ X!Entered(u, v, x)' = IF u = t /\ v = s /\ x = transition
                                          THEN X!Entered(u, v, x) \cup {Len(enrolments) + 1}
                                          ELSE X!Entered(u, v, x)
                 /\ X!Entered(u, v, x) \subseteq 1 .. Len(enrolments)
<1> DEFINE e == [tenant |-> t, subject |-> s, sponsor |-> sponsor, transition |-> transition]
<1>1. e \in X!ExternalUserAuditRecord /\ e.tenant = t /\ e.subject = s
      /\ e.transition = transition
  BY DEF X!ExternalUserAuditRecord
<1>2. enrolments' = Append(enrolments, e) /\ enrolments \in Seq(X!ExternalUserAuditRecord)
  BY DEF X!Recorded, X!TypeOK
<1> HIDE DEF e
<1>3. /\ enrolments' \in Seq(X!ExternalUserAuditRecord)
      /\ Len(enrolments') = Len(enrolments) + 1 /\ Len(enrolments) \in Nat
      /\ enrolments'[Len(enrolments) + 1] = e
      /\ \A i \in 1 .. Len(enrolments) : enrolments'[i] = enrolments[i]
  BY <1>1, <1>2
<1>4. 1 .. Len(enrolments') = (1 .. Len(enrolments)) \cup {Len(enrolments) + 1}
  BY <1>3
<1>5. ASSUME NEW u \in Tenant, NEW v \in Subject, NEW x \in X!Transition
      PROVE  /\ X!Entered(u, v, x)' = IF u = t /\ v = s /\ x = transition
                                      THEN X!Entered(u, v, x) \cup {Len(enrolments) + 1}
                                      ELSE X!Entered(u, v, x)
             /\ X!Entered(u, v, x) \subseteq 1 .. Len(enrolments)
  BY <1>1, <1>3, <1>4 DEF X!Entered
<1> QED BY <1>3, <1>5

\* EnrollExternalUser, once per tenant and subject.
LEMMA EnrollStep ==
    ASSUME ExternalInv, NEW t \in Tenant, NEW s \in Subject, NEW sponsor \in Proposed,
           NEW w \in Stay, NEW scopes \in ScopeSet,
           X!EnrollExternalUser(t, s, sponsor, w, scopes)
    PROVE  ExternalInv'
<1> DEFINE bound == X!Bound(t, scopes)
           p == [sponsor |-> sponsor, from |-> w[1], to |-> w[2], status |-> "ACTIVE",
                 scopes |-> bound]
           n == Len(enrolments) + 1
<1>0. X!TypeOK
  BY DEF ExternalInv
<1>1. bound \in SUBSET {[x EXCEPT !.tenant = u] : x \in UNION ScopeSet, u \in Tenant}
  BY DEF X!Bound
<1>2. \A scope \in bound : scope["tenant"] = t
  BY AccessAssumption DEF X!Bound, X!ExternalAssumption
<1> HIDE DEF bound
<1>3. p \in X!ExternalUserProfile /\ p.status = "ACTIVE" /\ p.scopes = bound
  BY <1>1, AccessAssumption DEF X!ExternalAssumption, X!ExternalUserProfile,
     X!EnrollExternalUser, X!EnrollmentStatus
<1>4. p # None
  BY <1>3, AccessAssumption DEF X!ExternalAssumption
<1>5. /\ externals[<<t, s>>] = None
      /\ externals' = [externals EXCEPT ![<<t, s>>] = p]
      /\ enrolments' = X!Recorded(t, s, sponsor, "EXTERNAL_USER_ENROLLED")
  BY DEF X!EnrollExternalUser, bound
<1> HIDE DEF p
<1>6. /\ enrolments' \in Seq(X!ExternalUserAuditRecord)
      /\ Len(enrolments) \in Nat
      /\ \A u \in Tenant, v \in Subject, x \in X!Transition :
            /\ X!Entered(u, v, x)' = IF u = t /\ v = s /\ x = "EXTERNAL_USER_ENROLLED"
                                     THEN X!Entered(u, v, x) \cup {n} ELSE X!Entered(u, v, x)
            /\ X!Entered(u, v, x) \subseteq 1 .. Len(enrolments)
  BY <1>0, <1>5, EnrolmentRecorded DEF X!Transition
<1>7. X!TypeOK'
  BY <1>0, <1>3, <1>5, <1>6 DEF X!TypeOK
<1>8. ASSUME NEW u \in Tenant, NEW v \in Subject
      PROVE  StatusAsEntered(u, v)'
  <2>1. externals'[<<u, v>>] = IF u = t /\ v = s THEN p ELSE externals[<<u, v>>]
    BY <1>0, <1>5 DEF X!TypeOK
  <2>2. StatusAsEntered(u, v)
    BY DEF ExternalInv
  <2>3. CASE u = t /\ v = s
    <3>1. X!Entered(u, v, "EXTERNAL_USER_ENROLLED")' = {n}
          /\ X!Entered(u, v, "EXTERNAL_USER_REVOKED")' = {}
      BY <1>5, <1>6, <2>2, <2>3 DEF StatusAsEntered, X!Transition
    <3>2. X!Accounted(u, v)'
      BY <3>1 DEF X!Accounted
    <3> QED BY <1>2, <1>3, <1>4, <2>1, <2>3, <3>1, <3>2 DEF StatusAsEntered
  <2>4. CASE ~(u = t /\ v = s)
    <3>1. \A x \in X!Transition : X!Entered(u, v, x)' = X!Entered(u, v, x)
      BY <1>6, <2>4
    <3>2. X!Accounted(u, v)' <=> X!Accounted(u, v)
      BY <3>1 DEF X!Accounted, X!Transition
    <3> QED BY <2>1, <2>2, <2>4, <3>1, <3>2 DEF StatusAsEntered, X!Transition
  <2> QED BY <2>3, <2>4
<1> QED BY <1>7, <1>8 DEF ExternalInv

\* RevokeEnrollment, once per profile.
LEMMA RevokeEnrollmentStep ==
    ASSUME ExternalInv, NEW t \in Tenant, NEW s \in Subject, X!RevokeEnrollment(t, s)
    PROVE  ExternalInv'
<1> DEFINE p == [externals[<<t, s>>] EXCEPT !.status = "REVOKED"]
           n == Len(enrolments) + 1
<1>0. X!TypeOK
  BY DEF ExternalInv
<1>1. /\ externals[<<t, s>>] # None /\ externals[<<t, s>>].status # "REVOKED"
      /\ externals' = [externals EXCEPT ![<<t, s>>] = p]
      /\ enrolments' = X!Recorded(t, s, externals[<<t, s>>].sponsor, "EXTERNAL_USER_REVOKED")
  BY DEF X!RevokeEnrollment, X!Revoke
<1>2. externals[<<t, s>>] \in X!ExternalUserProfile
  BY <1>0, <1>1 DEF X!TypeOK
<1>3. /\ p \in X!ExternalUserProfile /\ p.status = "REVOKED"
      /\ p.scopes = externals[<<t, s>>].scopes
      /\ externals[<<t, s>>].sponsor \in Internal
  BY <1>2 DEF X!ExternalUserProfile, X!EnrollmentStatus
<1>4. p # None /\ externals[<<t, s>>].sponsor \in Proposed
  BY <1>3, AccessAssumption DEF X!ExternalAssumption
<1> HIDE DEF p
<1>5. /\ enrolments' \in Seq(X!ExternalUserAuditRecord)
      /\ Len(enrolments) \in Nat
      /\ \A u \in Tenant, v \in Subject, x \in X!Transition :
            /\ X!Entered(u, v, x)' = IF u = t /\ v = s /\ x = "EXTERNAL_USER_REVOKED"
                                     THEN X!Entered(u, v, x) \cup {n} ELSE X!Entered(u, v, x)
            /\ X!Entered(u, v, x) \subseteq 1 .. Len(enrolments)
  BY <1>0, <1>1, <1>4, EnrolmentRecorded DEF X!Transition
<1>6. X!TypeOK'
  BY <1>0, <1>1, <1>3, <1>5 DEF X!TypeOK
<1>7. ASSUME NEW u \in Tenant, NEW v \in Subject
      PROVE  StatusAsEntered(u, v)'
  <2>1. externals'[<<u, v>>] = IF u = t /\ v = s THEN p ELSE externals[<<u, v>>]
    BY <1>0, <1>1 DEF X!TypeOK
  <2>2. StatusAsEntered(u, v)
    BY DEF ExternalInv
  <2>3. CASE u = t /\ v = s
    <3>1. /\ X!Entered(u, v, "EXTERNAL_USER_ENROLLED")' = X!Entered(u, v, "EXTERNAL_USER_ENROLLED")
          /\ X!Entered(u, v, "EXTERNAL_USER_REVOKED")' = {n}
          /\ X!Entered(u, v, "EXTERNAL_USER_ENROLLED") \subseteq 1 .. Len(enrolments)
          /\ X!Accounted(u, v)
      BY <1>1, <1>5, <2>2, <2>3 DEF StatusAsEntered, X!Transition
    <3>2. X!Accounted(u, v)'
      BY <1>5, <3>1 DEF X!Accounted
    <3> QED BY <1>1, <1>3, <1>4, <2>1, <2>2, <2>3, <3>1, <3>2 DEF StatusAsEntered
  <2>4. CASE ~(u = t /\ v = s)
    <3>1. \A x \in X!Transition : X!Entered(u, v, x)' = X!Entered(u, v, x)
      BY <1>5, <2>4
    <3>2. X!Accounted(u, v)' <=> X!Accounted(u, v)
      BY <3>1 DEF X!Accounted, X!Transition
    <3> QED BY <2>1, <2>2, <2>4, <3>1, <3>2 DEF StatusAsEntered, X!Transition
  <2> QED BY <2>3, <2>4
<1> QED BY <1>6, <1>7 DEF ExternalInv

\* Both steps keep the invariant.
LEMMA ExternalsStep == ExternalInv /\ [X!Next]_(X!vars) => ExternalInv'
<1> SUFFICES ASSUME ExternalInv, [X!Next]_(X!vars) PROVE ExternalInv'
  OBVIOUS
<1>1. CASE UNCHANGED X!vars
  <2>1. \A t \in Tenant, s \in Subject, x \in X!Transition : X!Entered(t, s, x)' = X!Entered(t, s, x)
    BY <1>1 DEF X!vars, X!Entered
  <2>2. \A t \in Tenant, s \in Subject : X!Accounted(t, s)' <=> X!Accounted(t, s)
    BY <2>1 DEF X!Accounted, X!Transition
  <2>3. \A t \in Tenant, s \in Subject : StatusAsEntered(t, s)' <=> StatusAsEntered(t, s)
    BY <1>1, <2>1, <2>2 DEF X!vars, StatusAsEntered, X!Transition
  <2> QED BY <1>1, <2>3 DEF ExternalInv, X!TypeOK, X!vars
<1> QED BY <1>1, EnrollStep, RevokeEnrollmentStep DEF X!Next

\* The three ways to ask agree with the trail, and scopes stay in their tenant.
LEMMA ExternalsInForce == ExternalInv => X!ExternalsBounded
<1> SUFFICES ASSUME ExternalInv, NEW t \in Tenant, NEW s \in Subject
             PROVE  LET p == externals[<<t, s>>] IN
                    IF p = None THEN \A x \in X!Transition : X!Entered(t, s, x) = {}
                    ELSE /\ X!Accounted(t, s)
                         /\ \A m \in Moment :
                              LET inForce == X!Entered(t, s, "EXTERNAL_USER_REVOKED") = {}
                                             /\ m \in p.from .. p.to
                              IN  /\ inForce <=> s \in X!ListActiveExternalUsers(t, m)
                                  /\ inForce <=> X!EffectiveStatus(p, m) = "ACTIVE"
                         /\ \A target \in Visited :
                               X!IsScopePermitted(p, target) => target.tenant = t
  BY DEF X!ExternalsBounded
<1>1. StatusAsEntered(t, s)
  BY DEF ExternalInv
<1> DEFINE p == externals[<<t, s>>]
<1>2. CASE p = None
  BY <1>1, <1>2 DEF StatusAsEntered
<1>3. CASE p # None
  <2>1. p \in X!ExternalUserProfile
    BY <1>3 DEF ExternalInv, X!TypeOK
  <2>2. p.from \in Nat /\ p.to \in Nat
    BY <2>1 DEF X!ExternalUserProfile
  <2>3. ASSUME NEW m \in Moment
        PROVE  LET inForce == X!Entered(t, s, "EXTERNAL_USER_REVOKED") = {}
                              /\ m \in p.from .. p.to
               IN  /\ inForce <=> s \in X!ListActiveExternalUsers(t, m)
                   /\ inForce <=> X!EffectiveStatus(p, m) = "ACTIVE"
    <3>1. m \in Nat
      BY AccessAssumption DEF X!ExternalAssumption
    <3>2. s \in X!ListActiveExternalUsers(t, m) <=> X!IsValidAt(p, m)
      BY <1>3 DEF X!ListActiveExternalUsers
    <3>3. m \in p.from .. p.to <=> p.from <= m /\ m <= p.to
      BY <2>2, <3>1
    <3>4. p.status \in {"ACTIVE", "REVOKED"}
          /\ (p.status = "REVOKED" <=> X!Entered(t, s, "EXTERNAL_USER_REVOKED") # {})
      BY <1>1, <1>3 DEF StatusAsEntered
    <3>5. X!EffectiveStatus(p, m) = "ACTIVE" <=>
             p.status = "ACTIVE" /\ p.from <= m /\ m <= p.to
      BY <2>2, <3>1, <3>4 DEF X!EffectiveStatus
    <3> QED BY <3>2, <3>3, <3>4, <3>5 DEF X!IsValidAt
  <2>4. ASSUME NEW target \in Visited, X!IsScopePermitted(p, target)
        PROVE  target.tenant = t
    <3>1. PICK scope \in p.scopes : X!scopeMatches(scope, target)
      BY <2>4 DEF X!IsScopePermitted
    <3>2. scope["tenant"] = t
      BY <1>1, <1>3 DEF StatusAsEntered
    <3>3. scope["tenant"] \in {Blank, target["tenant"]}
      BY <3>1 DEF X!scopeMatches, X!Level
    <3> QED BY <3>2, <3>3, AccessAssumption DEF X!ExternalAssumption
  <2> QED BY <1>1, <1>3, <2>3, <2>4 DEF StatusAsEntered
<1> QED BY <1>2, <1>3

\* For all tenants, sponsors, windows and scopes: an external user is in force exactly as
\* the trail and the window say, and reaches no resource of another tenant.
THEOREM ExternalsBoundedHolds == Spec => []ExternalsBounded
<1> DEFINE Inv == focus = "externals" => ExternalInv
<1>1. Init => Inv
  BY ExternalsInitially DEF Init
<1>2. Inv /\ [Next]_vars => Inv'
  <2> SUFFICES ASSUME Inv, [Next]_vars, focus' = "externals" PROVE ExternalInv'
    OBVIOUS
  <2>1. focus = "externals" /\ [X!Next]_(X!vars)
    BY DEF Next, vars, Sessions, Conditions, Assignments, Delegations, Participation,
       Directory, Scans, Externals, xOnly, X!vars
  <2> QED BY <2>1, ExternalsStep
<1>3. Inv => ExternalsBounded
  BY ExternalsInForce DEF ExternalsBounded, ExternalInv
<1> QED BY <1>1, <1>2, <1>3, PTL DEF Spec

-----------------------------------------------------------------------------
\* DirectoryProfiles.  On a profile whose calls never overlapped, a call under way is the
\* only one: the history still ends where the call began, and the profile is already
\* where the call will record it once it has written.

\* The records of a profile start where the one before ended.
Chained(id) ==
    \A i \in F!RecordsOf(id) : F!Leaves({j \in F!RecordsOf(id) : j < i}, changes[i].previous)

\* What the profile and the call under way say of the end of the history.
Serial(id) ==
    /\ Chained(id)
    /\ \A c, d \in F!InFlight(id) : c = d
    /\ profiles[id] = None => F!InFlight(id) = {} /\ F!RecordsOf(id) = {}
    /\ profiles[id] # None /\ F!InFlight(id) = {} =>
          F!Leaves(F!RecordsOf(id), profiles[id].status)
    /\ \A c \in F!InFlight(id) :
          /\ F!Leaves(F!RecordsOf(id), calls[c].previous)
          /\ calls[c].at = "write" => calls[c].previous = profiles[id].status
                                      /\ calls[c].value.status = calls[c].new
          /\ calls[c].at = "record" => calls[c].new = profiles[id].status

DirectoryInv == F!TypeOK /\ \A id \in Deed \ (crossed \cup bypassed) : Serial(id)

\* No profile, no call.
LEMMA DirectoryInitially == F!Init => DirectoryInv
<1> SUFFICES ASSUME F!Init PROVE DirectoryInv
  OBVIOUS
<1>1. F!TypeOK
  BY AccessAssumption DEF F!Init, F!TypeOK, F!DirectoryAssumption
<1>2. \A id \in Deed : F!InFlight(id) = {} /\ F!RecordsOf(id) = {} /\ profiles[id] = None
  BY DEF F!Init, F!InFlight, F!RecordsOf
<1> QED BY <1>1, <1>2 DEF DirectoryInv, Serial, Chained

\* The kinds of progress are told apart by their fields.
LEMMA CallKinds ==
    ASSUME F!TypeOK, NEW c \in AssignmentID, calls[c] # F!Idle
    PROVE  /\ calls[c] \in F!Writing \cup F!Recording
           /\ calls[c].at \in {"write", "record"} /\ calls[c].id \in Deed
           /\ calls[c].at = "write" => calls[c] \in F!Writing
           /\ calls[c].at = "record" => calls[c] \in F!Recording
<1>1. calls[c] \in F!Writing \cup F!Recording
  BY DEF F!TypeOK
<1> QED BY <1>1 DEF F!Writing, F!Recording

\* A profile the step does not touch keeps what is said of it.
LEMMA SerialUntouched ==
    ASSUME NEW id \in Deed, Serial(id), UNCHANGED changes, profiles'[id] = profiles[id],
           F!InFlight(id)' = F!InFlight(id),
           \A c \in F!InFlight(id) : calls'[c] = calls[c]
    PROVE  Serial(id)'
<1>1. F!RecordsOf(id)' = F!RecordsOf(id)
  BY DEF F!RecordsOf
<1>2. ASSUME NEW places, NEW status
      PROVE  F!Leaves(places, status) <=>
                IF places = {} THEN status = None
                ELSE \E i \in places : (\A j \in places : j <= i) /\ changes'[i].new = status
  BY DEF F!Leaves
<1> QED BY <1>1, <1>2 DEF Serial, Chained, F!Leaves

\* A call begins: on a profile with a call under way it marks the profile crossed.
LEMMA BeginStep ==
    ASSUME DirectoryInv, NEW c \in AssignmentID, NEW id \in Deed,
           NEW call \in F!Writing \cup F!Recording, call.id = id, F!Begin(c, id, call),
           profiles' \in [Deed -> F!Profile \cup {None}], profiles'[id] # None,
           \A d \in Deed : d # id => profiles'[d] = profiles[d],
           \/ /\ call \in F!Writing /\ profiles[id] # None /\ profiles'[id] = profiles[id]
              /\ call.previous = profiles[id].status /\ call.value.status = call.new
           \/ /\ call \in F!Recording /\ profiles[id] = None
              /\ call.previous = None /\ call.new = profiles'[id].status
    PROVE  DirectoryInv'
<1>0. F!TypeOK
  BY DEF DirectoryInv
<1>1. /\ calls[c] = F!Idle /\ begun < MaxCalls /\ begun' = begun + 1
      /\ calls' = [calls EXCEPT ![c] = call]
      /\ crossed' = IF F!InFlight(id) # {} THEN crossed \cup {id} ELSE crossed
      /\ UNCHANGED <<changes, bypassed>>
  BY DEF F!Begin
<1>2. F!TypeOK'
  <2>1. begun' \in 0 .. MaxCalls
    BY <1>0, <1>1, AccessAssumption DEF F!TypeOK, F!DirectoryAssumption
  <2> QED BY <1>0, <1>1, <2>1 DEF F!TypeOK
<1>3. call # F!Idle
  BY DEF F!Idle, F!Writing, F!Recording
<1>4. \A d \in AssignmentID : calls'[d] = IF d = c THEN call ELSE calls[d]
  BY <1>0, <1>1 DEF F!TypeOK
<1>5. \A x \in Deed : F!InFlight(x)' = IF x = id THEN F!InFlight(x) \cup {c} ELSE F!InFlight(x)
  BY <1>1, <1>3, <1>4 DEF F!InFlight
<1>6. \A x \in Deed : c \notin F!InFlight(x) /\ F!InFlight(x) \subseteq AssignmentID
  BY <1>1 DEF F!InFlight
<1>7. ASSUME NEW x \in Deed \ (crossed' \cup bypassed')
      PROVE  Serial(x)'
  <2>1. Serial(x)
    BY <1>1, <1>7 DEF DirectoryInv
  <2>2. CASE x # id
    BY <1>1, <1>4, <1>5, <1>6, <2>1, <2>2, SerialUntouched
  <2>3. CASE x = id
    <3>1. F!InFlight(id) = {} /\ F!InFlight(id)' = {c} /\ calls'[c] = call
      BY <1>1, <1>4, <1>5, <1>7, <2>3
    <3>2. F!RecordsOf(id)' = F!RecordsOf(id)
      BY <1>1 DEF F!RecordsOf
    <3>3. F!Leaves(F!RecordsOf(id), call.previous)
      <4>1. CASE profiles[id] # None
        BY <2>1, <2>3, <3>1, <4>1 DEF Serial
      <4>2. CASE profiles[id] = None
        BY <2>1, <2>3, <4>2 DEF Serial, F!Leaves
      <4> QED BY <4>1, <4>2
    <3>4. F!Leaves(F!RecordsOf(id), calls[c].previous)'
      BY <1>1, <3>1, <3>2, <3>3 DEF F!Leaves
    <3>5. Chained(id)'
      BY <1>1, <2>1, <2>3, <3>2 DEF Serial, Chained, F!Leaves
    <3>6. (call.at = "write" => call \in F!Writing) /\ (call.at = "record" => call \in F!Recording)
      BY DEF F!Writing, F!Recording
    <3>7. /\ call.at = "write" => call.previous = profiles'[id].status
                                  /\ call.value.status = call.new
          /\ call.at = "record" => call.new = profiles'[id].status
      BY <3>6 DEF F!Writing, F!Recording
    <3> QED BY <2>3, <3>1, <3>4, <3>5, <3>7 DEF Serial
  <2> QED BY <2>2, <2>3
<1> QED BY <1>2, <1>7 DEF DirectoryInv

\* The three methods of the resolver up to their first write or record.
LEMMA ResolverBegins ==
    ASSUME DirectoryInv, NEW c \in AssignmentID, NEW id \in Deed
    PROVE  /\ \A s \in Subject, post \in Post, a \in Attribute :
                 F!RegisterProfile(c, id, F!NewDirectoryProfile(s, post, a)) => DirectoryInv'
           /\ \A a \in Attribute : F!UpdateProfileAttributes(c, id, a) => DirectoryInv'
           /\ F!InactivateProfile(c, id) => DirectoryInv'
<1>0. F!TypeOK
  BY DEF DirectoryInv
<1>1. ASSUME NEW s \in Subject, NEW post \in Post, NEW a \in Attribute,
             F!RegisterProfile(c, id, F!NewDirectoryProfile(s, post, a))
      PROVE  DirectoryInv'
  <2> DEFINE p == F!NewDirectoryProfile(s, post, a)
             call == [at |-> "record", id |-> id, previous |-> None, new |-> p.status]
  <2>1. p \in F!Profile /\ p # None /\ p.status \in F!ProfileStatus
    BY AccessAssumption DEF F!NewDirectoryProfile, F!Profile, F!ProfileStatus,
       F!DirectoryAssumption
  <2> HIDE DEF p
  <2>2. call \in F!Recording /\ call.id = id /\ call.previous = None /\ call.new = p.status
    BY <2>1 DEF F!Recording
  <2>3. profiles[id] = None /\ F!Begin(c, id, call)
        /\ profiles' = [profiles EXCEPT ![id] = p]
    BY <1>1 DEF F!RegisterProfile, p
  <2> HIDE DEF call
  <2>4. profiles' \in [Deed -> F!Profile \cup {None}] /\ profiles'[id] = p
        /\ \A d \in Deed : d # id => profiles'[d] = profiles[d]
    BY <1>0, <2>1, <2>3 DEF F!TypeOK
  <2> QED BY <2>1, <2>2, <2>3, <2>4, BeginStep
<1>2. ASSUME NEW value \in F!Profile, NEW new \in F!ProfileStatus, profiles[id] # None,
             value.status = new, UNCHANGED profiles,
             F!Begin(c, id, [at |-> "write", id |-> id, value |-> value,
                             previous |-> profiles[id].status, new |-> new])
      PROVE  DirectoryInv'
  <2> DEFINE call == [at |-> "write", id |-> id, value |-> value,
                      previous |-> profiles[id].status, new |-> new]
  <2>1. profiles[id].status \in F!ProfileStatus
    BY <1>0, <1>2 DEF F!TypeOK, F!Profile
  <2>2. call \in F!Writing /\ call.id = id /\ call.previous = profiles[id].status
        /\ call.new = new /\ call.value = value
    BY <2>1 DEF F!Writing
  <2>3. F!Begin(c, id, call)
    BY <1>2
  <2> HIDE DEF call
  <2>4. profiles' \in [Deed -> F!Profile \cup {None}]
    BY <1>0, <1>2 DEF F!TypeOK
  <2> QED BY <1>2, <2>2, <2>3, <2>4, BeginStep
<1>3. ASSUME NEW a \in Attribute, F!UpdateProfileAttributes(c, id, a)
      PROVE  DirectoryInv'
  <2> DEFINE value == [profiles[id] EXCEPT !.attr = a]
  <2>1. profiles[id] # None /\ profiles[id] \in F!Profile
    BY <1>0, <1>3 DEF F!TypeOK, F!UpdateProfileAttributes
  <2>2. value \in F!Profile /\ value.status = profiles[id].status
        /\ profiles[id].status \in F!ProfileStatus
    BY <2>1 DEF F!Profile
  <2>3. UNCHANGED profiles
        /\ F!Begin(c, id, [at |-> "write", id |-> id, value |-> value,
                           previous |-> profiles[id].status, new |-> profiles[id].status])
    BY <1>3 DEF F!UpdateProfileAttributes
  <2> HIDE DEF value
  <2> QED BY <1>2, <2>1, <2>2, <2>3
<1>4. ASSUME F!InactivateProfile(c, id)
      PROVE  DirectoryInv'
  <2> DEFINE value == F!Deactivate(profiles[id])
  <2>1. profiles[id] # None /\ profiles[id] \in F!Profile
    BY <1>0, <1>4 DEF F!TypeOK, F!InactivateProfile
  <2>2. value \in F!Profile /\ value.status = "INACTIVE" /\ "INACTIVE" \in F!ProfileStatus
    BY <2>1 DEF F!Profile, F!Deactivate, F!ProfileStatus
  <2>3. UNCHANGED profiles
        /\ F!Begin(c, id, [at |-> "write", id |-> id, value |-> value,
                           previous |-> profiles[id].status, new |-> "INACTIVE"])
    BY <1>4 DEF F!InactivateProfile
  <2> HIDE DEF value
  <2> QED BY <1>2, <2>1, <2>2, <2>3
<1> QED BY <1>1, <1>3, <1>4

\* The copy is written: the profile is now where the call will record it.
LEMMA WriteStep ==
    ASSUME DirectoryInv, NEW c \in AssignmentID, F!Write(c)
    PROVE  DirectoryInv'
<1> DEFINE id == calls[c].id
           call == [at |-> "record", id |-> calls[c].id, previous |-> calls[c].previous,
                    new |-> calls[c].new]
<1>0. F!TypeOK
  BY DEF DirectoryInv
<1>1. calls[c] \in F!Writing /\ calls[c] # F!Idle
  BY <1>0, CallKinds DEF F!Write, F!Idle
<1>2. /\ id \in Deed /\ calls[c].value \in F!Profile
      /\ call \in F!Recording /\ call # F!Idle /\ call.id = id
      /\ call.previous = calls[c].previous /\ call.new = calls[c].new
      /\ call.at = "record"
  BY <1>1 DEF F!Writing, F!Recording, F!Idle
<1>3. /\ profiles' = [profiles EXCEPT ![id] = calls[c].value]
      /\ calls' = [calls EXCEPT ![c] = call]
      /\ UNCHANGED <<changes, begun, crossed, bypassed>>
  BY DEF F!Write, F!observers
<1>4. calls[c].at = "write"
  BY DEF F!Write
<1> HIDE DEF call
<1>5. F!TypeOK'
  BY <1>0, <1>2, <1>3 DEF F!TypeOK
<1>6. /\ \A d \in AssignmentID : calls'[d] = IF d = c THEN call ELSE calls[d]
      /\ \A x \in Deed : profiles'[x] = IF x = id THEN calls[c].value ELSE profiles[x]
  BY <1>0, <1>2, <1>3 DEF F!TypeOK
<1>7. \A x \in Deed : F!InFlight(x)' = F!InFlight(x)
  BY <1>1, <1>2, <1>6 DEF F!InFlight
<1>8. c \in F!InFlight(id)
  BY <1>1 DEF F!InFlight
<1>9. ASSUME NEW x \in Deed \ (crossed' \cup bypassed')
      PROVE  Serial(x)'
  <2>1. Serial(x)
    BY <1>3, <1>9 DEF DirectoryInv
  <2>2. CASE x # id
    <3>1. c \notin F!InFlight(x) /\ F!InFlight(x) \subseteq AssignmentID
      BY <2>2 DEF F!InFlight
    <3> QED BY <1>3, <1>6, <1>7, <2>1, <2>2, <3>1, SerialUntouched
  <2>3. CASE x = id
    <3>1. F!InFlight(x) = {c}
      BY <1>8, <2>1, <2>3 DEF Serial
    <3>2. F!RecordsOf(x)' = F!RecordsOf(x)
      BY <1>3 DEF F!RecordsOf
    <3>3. Chained(x)'
      BY <1>3, <2>1, <3>2 DEF Serial, Chained, F!Leaves
    <3>4. F!Leaves(F!RecordsOf(x), calls[c].previous)'
      BY <1>2, <1>3, <1>6, <2>1, <3>1, <3>2 DEF Serial, F!Leaves
    <3>5. calls'[c].new = profiles'[x].status /\ calls'[c].at = "record"
      BY <1>2, <1>6, <1>4, <2>1, <2>3, <3>1 DEF Serial
    <3>6. profiles'[x] # None
      BY <1>2, <1>6, <2>3, AccessAssumption DEF F!DirectoryAssumption
    <3> QED BY <1>7, <3>1, <3>3, <3>4, <3>5, <3>6 DEF Serial
  <2> QED BY <2>2, <2>3
<1> QED BY <1>5, <1>9 DEF DirectoryInv

\* The record is appended: the history now ends where the profile is.
LEMMA AppendRecordStep ==
    ASSUME DirectoryInv, NEW c \in AssignmentID, F!AppendRecord(c)
    PROVE  DirectoryInv'
<1> DEFINE id == calls[c].id
           e == [id |-> calls[c].id, previous |-> calls[c].previous, new |-> calls[c].new]
           n == Len(changes) + 1
<1>0. F!TypeOK
  BY DEF DirectoryInv
<1>1. calls[c].at = "record"
  BY DEF F!AppendRecord
<1>2. calls[c] \in F!Recording /\ calls[c] # F!Idle
  BY <1>0, <1>1, CallKinds DEF F!Idle
<1>3. /\ id \in Deed /\ e \in F!ResolutionRecord /\ e.id = id
      /\ e.previous = calls[c].previous /\ e.new = calls[c].new
  BY <1>2 DEF F!Recording, F!ResolutionRecord
<1>4. /\ changes' = Append(changes, e)
      /\ calls' = [calls EXCEPT ![c] = F!Idle]
      /\ UNCHANGED <<profiles, begun, crossed, bypassed>>
  BY DEF F!AppendRecord
<1> HIDE DEF e
<1>5. F!TypeOK'
  BY <1>0, <1>3, <1>4 DEF F!TypeOK
<1>6. /\ Len(changes') = n /\ Len(changes) \in Nat /\ changes'[n] = e
      /\ \A i \in 1 .. Len(changes) : changes'[i] = changes[i]
  BY <1>0, <1>3, <1>4 DEF F!TypeOK
<1>7. 1 .. Len(changes') = (1 .. Len(changes)) \cup {n}
  BY <1>6
<1>8. /\ \A x \in Deed : /\ F!RecordsOf(x)' = IF x = id THEN F!RecordsOf(x) \cup {n}
                                              ELSE F!RecordsOf(x)
                         /\ F!RecordsOf(x) \subseteq 1 .. Len(changes)
  BY <1>3, <1>6, <1>7 DEF F!RecordsOf
<1>9. \A d \in AssignmentID : calls'[d] = IF d = c THEN F!Idle ELSE calls[d]
  BY <1>0, <1>4 DEF F!TypeOK
<1>10. \A x \in Deed : F!InFlight(x)' = IF x = id THEN F!InFlight(x) \ {c} ELSE F!InFlight(x)
  BY <1>2, <1>9 DEF F!InFlight
<1>11. c \in F!InFlight(id) /\ \A x \in Deed : x # id => c \notin F!InFlight(x)
  BY <1>2 DEF F!InFlight
<1>12. ASSUME NEW places \in SUBSET (1 .. Len(changes)), NEW status
       PROVE  F!Leaves(places, status) <=>
                 IF places = {} THEN status = None
                 ELSE \E i \in places : (\A j \in places : j <= i) /\ changes'[i].new = status
  BY <1>6 DEF F!Leaves
<1>13. ASSUME NEW x \in Deed \ (crossed' \cup bypassed')
       PROVE  Serial(x)'
  <2>1. Serial(x)
    BY <1>4, <1>13 DEF DirectoryInv
  <2>2. CASE x # id
    <3>1. F!RecordsOf(x)' = F!RecordsOf(x) /\ F!RecordsOf(x) \subseteq 1 .. Len(changes)
      BY <1>8, <2>2
    <3>2. \A i \in F!RecordsOf(x) : {j \in F!RecordsOf(x) : j < i} \subseteq 1 .. Len(changes)
      BY <3>1
    <3>3. Chained(x)'
      BY <1>6, <1>12, <2>1, <3>1, <3>2 DEF Serial, Chained, F!Leaves
    <3>4. F!InFlight(x)' = F!InFlight(x) /\ c \notin F!InFlight(x)
          /\ F!InFlight(x) \subseteq AssignmentID
      BY <1>10, <1>11, <2>2 DEF F!InFlight
    <3>5. \A d \in F!InFlight(x) : calls'[d] = calls[d]
      BY <1>9, <3>4
    <3>6. ASSUME NEW d \in F!InFlight(x)
          PROVE  F!Leaves(F!RecordsOf(x), calls[d].previous)'
      <4>1. PICK places \in SUBSET (1 .. Len(changes)) : places = F!RecordsOf(x)
        BY <3>1
      <4>2. PICK status : status = calls[d].previous
        OBVIOUS
      <4>3. F!Leaves(places, status)
        BY <2>1, <3>6, <4>1, <4>2 DEF Serial
      <4>4. IF places = {} THEN status = None
            ELSE \E i \in places : (\A j \in places : j <= i) /\ changes'[i].new = status
        BY <1>12, <4>3
      <4>5. places = F!RecordsOf(x)' /\ status = calls'[d].previous
        BY <3>1, <3>5, <3>6, <4>1, <4>2
      <4> QED BY <4>4, <4>5 DEF F!Leaves
    <3>7. profiles'[x] # None /\ F!InFlight(x)' = {} =>
             F!Leaves(F!RecordsOf(x), profiles[x].status)'
      BY <1>4, <1>12, <2>1, <3>1, <3>4 DEF Serial, F!Leaves
    <3> QED BY <1>4, <2>1, <3>1, <3>3, <3>4, <3>5, <3>6, <3>7 DEF Serial
  <2>3. CASE x = id
    <3>1. F!InFlight(x) = {c} /\ F!InFlight(x)' = {} /\ profiles'[x] # None
      BY <1>4, <1>10, <1>11, <2>1, <2>3 DEF Serial
    <3>2. F!RecordsOf(x)' = F!RecordsOf(x) \cup {n} /\ F!RecordsOf(x) \subseteq 1 .. Len(changes)
      BY <1>8, <2>3
    <3>3. F!Leaves(F!RecordsOf(x), e.previous) /\ e.new = profiles[x].status
      BY <1>3, <1>1, <2>1, <3>1 DEF Serial
    <3>4. ASSUME NEW i \in F!RecordsOf(x)'
          PROVE  F!Leaves({j \in F!RecordsOf(x) : j < i}, changes[i].previous)'
      <4>1. CASE i = n
        <5>1. {j \in F!RecordsOf(x)' : j < i} = F!RecordsOf(x)
          BY <1>6, <3>2, <4>1
        <5> QED BY <1>6, <1>12, <3>2, <3>3, <4>1, <5>1 DEF F!Leaves
      <4>2. CASE i \in F!RecordsOf(x)
        <5>1. {j \in F!RecordsOf(x)' : j < i} = {j \in F!RecordsOf(x) : j < i}
          BY <1>6, <3>2, <4>2
        <5>2. F!Leaves({j \in F!RecordsOf(x) : j < i}, changes[i].previous)
          BY <2>1, <4>2 DEF Serial, Chained
        <5>3. {j \in F!RecordsOf(x) : j < i} \subseteq 1 .. Len(changes)
              /\ changes'[i] = changes[i]
          BY <1>6, <3>2, <4>2
        <5>4. PICK places \in SUBSET (1 .. Len(changes)) : places = {j \in F!RecordsOf(x) : j < i}
          BY <5>3
        <5>5. PICK status : status = changes[i].previous
          OBVIOUS
        <5>6. IF places = {} THEN status = None
              ELSE \E k \in places : (\A j \in places : j <= k) /\ changes'[k].new = status
          BY <1>12, <5>2, <5>4, <5>5
        <5>7. places = {j \in F!RecordsOf(x)' : j < i} /\ status = changes'[i].previous
          BY <5>1, <5>3, <5>4, <5>5
        <5> QED BY <5>6, <5>7 DEF F!Leaves
      <4> QED BY <3>2, <4>1, <4>2
    <3>5. Chained(x)'
      BY <3>4 DEF Chained
    <3>6. F!Leaves(F!RecordsOf(x), profiles[x].status)'
      <4>1. n \in F!RecordsOf(x)' /\ \A j \in F!RecordsOf(x)' : j <= n
        BY <1>6, <3>2
      <4> QED BY <1>4, <1>6, <3>3, <4>1 DEF F!Leaves
    <3> QED BY <3>1, <3>5, <3>6 DEF Serial
  <2> QED BY <2>2, <2>3
<1> QED BY <1>5, <1>13 DEF DirectoryInv

\* Each step of the resolver or the registry keeps the invariant.
LEMMA DirectoryStep == DirectoryInv /\ [F!Next]_(F!vars) => DirectoryInv'
<1> SUFFICES ASSUME DirectoryInv, [F!Next]_(F!vars) PROVE DirectoryInv'
  OBVIOUS
<1>0. F!TypeOK
  BY DEF DirectoryInv
<1>1. ASSUME NEW id \in Deed, F!DeactivateProfile(id)
      PROVE  DirectoryInv'
  <2>1. profiles[id] \in F!Profile
    BY <1>0, <1>1 DEF F!TypeOK, F!DeactivateProfile
  <2>2. F!Deactivate(profiles[id]) \in F!Profile
    BY <2>1 DEF F!Profile, F!Deactivate, F!ProfileStatus
  <2>3. /\ profiles' = [profiles EXCEPT ![id] = F!Deactivate(profiles[id])]
        /\ bypassed' = bypassed \cup {id} /\ UNCHANGED <<changes, calls, begun, crossed>>
    BY <1>1 DEF F!DeactivateProfile
  <2>4. F!TypeOK'
    BY <1>0, <2>2, <2>3 DEF F!TypeOK
  <2>5. ASSUME NEW x \in Deed \ (crossed' \cup bypassed')
        PROVE  Serial(x)'
    <3>1. Serial(x) /\ profiles'[x] = profiles[x] /\ F!InFlight(x)' = F!InFlight(x)
      BY <1>0, <2>3, <2>5 DEF DirectoryInv, F!TypeOK, F!InFlight
    <3> QED BY <2>3, <3>1, SerialUntouched
  <2> QED BY <2>4, <2>5 DEF DirectoryInv
<1>2. CASE UNCHANGED F!vars
  <2>1. UNCHANGED <<profiles, changes, calls, begun, crossed, bypassed>>
    BY <1>2 DEF F!vars, F!observers
  <2>2. ASSUME NEW x \in Deed \ (crossed' \cup bypassed')
        PROVE  Serial(x)'
    <3>1. Serial(x) /\ F!InFlight(x)' = F!InFlight(x)
      BY <2>1, <2>2 DEF DirectoryInv, F!InFlight
    <3> QED BY <2>1, <3>1, SerialUntouched
  <2> QED BY <1>0, <2>1, <2>2 DEF DirectoryInv, F!TypeOK
<1> QED BY <1>1, <1>2, ResolverBegins, WriteStep, AppendRecordStep DEF F!Next

\* What a search finds can be opened and what can be opened is listed: each way of looking
\* holds the viewer to no less than the next.
LEMMA LookingIsNested == F!TypeOK => F!VisibilityNested
<1> SUFFICES ASSUME F!TypeOK, NEW v \in Viewer
             PROVE  /\ \A f \in Filter : F!SearchDirectory(v, f) \subseteq F!GetVisibleProfile(v)
                    /\ F!GetVisibleProfile(v)
                         \subseteq UNION {F!ListVisibleProfilesBySubject(v, s) : s \in Subject}
                    /\ \A id \in UNION {F!ListVisibleProfilesBySubject(v, s) : s \in Subject},
                          l \in {"company", "project"} :
                          F!Held(v, l) \in {Blank, profiles[id].post[l]}
  BY DEF F!VisibilityNested
<1>1. ASSUME NEW f \in Filter, NEW id \in F!SearchDirectory(v, f)
      PROVE  id \in F!GetVisibleProfile(v)
  <2>1. /\ id \in Deed /\ profiles[id] # None
        /\ F!IsActive(profiles[id]) \/ F!SeesInactive(v)
        /\ \A l \in {"company", "project", "site"} :
              \E q \in F!Query(F!Held(v, l), f[l]) : q \in {Blank, profiles[id].post[l]}
    BY <1>1 DEF F!SearchDirectory
  <2>2. ASSUME NEW l \in {"company", "project", "site"}
        PROVE  F!Held(v, l) = Blank \/ F!Held(v, l) = profiles[id].post[l]
    <3>1. PICK q \in F!Query(F!Held(v, l), f[l]) : q \in {Blank, profiles[id].post[l]}
      BY <2>1
    <3>2. F!Held(v, l) # Blank => q = F!Held(v, l)
      BY <3>1 DEF F!Query
    <3> QED BY <3>1, <3>2
  <2> QED BY <2>1, <2>2 DEF F!GetVisibleProfile
<1>2. ASSUME NEW id \in F!GetVisibleProfile(v)
      PROVE  id \in UNION {F!ListVisibleProfilesBySubject(v, s) : s \in Subject}
  <2>1. id \in Deed /\ profiles[id] \in F!Profile
    BY <1>2 DEF F!GetVisibleProfile, F!TypeOK
  <2>2. profiles[id].subject \in Subject
    BY <2>1 DEF F!Profile
  <2>3. id \in F!ListVisibleProfilesBySubject(v, profiles[id].subject)
    BY <1>2 DEF F!GetVisibleProfile, F!ListVisibleProfilesBySubject
  <2> QED BY <2>2, <2>3
<1>3. ASSUME NEW id \in UNION {F!ListVisibleProfilesBySubject(v, s) : s \in Subject},
             NEW l \in {"company", "project"}
      PROVE  F!Held(v, l) \in {Blank, profiles[id].post[l]}
  BY <1>3 DEF F!ListVisibleProfilesBySubject
<1> QED BY <1>1, <1>2, <1>3

\* For all profiles, posts, viewers, filters and overlapping calls: the three ways to look
\* agree, and a history without overlap replays to its profile.
THEOREM VisibilityNestedHolds == Spec => []VisibilityNested
<1> DEFINE Inv == focus = "directory" => DirectoryInv
<1>1. Init => Inv
  BY DirectoryInitially DEF Init
<1>2. Inv /\ [Next]_vars => Inv'
  <2> SUFFICES ASSUME Inv, [Next]_vars, focus' = "directory" PROVE DirectoryInv'
    OBVIOUS
  <2>1. focus = "directory" /\ [F!Next]_(F!vars)
    BY DEF Next, vars, Sessions, Conditions, Assignments, Delegations, Participation,
       Directory, Scans, Externals, fOnly, F!vars, F!observers
  <2> QED BY <2>1, DirectoryStep
<1>3. Inv => VisibilityNested
  <2>1. DirectoryInv => F!SerialHistoryReplays
    BY DEF DirectoryInv, Serial, Chained, F!SerialHistoryReplays
  <2> QED BY <2>1, LookingIsNested DEF VisibilityNested, DirectoryInv
<1> QED BY <1>1, <1>2, <1>3, PTL DEF Spec
=============================================================================
