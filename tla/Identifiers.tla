---------------------------- MODULE Identifiers ----------------------------
(***************************************************************************)
(* Idempotency keys and external references:                               *)
(* modules/organization-tenancy/identifiers.go and its counterpart in      *)
(* packages/identifiers (idempotency.go, external_reference.go).           *)
(*                                                                         *)
(* Identifiers are opaque.  Generated resources and lookup tokens are      *)
(* drawn from sets and are never drawn twice.  Case and white space of     *)
(* external systems, and the tests for identifiers that are easy to guess, *)
(* are left out.                                                           *)
(***************************************************************************)
EXTENDS Naturals, FiniteSets

CONSTANTS
    Tenant,
    IdemKey,      \* idempotency keys
    Digest,       \* payload digests
    Resource,     \* resources createFn may make
    ExternalID,
    InternalID,
    LookupToken,
    None          \* nothing there

VARIABLES
    records,        \* IdempotencyStore.records
    made,           \* observer: [resource |-> the key it was made for]
    answered,       \* observer: pairs of a request and the resource it got
    forwardMap,     \* ExternalRefRegistry, one external system
    reverseMap,
    ledger,         \* packages/identifiers: IdempotencyLedger.records
    byExtKey,       \* packages/identifiers: ExternalReferenceRegistry
    byLookupToken

storeVars == <<records, made, answered>>
refVars == <<forwardMap, reverseMap>>
packageVars == <<ledger, byExtKey, byLookupToken>>
vars == <<storeVars, refVars, packageVars>>

Scoped == Tenant \X IdemKey

IdempotencyRecord == [digest : Digest, resource : Resource]
Reference == [internal : InternalID, token : LookupToken]
Entry == [external : ExternalID, internal : InternalID]

\* Nothing that is registered is the absent value.
IdentifiersAssumption ==
    None \notin IdempotencyRecord \cup InternalID \cup ExternalID \cup Reference \cup Entry

TypeOK ==
    /\ records \in [Scoped -> IdempotencyRecord \cup {None}]
    /\ made \in [Resource -> Scoped \cup {None}]
    /\ answered \subseteq Scoped \X Digest \X Resource
    /\ forwardMap \in [Tenant \X ExternalID -> InternalID \cup {None}]
    /\ reverseMap \in [Tenant \X InternalID -> ExternalID \cup {None}]
    /\ ledger \in [IdemKey -> Digest \cup {None}]
    /\ byExtKey \in [Tenant \X ExternalID -> Reference \cup {None}]
    /\ byLookupToken \in [Tenant \X LookupToken -> Entry \cup {None}]

Init ==
    /\ records = [k \in Scoped |-> None]
    /\ made = [r \in Resource |-> None]
    /\ answered = {}
    /\ forwardMap = [k \in Tenant \X ExternalID |-> None]
    /\ reverseMap = [k \in Tenant \X InternalID |-> None]
    /\ ledger = [k \in IdemKey |-> None]
    /\ byExtKey = [k \in Tenant \X ExternalID |-> None]
    /\ byLookupToken = [k \in Tenant \X LookupToken |-> None]

-----------------------------------------------------------------------------
\* Deliberate faults, used only to show that the properties can fail.
Kept_Lost(k, d, r) == records
Unbound_Forward(t, x, i) == forwardMap[<<t, x>>] = None
-----------------------------------------------------------------------------

Kept(k, d, r) == [records EXCEPT ![k] = [digest |-> d, resource |-> r]]

\* EvaluateOrCreate: the lock is held while createFn runs.  A replay answers with the
\* resource of the record; another payload under the key is refused.
EvaluateOrCreate(k, d) ==
    \/ /\ records[k] # None
       /\ records[k].digest = d
       /\ answered' = answered \cup {<<k, d, records[k].resource>>}
       /\ UNCHANGED <<records, made>>
    \/ /\ records[k] = None
       /\ \E r \in {x \in Resource : made[x] = None} :
             /\ made' = [made EXCEPT ![r] = k]
             /\ records' = Kept(k, d, r)
             /\ answered' = answered \cup {<<k, d, r>>}

\* createFn made its resource and then failed: nothing is recorded or answered.
CreateFails(k) ==
    /\ records[k] = None
    /\ \E r \in {x \in Resource : made[x] = None} : made' = [made EXCEPT ![r] = k]
    /\ UNCHANGED <<records, answered>>

Unbound(t, x, i) == forwardMap[<<t, x>>] = None /\ reverseMap[<<t, i>>] \in {None, x}

\* Registering the same pair again changes nothing.
RegisterExternalRef(t, x, i) ==
    /\ Unbound(t, x, i)
    /\ forwardMap' = [forwardMap EXCEPT ![<<t, x>>] = i]
    /\ reverseMap' = [reverseMap EXCEPT ![<<t, i>>] = x]

\* IdempotencyLedger.CheckOrRecord on first use; keys are not scoped by tenant.
CheckOrRecord(k, d) ==
    /\ ledger[k] = None
    /\ ledger' = [ledger EXCEPT ![k] = d]
    /\ UNCHANGED <<byExtKey, byLookupToken>>

\* ExternalReferenceRegistry.Register; several external IDs may name one internal ID.
RegisterOpaque(t, x, i) ==
    /\ byExtKey[<<t, x>>] = None
    /\ \E token \in LookupToken :
          /\ \A u \in Tenant : byLookupToken[<<u, token>>] = None
          /\ byExtKey' = [byExtKey EXCEPT ![<<t, x>>] = [internal |-> i, token |-> token]]
          /\ byLookupToken' =
                [byLookupToken EXCEPT ![<<t, token>>] = [external |-> x, internal |-> i]]
    /\ UNCHANGED ledger

Next ==
    \/ \E k \in Scoped, d \in Digest : EvaluateOrCreate(k, d) /\ UNCHANGED <<refVars, packageVars>>
    \/ \E k \in Scoped : CreateFails(k) /\ UNCHANGED <<refVars, packageVars>>
    \/ \E t \in Tenant, x \in ExternalID, i \in InternalID :
          RegisterExternalRef(t, x, i) /\ UNCHANGED <<storeVars, packageVars>>
    \/ \E k \in IdemKey, d \in Digest : CheckOrRecord(k, d) /\ UNCHANGED <<storeVars, refVars>>
    \/ \E t \in Tenant, x \in ExternalID, i \in InternalID :
          RegisterOpaque(t, x, i) /\ UNCHANGED <<storeVars, refVars>>

Spec == Init /\ [][Next]_vars

-----------------------------------------------------------------------------
\* A retried request gets one resource: all answers under a key name the same resource
\* and payload, whatever was retried, refused or failed in between.
OneAnswerPerKey ==
    \A a, b \in answered : a[1] = b[1] => a = b

\* Every answer given is the one still on record under its key.
AnswersRecorded ==
    \A a \in answered :
        /\ records[a[1]] # None
        /\ a[2] = records[a[1]].digest
        /\ a[3] = records[a[1]].resource

\* References can be followed both ways: the two maps of either registry invert one
\* another, so that no external ID leads to an entity that another ID claims.
RefsInvert ==
    \A t \in Tenant :
        /\ \A x \in ExternalID, i \in InternalID :
              forwardMap[<<t, x>>] = i <=> reverseMap[<<t, i>>] = x
        /\ \A x \in ExternalID, token \in LookupToken :
              byExtKey[<<t, x>>] # None /\ byExtKey[<<t, x>>].token = token
                <=> byLookupToken[<<t, token>>] # None
                    /\ byLookupToken[<<t, token>>].external = x
=============================================================================
