-------------------------- MODULE AccessConditions --------------------------
(***************************************************************************)
(* Conditions of external access: sponsor, window, renewals and the        *)
(* generation that makes sessions stale.                                   *)
(* modules/identity-authorization/access_condition.go.                     *)
(*                                                                         *)
(* Times are days.  A session token carries the generation its holder read *)
(* with GetCondition.  Nothing in the package suspends a condition.        *)
(***************************************************************************)
EXTENDS Naturals, Sequences, FiniteSets

CONSTANTS
    Condition,    \* tenant and condition ID
    Sponsor,
    Session,
    Span,         \* pairs <<validFrom, validTo>> asked for
    Extension,    \* extensions asked for
    None,         \* no condition
    Moment,       \* the days on which something happens, 0 among them
    MaxLedger     \* bound on the ledger

VARIABLES
    conditions,   \* AccessConditionRegistry.conditions
    history,      \* AccessConditionLedger.records
    tokens,       \* [Session -> generation and ledger length when read, or None]
    now

vars == <<conditions, history, tokens, now>>

MaxExternalAccessDuration == 14
MaxRenewalExtension == 7

AccessConditionRecord ==
    [sponsor : Sponsor, from : Nat, to : Nat, status : {"ACTIVE", "REVOKED"},
     generation : Nat, renewals : Nat]

AccessConditionAuditRecord ==
    [condition : Condition, generation : Nat, at : Moment,
     transition : {"CONDITION_CREATED", "SPONSOR_CHANGED", "ACCESS_RENEWED",
                   "ACCESS_DEACTIVATED"}]

ConditionAssumption ==
    /\ 0 \in Moment /\ Moment \subseteq Nat
    /\ Extension \subseteq Nat
    /\ \A span \in Span : span \in Nat \X Nat
    /\ None \notin AccessConditionRecord

TypeOK ==
    /\ conditions \in [Condition -> AccessConditionRecord \cup {None}]
    /\ history \in Seq(AccessConditionAuditRecord)
    /\ tokens \in [Session -> [condition : Condition, generation : Nat, since : Nat] \cup {None}]
    /\ now \in Moment

Init ==
    /\ conditions = [c \in Condition |-> None]
    /\ history = <<>>
    /\ tokens = [s \in Session |-> None]
    /\ now = 0

-----------------------------------------------------------------------------
\* Deliberate faults, used only to show that the properties can fail.
Renewed_SameGeneration(r, extension) ==
    [r EXCEPT !.to = @ + extension, !.status = "ACTIVE", !.renewals = @ + 1]
WithinCap_Any(extension) == extension > 0
-----------------------------------------------------------------------------

\* Stores the record and appends its audit entry.
Save(c, r, transition) ==
    /\ Len(history) < MaxLedger
    /\ conditions' = [conditions EXCEPT ![c] = r]
    /\ history' = Append(history, [condition |-> c, generation |-> r.generation, at |-> now,
                                   transition |-> transition])
    /\ UNCHANGED <<tokens, now>>

\* The window NewAccessConditionRecord accepts.
Acceptable(span) == span[1] < span[2] /\ span[2] - span[1] <= MaxExternalAccessDuration

CreateCondition(c, sponsor, span) ==
    /\ Acceptable(span)
    /\ conditions[c] = None
    /\ Save(c, [sponsor |-> sponsor, from |-> span[1], to |-> span[2], status |-> "ACTIVE",
                generation |-> 1, renewals |-> 0], "CONDITION_CREATED")

IsValidAt(c, t) ==
    /\ conditions[c].status = "ACTIVE"
    /\ conditions[c].from <= t /\ t <= conditions[c].to

ChangeSponsor(c, sponsor) ==
    /\ conditions[c] # None
    /\ IsValidAt(c, now)
    /\ sponsor # conditions[c].sponsor
    /\ Save(c, [conditions[c] EXCEPT !.sponsor = sponsor, !.generation = @ + 1],
            "SPONSOR_CHANGED")

WithinCap(extension) == extension > 0 /\ extension <= MaxRenewalExtension

Renewed(r, extension) ==
    [r EXCEPT !.to = @ + extension, !.status = "ACTIVE", !.generation = @ + 1,
              !.renewals = @ + 1]

\* The window may have closed already.
RenewAccess(c, extension) ==
    /\ conditions[c] # None
    /\ conditions[c].status # "REVOKED"
    /\ WithinCap(extension)
    /\ Save(c, Renewed(conditions[c], extension), "ACCESS_RENEWED")

DeactivateAccess(c) ==
    /\ conditions[c] # None
    /\ conditions[c].status # "REVOKED"
    /\ Save(c, [conditions[c] EXCEPT !.status = "REVOKED", !.generation = @ + 1],
            "ACCESS_DEACTIVATED")

\* A session token is made under the generation GetCondition shows.
GetCondition(s, c) ==
    /\ conditions[c] # None
    /\ tokens' = [tokens EXCEPT ![s] = [condition |-> c, generation |-> conditions[c].generation,
                                        since |-> Len(history)]]
    /\ UNCHANGED <<conditions, history, now>>

\* EvaluateConditionAccess allows, for a target in the condition's scope.
EvaluateConditionAccess(c, generation) ==
    /\ conditions[c] # None
    /\ IsValidAt(c, now)
    /\ generation >= conditions[c].generation

Tick == now' \in {t \in Moment : t > now} /\ UNCHANGED <<conditions, history, tokens>>

Next ==
    \/ \E c \in Condition, p \in Sponsor, span \in Span : CreateCondition(c, p, span)
    \/ \E c \in Condition, p \in Sponsor : ChangeSponsor(c, p)
    \/ \E c \in Condition, e \in Extension : RenewAccess(c, e)
    \/ \E c \in Condition : DeactivateAccess(c)
    \/ \E s \in Session, c \in Condition : GetCondition(s, c)
    \/ Tick

Spec == Init /\ [][Next]_vars

-----------------------------------------------------------------------------
EntriesOf(c, from) == {i \in from .. Len(history) : history[i].condition = c}
Renewals(c) == {i \in EntriesOf(c, 1) : history[i].transition = "ACCESS_RENEWED"}
Endings(c) == {i \in EntriesOf(c, 1) : history[i].transition = "ACCESS_DEACTIVATED"}

\* A session works only as long as nothing happened to its condition since the token
\* was made: every change of sponsor, renewal and deactivation makes it stale, and a
\* later renewal does not bring it back.
StaleAfterChange ==
    \A s \in Session : tokens[s] # None =>
        LET k == tokens[s] IN
            EvaluateConditionAccess(k.condition, k.generation)
                => EntriesOf(k.condition, k.since + 1) = {}

\* A condition reaches as far as its ledger accounts for: fourteen days and seven for
\* each renewal entered, and a deactivation entered is final.
WindowAccounted ==
    \A c \in Condition : conditions[c] # None =>
        /\ conditions[c].to - conditions[c].from
              <= MaxExternalAccessDuration + Cardinality(Renewals(c)) * MaxRenewalExtension
        /\ conditions[c].status = "REVOKED" <=> Endings(c) # {}
        /\ \A i \in Endings(c), j \in EntriesOf(c, 1) : j <= i
=============================================================================
