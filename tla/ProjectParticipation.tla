------------------------ MODULE ProjectParticipation ------------------------
(***************************************************************************)
(* Participation of subjects in projects, and the attribution of what they *)
(* did: modules/identity-authorization/multi_project_participation.go.     *)
(*                                                                         *)
(* The registry keeps one record per subject and project and replaces it   *)
(* when the subject is assigned again.  Access is decided over a fresh     *)
(* evaluator in which the caller is a member and no entitlement is set.    *)
(***************************************************************************)
EXTENDS AccessPolicy

CONSTANTS
    Project,
    Within,       \* [company, site, area, object]: what confines one inside its project
    Engagement,   \* participation IDs
    GivenRole,    \* the roles given, a subset of Role
    Period,       \* pairs <<validFrom, validTo>>
    None,         \* no participation
    Deed,         \* record IDs of attributions
    Moment        \* the days on which something happens, 0 among them

VARIABLES
    participations,  \* [Tenant \X Subject \X Project -> ProjectParticipation or None]
    attributions,    \* AttributionLedger.records, by tenant and record ID
    ended,           \* observer: IDs of the participations deactivated so far
    now

vars == <<participations, attributions, ended, now>>

Key == Tenant \X Subject \X Project

ProjectParticipationRecord ==
    [id : Engagement, role : GivenRole, contractor : BOOLEAN, within : Within,
     from : Nat, to : Nat, status : {"ACTIVE", "DEACTIVATED"}]

ParticipationAssumption ==
    /\ GivenRole \subseteq Role
    /\ \A c \in Within : DOMAIN c = {"company", "site", "area", "object"}
    /\ \A w \in Period : w \in Nat \X Nat
    /\ \A g \in Target : g.project \in Project \cup {Blank}
    /\ 0 \in Moment

TypeOK ==
    /\ participations \in [Key -> ProjectParticipationRecord \cup {None}]
    /\ attributions \in [Tenant \X Deed -> Key \cup {None}]
    /\ ended \subseteq Engagement
    /\ now \in Moment

Init ==
    /\ participations = [k \in Key |-> None]
    /\ attributions = [d \in Tenant \X Deed |-> None]
    /\ ended = {}
    /\ now = 0

-----------------------------------------------------------------------------
\* Deliberate faults, used only to show that the properties can fail.
Usable_Window(p) == p.from <= now /\ now <= p.to
-----------------------------------------------------------------------------

\* NewProjectParticipation keeps contractors out of administration.
Bounded(role, contractor) ==
    contractor \/ role = "CONTRACTOR" => role \notin {"TENANT_ADMIN", "PROJECT_MANAGER"}

\* The scope is the project, narrowed as the caller asks; an active record is not
\* replaced, however long its window has been over.
AssignParticipation(k, id, role, contractor, within, w) ==
    /\ w[1] < w[2]
    /\ Bounded(role, contractor)
    /\ ~(participations[k] # None /\ participations[k].status = "ACTIVE")
    /\ participations' = [participations EXCEPT ![k] =
          [id |-> id, role |-> role, contractor |-> contractor, within |-> within,
           from |-> w[1], to |-> w[2], status |-> "ACTIVE"]]
    /\ UNCHANGED <<attributions, ended, now>>

Deactivate(p) == [p EXCEPT !.status = "DEACTIVATED"]

DeactivateParticipation(k) ==
    /\ participations[k] # None
    /\ participations[k].status # "DEACTIVATED"
    /\ participations' = [participations EXCEPT ![k] = Deactivate(@)]
    /\ ended' = ended \cup {participations[k].id}
    /\ UNCHANGED <<attributions, now>>

Usable(p) == p.status = "ACTIVE" /\ p.from <= now /\ now <= p.to

\* EvaluateMultiProjectAccess.
EvaluateMultiProjectAccess(req) ==
    LET k == <<req.tenant, req.subject, req.target.project>>
        p == participations[k]
        mutates == {"CREATE", "UPDATE", "DELETE"}
        scope == [l \in Level \cup {"object"} |->
                    CASE l = "tenant" -> req.tenant
                      [] l = "project" -> req.target.project
                      [] OTHER -> p.within[l]]
    IN  IF /\ req.target.tenant \in {Blank, req.tenant}
           /\ req.target.project # Blank
           /\ p # None
           /\ Usable(p)
           /\ ~(req.target.archived /\ req.action \in {"UPDATE", "DELETE"})
           /\ ~(p.role = "AUDITOR" /\ req.action \in mutates)
           /\ ~((p.contractor \/ p.role = "CONTRACTOR") /\ req.action = "DELETE")
           /\ \A l \in {"site", "object"} :
                 Blank \in {p.within[l], req.target[l]} \/ p.within[l] = req.target[l]
        THEN Evaluate(req, TRUE, FALSE, {Grant(req.tenant, req.subject, p.role, scope)})
        ELSE {"DENY"}

\* The ledger takes any record with a new ID; nothing ties it to a participation.
RecordAttribution(t, id, k) ==
    /\ attributions[<<t, id>>] = None
    /\ attributions' = [attributions EXCEPT ![<<t, id>>] = k]
    /\ UNCHANGED <<participations, ended, now>>

Tick == now' \in {t \in Moment : t > now} /\ UNCHANGED <<participations, attributions, ended>>

Next ==
    \/ \E k \in Key, id \in Engagement, role \in GivenRole, contractor \in BOOLEAN,
          within \in Within, w \in Period :
          /\ id \notin ended
          /\ \A j \in Key : participations[j] # None => participations[j].id # id
          /\ AssignParticipation(k, id, role, contractor, within, w)
    \/ \E k \in Key : DeactivateParticipation(k)
    \/ \E t \in Tenant, id \in Deed, k \in Key : k[1] = t /\ RecordAttribution(t, id, k)
    \/ Tick

Spec == Init /\ [][Next]_vars

-----------------------------------------------------------------------------
\* What a participation opens is its own project: access to a project rests on a
\* participation in that very project that was never deactivated and is confined to no
\* other company, site, area or object, contractors neither delete nor administer, and
\* auditors change nothing.
AccessStaysInProject ==
    \A req \in Request :
        "ALLOW" \in EvaluateMultiProjectAccess(req) =>
            LET p == participations[<<req.tenant, req.subject, req.target.project>>]
            IN  /\ p.id \notin ended
                /\ p.contractor => req.action # "DELETE"
                                   /\ p.role \notin {"TENANT_ADMIN", "PROJECT_MANAGER"}
                /\ p.role = "AUDITOR" => req.action \in {"READ", "EXPORT"}
                /\ \A l \in {"company", "site", "area", "object"} :
                      p.within[l] \in {Blank, req.target[l]}
=============================================================================
