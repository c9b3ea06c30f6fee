----------------------- MODULE OrganizationHierarchy -----------------------
(***************************************************************************)
(* The tree of companies, business units, projects, sites and areas:       *)
(* modules/organization-tenancy/organization_hierarchy.go and              *)
(* organization_lifecycle.go.                                              *)
(*                                                                         *)
(* The package works on values and keeps no state: entities is what its    *)
(* caller holds.  An entity carries a copy of the scope above it, taken    *)
(* when it is attached; Blank is an empty field.  Callers capture the      *)
(* scope after every registration and every change, as the tests do.       *)
(* Names, time zones, locales and the window of a sponsored party are left *)
(* out.                                                                    *)
(***************************************************************************)
EXTENDS Naturals, Sequences

CONSTANTS
    Tenant,
    CompanyID, BusinessUnitID, ProjectID, SiteID, AreaID, PartyID,
    Blank,        \* an empty scope field
    None,         \* no entity
    MaxHistory    \* bound on the captured scopes

VARIABLES
    entities,     \* [ID -> entity or None]
    history       \* the HistoricalScopeRecords captured, oldest first

vars == <<entities, history>>

ID == CompanyID \cup BusinessUnitID \cup ProjectID \cup SiteID \cup AreaID \cup PartyID
LifecycleState == {"ACTIVE", "CLOSED", "ARCHIVED"}

Entity ==
    [tenant : Tenant, company : CompanyID \cup {Blank}, unit : BusinessUnitID \cup {Blank},
     project : ProjectID \cup {Blank}, site : SiteID \cup {Blank}, state : LifecycleState]
HistoricalScopeRecord == [id : ID, entity : Entity]

\* The IDs of each kind of entity are a type of their own.
Upper == CompanyID \cup BusinessUnitID \cup ProjectID
HierarchyAssumption ==
    /\ \A c \in CompanyID : c \notin BusinessUnitID \cup ProjectID
    /\ \A u \in BusinessUnitID : u \notin ProjectID
    /\ \A e \in SiteID \cup AreaID \cup PartyID : e \notin Upper
    /\ \A s \in SiteID : s \notin AreaID \cup PartyID
    /\ \A a \in AreaID : a \notin PartyID
    /\ Blank \notin ID
    /\ None \notin Entity

TypeOK ==
    /\ entities \in [ID -> Entity \cup {None}]
    /\ history \in Seq(HistoricalScopeRecord)

Init == entities = [id \in ID |-> None] /\ history = <<>>

-----------------------------------------------------------------------------
\* Deliberate faults, used only to show that the properties can fail.
ScopeOfProject_NoUnit(p) ==
    [tenant |-> entities[p].tenant, company |-> entities[p].company, unit |-> Blank,
     project |-> p, site |-> Blank, state |-> "ACTIVE"]
Movable_Any(e, destination) == entities[e].tenant = entities[destination].tenant
-----------------------------------------------------------------------------

IsActive(e) == entities[e] # None /\ entities[e].state = "ACTIVE"

\* The caller keeps the new value of e and captures its scope.
Keep(e, value) ==
    /\ Len(history) < MaxHistory
    /\ entities' = [entities EXCEPT ![e] = value]
    /\ history' = Append(history, [id |-> e, entity |-> value])

Fresh(e, value) == entities[e] = None /\ Keep(e, value)

\* What a child of a company, unit, project or site starts with.
ScopeOfCompany(c) ==
    [tenant |-> entities[c].tenant, company |-> c, unit |-> Blank, project |-> Blank,
     site |-> Blank, state |-> "ACTIVE"]
ScopeOfUnit(u) == [ScopeOfCompany(entities[u].company) EXCEPT !.unit = u]
ScopeOfProject(p) ==
    [tenant |-> entities[p].tenant, company |-> entities[p].company, unit |-> entities[p].unit,
     project |-> p, site |-> Blank, state |-> "ACTIVE"]
ScopeOfSite(s) == [entities[s] EXCEPT !.site = s, !.state = "ACTIVE"]

NewCompany(c, t) ==
    Fresh(c, [tenant |-> t, company |-> Blank, unit |-> Blank, project |-> Blank, site |-> Blank,
              state |-> "ACTIVE"])

NewBusinessUnit(u, c) == IsActive(c) /\ Fresh(u, ScopeOfCompany(c))

NewProject(p, c) == IsActive(c) /\ Fresh(p, ScopeOfCompany(c))

NewProjectUnderBusinessUnit(p, u) == IsActive(u) /\ Fresh(p, ScopeOfUnit(u))

\* Only the project itself has to be active, not what is above it.
NewSite(s, p) == IsActive(p) /\ Fresh(s, ScopeOfProject(p))

NewArea(a, s) == IsActive(s) /\ Fresh(a, ScopeOfSite(s))

\* A sponsored party keeps the tenant, project and site only.
NewSponsoredParty(sp, s) ==
    IsActive(s) /\ Fresh(sp, [ScopeOfSite(s) EXCEPT !.company = Blank, !.unit = Blank])

Archive(e) == entities[e] # None /\ Keep(e, [entities[e] EXCEPT !.state = "ARCHIVED"])

\* Closing does not reach what lies below.
Close(e) ==
    /\ entities[e] # None
    /\ entities[e].state # "ARCHIVED"
    /\ Keep(e, [entities[e] EXCEPT !.state = "CLOSED"])

Movable(e, destination) ==
    /\ entities[e].tenant = entities[destination].tenant
    /\ IsActive(e)
    /\ IsActive(destination)

\* The areas of the site are values of their own and keep the scope they have.
MoveSiteToProject(s, p) ==
    /\ entities[s] # None /\ entities[p] # None
    /\ Movable(s, p)
    /\ Keep(s, [ScopeOfProject(p) EXCEPT !.state = entities[s].state])

MoveAreaToSite(a, s) ==
    /\ entities[a] # None /\ entities[s] # None
    /\ Movable(a, s)
    /\ Keep(a, [ScopeOfSite(s) EXCEPT !.state = entities[a].state])

Next ==
    \/ \E c \in CompanyID, t \in Tenant : NewCompany(c, t)
    \/ \E u \in BusinessUnitID, c \in CompanyID : NewBusinessUnit(u, c)
    \/ \E p \in ProjectID, c \in CompanyID : NewProject(p, c)
    \/ \E p \in ProjectID, u \in BusinessUnitID : NewProjectUnderBusinessUnit(p, u)
    \/ \E s \in SiteID, p \in ProjectID : NewSite(s, p)
    \/ \E a \in AreaID, s \in SiteID : NewArea(a, s)
    \/ \E sp \in PartyID, s \in SiteID : NewSponsoredParty(sp, s)
    \/ \E e \in ID : Archive(e) \/ Close(e)
    \/ \E s \in SiteID, p \in ProjectID : MoveSiteToProject(s, p)
    \/ \E a \in AreaID, s \in SiteID : MoveAreaToSite(a, s)

Spec == Init /\ [][Next]_vars

-----------------------------------------------------------------------------
Recorded(e) == {history[i].entity : i \in {j \in 1 .. Len(history) : history[j].id = e}}

\* However often sites and areas are moved, the copies of the scope they carry fit
\* together: project, business unit and company belong to one another and to the
\* tenant, and where an area and its site disagree the site was at the area's project
\* once, and its history says so.
LineageConsistent ==
    \A e \in SiteID \cup AreaID : entities[e] # None =>
        LET x == entities[e] IN
            /\ entities[x.project] # None
            /\ entities[x.project].tenant = x.tenant
            /\ entities[x.project].company = x.company
            /\ entities[x.project].unit = x.unit
            /\ entities[x.company].tenant = x.tenant
            /\ x.unit # Blank => entities[x.unit].company = x.company
            /\ e \in AreaID => \E s \in Recorded(x.site) : s.project = x.project

\* What may come after before: of what was archived nothing else.
Follows(before, after) ==
    /\ before.state = "ARCHIVED" => after = before
    /\ before.state = "CLOSED" => after \in {before, [before EXCEPT !.state = "ARCHIVED"]}

\* What was archived stays as it is, what was closed is at most archived, and neither
\* is moved: the history of an entity holds nothing else after such a record.
EndsForGood ==
    \A i, j \in 1 .. Len(history) :
        i < j /\ history[i].id = history[j].id =>
            Follows(history[i].entity, history[j].entity)
=============================================================================
