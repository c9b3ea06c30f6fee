--------------------------- MODULE PartyRegistry ---------------------------
(***************************************************************************)
(* External parties, their participation in projects and its lifecycle:    *)
(* modules/organization-tenancy/party.go and party_lifecycle.go.           *)
(*                                                                         *)
(* The registry stores a value once and has no way to replace it; the      *)
(* lifecycle functions take any copy of it and return a new value and a    *)
(* record, which the caller appends to the ledger.  So parties and         *)
(* participations are what was registered, copies every value made since,  *)
(* the registered one among them, and current and standing the newest.     *)
(* Some functions change the state and make no record.  The ledger is read *)
(* one participation at a time and is kept that way here.  Party types,    *)
(* roles, the party records and the audit fields of records are left out.  *)
(***************************************************************************)
EXTENDS Naturals, Sequences, FiniteSetsExt

CONSTANTS
    Tenant,
    PartyID, ParticipationID, Project, Site, Sponsor,
    Window,       \* pairs <<validFrom, validTo>>
    Blank,        \* no site, no parent
    None,         \* not registered
    Moment,       \* the days on which something happens, 0 among them
    MaxEvents     \* bound on registrations and changes

VARIABLES
    parties,        \* registered parties
    participations, \* [Key -> participation as registered or None]
    standing,       \* [Tenant \X PartyID -> LifecycleState]
    copies,         \* [Key -> set of holdings]
    current,        \* [Key -> holding]
    projects,       \* [Tenant \X Project -> LifecycleState]
    partRecords,    \* [Key -> records of GetParticipationHistory]
    sponsorRecords, \* [Key -> records of GetSponsorHistory]
    cascaded,       \* observer: participations a cascade was run over
    branched,       \* observer: participations changed in another copy than the newest
    unrecorded,     \* observer: participations whose state changed without a record
    now

heldVars == <<copies, current, branched>>
ledgerVars == <<partRecords, sponsorRecords>>
vars == <<parties, participations, standing, heldVars, projects, ledgerVars, cascaded,
          unrecorded, now>>

Key == Tenant \X ParticipationID
LifecycleState == {"ACTIVE", "CLOSED", "ARCHIVED"}

Participation ==
    [party : PartyID, project : Project, site : Site \cup {Blank}, sponsor : Sponsor,
     from : Nat, to : Nat, parent : ParticipationID \cup {Blank}, depth : Nat]
Holding == [state : LifecycleState, sponsor : Sponsor]
PartRecord == [previous : LifecycleState, new : LifecycleState, cascade : BOOLEAN]
SponsorRecord == [prior : Sponsor, new : Sponsor]

PartyAssumption ==
    0 \in Moment /\ None \notin Participation /\ \A w \in Window : w \in Nat \X Nat

TypeOK ==
    /\ parties \subseteq Tenant \X PartyID
    /\ participations \in [Key -> Participation \cup {None}]
    /\ standing \in [Tenant \X PartyID -> LifecycleState]
    /\ copies \in [Key -> SUBSET Holding]
    /\ DOMAIN current = Key
    /\ \A k \in Key : participations[k] # None => current[k] \in copies[k]
    /\ projects \in [Tenant \X Project -> LifecycleState]
    /\ partRecords \in [Key -> Seq(PartRecord)]
    /\ sponsorRecords \in [Key -> Seq(SponsorRecord)]
    /\ cascaded \subseteq Key /\ branched \subseteq Key /\ unrecorded \subseteq Key
    /\ now \in Moment

Init ==
    /\ parties = {}
    /\ participations = [k \in Key |-> None]
    /\ standing = [p \in Tenant \X PartyID |-> "ACTIVE"]
    /\ copies = [k \in Key |-> {}]
    /\ current = [k \in Key |-> None]
    /\ projects = [p \in Tenant \X Project |-> "ACTIVE"]
    /\ partRecords = [k \in Key |-> <<>>]
    /\ sponsorRecords = [k \in Key |-> <<>>]
    /\ cascaded = {} /\ branched = {} /\ unrecorded = {}
    /\ now = 0

-----------------------------------------------------------------------------
\* Deliberate faults, used only to show that the properties can fail.
MaxContractorNestingDepth_Two == 2
Cascades_AnyProject(k, list, t, p) ==
    participations[k] # None /\ list[k].state = "ACTIVE" /\ k[1] = t
-----------------------------------------------------------------------------

MaxContractorNestingDepth == 1

RegisterParty(t, p) ==
    /\ <<t, p>> \notin parties
    /\ parties' = parties \cup {<<t, p>>}
    /\ UNCHANGED <<participations, standing, heldVars, projects, ledgerVars, cascaded,
                   unrecorded, now>>

\* The bound: registrations, records and participations changed without one.
Room ==
    FoldSet(LAMBDA k, n : Len(partRecords[k]) + Len(sponsorRecords[k]) + n,
            Cardinality(unrecorded) + Cardinality({k \in Key : participations[k] # None}), Key)
    < MaxEvents

Stands(t, p, state) ==
    /\ <<t, p>> \in parties
    /\ standing' = [standing EXCEPT ![<<t, p>>] = state]
    /\ UNCHANGED <<parties, participations, heldVars, projects, ledgerVars, cascaded,
                   unrecorded, now>>

\* The copy deactivated is the newest or the one the registry hands out, which is active.
DeactivateParty(t, p) ==
    \E copy \in {standing[<<t, p>>], "ACTIVE"} : copy # "ARCHIVED" /\ Stands(t, p, "ARCHIVED")

SimulateReversiblePartyState(t, p, state) == Stands(t, p, state)

\* The party is read from the registry, where it is as active as on its first day.
Register(k, participation) ==
    LET holding == [state |-> "ACTIVE", sponsor |-> participation.sponsor]
    IN  /\ <<k[1], participation.party>> \in parties
        /\ participations[k] = None
        /\ Room
        /\ participations' = [participations EXCEPT ![k] = participation]
        /\ copies' = [copies EXCEPT ![k] = {holding}]
        /\ current' = [current EXCEPT ![k] = holding]
        /\ UNCHANGED <<parties, standing, branched, projects, ledgerVars, cascaded,
                       unrecorded, now>>

\* The project is a name; its state is not asked for.
NewProjectParticipation(k, party, project, site, sponsor, w) ==
    /\ w[1] < w[2]
    /\ Register(k, [party |-> party, project |-> project, site |-> site, sponsor |-> sponsor,
                    from |-> w[1], to |-> w[2], parent |-> Blank, depth |-> 0])

\* Any copy of the parent will do, so one that is still active.
NewNestedSubcontractorParticipation(k, parent, party, site, sponsor, w) ==
    LET up == participations[<<k[1], parent>>]
    IN  /\ up # None
        /\ \E copy \in copies[<<k[1], parent>>] : copy.state = "ACTIVE"
        /\ up.depth < MaxContractorNestingDepth
        /\ w[1] < w[2]
        /\ w[1] >= up.from /\ w[2] <= up.to
        /\ Blank \in {up.site, site} \/ site = up.site
        /\ Register(k, [party |-> party, project |-> up.project,
                        site |-> IF site = Blank THEN up.site ELSE site,
                        sponsor |-> sponsor, from |-> w[1], to |-> w[2],
                        parent |-> parent, depth |-> up.depth + 1])

\* A new value made from a copy is the newest; the copy it was made from stays.
Made(k, copy, new) ==
    /\ copies' = [copies EXCEPT ![k] = @ \cup {new}]
    /\ current' = [current EXCEPT ![k] = new]
    /\ branched' = IF copy = current[k] THEN branched ELSE branched \cup {k}

Recorded(k, copy, state, cascade) ==
    Append(partRecords[k], [previous |-> copy.state, new |-> state, cascade |-> cascade])

\* The caller keeps the new value and appends the record.
Transition(k, copy, state) ==
    /\ Room
    /\ Made(k, copy, [copy EXCEPT !.state = state])
    /\ partRecords' = [partRecords EXCEPT ![k] = Recorded(k, copy, state, FALSE)]
    /\ UNCHANGED <<parties, participations, standing, projects, sponsorRecords, cascaded,
                   unrecorded, now>>

DeactivateParticipation(k, copy) == copy.state # "ARCHIVED" /\ Transition(k, copy, "ARCHIVED")

CloseParticipation(k, copy) == copy.state = "ACTIVE" /\ Transition(k, copy, "CLOSED")

\* To any state, back to ACTIVE too.  Archive and Close of a participation, which make no
\* record either, do nothing that this does not.
SimulateReversibleParticipationState(k, copy, state) ==
    /\ Room
    /\ Made(k, copy, [copy EXCEPT !.state = state])
    /\ unrecorded' = unrecorded \cup {k}
    /\ UNCHANGED <<parties, participations, standing, projects, ledgerVars, cascaded, now>>

IsValidAt(k, copy, t) ==
    copy.state = "ACTIVE" /\ participations[k].from <= t /\ t <= participations[k].to

ReassignSponsor(k, copy, sponsor) ==
    /\ IsValidAt(k, copy, now)
    /\ sponsor # copy.sponsor
    /\ Room
    /\ Made(k, copy, [copy EXCEPT !.sponsor = sponsor])
    /\ sponsorRecords' = [sponsorRecords EXCEPT ![k] =
          Append(@, [prior |-> copy.sponsor, new |-> sponsor])]
    /\ UNCHANGED <<parties, participations, standing, projects, partRecords, cascaded,
                   unrecorded, now>>

\* Close and Archive of a project, of which the caller keeps the newest value.
EndProject(t, p, state) ==
    /\ state = "CLOSED" => projects[<<t, p>>] # "ARCHIVED"
    /\ projects' = [projects EXCEPT ![<<t, p>>] = state]
    /\ UNCHANGED <<parties, participations, standing, heldVars, ledgerVars, cascaded,
                   unrecorded, now>>

InProject(k, t, p) == participations[k] # None /\ k[1] = t /\ participations[k].project = p
Cascades(k, list, t, p) == InProject(k, t, p) /\ list[k].state = "ACTIVE"

\* The list is what the caller holds of the participations, or what the registry lists.
Lists == {current,
          [k \in Key |-> IF participations[k] = None THEN None
                         ELSE [state |-> "ACTIVE", sponsor |-> participations[k].sponsor]]}

CascadeProjectClosure(list, t, p) ==
    LET closing == {k \in Key : Cascades(k, list, t, p)}
        closed == [k \in Key |-> [list[k] EXCEPT !.state = "CLOSED"]]
    IN  /\ projects[<<t, p>>] = "CLOSED"
        /\ list # current => Room
        /\ copies' = [k \in Key |-> IF k \in closing THEN copies[k] \cup {closed[k]}
                                    ELSE copies[k]]
        /\ current' = [k \in Key |-> IF k \in closing THEN closed[k] ELSE current[k]]
        /\ partRecords' = [k \in Key |->
              IF k \in closing THEN Recorded(k, list[k], "CLOSED", TRUE) ELSE partRecords[k]]
        /\ branched' = branched \cup {k \in closing : list[k] # current[k]}
        /\ cascaded' = cascaded \cup {k \in Key : InProject(k, t, p)}
        /\ UNCHANGED <<parties, participations, standing, projects, sponsorRecords,
                       unrecorded, now>>

Tick == now' \in {t \in Moment : t > now}
        /\ UNCHANGED <<parties, participations, standing, heldVars, projects, ledgerVars,
                       cascaded, unrecorded>>

Next ==
    \/ \E t \in Tenant, p \in PartyID : RegisterParty(t, p) \/ DeactivateParty(t, p)
    \/ \E t \in Tenant, p \in PartyID, state \in LifecycleState :
          SimulateReversiblePartyState(t, p, state)
    \/ \E k \in Key, party \in PartyID, project \in Project, site \in Site \cup {Blank},
          sponsor \in Sponsor, w \in Window :
          NewProjectParticipation(k, party, project, site, sponsor, w)
    \/ \E k \in Key, parent \in ParticipationID, party \in PartyID, site \in Site \cup {Blank},
          sponsor \in Sponsor, w \in Window :
          NewNestedSubcontractorParticipation(k, parent, party, site, sponsor, w)
    \/ \E k \in Key : \E copy \in copies[k] :
          DeactivateParticipation(k, copy) \/ CloseParticipation(k, copy)
    \/ \E k \in Key, state \in LifecycleState : \E copy \in copies[k] :
          SimulateReversibleParticipationState(k, copy, state)
    \/ \E k \in Key, sponsor \in Sponsor : \E copy \in copies[k] :
          ReassignSponsor(k, copy, sponsor)
    \/ \E t \in Tenant, p \in Project, state \in {"CLOSED", "ARCHIVED"} : EndProject(t, p, state)
    \/ \E list \in Lists, t \in Tenant, p \in Project : CascadeProjectClosure(list, t, p)
    \/ Tick

Spec == Init /\ [][Next]_vars

-----------------------------------------------------------------------------
\* ValidateParticipationAgainstProject with the newest values.
ValidateParticipationAgainstProject(k) ==
    projects[<<k[1], participations[k].project>>] = "ACTIVE" /\ IsValidAt(k, current[k], now)

\* Whichever copies were passed, each record leads on from the first sponsor or from
\* one an earlier record named, and no copy shows a sponsor that no record names.
SponsorsAttributed(k) ==
    LET sponsors == sponsorRecords[k]
        Named(sponsor, n) == \/ sponsor = participations[k].sponsor
                             \/ \E i \in 1 .. n : sponsors[i].new = sponsor
    IN  /\ \A i \in 1 .. Len(sponsors) : Named(sponsors[i].prior, i - 1)
        /\ \A copy \in copies[k] : Named(copy.sponsor, Len(sponsors))

\* Whichever copies were passed, no record leads out of ARCHIVED or back to ACTIVE, and
\* only a participation in a project that was closed has a cascade's.
RecordsLawful(k) ==
    \A i \in 1 .. Len(partRecords[k]) :
        /\ partRecords[k][i].previous # "ARCHIVED" /\ partRecords[k][i].new # "ACTIVE"
        /\ partRecords[k][i].cascade => projects[<<k[1], participations[k].project>>] # "ACTIVE"

\* Every state a copy shows is the first one or one a record names.
StatesAttributed(k) ==
    \A copy \in copies[k] :
        \/ copy.state = "ACTIVE"
        \/ \E i \in 1 .. Len(partRecords[k]) : partRecords[k][i].new = copy.state

\* The states of k lead from ACTIVE to the newest one, and so do the sponsors.
StatesReplay(k) ==
    LET states == partRecords[k]
    IN  /\ \A i \in 1 .. Len(states) :
              states[i].previous = IF i = 1 THEN "ACTIVE" ELSE states[i - 1].new
        /\ current[k].state = IF states = <<>> THEN "ACTIVE" ELSE states[Len(states)].new
SponsorsReplay(k) ==
    LET sponsors == sponsorRecords[k]
    IN  /\ \A i \in 1 .. Len(sponsors) :
              sponsors[i].prior = IF i = 1 THEN participations[k].sponsor
                                  ELSE sponsors[i - 1].new
        /\ current[k].sponsor = IF sponsors = <<>> THEN participations[k].sponsor
                                ELSE sponsors[Len(sponsors)].new

\* Whatever the lifecycle functions were applied to, the ledger accounts for the sponsors
\* of every copy, and for their states unless one was changed without a record.  Where
\* each change was made to the newest value it replays up to that, a cascade over the
\* project left it inactive for good, and nothing is validated once a record closed it.
LifecycleReplays ==
    \A k \in Key : participations[k] # None =>
        /\ SponsorsAttributed(k)
        /\ RecordsLawful(k)
        /\ k \notin branched => SponsorsReplay(k)
        /\ k \notin unrecorded => StatesAttributed(k)
        /\ k \notin branched \cup unrecorded =>
              /\ StatesReplay(k)
              /\ k \in cascaded => current[k].state # "ACTIVE"
              /\ ValidateParticipationAgainstProject(k) => partRecords[k] = <<>>

\* A subcontractor never reaches further than the contractor above: wherever and
\* whenever the nested participation alone would admit, so would the parent's terms,
\* and the parent itself is nobody's subcontractor.
NestedWithinParent ==
    \A k \in Key :
        participations[k] # None /\ participations[k].parent # Blank =>
            LET sub == participations[k]
                up == participations[<<k[1], sub.parent>>]
            IN  /\ up # None
                /\ up.parent = Blank
                /\ sub.project = up.project
                /\ up.from <= sub.from /\ sub.to <= up.to
                /\ up.site # Blank => sub.site = up.site
=============================================================================
