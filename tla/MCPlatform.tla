----------------------------- MODULE MCPlatform -----------------------------
(***************************************************************************)
(* Small instances of the API service, of modules/organization-tenancy:    *)
(* the hierarchy, the parties, and identifiers with their counterpart in   *)
(* packages/identifiers, of contract governance and of the feature flags.  *)
(* They do not call one another: focus picks the one that moves.           *)
(*                                                                         *)
(* Two exports are enough for the race between them; four writes lead from *)
(* a template to a closed action.  Seven scopes captured are a company,    *)
(* two projects, a site, an area, a move of the site and one step more.    *)
(* Three contract versions in all are a chain of three, or two of one      *)
(* contract and one of another between them.                               *)
(***************************************************************************)
EXTENDS Naturals, Sequences, FiniteSets, TLC

CONSTANTS None, Blank, Tenant,
          User, TemplateID, InstanceID, EvidenceID, ActionID, Version, Export, MaxWrites,
          CompanyID, BusinessUnitID, ProjectID, SiteID, AreaID, SponsoredID, MaxHistory,
          PartyID, ParticipationID, Works, Place, Sponsor, Window, Moment, MaxEvents,
          IdemKey, Digest, Resource, ExternalID, InternalID, LookupToken,
          Contract, SemanticVersion, SchemaDigest, Direction, MaxEntries,
          FlagID, Audience, Role, Percentage

VARIABLES templates, instances, evidence, actions, auditEvents, seqCounter, exports, written,
          entities, history,
          parties, participations, standing, copies, current, branched, projects,
          partRecords, sponsorRecords, cascaded, unrecorded, now,
          records, made, answered, forwardMap, reverseMap, ledger, byExtKey, byLookupToken,
          contractOwners, entries, contractRecords,
          flags, defs,
          focus

A == INSTANCE ApiService
H == INSTANCE OrganizationHierarchy WITH PartyID <- SponsoredID
P == INSTANCE PartyRegistry WITH Project <- Works, Site <- Place
I == INSTANCE Identifiers
G == INSTANCE ContractGovernance
       WITH Module <- User, Version <- SemanticVersion, Digest <- SchemaDigest,
            records <- contractRecords
L == INSTANCE FeatureFlags WITH Tenant <- Audience

ASSUME PlatformAssumption ==
    /\ A!ApiAssumption /\ H!HierarchyAssumption /\ P!PartyAssumption /\ I!IdentifiersAssumption
    /\ G!ContractAssumption /\ L!FlagAssumption

apiVars == <<templates, instances, evidence, actions, auditEvents, seqCounter, exports, written>>
treeVars == <<entities, history>>
partyVars == <<parties, participations, standing, copies, current, branched, projects,
               partRecords, sponsorRecords, cascaded, unrecorded, now>>
nameVars == <<records, made, answered, forwardMap, reverseMap, ledger, byExtKey, byLookupToken>>
contractVars == <<contractOwners, entries, contractRecords>>
flagVars == <<flags, defs>>
vars == <<apiVars, treeVars, partyVars, nameVars, contractVars, flagVars, focus>>

Part == {"api", "hierarchy", "parties", "identifiers", "contracts", "flags"}

Init ==
    /\ A!Init /\ H!Init /\ P!Init /\ I!Init /\ G!Init /\ L!Init
    /\ focus \in Part

Api ==
    focus = "api" /\ A!Next
    /\ UNCHANGED <<treeVars, partyVars, nameVars, contractVars, flagVars>>
Hierarchy ==
    focus = "hierarchy" /\ H!Next
    /\ UNCHANGED <<apiVars, partyVars, nameVars, contractVars, flagVars>>
\* Nothing reads the state of a party, so it is explored before anyone participates.
PartiesApart ==
    (\E k \in P!Key : participations'[k] # None) =>
        \A p \in Tenant \X PartyID : standing'[p] = "ACTIVE"
Parties ==
    focus = "parties" /\ P!Next /\ PartiesApart
    /\ UNCHANGED <<apiVars, treeVars, nameVars, contractVars, flagVars>>
Names ==
    focus = "identifiers" /\ I!Next
    /\ UNCHANGED <<apiVars, treeVars, partyVars, contractVars, flagVars>>
Contracts ==
    focus = "contracts" /\ G!Next
    /\ UNCHANGED <<apiVars, treeVars, partyVars, nameVars, flagVars>>
Flags ==
    focus = "flags" /\ L!Next
    /\ UNCHANGED <<apiVars, treeVars, partyVars, nameVars, contractVars>>

Next == (Api \/ Hierarchy \/ Parties \/ Names \/ Contracts \/ Flags) /\ UNCHANGED focus

Spec == Init /\ [][Next]_vars

\* The small instance: windows of a participation that overlap, the first inside the
\* second, and a contract's versions, a patch and a major one after the first.
Windows == {<<0, 1>>, <<0, 2>>}
SemanticVersions == {<<1, 0, 0>>, <<1, 0, 1>>, <<2, 0, 0>>}

\* One pair of names stands for users, projects, sponsors and idempotency keys, another
\* for exports, sites, digests and external IDs: no part uses a pair in two roles.
Symmetry == Permutations(User) \cup Permutations(Export) \cup Permutations(Works)

-----------------------------------------------------------------------------
\* Each property is about the part in focus; the others are as they started.

\* Every write handler of the API leaves one audit event; the statuses of an action
\* replay from them and it is closed by another than its assignee.
WritesAudited == focus = "api" => A!TypeOK /\ A!WritesAudited /\ A!ActionsReplay

\* Scopes captured by the constructors agree with the lineage of their parents; after
\* Archive and Close nothing starts again or is moved.
LineageConsistent ==
    focus = "hierarchy" => H!TypeOK /\ H!LineageConsistent /\ H!EndsForGood

\* CascadeProjectClosure and the lifecycle functions: the ledger accounts for every copy
\* and replays where it can, and what NewNestedSubcontractorParticipation makes stays
\* within the contractor above.
LifecycleReplays ==
    focus = "parties" => P!TypeOK /\ P!LifecycleReplays /\ P!NestedWithinParent

\* EvaluateOrCreate answers a retried request with one resource; RegisterExternalRef and
\* Register keep their two maps inverse.
OneAnswerPerKey ==
    focus = "identifiers" =>
        I!TypeOK /\ I!AnswersRecorded /\ I!OneAnswerPerKey /\ I!RefsInvert

\* CompatibilityRegistry.Register keeps every history one that EvaluateEvolution accepts,
\* with all dependencies there and none circular, and compatible steps compose.
EvolutionSound ==
    focus = "contracts" => G!TypeOK /\ G!EvolutionSound /\ G!CompatibleStepsCompose

\* Evaluate exposes a flag to the share of cohorts its percentage says, growing with it;
\* no flag of packages/flags is ever on.
RolloutExact == focus = "flags" => L!TypeOK /\ L!RolloutExact /\ L!StaticFlagsOff

\* "Verify monotonic sequence" (walking_skeleton_test.go, line 230).
TrailMonotonic == A!TrailMonotonic
=============================================================================
