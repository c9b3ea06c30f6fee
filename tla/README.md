# TLA+ models of the OSHE platform

Specifications of the platform's Go modules (`src/modules/...`), of its HTTP
service (`src/apps/api`) and of two shared packages (`src/packages`), the TLC
configurations that check them on small instances, and TLAPS proofs of the
results that matter most. Run everything from this directory:

    tlc -workers 2 -config Outbox.cfg Outbox
    tlc -workers 2 -config MCFindings.cfg MCWork
    tlapm OutboxProofs.tla

`PROJECT.json` maps each definition to the lines it models, and lists runs,
properties, deliberate faults, findings, hazards and theorems.

## 1. The system

The platform is a library of in-memory services, one Go package per directory of
`src/modules`. A service is a struct with maps and a mutex; there are no
goroutines, no database and no network in the packages (the API service of
`src/apps/api`, whose requests run concurrently over a store of its own, is the
exception), so what is hard is elsewhere: callers act on values they read earlier, two services have two locks,
callbacks run (and panic) under a lock, state is exported and restored, and
several people work on one record in an order nobody planned.

| Component | State | Operations | Talks to | Correct when |
|---|---|---|---|---|
| event outbox (`event_outbox.go`) | committed events, ID index, counter; per transaction the staged events | BeginTx, Stage, Commit, Rollback | producers, dispatcher | events appear once, by whole batches, numbered without gaps |
| event dispatcher (`event_dispatcher.go`) | delivery records, handlers, tenant bindings | RegisterConsumer, Dispatch, Replay, ExportState, RestoreState | consumers' handlers, under the lock | no silent redelivery, bounded attempts, quarantine left by replay only |
| job scheduler, notification sink (`scheduler_notifications.go`) | jobs and handlers; notifications and the local sink | ScheduleJob, ExecuteDueJobs; SendNotification, ReplayNotification | job handlers, under the lock | jobs run once and not early, none is left; notifications arrive once |
| workflow engine (`workflow.go`) | instances, audit log, idempotency records | CreateWorkflow, Transition, Checkpoint, Rollback | clients holding snapshots | no lost update, no repeated request, the audit log replays |
| corrective actions (`action_lifecycle.go`) | actions with evidence and history | create, start, attach, submit, reject, close, reopen, CheckOverdue | owner, reviewer, timer | closure earned by review with enough evidence |
| action governance (`action_governance.go`) | owners, extensions, escalations, evidence under a version | 10 mutations | reinspection | one custodian, nobody decides what they raised |
| reinspection (`reinspection_lifecycle.go`) | orders, revoked actors | create, assign, start, verify, reject, close, reopen, link | reads the governance engine without its lock | verified on accepted evidence, closed after verification |
| findings (`finding_lifecycle.go`) | rule catalog, findings with trails | RegisterRule, CreateFinding, UpdateSeverity, UpdateCriticalFlag, TransitionState | | a finding is never replaced, mandatory rules bind |
| scoring (`scoring.go`) | none (a function of the request) | Evaluate | | a weighted mean, no reward for failures |
| governor (`fail_closed_governance.go`, `business_rules.go`) | critical findings and unknown questions per target, rules, transitions, ledger | register, resolve, clear, Qualify | | nothing unresolved passes into a protected state |
| snapshot registry (`publication_snapshot.go`) | versions, active version | RegisterDraft, PublishSnapshot, CreateNewVersion, WithdrawSnapshot, GetSnapshot, NewExportPackage | exporters holding copies | one published version, allowlisted content, exports of what was published |
| publication lifecycle (`publication_lifecycle.go`) | managed snapshots, ledger | draft, submit, approve, publish, withdraw, replace, supersede | | served only on a fresh approval, inside the window |
| immutable store (`immutable_publication.go`) | sealed versions, lineage | StorePublishedVersion, RegisterReplacement | | unbroken lineage |
| records (`record_audit.go`, `retention_export.go`) | records, snapshots, journal; policies, holds | declare, version, archive, deny; hold, release, CanDelete, backup, restore | manager locks, then the store | holds bind, journal and records agree |
| integrity registry (`immutable_objects.go`) | originals, derived objects | register, accept, archive | | linkage verifies until the parent is archived |
| evidence chain (`evidence_chain.go`) | evidence records, custody chains | register, commit, interrupt, resume, duplicate, export | | the chain tells the record's story |
| templates (`template_lifecycle.go`) | template versions, pinned instances | review, approve, publish, retire, copy, instantiate | | instances ask what was approved |
| access policy, matrix (`access_policy.go`, `authorization_matrix.go`) | memberships, grants, entitlements | Evaluate, ScopeContains, role inclusion, separation of duties | assignments, delegations, participations | default deny |
| scoped assignments (`scoped_assignment.go`) | assignments, ledger | RegisterAssignment, RevokeAssignment, PopulateEvaluator, EvaluateScopedAccess | the evaluator, the clock | access only on what the ledger shows granted and open |
| delegation (`delegation_control.go`) | delegations, ledger | RegisterDelegation, RevokeDelegation, EvaluateDelegatedAccess | matrix, evaluator | nobody hands on more authority, or a wider place down to the area, than they claimed |
| sessions (`local_identity.go`, `session_revocation.go`) | identities, sessions; revocations, generations, journal | issue, validate, revoke, disable; revoke session, subject, bump generations, EvaluateSession | two objects, two locks, and the issuer between them | what was revoked stays out |
| access conditions (`access_condition.go`) | conditions, ledger | create, change sponsor, renew, deactivate, EvaluateConditionAccess | sessions holding a generation | any change makes older sessions stale |
| multi-project participation (`multi_project_participation.go`) | participations, attributions | AssignParticipation, DeactivateParticipation, attribute, EvaluateMultiProjectAccess | a fresh evaluator | access stays in the project |
| directory (`directory_profile.go`, `_resolution.go`, `_visibility.go`) | profiles, change history | register, update, inactivate, deactivate; search, open, list | resolver without a lock over registry and ledger | a profile and its history agree, views are nested |
| scan resolution (`scan_resolution.go`) | objects, scan records | parse, register, Resolve | scanners, lock taken twice | code and message of a refusal tell nothing about the object |
| external users (`external_user_profile.go`) | enrolments, ledger | EnrollExternalUser, RevokeEnrollment | sponsors | bounded by sponsor, window and scopes |
| organization hierarchy (`organization_hierarchy.go`, `organization_lifecycle.go`) | none: values of the caller, captured scopes | constructors, Archive, Close, moves | the caller that keeps the values | scopes agree with the parents', the ended stays ended |
| parties (`party.go`, `party_lifecycle.go`) | parties, participations, ledger | register, nest, deactivate, close, change sponsor, reverse, CascadeProjectClosure | callers that keep copies and append the records | records account for every copy, nesting within the parent |
| API service (`apps/api`, `tenant_context.go`) | templates, instances, evidence, actions, audit trail | the handlers of `walking_skeleton.go` | concurrent HTTP requests | every write is audited once, actions closed by another |
| identifiers (`identifiers.go`, `packages/identifiers`) | idempotency records, two inverse maps of references | EvaluateOrCreate, RegisterExternalRef, Register | retrying clients | one answer per key, references invert |
| contract governance (`registry.go`, `compatibility_registry.go`) | contract records; owners, entries with dependencies | Register of both, EvaluateEvolution, compatibility | | every accepted history evolves as declared, no cycles |
| feature flags (`feature_flags.go`, `packages/flags`) | rollout flags; static flags | register, Evaluate | | the share of cohorts is the percentage |

Syntax of identifiers, portals, reporting, workforce and intake registries, the API
contract registry and the developer tools are listed as `not_modelled` with the
reason: they keep no state, or one map that is only inserted into.

## 2. Modules

`Outbox` implements `AtomicLog` (what an outbox promises, without saying how).
`Reinspection` extends `ActionGovernance`: it is the one place where one service
calls another. `AccessPolicy` holds the scopes, roles and the decision over which
ScopedAssignments, DelegationControl, ProjectParticipation and ExternalUsers are
built. Every other component is a module of its own. An MC module
instantiates several components that share no state and explores each with the
others at rest, which visits the union of their state spaces instead of the
product; the components never call one another, so nothing is lost. `Outbox` is
checked as it stands, without an MC module.

| MC module | Components |
|---|---|
| `MCDelivery` | Dispatcher, JobScheduler, NotificationSink |
| `MCWork` | WorkflowEngine and ActionLifecycle (`MCWorkflow.cfg`); ActionGovernance alone with three people, and Reinspection with its action engine (`MCRemediation.cfg`); FindingLifecycle (twice: reclassification, recurrence), Scoring and FailClosedGovernor (`MCFindings.cfg`) |
| `MCRecords` | RecordStore, IntegrityRegistry, EvidenceChain, TemplateLifecycle, SnapshotRegistry, PublicationLifecycle, ImmutableStore |
| `MCAccess` | SessionControl, AccessConditions, ScopedAssignments, DelegationControl, ProjectParticipation, DirectoryProfiles, ScanResolution, ExternalUsers |
| `MCPlatform` | ApiService, OrganizationHierarchy, PartyRegistry, Identifiers, ContractGovernance, FeatureFlags |

The constant `Focus` of `MCWork` names the parts that move in a run, so three
configurations of one module ask three questions. Values that a configuration
cannot write are operators of the MC module, given to a constant with `<-`; no
configuration replaces a definition. The constants' assumptions are stated in each
component, joined under a name in the MC module, evaluated by TLC on every run and
cited by the proofs.

How code becomes steps:

- A method that holds its lock throughout is one action; a refused call changes
  nothing and is left out, unless the refusal itself is logged (`CommitTampered`,
  the governor's denials, `RecordAccessDenied`).
- A method that releases or takes its lock half-way is split there:
  `StageCheck`/`StageAppend`, `ValidateFinding`/`InsertFinding`,
  `VerifyRead`/`VerifyWrite`. The last pair also covers the data race on the
  evidence slice that `GetAction` shares: the walk sees, item by item, the status
  at the copy or the present one.
- The directory resolver has no lock: a call reads a copy, writes the changed copy
  back and appends its record in three steps (`Write` and `AppendRecord` after the
  read). A scan is a `Look` under the read lock and a `recordAudit` later.
- An API handler that writes is one step. The export appends to the audit trail
  under the read lock, so its accesses to counter and log are the steps
  `LoadCounter`, `StoreCounter`, `NumberEntry`, `LoadLog`, `StoreLog`, and an append
  may be lost.
- Values callers keep are variables: `view` (workflow snapshots), `held` (a
  snapshot to be exported), `exported` and `archive` (copies outside the
  process), `manifest`, `tokens` (the generation a session was issued under),
  `entities`, `standing`, `copies` and `current` (the organization package works on
  values its caller keeps; of a participation, every value ever made, since the
  lifecycle functions take any of them and the registry goes on handing out the first).
- The name of a caller is a spelling where the code trims it after a check has looked
  at it as it came (`Reinspection`); elsewhere names are trimmed first, and are taken
  as trimmed.
- A handler returns nil, returns an error or panics. A panic leaves the record as
  it was when the handler was called, and the deferred unlock runs.
- A crash discards everything in memory; the copies outside survive.
- A digest is the value it covers; a payload is a model value, or the set of its
  field names where redaction matters. Scores are exact rationals. Blank and
  malformed identifiers are refused by every method and left out.
- Observer variables (`accepted`, `panics`, `lost`, `basis`, `raised`, `passed`,
  `issued`, `crossed`, `bypassed`, `inactivated`, `ended`, `written`, `made`,
  `answered`, `cascaded`, `branched`, `unrecorded`, counters behind the bounds) record what the properties speak of and guard
  nothing but the bounds.

- No definition that a proof reaches is recursive. "The newest entry that", "the
  chain of parents" and "no cycle" are said with index sets (DirectoryProfiles,
  ExternalUsers, ApiService, RecordStore, PublicationLifecycle, EvidenceChain) or
  over groups: dependencies (ContractGovernance) and recurrence links
  (FindingLifecycle) are acyclic when every group has a member that leads out of it.

Names ending in a suffix after an underscore (`FreshAtCommit_NoRecheck`) are
deliberate faults: `PROJECT.json` pairs each property with one that breaks it.

## 3. Runs

A property of an MC module joins the type invariant of a component with the rules
of that component that belong together; the component's module states each rule
under its own name.

| Run | Distinct states | Properties, with the rules behind them | Shows |
|---|---|---|---|
| `outbox` | 25 967 | UniqueEvents, OnlyCommittedVisible, OutboxInv, ImplementsAtomicLog | Racing transactions publish each event once, whole batches only; refinement of `AtomicLog` |
| `delivery` | 182 058 | DeliveryAccounted (and BudgetKept), RunOnceWhenDue, SinkMatchesRecords, QuarantineLeftByReplay, EveryJobTakenUp | Delivery accounting and attempt budget through crash and stale restore; jobs once, when due, and all taken up; the sink matches the records |
| `workflow` | 67 850 | AuditReplays (RequestAppliedOnce, ClosedWasApproved), HistoryReplays (ClosureEarned), AppliedToWhatWasRead | Trails replay, requests apply once and to what was read, approval and closure are earned |
| `remediation` | 555 140 | OneActiveCustodian (DecidedByAnother), VerifiedOnAccepted (ClosedAfterVerification), DueDateIsApproved | Custody, independence, due dates approved by somebody independent, verification on accepted evidence |
| `findings` | 391 571 | AuditAccounts (MandatoryIsCritical, RecurrenceAcyclic), IdentityIsFixed, FailureNeverHelps (ScoreIsMean), ResolvedBeforePassing | Identity of findings, trails that replay though no entry shows a finding whole, acyclic recurrence, score bounds and monotonicity, the governor |
| `records` | 1 865 666 | HoldsBind (RecordsAccounted), LinkageHolds, CustodyReplays (DerivedFromCommitted), InstancesAsApproved, ExportedWasPublished (OnePublished), ServedOnFreshApproval (LedgerReplays), LineageIntact | Holds and journal through backup and restore, linkage, custody, pinned instances, exports of what was published, approval age and windows, lineage |
| `access` | 550 377 | RevokedStaysOut, StaleAfterChange (WindowAccounted), AccessFollowsLedger (ClashOnlyByAdvanceGrant), DelegationAmplifiesNothing, AccessStaysInProject, VisibilityNested (SerialHistoryReplays), RefusalsTellNothing, ExternalsBounded | What was revoked, changed or ended gives no access again; a delegate stays in the role, days and place claimed (objects apart); three ways to look at the directory agree; a refused scan is told what it is told of no object |
| `platform` | 617 189 | WritesAudited (ActionsReplay), LineageConsistent (EndsForGood), LifecycleReplays (NestedWithinParent), OneAnswerPerKey (RefsInvert), EvolutionSound (CompatibleStepsCompose), RolloutExact (StaticFlagsOff) | Writes leave one audit event and actions replay from them; scopes fit together after moves; the party ledger accounts for every copy and replays where it can; retries get one answer; compatible versions compose; rollouts are exact |

Four runs show a statement of the repository that the code does not keep; each
checks one property and TLC finds the counterexample:

| Run | Statement | What happens |
|---|---|---|
| `sequence` | "immutable monotonic ordering" (hazard log, line 182) | a restored journal is numbered from 1 again |
| `trail` | "Verify monotonic sequence" (`walking_skeleton_test.go:230`) | two exports under the read lock draw the same number |
| `inactivation` | "Inactive profiles are omitted from active directory discovery" (`directory_resolution.go:14`) | an update writes back the copy it read before the inactivation |
| `duties` | "An Inspector cannot concurrently hold Auditor privileges within overlapping project/company scopes" (`authorization_matrix.go:378`) | two assignments registered in advance open later, unchecked against one another |

### Bounds

Each bound is a constant. They were chosen so that the case a property is about
happens with one to spare: three transactions for two events (two racing, one
that comes later); attempt limits 1 and 2, four handler calls and one crash
(exhaust, replay, crash, restore, redeliver); two jobs of two types (one without
handler while the other panics); two clients, four requests and five audit entries
(read, be overtaken, roll back, retry, close: draft to closed takes four); eight
history entries of an action (reject or overdue, submit again, close, reopen);
three people and two requests per kind in governance (requester, owner, third
party; two extensions out of order); one order with one evidence item in
reinspection, whose supervisor is also spelt with a blank, with one spelling revoked
and histories that end in a closure or a reopening;
two creations racing for one finding that is then reclassified (`Reclassifying`), and
three creations over two findings for links, whose trails stay short (`Linking`); three questions in two sections with unequal
points and weights; a ledger of three entries (register, resolve, pass needs two);
three versions of a publication (a middle one); four moments of time with a
window of two and an approval age of one (approve, wait, publish, expire);
three journal entries with one restart; two evidence items (an original and what
derives from it) with four custody events each; two template versions (a copy).

Access: two subjects of one tenant and the days 0, 1 and 8 (windows that are open,
that open on the day, and one too long for some roles to delegate); one session
token with three registry events (issue, revoke, bump and look again); a condition
with four ledger entries; two assignments of INSPECTOR and AUDITOR, which clash;
one delegation, of three roles
over the tenant, a project, a site or an object, or of an administrator; two
participations, one confined to an object (assigned, ended, assigned again); four calls of the resolver, two
at a time, on one profile in five posts; one scan record, with labels of two
tenants; enrolments with two sponsors, an external one among them.

Platform: two users, four writes and two exports; seven captured scopes (a tree of
two projects and sites, then a move or a closure); three participations in
two projects, so that one could be nested twice, which is refused, and a cascade has
something to pass over, with three registrations, records and unrecorded changes
together (one participation, closed and changed again in an older copy), and the party's own
state, which nothing reads, changing before anyone participates; three resources for two keys (a retry
that makes a second one would be seen); three contract entries over versions that
differ in each number; the percentages 0, 1, 50, 100 and 101. Participations name
no site here, so the containment of sites of nested ones is not exercised.

Symmetry is used for workflows, clients, requests, people and evidence in
`workflow`, for people and requests in `remediation`, for subjects and IDs in
`access`, and for IDs and projects in `platform`, where parts that never move together share one
set of interchangeable names. None of them checks a liveness property. Deadlock is checked in `delivery`; elsewhere the
bounds, and terminal states such as CLOSED and WITHDRAWN, end behaviours.

### Fairness

Only `EveryJobTakenUp` needs fairness: weak fairness of the clock and of the scan.
The package starts no goroutine, so the scan is an obligation on its caller,
stated as such. Nothing is assumed of handlers, which may fail or panic.

## 4. Proofs

Seven modules hold theorems. Each proves, for every value of the constants that
satisfies the components' assumptions, the properties that a run checks on one
small instance: all but two of those of the passing runs (see the end of this
section). A component's part ends in the theorem of the run,
`Spec => []Property`, and outside `AccessProofs` mostly in one about the component alone,
`X!Spec => []Property`, which does not depend on how the MC module schedules it.

| Module | About | Theorems |
|---|---|---|
| `OutboxProofs` | Outbox | the four properties of `outbox`, refinement of `AtomicLog` included |
| `DeliveryProofs` | Dispatcher, JobScheduler, NotificationSink | the safety properties of `delivery`, one of them an action property |
| `WorkflowProofs` | WorkflowEngine, ActionLifecycle | the properties of `workflow`, one of them an action property |
| `RemediationProofs` | ActionGovernance, Reinspection, FindingLifecycle, FailClosedGovernor | the properties of `remediation` and `findings` but the score, two of them action properties |
| `RecordsProofs` | the components of MCRecords | the properties of `records` |
| `AccessProofs` | the components of MCAccess | the properties of `access` |
| `PlatformProofs` | the components of MCPlatform | the properties of `platform` |

### The argument

Every part is laid out alike. An inductive invariant is defined next to the
property; a lemma `...Initially` shows it of the initial states, a lemma `...Step`
shows that each action keeps it, one step per action; a lemma `...Sees` says that a
step of the MC module is a step or a stutter of the component; the theorem puts
them together. Action properties follow from the same step lemma, whose conclusion
then speaks of both states (`DueMoved`, `Identity`). Where an action
changes one record, the rules are stated for one record (`Governed`, `InOrder`,
`OrderInOrder`, `Accounted`, `Within`), and the lemmas are about that record.

What had to be added to the properties to make them inductive, and why:

| Invariant | Beyond the property |
|---|---|
| `OutboxInv` | the index is exactly what was published, batches have no duplicates, and an event being staged is not staged yet |
| `DispatchInv` | calls, attempts and replays agree record by record; an accepted event is delivered on record or its record was lost, and a copy outside says DELIVERED only of what was accepted, since RestoreState brings it back |
| `JobInv` | a job still scheduled was never run |
| `SinkInv` | what lies in the sink is on record for that tenant; what may still be sent was never replayed |
| `WorkflowInv` | what a client holds was approved too (a rollback restores it), and a logged request is on record, which is what `Fresh` reads |
| `ActionInv` | while in review, the review was opened by the owner with enough evidence, and is uninterrupted |
| `GovernanceInv` | custody and decisions record by record |
| `ReinspectionInv` | accepted and rejected are final, and evidence belongs to registered actions; what a walk without the lock has seen so far is accepted for good |
| `FindingInv` | the record of a creation that waits for the lock is open, untouched, and flagged as its rule demands unless the catalog was edited |
| `GovernorInv` | what was raised still stands against its target or its resolution is on the ledger |
| `TemplateInv`, `LineageInv` | versions, not only instances, are as approved; index and store list the same chain |
| `LifeInv`, `RegistryInv` | approvals are dated no later than now; the copy an exporter holds equals a version published under its number |
| `StoreInv` | the copy in the backup satisfies what the store does; an active hold is indexed under its record |
| `CustodyInv` | chain and record tell one story step by step, and what is derived or listed rests on committed evidence |
| `SessionInv` | the generation counts the journal, so a revocation carries a generation not below those of the sessions issued before |
| `ConditionInv`, `AssignmentInv`, `DelegationInv`, `ParticipationInv`, `ExternalInv` | the ledger determines the state of each entry; two clashing assignments were registered apart |
| `DirectoryInv` | a call in progress that nobody crossed holds the profile its history replays to |
| `IdentifiersInv`, `PartyInv`, `HierarchyInv` | answers are recorded; per participation, what the property says of the ledger, which is empty before the registration, and that the value registered, which a cascade may be run over, stays among the copies; a captured scope fits the parent's and is in the history |
| `ContractInv` | dependencies exist when an entry is registered, so the dependency graph grows from its end |
| `ApiInv` | the log an export has read, and will write back, is as good as the trail; an action's reviewer is not its owner |

`LinkageHolds`, the scan's type invariant and `FlagInv` need nothing more.

### Assumptions

They say that absent values are no members of the sets they stand beside, that
functions are total on their sets, that subsets (supervisors, closers, bots) lie in
the set of people, that bounds are natural numbers (positive where time or a
version starts at 1), and, of the governor, that every request names a target,
actor and role, and that the default transitions name rules of the default matrix,
which TLC evaluates. No set is assumed to be finite.
The bounds are parameters of the theorems: since these hold for every bound, no behaviour of the code is cut off.

### Only model-checked

- `EveryJobTakenUp`: liveness under fairness, which the prover does not reach.
- `FailureNeverHelps` (with `ScoreIsMean`): the score is a fold over the questions,
  and what a fold computes for every input needs induction over data, which no
  installed prover does. TLC checks every answer sheet of the instance.
- The properties of the four runs that expect a violation, which are false.

Two points of style come from the tools: a difference with `SUBSET` is
parenthesised, since tlapm and SANY read `SUBSET S \ T` differently, and
records are updated one field at a time in the steps of a proof, which the
solver follows at once.

## 5. Not modelled, and divergences without a run

`storage_adapter.go` and the `FileMetadata` object are used by no service.
`CheckSourceDrift` and the other read-only queries are left out. Display
formatting, JSON and digests' bytes are abstracted as said above. The parts marked
`not_modelled` in `PROJECT.json` are functions of their inputs or maps that are only
inserted into. Handlers that call back into the scheduler or the dispatcher, and a
`createFn` that calls back into its store, block forever on a mutex they already
hold; the models have no such callers.

Seven more statements fail like those of section 3, without a run of their own: the
rule is a definition of the module named, and TLC refutes it when the MC module
checks it as an invariant or a property.

| Rule | Statement | What happens |
|---|---|---|
| `Reinspection!ClosedOnCleanEvidence` | "verification and closure require ... zero pending/rejected evidence" (`reinspection_lifecycle.go:11`) | evidence arrives, or is rejected, between verification and `FinalClose` (needs two evidence items) |
| `FindingLifecycle!SevereHasControl` | "immediate-control note is mandatory for critical or high-severity findings" (`finding_lifecycle.go:42`) | severity is raised after creation |
| `SnapshotRegistry!SealVerifies` | "Every snapshot seals ... signature digests" (`publication_snapshot.go:17`) | a withdrawal replaces what the signature covers |
| `EvidenceChain!ManifestVerifies` | "produces a verified export manifest" (`evidence_chain.go:597`) | `CommitDerived` accepts a wrong declared size |
| `Reinspection!RevokedActorsAreSilent` | "Revocation check: caller must not be revoked" (`reinspection_lifecycle.go:537`) | three methods look a caller up before they trim the name (346, 403, 483), so a padded name passes and its owner is written down |
| `DelegationControl!ObjectStaysDelegated` | "A delegator cannot delegate permissions or scopes exceeding their own active entitlements" (`delegation_control.go:12`) | `ScopeContains` compares no objects: who claims one object may hand on all of its project |
| `ScanResolution!ResultTellsNothing` | "unauthorized scan attempts return a non-differentiating, non-enumerating denial response" (`scan_resolution.go:12`) | code and message do not differ, but the result holds the audit record, whose `InternalDiagnostic` says on which ground it was refused |

Read in the code beside the findings, each kept by the model as the code has it.

Delivery, workflow, publication:

- `ReviewExtension` writes the requested date without comparing it with the due
  date of that moment, so the second of two approvals can shorten it
  (`action_governance.go:62` says extensions lie after the current due date).
- A supervisor may verify an order whose independence rule bars them
  (`reinspection_lifecycle.go:411` against its header).
- `Replay` never clears `QuarantinedAt`; the failure-replay runbook, line 57, says
  it does. A panic skips the comparison with the limit, so an exhausted record
  need not be quarantined (line 31).
- `SendNotification` compares no tenant on a known request ID.
- The independence of a decision is tested against the owner of that moment, not
  against the one the requester faced (`DueDateIsApproved` says as much).
- `CreateFinding` returns the record it stores, and `GetFinding` a copy that shares the
  trail, so a caller could edit a finding without an entry; the model's callers do not.
- A hold placed after a backup is not in it, so a restore drops it without a trace.
- `deepCopyMap` of the immutable store copies nested maps but not slices.
- The clock-skew check of `ScheduleJob` runs before zero times are defaulted.
- A score of 0 passes `FailClosedGovernor.Qualify`'s threshold step.
- `RegisterReplacement` accepts successors that do not exist; `Replace` and
  `Supersede` look at neither role nor successor.
- `CommitOriginal` says it persists to the storage adapter and never calls it.
- `RecordTransferResumed` leaves FAILED, which `TransitionState` of
  `file_metadata.go` treats as final.
- `RejectToDraft` keeps the review marker, so `Approve` accepts a review of older
  content.

Access:

- `BumpTenantPolicyGeneration` raises the tenant's counter, and `EvaluateSession`
  compares it with a generation drawn from another counter, so a bump need not make
  older sessions stale (`session_revocation.go:192`, `SessionControl!BumpInvalidates`).
- `RevokeSessionToken` does not compare the owner; enabling an identity again revives
  the sessions it had.
- A delegation states its delegator's role and scope itself and nothing compares them
  with the assignments held.
- `RenewAccess` renews a condition that has lapsed.
- `Evaluate` on an archived target takes the first grant that decides, in the order in
  which the grants lie; the model keeps every possible verdict.
- `EvaluateMultiProjectAccess` evaluates its caller as a member whatever the real
  membership. `AssignParticipation` refuses while an expired record is still ACTIVE.
- No registry calls `ValidateRoleAssignment`.
- `DeactivateProfile` of the registry writes no history. A contractor without a
  project is refused by the search only, and `ListVisibleProfilesBySubject` does not
  look at the site. Pages are cut from a map in its iteration order.
- The `exp` of a label that is not a number counts as none; the label's token and the
  caller's active project are read nowhere.

Platform:

- Uploading an evidence ID again moves the evidence to another instance
  (`walking_skeleton.go:526`), and instantiating an ID again replaces a COMPLETED
  instance.
- Closing a company or project does not reach what lies below it; `NewSite` checks the
  project only; moving a site leaves the scope its areas captured.
- `PartyRegistry` has no method that replaces a value: it goes on handing out the ACTIVE
  one first registered, so a participation may be closed again, with a second record from
  ACTIVE to CLOSED. `SimulateReversibleParticipationState`, `SimulateReversiblePartyState`,
  `Archive` and `Close` change a state without a record, also back to ACTIVE. That the
  ledger always replays, or that what a cascade closed stays closed, is therefore not
  true, and `LifecycleReplays` says what is: without the observers `branched` and
  `unrecorded` TLC refutes it. `NewProjectParticipation` ignores the project's state.
- Composite keys join their fields with ':' unescaped (`identifiers.go:193`, 272,
  `party.go:496`), so two keys coincide when a field holds a colon.
- A `createFn` that takes effect and then fails leaves no record, so a retry runs it
  again.
- `EvaluateEvolution` between versions that are not neighbours may call COMPATIBLE
  what a BREAKING minor version lies between. `ContractRegistry` lets any owner add
  the next version, and the compatibility registry ignores dependencies and path when
  an entry is registered again.
- No flag of `packages/flags` can ever be on.

Left out of the models, beside what section 2 abstracts:

- Governed actions registered with a history, requests or evidence already in them, and
  evidence submitted with a reviewer already named; reinspection orders created in a
  state of the caller's choosing instead of the default one.
- Scores that need rounding at half a basis point, and sheets whose active weight is zero.
- Enrolling a profile value that was revoked before: construction and enrolment are one
  step. Clocks: a method that takes "now" is given the present moment.
- Of a project's values, all but the newest: participations are closed under that one.
- A second tenant or company in the hierarchy, and a second external system.

## 6. Plan

Done: the components of section 1, in order of how much their callers can
interleave, and the proofs of section 4. Left:

1. An abstract specification of exactly-once effect for Outbox and Dispatcher
   composed, and of a version chain that SnapshotRegistry and ImmutableStore both
   implement, with the refinements proved as for `AtomicLog`.
2. Action properties for the ledgers that are only ever appended to (access,
   parties, publication), from the invariants already proved.
3. Sites in nested participations, and a composition in which `Reinspection`'s actors
   are the subjects whose sessions `SessionControl` revokes, once the code connects
   the two.
