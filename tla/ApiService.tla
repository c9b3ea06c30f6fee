----------------------------- MODULE ApiService -----------------------------
(***************************************************************************)
(* The walking-skeleton HTTP service: apps/api/walking_skeleton.go behind  *)
(* apps/api/tenant_middleware.go, with DeriveTenantContext of              *)
(* modules/organization-tenancy/tenant_context.go.                         *)
(*                                                                         *)
(* Requests run concurrently.  A handler that changes the store holds the  *)
(* write lock from its first look at the store to its answer, so it is one *)
(* step.  handleGetExportRecords holds the read lock only and still calls  *)
(* appendAudit: several exports may be inside it at once, and each access  *)
(* to the counter and to the log is a step of its own.  A handler that     *)
(* refuses changes nothing and has no step.                                *)
(***************************************************************************)
EXTENDS Naturals, Sequences, FiniteSets

CONSTANTS
    Tenant,
    User,
    TemplateID, InstanceID, EvidenceID, ActionID,
    Version,      \* version_id of a template
    Export,       \* export requests
    Blank,        \* the empty string
    None,         \* no such entry
    MaxWrites     \* bound on the requests that change the store

VARIABLES
    templates,    \* [Tenant \X TemplateID -> version or None]
    instances,    \* [Tenant \X InstanceID -> ChecklistInstanceData or None]
    evidence,     \* [Tenant \X EvidenceID -> the instance it belongs to or None]
    actions,      \* [Tenant \X ActionID -> ActionData or None]
    auditEvents,
    seqCounter,
    exports,      \* [Export -> progress of the request]
    written       \* observer: the events of the requests that changed the store

storeVars == <<templates, instances, evidence, actions>>
vars == <<storeVars, auditEvents, seqCounter, exports, written>>

Claims == [tenant : Tenant \cup {Blank}, subject : User, authenticated : BOOLEAN,
           override : BOOLEAN]

\* TenantMiddleware and DeriveTenantContext: whom a handler ever sees.
Caller == {c \in Claims : ~c.override /\ c.authenticated /\ c.tenant # Blank}

Kind == {"TEMPLATE_PUBLISHED", "CHECKLIST_INSTANTIATED", "CHECKLIST_COMPLETED",
         "EVIDENCE_UPLOADED", "ACTION_CREATED", "ACTION_CLOSED", "EXPORT_GENERATED"}
ID == TemplateID \cup InstanceID \cup EvidenceID \cup ActionID \cup Export

ChecklistInstanceData == [template : TemplateID, version : Version, inspector : User,
                          state : {"IN_PROGRESS", "COMPLETED"}]
ActionData == [instance : InstanceID \cup {Blank}, owner : User, reviewer : User,
               evidence : SUBSET EvidenceID, state : {"IN_REVIEW", "CLOSED"},
               closedBy : User \cup {None}]
AuditEventData == [sequence : Nat, tenant : Tenant, type : Kind, entity : ID, actor : User]

\* An export request before it starts, within handleGetExportRecords and after it.
Idle == [at |-> "idle"]
Done == [at |-> "done"]
Started == [at : {"read", "counted"}, caller : Caller]
Counting == [at : {"loaded", "numbered"}, caller : Caller, counter : Nat]
Appending == [at : {"appending"}, log : Seq(AuditEventData)]

ApiAssumption == None \notin ActionData /\ None \notin InstanceID

TypeOK ==
    /\ templates \in [Tenant \X TemplateID -> Version \cup {None}]
    /\ instances \in [Tenant \X InstanceID -> ChecklistInstanceData \cup {None}]
    /\ evidence \in [Tenant \X EvidenceID -> InstanceID \cup {None}]
    /\ actions \in [Tenant \X ActionID -> ActionData \cup {None}]
    /\ auditEvents \in Seq(AuditEventData)
    /\ seqCounter \in Nat
    /\ exports \in [Export -> {Idle, Done} \cup Started \cup Counting \cup Appending]
    /\ written \in Seq(AuditEventData)

Init ==
    /\ templates = [k \in Tenant \X TemplateID |-> None]
    /\ instances = [k \in Tenant \X InstanceID |-> None]
    /\ evidence = [k \in Tenant \X EvidenceID |-> None]
    /\ actions = [k \in Tenant \X ActionID |-> None]
    /\ auditEvents = <<>>
    /\ seqCounter = 0
    /\ exports = [r \in Export |-> Idle]
    /\ written = <<>>

-----------------------------------------------------------------------------
Reading(r) == exports[r].at \notin {"idle", "done"}

\* Deliberate faults, used only to show that the properties can fail.
WriteLocked_Not == TRUE
MayClose_Anyone(act, caller) == act.state = "IN_REVIEW"
-----------------------------------------------------------------------------

\* store.mu.Lock: no reader is inside.
WriteLocked == \A r \in Export : ~Reading(r)

\* appendAudit under the write lock.
appendAudit(c, type, entity) ==
    LET e == [sequence |-> seqCounter + 1, tenant |-> c.tenant, type |-> type,
              entity |-> entity, actor |-> c.subject]
    IN  /\ WriteLocked
        /\ Len(written) < MaxWrites
        /\ seqCounter' = seqCounter + 1
        /\ auditEvents' = Append(auditEvents, e)
        /\ written' = Append(written, e)
        /\ UNCHANGED exports

\* Publishing again replaces the template.
handlePublishTemplate(c, id, v) ==
    /\ templates' = [templates EXCEPT ![<<c.tenant, id>>] = v]
    /\ appendAudit(c, "TEMPLATE_PUBLISHED", id)
    /\ UNCHANGED <<instances, evidence, actions>>

\* An instance of the same ID starts over.
handleInstantiateChecklist(c, id, t) ==
    /\ templates[<<c.tenant, t>>] # None
    /\ instances' = [instances EXCEPT ![<<c.tenant, id>>] =
          [template |-> t, version |-> templates[<<c.tenant, t>>], inspector |-> c.subject,
           state |-> "IN_PROGRESS"]]
    /\ appendAudit(c, "CHECKLIST_INSTANTIATED", id)
    /\ UNCHANGED <<templates, evidence, actions>>

\* Anyone of the tenant, any number of times.
handleCompleteChecklist(c, id) ==
    /\ instances[<<c.tenant, id>>] # None
    /\ instances' = [instances EXCEPT ![<<c.tenant, id>>].state = "COMPLETED"]
    /\ appendAudit(c, "CHECKLIST_COMPLETED", id)
    /\ UNCHANGED <<templates, evidence, actions>>

\* The payload's digest was compared with the asserted one.  Evidence of the same ID
\* is replaced.
handleUploadEvidence(c, id, i) ==
    /\ instances[<<c.tenant, i>>] # None
    /\ evidence' = [evidence EXCEPT ![<<c.tenant, id>>] = i]
    /\ appendAudit(c, "EVIDENCE_UPLOADED", id)
    /\ UNCHANGED <<templates, instances, actions>>

\* The instance of an action: the one asked for, or the one all its evidence is of.
handleCreateAction(c, id, asked, owner, reviewer, evs) ==
    LET of == {evidence[<<c.tenant, e>>] : e \in evs}
        instance == IF asked = Blank /\ of # {} THEN CHOOSE i \in of : TRUE ELSE asked
    IN  /\ owner # reviewer
        /\ actions[<<c.tenant, id>>] = None
        /\ None \notin of
        /\ of \subseteq {instance}
        /\ instance # Blank => instances[<<c.tenant, instance>>] # None
        /\ actions' = [actions EXCEPT ![<<c.tenant, id>>] =
              [instance |-> instance, owner |-> owner, reviewer |-> reviewer, evidence |-> evs,
               state |-> "IN_REVIEW", closedBy |-> None]]
        /\ appendAudit(c, "ACTION_CREATED", id)
        /\ UNCHANGED <<templates, instances, evidence>>

MayClose(act, caller) == act.state = "IN_REVIEW" /\ act.reviewer = caller

handleCloseAction(c, id) ==
    /\ actions[<<c.tenant, id>>] # None
    /\ MayClose(actions[<<c.tenant, id>>], c.subject)
    /\ actions' = [actions EXCEPT ![<<c.tenant, id>>].state = "CLOSED",
                                  ![<<c.tenant, id>>].closedBy = c.subject]
    /\ appendAudit(c, "ACTION_CLOSED", id)
    /\ UNCHANGED <<templates, instances, evidence>>

-----------------------------------------------------------------------------
\* handleGetExportRecords, with appendAudit under the read lock.

Step(r, from, progress) ==
    /\ exports[r].at = from
    /\ exports' = [exports EXCEPT ![r] = progress]
    /\ UNCHANGED <<storeVars, written>>

ReadStore(r, c) ==
    /\ Step(r, "idle", [at |-> "read", caller |-> c])
    /\ UNCHANGED <<seqCounter, auditEvents>>

\* seqCounter++ is a load and a store.
LoadCounter(r) ==
    /\ Step(r, "read", [at |-> "loaded", caller |-> exports[r].caller, counter |-> seqCounter])
    /\ UNCHANGED <<seqCounter, auditEvents>>

StoreCounter(r) ==
    /\ Step(r, "loaded", [at |-> "counted", caller |-> exports[r].caller])
    /\ seqCounter' = exports[r].counter + 1
    /\ UNCHANGED auditEvents

\* The entry takes the counter as it is by now.
NumberEntry(r) ==
    /\ Step(r, "counted", [at |-> "numbered", caller |-> exports[r].caller,
                           counter |-> seqCounter])
    /\ UNCHANGED <<seqCounter, auditEvents>>

\* append starts from the log as it is.
LoadLog(r) ==
    LET c == exports[r].caller
        e == [sequence |-> exports[r].counter, tenant |-> c.tenant, type |-> "EXPORT_GENERATED",
              entity |-> r, actor |-> c.subject]
    IN  /\ Step(r, "numbered", [at |-> "appending", log |-> Append(auditEvents, e)])
        /\ UNCHANGED <<seqCounter, auditEvents>>

StoreLog(r) ==
    /\ Step(r, "appending", Done)
    /\ auditEvents' = exports[r].log
    /\ UNCHANGED seqCounter

Next ==
    \/ \E c \in Caller, id \in TemplateID, v \in Version : handlePublishTemplate(c, id, v)
    \/ \E c \in Caller, id \in InstanceID, t \in TemplateID : handleInstantiateChecklist(c, id, t)
    \/ \E c \in Caller, id \in InstanceID : handleCompleteChecklist(c, id)
    \/ \E c \in Caller, id \in EvidenceID, i \in InstanceID : handleUploadEvidence(c, id, i)
    \/ \E c \in Caller, id \in ActionID, i \in InstanceID \cup {Blank}, owner, reviewer \in User,
          evs \in SUBSET EvidenceID : handleCreateAction(c, id, i, owner, reviewer, evs)
    \/ \E c \in Caller, id \in ActionID : handleCloseAction(c, id)
    \/ \E r \in Export, c \in Caller : ReadStore(r, c)
    \/ \E r \in Export : \/ LoadCounter(r) \/ StoreCounter(r)
                         \/ NumberEntry(r) \/ LoadLog(r) \/ StoreLog(r)

Spec == Init /\ [][Next]_vars

-----------------------------------------------------------------------------
IsExport(e) == e.type = "EXPORT_GENERATED"

\* Where the first i events of a log are not exports; a log whose other events are writes,
\* in order.
Writes(log, i) == {j \in 1 .. i : ~IsExport(log[j])}
Lists(log, writes) ==
    /\ Cardinality(Writes(log, Len(log))) = Len(writes)
    /\ \A i \in Writes(log, Len(log)) : log[i] = writes[Cardinality(Writes(log, i))]

\* Whatever exports do to each other, the event of every request that changed the
\* store is in the log, once, in order, under the number it was given: exports race
\* only among themselves.
WritesAudited == Lists(auditEvents, written)

\* Where a log has the events of an action, and a log that tells what became of it.
EventsOf(log, t, id) ==
    {i \in 1 .. Len(log) : /\ log[i].tenant = t /\ log[i].entity = id
                           /\ log[i].type \in {"ACTION_CREATED", "ACTION_CLOSED"}}
Tells(log, t, id, act) ==
    IF act = None THEN EventsOf(log, t, id) = {}
    ELSE \E i \in EventsOf(log, t, id) :
            /\ log[i].type = "ACTION_CREATED"
            /\ IF act.state # "CLOSED" THEN EventsOf(log, t, id) = {i}
               ELSE \E j \in EventsOf(log, t, id) :
                       /\ i < j /\ EventsOf(log, t, id) = {i, j}
                       /\ log[j].type = "ACTION_CLOSED"
                       /\ log[j].actor = act.reviewer /\ act.reviewer # act.owner

\* The log tells what became of every action: created once, closed at most once and
\* after that, by its reviewer, who is not its owner; no later request undoes it.
ActionsReplay ==
    \A t \in Tenant, id \in ActionID : Tells(auditEvents, t, id, actions[<<t, id>>])

\* "Verify monotonic sequence" (walking_skeleton_test.go, line 230): the entries of
\* the trail are numbered in the order they were made.
TrailMonotonic ==
    \A i, j \in 1 .. Len(auditEvents) : i < j => auditEvents[i].sequence < auditEvents[j].sequence
=============================================================================
