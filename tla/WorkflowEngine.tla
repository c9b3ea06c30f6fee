--------------------------- MODULE WorkflowEngine ---------------------------
(***************************************************************************)
(* The optimistic-concurrency workflow state machine:                      *)
(* modules/workflow-action/workflow.go.                                    *)
(*                                                                         *)
(* Engine.mu makes each method one step.  Between its read and its write a *)
(* client acts on the snapshot it holds (view), which other clients and    *)
(* rollbacks may have made stale; a client may also resend a request whose *)
(* answer it lost, or reuse a request ID.                                  *)
(***************************************************************************)
EXTENDS Naturals, Sequences

CONSTANTS
    Workflow, Client, Request,
    None,            \* a client that holds no snapshot
    MaxAudit         \* bound on the length of the audit log

WorkflowAssumption == MaxAudit \in Nat

VARIABLES
    instances,    \* Engine.instances; revision 0 is a workflow not created
    auditLog,     \* Engine.auditLog
    idempotency,  \* Engine.idempotency: [Workflow \X Request -> record or none]
    view          \* [Client -> the snapshot the client last read, or None]

vars == <<instances, auditLog, idempotency, view>>

State == {"DRAFT", "IN_PROGRESS", "UNDER_REVIEW", "APPROVED", "CLOSED", "ARCHIVED"}

TerminalStates == {"CLOSED", "ARCHIVED"}

AllowedTransitions ==
    [s \in State |->
        CASE s = "DRAFT"        -> {"IN_PROGRESS", "ARCHIVED"}
          [] s = "IN_PROGRESS"  -> {"UNDER_REVIEW", "ARCHIVED"}
          [] s = "UNDER_REVIEW" -> {"APPROVED", "IN_PROGRESS", "ARCHIVED"}
          [] s = "APPROVED"     -> {"CLOSED", "ARCHIVED"}
          [] OTHER              -> {}]

\* The requestID of the audit entry that a rollback appends.
Rolled == "rollback"

Snapshot == [id : Workflow, state : State, revision : Nat \ {0}]
AuditEntry == [id : Workflow, request : Request \cup {Rolled}, prior : State,
               current : State, revision : Nat]

\* idempotencyRecord; expected 0 is a request never applied.
IdempotencyRecord == [source : State, target : State, expected : Nat]

TypeOK ==
    /\ instances \in [Workflow -> [state : State, revision : Nat]]
    /\ auditLog \in Seq(AuditEntry)
    /\ idempotency \in [Workflow \X Request -> IdempotencyRecord]
    /\ view \in [Client -> Snapshot \cup {None}]

Init ==
    /\ instances = [w \in Workflow |-> [state |-> "DRAFT", revision |-> 0]]
    /\ auditLog = <<>>
    /\ idempotency = [k \in Workflow \X Request |->
                        [source |-> "DRAFT", target |-> "DRAFT", expected |-> 0]]
    /\ view = [c \in Client |-> None]

-----------------------------------------------------------------------------
\* Deliberate faults, used only to show that the properties can fail.
Fresh_NotChecked(w, q) == TRUE
Current_StateOnly(v) == instances[v.id].state = v.state
NextRevision_OfCheckpoint(w) == instances[w].revision
Permitted_SkipsReview(from, to) == to \in AllowedTransitions[from] \cup {"APPROVED"}
-----------------------------------------------------------------------------

Exists(w) == instances[w].revision > 0

\* The workflow exists and is not in a terminal state.
Open(w) == Exists(w) /\ instances[w].state \notin TerminalStates

\* The request ID was not used on this workflow before.  A repeated request is
\* answered from the record (same parameters) or refused (other parameters);
\* neither changes the engine.
Fresh(w, q) == idempotency[<<w, q>>].expected = 0

\* The caller's SourceState and ExpectedRevision are the workflow's own (a blank
\* SourceState skips the first test, and the revision alone then decides).
Current(v) == instances[v.id].state = v.state /\ instances[v.id].revision = v.revision

Permitted(from, to) == to \in AllowedTransitions[from]

NextRevision(w) == instances[w].revision + 1

\* The instance and its audit entry move together.
Enter(w, q, to) ==
    /\ instances' = [instances EXCEPT ![w] = [state |-> to, revision |-> NextRevision(w)]]
    /\ auditLog' = Append(auditLog, [id |-> w, request |-> q, prior |-> instances[w].state,
                                     current |-> to, revision |-> NextRevision(w)])

\* Engine.CreateWorkflow.
CreateWorkflow(w) ==
    /\ ~Exists(w)
    /\ instances' = [instances EXCEPT ![w] = [state |-> "DRAFT", revision |-> 1]]
    /\ UNCHANGED <<auditLog, idempotency, view>>

\* Engine.GetWorkflow and Engine.Checkpoint: the client keeps the copy.
GetWorkflow(c, w) ==
    /\ Exists(w)
    /\ view' = [view EXCEPT ![c] = [id |-> w, state |-> instances[w].state,
                                    revision |-> instances[w].revision]]
    /\ UNCHANGED <<instances, auditLog, idempotency>>

\* Engine.Transition, sent by client c from its snapshot and authorized by the
\* caller's predicate.
Transition(c, q, to) ==
    LET v == view[c] IN
    /\ v # None
    /\ Fresh(v.id, q)
    /\ Open(v.id)
    /\ Current(v)
    /\ Permitted(instances[v.id].state, to)
    /\ Len(auditLog) < MaxAudit
    /\ Enter(v.id, q, to)
    /\ idempotency' = [idempotency EXCEPT ![<<v.id, q>>] =
                          [source |-> instances[v.id].state, target |-> to,
                           expected |-> v.revision]]
    /\ UNCHANGED view

\* Engine.Rollback to the checkpoint that client c holds.
Rollback(c) ==
    LET v == view[c] IN
    /\ v # None
    /\ Open(v.id)
    /\ v.revision < instances[v.id].revision
    /\ Len(auditLog) < MaxAudit
    /\ Enter(v.id, Rolled, v.state)
    /\ UNCHANGED <<idempotency, view>>

Next ==
    \/ \E w \in Workflow : CreateWorkflow(w)
    \/ \E c \in Client, w \in Workflow : GetWorkflow(c, w)
    \/ \E c \in Client, q \in Request, to \in State : Transition(c, q, to)
    \/ \E c \in Client : Rollback(c)

Spec == Init /\ [][Next]_vars

-----------------------------------------------------------------------------
\* The audit trail of a workflow, read in order, replays to its current state: one
\* entry per revision from 2 up, each leaving the state the previous one entered.
AuditReplays ==
    /\ TypeOK
    /\ \A i, j \in DOMAIN auditLog :
          i < j /\ auditLog[i].id = auditLog[j].id
          => auditLog[i].revision < auditLog[j].revision
    /\ \A i \in DOMAIN auditLog :
          LET a == auditLog[i] IN
          /\ a.revision \in 2 .. instances[a.id].revision
          /\ a.revision = 2 => a.prior = "DRAFT"
          /\ a.revision > 2 => \E k \in 1 .. (i - 1) :
                                  /\ auditLog[k].id = a.id
                                  /\ auditLog[k].revision = a.revision - 1
                                  /\ auditLog[k].current = a.prior
    /\ \A w \in Workflow :
          \/ instances[w].revision \in {0, 1} /\ instances[w].state = "DRAFT"
          \/ \E i \in DOMAIN auditLog :
                /\ auditLog[i].id = w
                /\ auditLog[i].revision = instances[w].revision
                /\ auditLog[i].current = instances[w].state

\* Nobody is surprised: a transition is applied to exactly the instance its client
\* last read.
AppliedToWhatWasRead ==
    [][\A w \in Workflow :
          instances'[w] # instances[w] /\ idempotency' # idempotency
          => \E c \in Client : view[c] = [id |-> w, state |-> instances[w].state,
                                          revision |-> instances[w].revision]]_vars

\* A request is applied at most once to a workflow, whatever its sender retries.
RequestAppliedOnce ==
    \A i, j \in DOMAIN auditLog :
        auditLog[i].request # Rolled /\ auditLog[i].request = auditLog[j].request
        /\ auditLog[i].id = auditLog[j].id => i = j

\* A closed workflow was under review and then approved, rollbacks included.
ClosedWasApproved ==
    \A w \in Workflow : instances[w].state \in {"APPROVED", "CLOSED"} =>
        \E i \in DOMAIN auditLog :
            /\ auditLog[i].id = w
            /\ auditLog[i].prior = "UNDER_REVIEW" /\ auditLog[i].current = "APPROVED"
=============================================================================
