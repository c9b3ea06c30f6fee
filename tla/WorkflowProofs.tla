---------------------------- MODULE WorkflowProofs ----------------------------
(***************************************************************************)
(* Proofs about the two state machines of modules/workflow-action that     *)
(* stand alone, WorkflowEngine and ActionLifecycle, as MCWork composes     *)
(* them: for every set of workflows, clients, requests, actions, people    *)
(* and evidence, and every bound.                                          *)
(***************************************************************************)
EXTENDS MCWork, SequenceTheorems, TLAPS

-----------------------------------------------------------------------------
\* Workflow engine.

\* The audit log shows an approval of w out of a review.
ApprovalLogged(w) ==
    \E i \in DOMAIN auditLog : /\ auditLog[i].id = w
                               /\ auditLog[i].prior = "UNDER_REVIEW"
                               /\ auditLog[i].current = "APPROVED"

\* A rollback may restore any state a client ever read, so what a client holds must have
\* been approved as well.
HeldWasApproved ==
    \A c \in Client : view[c] # None /\ view[c].state \in {"APPROVED", "CLOSED"}
                      => ApprovalLogged(view[c].id)

\* A request in the log is on record as applied, which is what Fresh looks at.
LoggedIsRecorded ==
    \A i \in DOMAIN auditLog :
        auditLog[i].request # W!Rolled
        => idempotency[<<auditLog[i].id, auditLog[i].request>>].expected # 0

WorkflowInv ==
    /\ W!AuditReplays /\ W!RequestAppliedOnce /\ W!ClosedWasApproved
    /\ HeldWasApproved /\ LoggedIsRecorded

\* No workflow, no log.
LEMMA WorkflowInitially == W!Init => WorkflowInv
<1> SUFFICES ASSUME W!Init PROVE WorkflowInv
  OBVIOUS
<1>1. DOMAIN auditLog = {} /\ auditLog \in Seq(W!AuditEntry)
  BY DEF W!Init
<1>2. W!TypeOK
  BY <1>1 DEF W!Init, W!TypeOK, W!State, W!IdempotencyRecord
<1>3. W!AuditReplays
  BY <1>1, <1>2 DEF W!Init, W!AuditReplays
<1> QED BY <1>1, <1>3 DEF W!Init, WorkflowInv, W!RequestAppliedOnce, W!ClosedWasApproved,
                          HeldWasApproved, LoggedIsRecorded

\* Approval is entered from a review only, and closure from an approval.
LEMMA EnteredFrom ==
    ASSUME NEW from \in W!State, NEW to, W!Permitted(from, to)
    PROVE  /\ to \in W!State
           /\ to = "APPROVED" => from = "UNDER_REVIEW"
           /\ to = "CLOSED" => from = "APPROVED"
  BY DEF W!Permitted, W!AllowedTransitions, W!State

\* Instance and log move together: the trail goes on where it stood.
LEMMA EnterStep ==
    ASSUME WorkflowInv, NEW w \in Workflow, NEW q \in Request \cup {W!Rolled},
           NEW to \in W!State, W!Exists(w), W!Enter(w, q, to),
           UNCHANGED view,
           idempotency' \in [Workflow \X Request -> W!IdempotencyRecord],
           \A k \in Workflow \X Request : idempotency[k].expected # 0
                                          => idempotency'[k].expected # 0,
           q # W!Rolled => W!Fresh(w, q) /\ idempotency'[<<w, q>>].expected # 0,
           to \in {"APPROVED", "CLOSED"} => \/ ApprovalLogged(w)
                                            \/ /\ instances[w].state = "UNDER_REVIEW"
                                               /\ to = "APPROVED"
    PROVE  WorkflowInv'
<1> DEFINE rev == instances[w].revision
           n == Len(auditLog)
           e == [id |-> w, request |-> q, prior |-> instances[w].state, current |-> to,
                 revision |-> rev + 1]
           new == [state |-> to, revision |-> rev + 1]
<1>0. /\ W!TypeOK /\ W!AuditReplays
      /\ auditLog \in Seq(W!AuditEntry) /\ n \in Nat /\ DOMAIN auditLog = 1 .. n
      /\ instances \in [Workflow -> [state : W!State, revision : Nat]]
  <2>1. W!TypeOK /\ W!AuditReplays
    BY DEF WorkflowInv, W!AuditReplays
  <2>2. auditLog \in Seq(W!AuditEntry)
    BY <2>1 DEF W!TypeOK
  <2>3. n \in Nat /\ DOMAIN auditLog = 1 .. n
    BY <2>2
  <2> QED BY <2>1, <2>2, <2>3 DEF W!TypeOK
<1>1. /\ rev \in Nat /\ rev >= 1 /\ instances[w].state \in W!State
  BY <1>0 DEF W!Exists
<1>2. /\ instances' = [instances EXCEPT ![w] = new] /\ auditLog' = Append(auditLog, e)
  BY DEF W!Enter, W!NextRevision
<1>3. \A x \in Workflow : instances'[x] = IF x = w THEN new ELSE instances[x]
  BY <1>0, <1>2
<1>4. e \in W!AuditEntry
  BY <1>1 DEF W!AuditEntry
<1>5. /\ auditLog' \in Seq(W!AuditEntry) /\ DOMAIN auditLog' = 1 .. (n + 1)
      /\ \A i \in 1 .. n : auditLog'[i] = auditLog[i]
      /\ auditLog'[n + 1] = e
  BY <1>0, <1>2, <1>4
<1>6. \A i \in DOMAIN auditLog' : \/ i \in 1 .. n /\ auditLog'[i] = auditLog[i]
                                  \/ i = n + 1 /\ auditLog'[i] = e
  BY <1>0, <1>5
<1>7. \A i \in 1 .. n : /\ auditLog[i] \in W!AuditEntry /\ auditLog[i].id \in Workflow
                        /\ auditLog[i].revision \in Nat
  <2>1. \A i \in 1 .. n : auditLog[i] \in W!AuditEntry
    BY <1>0
  <2> QED BY <2>1 DEF W!AuditEntry
<1> HIDE DEF n, e, rev
<1>8. /\ e.id = w /\ e.request = q /\ e.prior = instances[w].state /\ e.current = to
      /\ e.revision = rev + 1
  BY DEF e
<1>9. W!TypeOK'
  <2>1. new \in [state : W!State, revision : Nat]
    BY <1>1
  <2>2. instances' \in [Workflow -> [state : W!State, revision : Nat]]
    BY <1>0, <1>2, <2>1
  <2> QED BY <1>0, <1>5, <2>2 DEF W!TypeOK
<1>10. ASSUME NEW i \in DOMAIN auditLog', NEW j \in DOMAIN auditLog', i < j,
              auditLog'[i].id = auditLog'[j].id
       PROVE  auditLog'[i].revision < auditLog'[j].revision
  <2>1. i \in 1 .. n /\ auditLog'[i] = auditLog[i]
    BY <1>0, <1>5, <1>6, <1>10
  <2>2. CASE j \in 1 .. n
    BY <1>0, <1>5, <1>10, <2>1, <2>2 DEF W!AuditReplays
  <2>3. CASE j = n + 1
    <3>1. auditLog[i].revision \in 2 .. instances[auditLog[i].id].revision
      BY <1>0, <2>1 DEF W!AuditReplays
    <3>2. auditLog[i].id = w
      BY <1>5, <1>8, <1>10, <2>1, <2>3
    <3> QED BY <1>1, <1>5, <1>8, <2>1, <2>3, <3>1, <3>2 DEF rev
  <2> QED BY <1>6, <2>2, <2>3
<1>11. ASSUME NEW i \in DOMAIN auditLog'
       PROVE  LET a == auditLog'[i] IN
              /\ a.revision \in 2 .. instances'[a.id].revision
              /\ a.revision = 2 => a.prior = "DRAFT"
              /\ a.revision > 2 => \E k \in 1 .. (i - 1) :
                                      /\ auditLog'[k].id = a.id
                                      /\ auditLog'[k].revision = a.revision - 1
                                      /\ auditLog'[k].current = a.prior
  <2>1. CASE i \in 1 .. n
    <3> DEFINE a == auditLog[i]
    <3>1. auditLog'[i] = a
      BY <1>5, <2>1
    <3>2. /\ a.revision \in 2 .. instances[a.id].revision
          /\ a.revision = 2 => a.prior = "DRAFT"
          /\ a.revision > 2 => \E k \in 1 .. (i - 1) : /\ auditLog[k].id = a.id
                                                      /\ auditLog[k].revision = a.revision - 1
                                                      /\ auditLog[k].current = a.prior
      BY <1>0, <2>1 DEF W!AuditReplays
    <3>3. a.revision \in 2 .. instances'[a.id].revision
      <4>1. CASE a.id = w
        BY <1>1, <1>3, <1>7, <2>1, <3>2, <4>1 DEF rev
      <4>2. CASE a.id # w
        BY <1>3, <1>7, <2>1, <3>2, <4>2
      <4> QED BY <4>1, <4>2
    <3>4. \A k \in 1 .. (i - 1) : auditLog'[k] = auditLog[k]
      BY <1>0, <1>5, <2>1
    <3> QED BY <3>1, <3>2, <3>3, <3>4
  <2>2. CASE i = n + 1
    <3>1. auditLog'[i] = e /\ instances'[w].revision = rev + 1
      BY <1>3, <1>5, <2>2
    <3>2. CASE rev = 1
      <4>1. instances[w].state = "DRAFT"
        BY <1>0, <1>1, <3>2 DEF W!AuditReplays, rev
      <4> QED BY <1>8, <3>1, <3>2, <4>1
    <3>3. CASE rev > 1
      <4>1. PICK k \in 1 .. n : /\ auditLog[k].id = w /\ auditLog[k].revision = rev
                                /\ auditLog[k].current = instances[w].state
        <5>1. \/ instances[w].revision \in {0, 1} /\ instances[w].state = "DRAFT"
              \/ \E k \in DOMAIN auditLog : /\ auditLog[k].id = w
                                            /\ auditLog[k].revision = instances[w].revision
                                            /\ auditLog[k].current = instances[w].state
          BY <1>0 DEF W!AuditReplays
        <5>2. instances[w].revision = rev /\ rev \notin {0, 1}
          BY <1>1, <3>3 DEF rev
        <5> QED BY <1>0, <5>1, <5>2
      <4>2. k \in 1 .. (i - 1) /\ auditLog'[k] = auditLog[k]
        BY <1>0, <1>5, <2>2
      <4> QED BY <1>1, <1>8, <3>1, <3>3, <4>1, <4>2
    <3> QED BY <1>1, <3>2, <3>3
  <2> QED BY <1>6, <2>1, <2>2
<1>12. ASSUME NEW x \in Workflow
       PROVE  \/ instances'[x].revision \in {0, 1} /\ instances'[x].state = "DRAFT"
              \/ \E i \in DOMAIN auditLog' : /\ auditLog'[i].id = x
                                             /\ auditLog'[i].revision = instances'[x].revision
                                             /\ auditLog'[i].current = instances'[x].state
  <2>1. CASE x = w
    <3>1. n + 1 \in DOMAIN auditLog'
      BY <1>0, <1>5
    <3> QED BY <1>3, <1>5, <1>8, <2>1, <3>1
  <2>2. CASE x # w
    <3>1. \A i \in 1 .. n : i \in DOMAIN auditLog'
      BY <1>0, <1>5
    <3>2. \/ instances[x].revision \in {0, 1} /\ instances[x].state = "DRAFT"
          \/ \E i \in DOMAIN auditLog : /\ auditLog[i].id = x
                                        /\ auditLog[i].revision = instances[x].revision
                                        /\ auditLog[i].current = instances[x].state
      BY <1>0 DEF W!AuditReplays
    <3>3. instances'[x] = instances[x]
      BY <1>3, <2>2
    <3> QED BY <1>0, <1>5, <3>1, <3>2, <3>3
  <2> QED BY <2>1, <2>2
<1>13. W!AuditReplays'
  BY <1>9, <1>10, <1>11, <1>12 DEF W!AuditReplays
<1>14. LoggedIsRecorded'
  <2> SUFFICES ASSUME NEW i \in DOMAIN auditLog', auditLog'[i].request # W!Rolled
               PROVE  idempotency'[<<auditLog'[i].id, auditLog'[i].request>>].expected # 0
    BY DEF LoggedIsRecorded, W!Rolled
  <2>1. CASE i \in 1 .. n
    <3>1. /\ auditLog'[i] = auditLog[i] /\ i \in DOMAIN auditLog
          /\ auditLog[i].request \in Request /\ auditLog[i].id \in Workflow
      BY <1>0, <1>5, <1>7, <2>1 DEF W!AuditEntry
    <3>2. idempotency[<<auditLog[i].id, auditLog[i].request>>].expected # 0
      BY <3>1 DEF WorkflowInv, LoggedIsRecorded
    <3> QED BY <3>1, <3>2
  <2>2. CASE i = n + 1
    BY <1>5, <1>8, <2>2
  <2> QED BY <1>6, <2>1, <2>2
<1>15. W!RequestAppliedOnce'
  <2> SUFFICES ASSUME NEW i \in DOMAIN auditLog', NEW j \in DOMAIN auditLog',
                      auditLog'[i].request # W!Rolled,
                      auditLog'[i].request = auditLog'[j].request,
                      auditLog'[i].id = auditLog'[j].id
               PROVE  i = j
    BY DEF W!RequestAppliedOnce, W!Rolled
  <2>1. ASSUME NEW k \in 1 .. n
        PROVE  ~(q # W!Rolled /\ auditLog[k].request = q /\ auditLog[k].id = w)
    BY <1>0, <2>1 DEF WorkflowInv, LoggedIsRecorded, W!Fresh
  <2>2. CASE i \in 1 .. n /\ j \in 1 .. n
    BY <1>0, <1>5, <2>2 DEF WorkflowInv, W!RequestAppliedOnce
  <2>3. CASE i \in 1 .. n /\ j = n + 1
    BY <1>5, <1>8, <2>1, <2>3
  <2>4. CASE i = n + 1 /\ j \in 1 .. n
    BY <1>5, <1>8, <2>1, <2>4
  <2> QED BY <1>6, <2>2, <2>3, <2>4
<1>16. \A x : ApprovalLogged(x) => ApprovalLogged(x)'
  <2>1. \A i \in DOMAIN auditLog : i \in DOMAIN auditLog' /\ auditLog'[i] = auditLog[i]
    BY <1>0, <1>5
  <2> QED BY <2>1 DEF ApprovalLogged
<1>17. to \in {"APPROVED", "CLOSED"} => ApprovalLogged(w)'
  <2>1. CASE ApprovalLogged(w)
    BY <1>16, <2>1
  <2>2. CASE instances[w].state = "UNDER_REVIEW" /\ to = "APPROVED"
    <3>1. n + 1 \in DOMAIN auditLog'
      BY <1>0, <1>5
    <3> QED BY <1>5, <1>8, <2>2, <3>1 DEF ApprovalLogged
  <2> QED BY <2>1, <2>2
<1>18. W!ClosedWasApproved'
  <2> SUFFICES ASSUME NEW x \in Workflow, instances'[x].state \in {"APPROVED", "CLOSED"}
               PROVE  ApprovalLogged(x)'
    BY DEF W!ClosedWasApproved, ApprovalLogged
  <2>1. CASE x = w
    BY <1>3, <1>17, <2>1
  <2>2. CASE x # w
    <3>1. ApprovalLogged(x)
      BY <1>3, <2>2 DEF WorkflowInv, W!ClosedWasApproved, ApprovalLogged
    <3> QED BY <1>16, <3>1
  <2> QED BY <2>1, <2>2
<1>19. HeldWasApproved'
  BY <1>16 DEF WorkflowInv, HeldWasApproved
<1> QED BY <1>13, <1>14, <1>15, <1>18, <1>19 DEF WorkflowInv

\* The four operations keep the invariant.
LEMMA WorkflowStep == WorkflowInv /\ [W!Next]_(W!vars) => WorkflowInv'
<1> SUFFICES ASSUME WorkflowInv, [W!Next]_(W!vars) PROVE WorkflowInv'
  OBVIOUS
<1>0. W!TypeOK /\ W!AuditReplays
  BY DEF WorkflowInv, W!AuditReplays
<1>1. ASSUME NEW w \in Workflow, W!CreateWorkflow(w)
      PROVE  WorkflowInv'
  <2> DEFINE new == [state |-> "DRAFT", revision |-> 1]
  <2>1. /\ instances' = [instances EXCEPT ![w] = new] /\ instances[w].revision = 0
        /\ UNCHANGED <<auditLog, idempotency, view>>
    BY <1>0, <1>1 DEF W!CreateWorkflow, W!Exists, W!TypeOK
  <2>2. new \in [state : W!State, revision : Nat]
    BY DEF W!State
  <2>3. W!TypeOK'
    BY <1>0, <2>1, <2>2 DEF W!TypeOK
  <2>4. \A x \in Workflow : instances'[x] = IF x = w THEN new ELSE instances[x]
    BY <1>0, <2>1 DEF W!TypeOK
  <2>5. \A i \in DOMAIN auditLog : auditLog[i].id \in Workflow \ {w}
    <3>1. \A i \in DOMAIN auditLog : auditLog[i] \in W!AuditEntry
      BY <1>0 DEF W!TypeOK
    <3> QED BY <1>0, <2>1, <3>1 DEF W!AuditReplays, W!AuditEntry
  <2>6. W!AuditReplays'
    <3>1. \A i \in DOMAIN auditLog : instances'[auditLog[i].id] = instances[auditLog[i].id]
      BY <2>4, <2>5
    <3>2. ASSUME NEW x \in Workflow
          PROVE  \/ instances'[x].revision \in {0, 1} /\ instances'[x].state = "DRAFT"
                 \/ \E i \in DOMAIN auditLog : /\ auditLog[i].id = x
                                               /\ auditLog[i].revision = instances'[x].revision
                                               /\ auditLog[i].current = instances'[x].state
      <4>1. CASE x = w
        BY <2>4, <4>1
      <4>2. CASE x # w
        <5>1. instances'[x] = instances[x]
          BY <2>4, <4>2
        <5> QED BY <1>0, <5>1 DEF W!AuditReplays
      <4> QED BY <4>1, <4>2
    <3> QED BY <1>0, <2>1, <2>3, <3>1, <3>2 DEF W!AuditReplays
  <2>7. W!ClosedWasApproved'
    BY <2>1, <2>4 DEF WorkflowInv, W!ClosedWasApproved
  <2> QED BY <2>1, <2>6, <2>7 DEF WorkflowInv, W!RequestAppliedOnce, HeldWasApproved,
                                  LoggedIsRecorded, ApprovalLogged
<1>2. ASSUME NEW c \in Client, NEW w \in Workflow, W!GetWorkflow(c, w)
      PROVE  WorkflowInv'
  <2> DEFINE held == [id |-> w, state |-> instances[w].state, revision |-> instances[w].revision]
  <2>1. /\ view' = [view EXCEPT ![c] = held] /\ W!Exists(w)
        /\ UNCHANGED <<instances, auditLog, idempotency>>
    BY <1>2 DEF W!GetWorkflow
  <2>2. held \in W!Snapshot
    BY <1>0, <2>1 DEF W!Snapshot, W!Exists, W!TypeOK
  <2>3. W!TypeOK'
    BY <1>0, <2>1, <2>2 DEF W!TypeOK
  <2>4. \A x \in Client : view'[x] = IF x = c THEN held ELSE view[x]
    BY <1>0, <2>1 DEF W!TypeOK
  <2>5. held.id = w /\ held.state = instances[w].state
    OBVIOUS
  <2>6. held.state \in {"APPROVED", "CLOSED"} => ApprovalLogged(w)
    BY <2>5 DEF WorkflowInv, W!ClosedWasApproved, ApprovalLogged
  <2> HIDE DEF held
  <2>7. HeldWasApproved'
    BY <2>1, <2>4, <2>5, <2>6 DEF WorkflowInv, HeldWasApproved, ApprovalLogged
  <2>8. W!AuditReplays'
    BY <1>0, <2>1, <2>3 DEF W!AuditReplays
  <2> QED BY <2>1, <2>7, <2>8 DEF WorkflowInv, W!RequestAppliedOnce, W!ClosedWasApproved,
                                  LoggedIsRecorded
<1>3. ASSUME NEW c \in Client, NEW q \in Request, NEW to \in W!State, W!Transition(c, q, to)
      PROVE  WorkflowInv'
  <2> DEFINE v == view[c]
             rec == [source |-> instances[v.id].state, target |-> to, expected |-> v.revision]
  <2>1. /\ v # None /\ W!Fresh(v.id, q) /\ W!Exists(v.id)
        /\ W!Permitted(instances[v.id].state, to) /\ W!Enter(v.id, q, to)
        /\ idempotency' = [idempotency EXCEPT ![<<v.id, q>>] = rec] /\ UNCHANGED view
    BY <1>3 DEF W!Transition, W!Open
  <2>2. v \in W!Snapshot
    BY <1>0, <2>1 DEF W!TypeOK
  <2>3. v.id \in Workflow /\ v.revision \in Nat /\ v.revision # 0
    BY <2>2 DEF W!Snapshot
  <2> HIDE DEF v
  <2>4. instances[v.id].state \in W!State
    BY <1>0, <2>3 DEF W!TypeOK
  <2>5. rec \in W!IdempotencyRecord /\ rec.expected # 0
    BY <2>3, <2>4 DEF W!IdempotencyRecord
  <2> HIDE DEF rec
  <2>6. /\ idempotency' \in [Workflow \X Request -> W!IdempotencyRecord]
        /\ \A k \in Workflow \X Request :
              idempotency'[k] = IF k = <<v.id, q>> THEN rec ELSE idempotency[k]
    BY <1>0, <2>1, <2>3, <2>5 DEF W!TypeOK
  <2>7. /\ \A k \in Workflow \X Request : idempotency[k].expected # 0
                                          => idempotency'[k].expected # 0
        /\ idempotency'[<<v.id, q>>].expected # 0
    BY <2>3, <2>5, <2>6
  <2>8. to \in {"APPROVED", "CLOSED"} => \/ ApprovalLogged(v.id)
                                         \/ /\ instances[v.id].state = "UNDER_REVIEW"
                                            /\ to = "APPROVED"
    <3>1. /\ to = "APPROVED" => instances[v.id].state = "UNDER_REVIEW"
          /\ to = "CLOSED" => instances[v.id].state = "APPROVED"
      BY <2>1, <2>4, EnteredFrom
    <3>2. instances[v.id].state = "APPROVED" => ApprovalLogged(v.id)
      BY <2>3 DEF WorkflowInv, W!ClosedWasApproved, ApprovalLogged
    <3> QED BY <3>1, <3>2
  <2>9. q \in Request \cup {W!Rolled}
    OBVIOUS
  <2> QED BY <2>1, <2>3, <2>6, <2>7, <2>8, <2>9, EnterStep
<1>4. ASSUME NEW c \in Client, W!Rollback(c)
      PROVE  WorkflowInv'
  <2> DEFINE v == view[c]
  <2>1. /\ v # None /\ W!Exists(v.id) /\ W!Enter(v.id, W!Rolled, v.state)
        /\ UNCHANGED <<idempotency, view>>
    BY <1>4 DEF W!Rollback, W!Open
  <2>2. v \in W!Snapshot
    BY <1>0, <2>1 DEF W!TypeOK
  <2>3. v.id \in Workflow /\ v.state \in W!State
    BY <2>2 DEF W!Snapshot
  <2>4. v.state \in {"APPROVED", "CLOSED"} => ApprovalLogged(v.id)
    BY <2>1 DEF WorkflowInv, HeldWasApproved
  <2>5. W!Rolled \in Request \cup {W!Rolled}
    OBVIOUS
  <2>6. idempotency' \in [Workflow \X Request -> W!IdempotencyRecord]
    BY <1>0, <2>1 DEF W!TypeOK
  <2> HIDE DEF v
  <2> QED BY <2>1, <2>3, <2>4, <2>5, <2>6, EnterStep
<1>5. CASE UNCHANGED W!vars
  <2>1. W!TypeOK'
    BY <1>0, <1>5 DEF W!vars, W!TypeOK
  <2>2. W!AuditReplays'
    BY <1>0, <1>5, <2>1 DEF W!vars, W!AuditReplays
  <2> QED BY <1>5, <2>2 DEF W!vars, WorkflowInv, W!RequestAppliedOnce, W!ClosedWasApproved,
                            HeldWasApproved, LoggedIsRecorded, ApprovalLogged
<1> QED BY <1>1, <1>2, <1>3, <1>4, <1>5 DEF W!Next

\* What the workflow engine sees of a step.
LEMMA WorkflowSees == [Next]_vars => [W!Next]_(W!vars)
  BY DEF Next, vars, Workflows, Correctives, Governance, Reinspections, Findings, Scores, Gate,
         workflowVars, W!vars

\* The inductive invariant holds whatever the other parts do.
LEMMA WorkflowInvariant == Spec => []WorkflowInv
<1>1. Init => WorkflowInv
  BY WorkflowInitially DEF Init
<1>2. WorkflowInv /\ [Next]_vars => WorkflowInv'
  BY WorkflowSees, WorkflowStep
<1> QED BY <1>1, <1>2, PTL DEF Spec

\* The invariant contains what AuditReplays joins.
LEMMA WorkflowReplays == WorkflowInv => AuditReplays
  BY DEF WorkflowInv, AuditReplays

\* Engine alone: the log replays, requests apply once, closure follows an approval, for every
\* number of clients that hold stale snapshots.
THEOREM EngineReplays == W!Spec => []AuditReplays
<1>1. W!Init => WorkflowInv
  BY WorkflowInitially
<1> QED BY <1>1, WorkflowStep, WorkflowReplays, PTL DEF W!Spec

\* The property of the run workflow about Transition and Rollback: the audit log replays, a
\* request is applied once, and closure follows an approval.
THEOREM AuditReplaysHolds == Spec => []AuditReplays
<1> QED BY WorkflowReplays, WorkflowInvariant, PTL

\* The action property of the run workflow: a request changes the instance its sender read.
THEOREM AppliedToWhatWasReadHolds == Spec => AppliedToWhatWasRead
<1>1. WorkflowInv /\ [Next]_vars
      => [\A w \in Workflow :
             instances'[w] # instances[w] /\ idempotency' # idempotency
             => \E c \in Client : view[c] = [id |-> w, state |-> instances[w].state,
                                             revision |-> instances[w].revision]]_(W!vars)
  <2> SUFFICES ASSUME WorkflowInv, [W!Next]_(W!vars), NEW w \in Workflow,
                      instances'[w] # instances[w], idempotency' # idempotency
               PROVE  \E c \in Client : view[c] = [id |-> w, state |-> instances[w].state,
                                                   revision |-> instances[w].revision]
    BY WorkflowSees
  <2>0. W!TypeOK
    BY DEF WorkflowInv, W!AuditReplays
  <2>1. PICK c \in Client, q \in Request, to \in W!State : W!Transition(c, q, to)
    BY DEF W!Next, W!CreateWorkflow, W!GetWorkflow, W!Rollback, W!vars
  <2>2. /\ view[c] # None /\ W!Current(view[c]) /\ W!Enter(view[c].id, q, to)
    BY <2>1 DEF W!Transition
  <2>3. view[c] \in W!Snapshot
    BY <2>0, <2>2 DEF W!TypeOK
  <2>4. view[c].id = w
    BY <2>0, <2>2 DEF W!Enter, W!TypeOK
  <2>5. view[c].state = instances[w].state /\ view[c].revision = instances[w].revision
    BY <2>2, <2>4 DEF W!Current
  <2> QED BY <2>3, <2>4, <2>5 DEF W!Snapshot
<1> QED BY <1>1, WorkflowInvariant, PTL
      DEF Spec, AppliedToWhatWasRead, W!AppliedToWhatWasRead

-----------------------------------------------------------------------------
\* Corrective actions.

\* The owner opened a review with enough evidence, uninterrupted up to entry last.
ReviewOpened(h, owner, a, last) ==
    \E s \in 1 .. last :
        /\ h[s].from \in A!Submittable /\ h[s].to = "IN_REVIEW" /\ h[s].actor = owner
        /\ \A k \in (s + 1) .. last : h[k].to = "IN_REVIEW"
        /\ A!Cardinality(UNION {h[k].attached : k \in 1 .. s}) >= Needed[a]

\* The entries chain, and every closure among them was earned.
Chained(h) == \A i \in DOMAIN h : /\ h[i].from = IF i = 1 THEN "ABSENT" ELSE h[i - 1].to
                                  /\ h[i].to # "ABSENT"

Earned(h, r, a) == \A i \in DOMAIN h : h[i].to = "CLOSED" =>
                       h[i].actor = r.reviewer /\ ReviewOpened(h, r.owner, a, i - 1)

\* The rules for one action.  While it is in review, the review was opened properly:
\* this is what a closure then rests on.
InOrder(r, a) ==
    /\ r \in A!ActionRecord
    /\ Chained(r.history)
    /\ r.state = IF r.history = <<>> THEN "ABSENT" ELSE r.history[Len(r.history)].to
    /\ r.evidence = UNION {r.history[i].attached : i \in DOMAIN r.history}
    /\ r.closedBy = IF r.state = "CLOSED" THEN r.reviewer ELSE None
    /\ Earned(r.history, r, a)
    /\ r.state = "IN_REVIEW" => ReviewOpened(r.history, r.owner, a, Len(r.history))

ActionInv ==
    /\ correctives \in [Action -> A!ActionRecord] /\ now \in 1 .. MaxTime
    /\ \A a \in Action : InOrder(correctives[a], a)

\* An action without history, and so without state.
LEMMA ActionsInitially == A!Init => ActionInv
<1> SUFFICES ASSUME A!Init PROVE ActionInv
  OBVIOUS
<1> DEFINE r0 == [state |-> "ABSENT", owner |-> None, reviewer |-> None, evidence |-> {},
                  history |-> <<>>, closedBy |-> None]
<1>1. correctives = [a \in Action |-> r0] /\ now = 1
  BY DEF A!Init
<1>2. r0 \in A!ActionRecord
  BY DEF A!ActionRecord, A!States
<1>3. /\ r0.history = <<>> /\ r0.state = "ABSENT" /\ r0.evidence = {} /\ r0.closedBy = None
  OBVIOUS
<1> HIDE DEF r0
<1>4. DOMAIN r0.history = {}
  BY <1>3
<1>5. UNION {r0.history[i].attached : i \in DOMAIN r0.history} = {}
  BY <1>4
<1>6. \A a \in Action : InOrder(r0, a)
  BY <1>2, <1>3, <1>4, <1>5 DEF InOrder, Chained, Earned
<1>7. now \in 1 .. MaxTime
  BY <1>1, WorkAssumption DEF A!ActionAssumption
<1> QED BY <1>1, <1>2, <1>6, <1>7 DEF ActionInv

\* An entry more takes nothing away from a review opened before it.
LEMMA ReviewStays ==
    ASSUME NEW h \in Seq(A!Entry), NEW e \in A!Entry, NEW owner, NEW a,
           NEW last \in 0 .. Len(h), ReviewOpened(h, owner, a, last)
    PROVE  ReviewOpened(Append(h, e), owner, a, last)
<1> DEFINE g == Append(h, e)
<1>1. Len(h) \in Nat /\ \A i \in 1 .. Len(h) : g[i] = h[i]
  OBVIOUS
<1>2. PICK s \in 1 .. last :
        /\ h[s].from \in A!Submittable /\ h[s].to = "IN_REVIEW" /\ h[s].actor = owner
        /\ \A k \in (s + 1) .. last : h[k].to = "IN_REVIEW"
        /\ A!Cardinality(UNION {h[k].attached : k \in 1 .. s}) >= Needed[a]
  BY DEF ReviewOpened
<1> HIDE DEF g
<1>3. s \in 1 .. Len(h) /\ \A k \in 1 .. last : g[k] = h[k]
  BY <1>1
<1>4. \A k \in 1 .. s : g[k] = h[k]
  BY <1>1, <1>3
<1>5. {g[k].attached : k \in 1 .. s} = {h[k].attached : k \in 1 .. s}
  BY <1>4
<1>6. \A k \in (s + 1) .. last : g[k].to = "IN_REVIEW"
  BY <1>2, <1>3
<1>7. ReviewOpened(g, owner, a, last)
  BY <1>2, <1>3, <1>5, <1>6 DEF ReviewOpened
<1> QED BY <1>7 DEF g

\* A record with one entry more is in order if the entry leaves the present state, closes
\* out of a review only, and enters one only with enough evidence or from within it.
LEMMA EntryAppended ==
    ASSUME NEW a \in Action, NEW r, InOrder(r, a), NEW e \in A!Entry, NEW n \in A!ActionRecord,
           n.history = Append(r.history, e), n.state = e.to, e.from = r.state,
           e.to # "ABSENT", n.evidence = r.evidence \cup e.attached,
           r.history = <<>> \/ (n.owner = r.owner /\ n.reviewer = r.reviewer),
           n.closedBy = IF e.to = "CLOSED" THEN n.reviewer ELSE None,
           e.to = "CLOSED" => e.actor = n.reviewer /\ r.state = "IN_REVIEW",
           e.to = "IN_REVIEW" => \/ r.state = "IN_REVIEW"
                                 \/ /\ r.state \in A!Submittable /\ e.actor = n.owner
                                    /\ e.attached = {} /\ A!Enough(r, a)
    PROVE  InOrder(n, a)
<1> DEFINE h == r.history
           g == n.history
           m == Len(h)
<1>0. /\ h \in Seq(A!Entry) /\ Chained(h) /\ Earned(h, r, a)
      /\ r.state = IF h = <<>> THEN "ABSENT" ELSE h[Len(h)].to
      /\ r.evidence = UNION {h[i].attached : i \in DOMAIN h}
      /\ r.state = "IN_REVIEW" => ReviewOpened(h, r.owner, a, Len(h))
  BY DEF InOrder, A!ActionRecord
<1>1. g = Append(h, e)
  OBVIOUS
<1> HIDE DEF h, g
<1>2. /\ m \in Nat /\ DOMAIN h = 1 .. m /\ DOMAIN g = 1 .. (m + 1) /\ Len(g) = m + 1
      /\ \A i \in 1 .. m : g[i] = h[i]
      /\ g[m + 1] = e /\ g \in Seq(A!Entry) /\ g # <<>>
  BY <1>0, <1>1
<1>3. h = <<>> <=> m = 0
  BY <1>0
<1> HIDE DEF m
<1>4. Chained(g)
  <2> SUFFICES ASSUME NEW i \in 1 .. (m + 1)
               PROVE  /\ g[i].from = IF i = 1 THEN "ABSENT" ELSE g[i - 1].to
                      /\ g[i].to # "ABSENT"
    BY <1>2 DEF Chained
  <2>1. CASE i \in 1 .. m
    <3>1. i # 1 => i - 1 \in 1 .. m
      BY <1>2, <2>1
    <3>2. /\ h[i].from = IF i = 1 THEN "ABSENT" ELSE h[i - 1].to
          /\ h[i].to # "ABSENT"
      BY <1>0, <1>2, <2>1 DEF Chained
    <3>3. g[i] = h[i] /\ (i # 1 => g[i - 1] = h[i - 1])
      BY <1>2, <2>1, <3>1
    <3> QED BY <3>2, <3>3
  <2>2. CASE i = m + 1
    <3>1. CASE m = 0
      BY <1>0, <1>2, <1>3, <2>2, <3>1
    <3>2. CASE m # 0
      <4>1. m \in 1 .. m /\ i - 1 = m /\ i # 1 /\ m = Len(h)
        BY <1>2, <2>2, <3>2 DEF m
      <4> QED BY <1>0, <1>2, <1>3, <2>2, <3>2, <4>1
    <3> QED BY <3>1, <3>2
  <2> QED BY <1>2, <2>1, <2>2
<1>5. n.evidence = UNION {g[i].attached : i \in DOMAIN g}
  <2>1. \A x : x \in UNION {g[i].attached : i \in DOMAIN g}
               <=> x \in UNION {h[i].attached : i \in DOMAIN h} \/ x \in e.attached
    <3> TAKE x
    <3>1. ASSUME NEW i \in 1 .. (m + 1), x \in g[i].attached
          PROVE  x \in UNION {h[j].attached : j \in DOMAIN h} \/ x \in e.attached
      <4>1. i \in 1 .. m \/ i = m + 1
        BY <1>2
      <4> QED BY <1>2, <3>1, <4>1
    <3>2. ASSUME NEW i \in 1 .. m, x \in h[i].attached
          PROVE  x \in UNION {g[j].attached : j \in DOMAIN g}
      <4>1. i \in DOMAIN g /\ g[i] = h[i]
        BY <1>2
      <4> QED BY <3>2, <4>1
    <3>3. x \in e.attached => x \in UNION {g[j].attached : j \in DOMAIN g}
      <4>1. m + 1 \in DOMAIN g
        BY <1>2
      <4> QED BY <1>2, <4>1
    <3> QED BY <1>2, <3>1, <3>2, <3>3
  <2> QED BY <1>0, <2>1
<1>6. ASSUME NEW i \in 1 .. m, ReviewOpened(h, r.owner, a, i) PROVE ReviewOpened(g, n.owner, a, i)
  <2>1. r.owner = n.owner
    BY <1>2, <1>3 DEF h
  <2>2. i \in 0 .. Len(h)
    BY <1>2 DEF m
  <2> QED BY <1>0, <1>1, <1>6, <2>1, <2>2, ReviewStays
<1>7. Earned(g, n, a)
  <2> SUFFICES ASSUME NEW i \in 1 .. (m + 1), g[i].to = "CLOSED"
               PROVE  g[i].actor = n.reviewer /\ ReviewOpened(g, n.owner, a, i - 1)
    BY <1>2 DEF Earned
  <2>1. CASE i \in 1 .. m
    <3>1. h[i].actor = r.reviewer /\ ReviewOpened(h, r.owner, a, i - 1)
      BY <1>0, <1>2, <2>1 DEF Earned
    <3>2. i - 1 \in 1 .. m
      <4>1. 1 .. (i - 1) # {}
        BY <3>1 DEF ReviewOpened
      <4> QED BY <1>2, <2>1, <4>1
    <3>3. n.reviewer = r.reviewer
      BY <1>2, <1>3, <2>1 DEF h
    <3> QED BY <1>2, <1>6, <2>1, <3>1, <3>2, <3>3
  <2>2. CASE i = m + 1
    <3>1. e.actor = n.reviewer /\ r.state = "IN_REVIEW"
      BY <1>2, <2>2
    <3>2. ReviewOpened(h, r.owner, a, m) /\ m # 0
      BY <1>0, <1>3, <3>1 DEF m
    <3>3. m \in 1 .. m /\ i - 1 = m
      BY <1>2, <2>2, <3>2
    <3> QED BY <1>2, <1>6, <2>2, <3>1, <3>2, <3>3
  <2> QED BY <1>2, <2>1, <2>2
<1>8. ASSUME n.state = "IN_REVIEW" PROVE ReviewOpened(g, n.owner, a, m + 1)
  <2>1. CASE r.state = "IN_REVIEW"
    <3>1. ReviewOpened(h, r.owner, a, m) /\ m # 0
      BY <1>0, <1>3, <2>1 DEF m
    <3>2. ReviewOpened(g, n.owner, a, m)
      <4>1. m \in 1 .. m
        BY <1>2, <3>1
      <4> QED BY <1>6, <3>1, <4>1
    <3>3. PICK s \in 1 .. m :
            /\ g[s].from \in A!Submittable /\ g[s].to = "IN_REVIEW" /\ g[s].actor = n.owner
            /\ \A k \in (s + 1) .. m : g[k].to = "IN_REVIEW"
            /\ A!Cardinality(UNION {g[k].attached : k \in 1 .. s}) >= Needed[a]
      BY <3>2 DEF ReviewOpened
    <3>4. \A k \in (s + 1) .. (m + 1) : k \in (s + 1) .. m \/ k = m + 1
      BY <1>2
    <3>5. \A k \in (s + 1) .. (m + 1) : g[k].to = "IN_REVIEW"
      BY <1>2, <1>8, <3>3, <3>4
    <3>6. s \in 1 .. (m + 1)
      BY <1>2
    <3> QED BY <3>3, <3>5, <3>6 DEF ReviewOpened
  <2>2. CASE r.state # "IN_REVIEW"
    <3>1. /\ e.from \in A!Submittable /\ e.to = "IN_REVIEW" /\ e.actor = n.owner
          /\ e.attached = {} /\ A!Enough(r, a)
      BY <1>8, <2>2
    <3>2. n.evidence = r.evidence
      BY <3>1
    <3>3. UNION {g[k].attached : k \in 1 .. (m + 1)} = r.evidence
      BY <1>2, <1>5, <3>2
    <3>4. A!Cardinality(UNION {g[k].attached : k \in 1 .. (m + 1)}) >= Needed[a]
      BY <3>1, <3>3 DEF A!Enough
    <3>5. m + 1 \in 1 .. (m + 1) /\ \A k \in (m + 1 + 1) .. (m + 1) : FALSE
      BY <1>2
    <3> QED BY <1>2, <3>1, <3>4, <3>5 DEF ReviewOpened
  <2> QED BY <2>1, <2>2
<1>9. n.state = IF g = <<>> THEN "ABSENT" ELSE g[Len(g)].to
  BY <1>2
<1>10. n.closedBy = IF n.state = "CLOSED" THEN n.reviewer ELSE None
  OBVIOUS
<1> QED BY <1>2, <1>4, <1>5, <1>7, <1>8, <1>9, <1>10 DEF InOrder, g

\* The entry that Logged appends, and what it makes of a record.
LoggedEntry(r, to, p, att) == [from |-> r.state, to |-> to, actor |-> p, attached |-> att]

IsLogged(l, r, e, to) ==
    /\ e \in A!Entry /\ l \in A!ActionRecord
    /\ l.history = Append(r.history, e) /\ l.state = to /\ l.evidence = r.evidence
    /\ l.owner = r.owner /\ l.reviewer = r.reviewer /\ l.closedBy = r.closedBy

LEMMA LoggedRecord ==
    ASSUME NEW r \in A!ActionRecord, NEW to \in A!States, NEW p \in Staff \cup {Timer},
           NEW att \in SUBSET Evidence
    PROVE  IsLogged(A!Logged(r, to, p, att), r, LoggedEntry(r, to, p, att), to)
<1> DEFINE e == LoggedEntry(r, to, p, att)
           m == [r EXCEPT !.state = to]
           n == [m EXCEPT !.history = Append(m.history, e)]
<1>1. e \in A!Entry
  BY DEF A!Entry, A!ActionRecord, LoggedEntry
<1>2. /\ m \in A!ActionRecord /\ m.history = r.history /\ m.state = to
      /\ m.evidence = r.evidence /\ m.owner = r.owner /\ m.reviewer = r.reviewer
      /\ m.closedBy = r.closedBy
  BY DEF A!ActionRecord
<1>3. A!Logged(r, to, p, att) = n
  BY DEF A!Logged, LoggedEntry
<1> HIDE DEF e, m
<1>4. Append(m.history, e) \in Seq(A!Entry)
  BY <1>1, <1>2 DEF A!ActionRecord
<1>5. /\ n \in A!ActionRecord /\ n.history = Append(r.history, e) /\ n.state = to
      /\ n.evidence = r.evidence /\ n.owner = r.owner /\ n.reviewer = r.reviewer
      /\ n.closedBy = r.closedBy
  BY <1>2, <1>4 DEF A!ActionRecord
<1> HIDE DEF n
<1>6. IsLogged(n, r, e, to)
  BY <1>1, <1>5 DEF IsLogged
<1> QED BY <1>3, <1>6 DEF e

\* Update puts in place one record that is in order.
LEMMA UpdateStep ==
    ASSUME ActionInv, NEW a \in Action, NEW n \in A!ActionRecord, A!Update(a, n), InOrder(n, a)
    PROVE  ActionInv'
<1>1. /\ correctives \in [Action -> A!ActionRecord] /\ now \in 1 .. MaxTime
      /\ \A x \in Action : InOrder(correctives[x], x)
  BY DEF ActionInv
<1>2. correctives' = [correctives EXCEPT ![a] = n] /\ now' = now
  BY DEF A!Update
<1>3. correctives' \in [Action -> A!ActionRecord]
  BY <1>1, <1>2
<1>4. \A x \in Action : correctives'[x] = IF x = a THEN n ELSE correctives[x]
  BY <1>1, <1>2
<1>5. ASSUME NEW x \in Action PROVE InOrder(correctives'[x], x)
  BY <1>1, <1>4
<1> QED BY <1>1, <1>2, <1>3, <1>5 DEF ActionInv

\* A call that only logs keeps the invariant, whether owner, reviewer or timer made it.
LEMMA PlainStep ==
    ASSUME ActionInv, NEW a \in Action, NEW to \in A!States \ {"ABSENT", "CLOSED"},
           NEW p \in Staff \cup {Timer},
           A!Update(a, A!Logged(correctives[a], to, p, {})),
           correctives[a].state \notin {"ABSENT", "CLOSED"},
           to = "IN_REVIEW" => /\ correctives[a].state \in A!Submittable
                               /\ p = correctives[a].owner /\ A!Enough(correctives[a], a)
    PROVE  ActionInv'
<1> DEFINE r == correctives[a]
           e == LoggedEntry(r, to, p, {})
           n == A!Logged(r, to, p, {})
<1>1. r \in A!ActionRecord /\ InOrder(r, a)
  BY DEF ActionInv
<1>2. IsLogged(n, r, e, to)
  <2>1. to \in A!States /\ {} \in SUBSET Evidence
    OBVIOUS
  <2> HIDE DEF r
  <2> QED BY <1>1, <2>1, LoggedRecord
<1>3. e.from = r.state /\ e.to = to /\ e.actor = p /\ e.attached = {}
  BY DEF LoggedEntry
<1>4. r.closedBy = None /\ r.state \notin {"ABSENT", "CLOSED"} /\ A!Update(a, n)
  BY <1>1 DEF InOrder
<1>5. to = "IN_REVIEW" => r.state \in A!Submittable /\ p = r.owner /\ A!Enough(r, a)
  OBVIOUS
<1> HIDE DEF r, e, n
<1>6. /\ e \in A!Entry /\ n \in A!ActionRecord
      /\ n.history = Append(r.history, e) /\ n.state = to /\ n.evidence = r.evidence
      /\ n.owner = r.owner /\ n.reviewer = r.reviewer /\ n.closedBy = r.closedBy
  BY <1>2 DEF IsLogged
<1>7. n.evidence = r.evidence \cup e.attached
  BY <1>6, <1>3
<1>8. InOrder(n, a)
  BY <1>1, <1>6, <1>3, <1>4, <1>5, <1>7, EntryAppended
<1> QED BY <1>6, <1>4, <1>8, UpdateStep

\* Every operation of the action manager keeps the invariant.
LEMMA ActionStep == ActionInv /\ [A!Next]_(A!vars) => ActionInv'
<1> SUFFICES ASSUME ActionInv, [A!Next]_(A!vars) PROVE ActionInv'
  OBVIOUS
<1>0. \A a \in Action : correctives[a] \in A!ActionRecord /\ InOrder(correctives[a], a)
  BY DEF ActionInv
<1>1. ASSUME NEW a \in Action, NEW owner \in Staff, NEW reviewer \in Staff,
             NEW creator \in Staff, A!CreateAction(a, owner, reviewer, creator)
      PROVE  ActionInv'
  <2> DEFINE r == correctives[a]
             o == [r EXCEPT !.owner = owner]
             m == [o EXCEPT !.reviewer = reviewer]
             e == LoggedEntry(m, "ASSIGNED", creator, {})
             n == A!Logged(m, "ASSIGNED", creator, {})
  <2>1. r \in A!ActionRecord /\ InOrder(r, a) /\ r.state = "ABSENT"
    BY <1>0, <1>1 DEF A!CreateAction
  <2>2. A!Update(a, n)
    BY <1>1 DEF A!CreateAction
  <2> HIDE DEF r
  <2>3. /\ o \in A!ActionRecord /\ o.history = r.history /\ o.state = r.state
        /\ o.evidence = r.evidence /\ o.closedBy = r.closedBy
    BY <2>1 DEF A!ActionRecord
  <2> HIDE DEF o
  <2>4. /\ m \in A!ActionRecord /\ m.history = r.history /\ m.state = r.state
        /\ m.evidence = r.evidence /\ m.closedBy = r.closedBy
    BY <2>3 DEF A!ActionRecord
  <2> HIDE DEF m
  <2>5. "ASSIGNED" \in A!States /\ creator \in Staff \cup {Timer}
    BY DEF A!States
  <2>6. IsLogged(n, m, e, "ASSIGNED")
    <3>1. {} \in SUBSET Evidence
      OBVIOUS
    <3> QED BY <2>4, <2>5, <3>1, LoggedRecord
  <2>7. e.from = m.state /\ e.to = "ASSIGNED" /\ e.attached = {}
    BY DEF LoggedEntry
  <2> HIDE DEF e, n
  <2>8. /\ e \in A!Entry /\ n \in A!ActionRecord
        /\ n.history = Append(m.history, e) /\ n.state = "ASSIGNED" /\ n.evidence = m.evidence
        /\ n.closedBy = m.closedBy
    BY <2>6 DEF IsLogged
  <2>9. r.history = <<>>
    <3>1. /\ r.state = IF r.history = <<>> THEN "ABSENT" ELSE r.history[Len(r.history)].to
          /\ Chained(r.history) /\ r.history \in Seq(A!Entry)
      BY <2>1 DEF InOrder, A!ActionRecord
    <3>2. r.history # <<>> => Len(r.history) \in DOMAIN r.history
      BY <3>1
    <3> QED BY <2>1, <3>1, <3>2 DEF Chained
  <2>10. r.closedBy = None /\ n.evidence = r.evidence \cup e.attached
    BY <2>1, <2>4, <2>8, <2>7 DEF InOrder
  <2>11. InOrder(n, a)
    BY <2>1, <2>4, <2>8, <2>7, <2>9, <2>10, EntryAppended
  <2> QED BY <2>2, <2>8, <2>11, UpdateStep
<1>2. ASSUME NEW a \in Action, NEW p \in Staff,
             A!StartWork(a, p) \/ A!SubmitForReview(a, p) \/ A!RejectReview(a, p)
      PROVE  ActionInv'
  <2>0. p \in Staff \cup {Timer}
    OBVIOUS
  <2>1. CASE A!StartWork(a, p)
    <3>1. /\ correctives[a].state \notin {"ABSENT", "CLOSED"}
          /\ A!Update(a, A!Logged(correctives[a], "IN_PROGRESS", p, {}))
      BY <2>1 DEF A!StartWork, A!Startable
    <3>2. "IN_PROGRESS" \in A!States \ {"ABSENT", "CLOSED"}
      BY DEF A!States
    <3> QED BY <2>0, <3>1, <3>2, PlainStep
  <2>2. CASE A!SubmitForReview(a, p)
    <3>1. /\ correctives[a].state \notin {"ABSENT", "CLOSED"}
          /\ correctives[a].state \in A!Submittable /\ p = correctives[a].owner
          /\ A!Enough(correctives[a], a)
          /\ A!Update(a, A!Logged(correctives[a], "IN_REVIEW", p, {}))
      BY <2>2 DEF A!SubmitForReview, A!ByOwner, A!Submittable, A!Startable
    <3>2. "IN_REVIEW" \in A!States \ {"ABSENT", "CLOSED"}
      BY DEF A!States
    <3> QED BY <2>0, <3>1, <3>2, PlainStep
  <2>3. CASE A!RejectReview(a, p)
    <3>1. /\ correctives[a].state \notin {"ABSENT", "CLOSED"}
          /\ A!Update(a, A!Logged(correctives[a], "REJECTED", p, {}))
      BY <2>3 DEF A!RejectReview
    <3>2. "REJECTED" \in A!States \ {"ABSENT", "CLOSED"}
      BY DEF A!States
    <3> QED BY <2>0, <3>1, <3>2, PlainStep
  <2> QED BY <1>2, <2>1, <2>2, <2>3
<1>3. ASSUME NEW a \in Action, NEW p \in Staff, A!CloseAction(a, p)
      PROVE  ActionInv'
  <2> DEFINE r == correctives[a]
             e == LoggedEntry(r, "CLOSED", p, {})
             m == A!Logged(r, "CLOSED", p, {})
             n == [m EXCEPT !.closedBy = p]
  <2>1. /\ r \in A!ActionRecord /\ InOrder(r, a) /\ r.state = "IN_REVIEW" /\ p = r.reviewer
        /\ A!Update(a, n)
    BY <1>0, <1>3 DEF A!CloseAction, A!ByReviewer
  <2>2. "CLOSED" \in A!States /\ p \in Staff \cup {Timer}
    BY DEF A!States
  <2>3. IsLogged(m, r, e, "CLOSED")
    <3>1. {} \in SUBSET Evidence
      OBVIOUS
    <3> HIDE DEF r
    <3> QED BY <2>1, <2>2, <3>1, LoggedRecord
  <2>4. e.from = r.state /\ e.to = "CLOSED" /\ e.actor = p /\ e.attached = {}
    BY DEF LoggedEntry
  <2> HIDE DEF r, e, m
  <2>5. /\ e \in A!Entry /\ m \in A!ActionRecord
        /\ m.history = Append(r.history, e) /\ m.state = "CLOSED" /\ m.evidence = r.evidence
        /\ m.owner = r.owner /\ m.reviewer = r.reviewer
    BY <2>3 DEF IsLogged
  <2>6. /\ n \in A!ActionRecord /\ n.history = Append(r.history, e) /\ n.state = "CLOSED"
        /\ n.evidence = r.evidence /\ n.owner = r.owner /\ n.reviewer = r.reviewer
        /\ n.closedBy = p
    BY <2>5 DEF A!ActionRecord
  <2> HIDE DEF n
  <2>7. n.evidence = r.evidence \cup e.attached
    BY <2>4, <2>6
  <2>8. InOrder(n, a)
    BY <2>1, <2>5, <2>4, <2>6, <2>7, EntryAppended
  <2> QED BY <2>1, <2>6, <2>8, UpdateStep
<1>4. ASSUME NEW a \in Action, NEW p \in Staff, A!ReopenAction(a, p)
      PROVE  ActionInv'
  <2> DEFINE r == correctives[a]
             e == LoggedEntry(r, "REOPENED", p, {})
             m == A!Logged(r, "REOPENED", p, {})
             n == [m EXCEPT !.closedBy = None]
  <2>1. /\ r \in A!ActionRecord /\ InOrder(r, a) /\ A!Update(a, n)
    BY <1>0, <1>4 DEF A!ReopenAction, A!Reopened
  <2>2. "REOPENED" \in A!States /\ p \in Staff \cup {Timer}
    BY DEF A!States
  <2>3. IsLogged(m, r, e, "REOPENED")
    <3>1. {} \in SUBSET Evidence
      OBVIOUS
    <3> HIDE DEF r
    <3> QED BY <2>1, <2>2, <3>1, LoggedRecord
  <2>4. e.from = r.state /\ e.to = "REOPENED" /\ e.attached = {}
    BY DEF LoggedEntry
  <2> HIDE DEF r, e, m
  <2>5. /\ e \in A!Entry /\ m \in A!ActionRecord
        /\ m.history = Append(r.history, e) /\ m.state = "REOPENED" /\ m.evidence = r.evidence
        /\ m.owner = r.owner /\ m.reviewer = r.reviewer
    BY <2>3 DEF IsLogged
  <2>6. /\ n \in A!ActionRecord /\ n.history = Append(r.history, e) /\ n.state = "REOPENED"
        /\ n.evidence = r.evidence /\ n.owner = r.owner /\ n.reviewer = r.reviewer
        /\ n.closedBy = None
    BY <2>5 DEF A!ActionRecord
  <2> HIDE DEF n
  <2>7. n.evidence = r.evidence \cup e.attached
    BY <2>4, <2>6
  <2>8. InOrder(n, a)
    BY <2>1, <2>5, <2>4, <2>6, <2>7, EntryAppended
  <2> QED BY <2>1, <2>6, <2>8, UpdateStep
<1>5. ASSUME NEW a \in Action, NEW p \in Staff, NEW v \in Evidence, A!AttachEvidence(a, p, v)
      PROVE  ActionInv'
  <2> DEFINE r == correctives[a]
             e == LoggedEntry(r, r.state, p, {v})
             m == A!Logged(r, r.state, p, {v})
             n == [m EXCEPT !.evidence = m.evidence \cup {v}]
  <2>1. /\ r \in A!ActionRecord /\ InOrder(r, a) /\ r.state \notin {"ABSENT", "CLOSED"}
        /\ A!Update(a, n)
    BY <1>0, <1>5 DEF A!AttachEvidence
  <2>2. r.state \in A!States /\ p \in Staff \cup {Timer} /\ {v} \in SUBSET Evidence
        /\ r.evidence \in SUBSET Evidence
    BY <2>1 DEF A!ActionRecord
  <2>3. IsLogged(m, r, e, r.state)
    <3>1. {v} \in SUBSET Evidence
      OBVIOUS
    <3> HIDE DEF r
    <3> QED BY <2>1, <2>2, <3>1, LoggedRecord
  <2>4. e.from = r.state /\ e.to = r.state /\ e.attached = {v}
    BY DEF LoggedEntry
  <2> HIDE DEF r, e, m
  <2>5. /\ e \in A!Entry /\ m \in A!ActionRecord
        /\ m.history = Append(r.history, e) /\ m.state = r.state /\ m.evidence = r.evidence
        /\ m.owner = r.owner /\ m.reviewer = r.reviewer /\ m.closedBy = r.closedBy
    BY <2>3 DEF IsLogged
  <2>6. /\ n \in A!ActionRecord /\ n.history = Append(r.history, e) /\ n.state = r.state
        /\ n.evidence = r.evidence \cup {v} /\ n.owner = r.owner /\ n.reviewer = r.reviewer
        /\ n.closedBy = r.closedBy
    BY <2>2, <2>5 DEF A!ActionRecord
  <2> HIDE DEF n
  <2>7. n.evidence = r.evidence \cup e.attached /\ r.closedBy = None
    BY <2>1, <2>4, <2>6 DEF InOrder
  <2>8. InOrder(n, a)
    BY <2>1, <2>5, <2>4, <2>6, <2>7, EntryAppended
  <2> QED BY <2>1, <2>6, <2>8, UpdateStep
<1>6. ASSUME NEW a \in Action, A!CheckOverdue(a)
      PROVE  ActionInv'
  <2>1. /\ correctives[a].state \notin {"ABSENT", "CLOSED"}
        /\ A!Update(a, A!Logged(correctives[a], "OVERDUE", Timer, {}))
    BY <1>6 DEF A!CheckOverdue
  <2>2. "OVERDUE" \in A!States \ {"ABSENT", "CLOSED"} /\ Timer \in Staff \cup {Timer}
    BY DEF A!States
  <2> QED BY <2>1, <2>2, PlainStep
<1>7. CASE A!Tick
  <2>1. correctives' = correctives /\ now' \in 1 .. MaxTime
    BY <1>7, WorkAssumption DEF A!Tick, ActionInv, A!ActionAssumption
  <2> QED BY <2>1 DEF ActionInv
<1>8. CASE UNCHANGED A!vars
  BY <1>8 DEF A!vars, ActionInv
<1> QED BY <1>1, <1>2, <1>3, <1>4, <1>5, <1>6, <1>7, <1>8 DEF A!Next

\* What the corrective actions see of a step.
LEMMA CorrectivesSees == [Next]_vars => [A!Next]_(A!vars)
  BY DEF Next, vars, Workflows, Correctives, Governance, Reinspections, Findings, Scores, Gate,
         correctiveVars, A!vars

\* The invariant gives what HistoryReplays and ClosureEarned say.
LEMMA ActionsReplay == ActionInv => HistoryReplays
<1> SUFFICES ASSUME ActionInv PROVE A!HistoryReplays /\ A!ClosureEarned
  BY DEF HistoryReplays
<1>1. A!TypeOK
  BY DEF ActionInv, A!TypeOK
<1>2. \A a \in Action : InOrder(correctives[a], a)
  BY DEF ActionInv
<1>3. A!HistoryReplays
  BY <1>1, <1>2 DEF A!HistoryReplays, InOrder, Chained
<1>4. A!ClosureEarned
  BY <1>2 DEF A!ClosureEarned, InOrder, Earned, ReviewOpened
<1> QED BY <1>3, <1>4

\* ActionManager alone: histories replay and closures are earned, for every set of people,
\* evidence and actions.
THEOREM ManagerReplays == A!Spec => []HistoryReplays
<1>1. A!Init => ActionInv
  BY ActionsInitially
<1> QED BY <1>1, ActionStep, ActionsReplay, PTL DEF A!Spec

\* The property of the run workflow about ActionManager: the history replays to state and
\* evidence, and every closure was earned in an uninterrupted review.
THEOREM HistoryReplaysHolds == Spec => []HistoryReplays
<1>1. Init => ActionInv
  BY ActionsInitially DEF Init
<1>2. ActionInv /\ [Next]_vars => ActionInv'
  BY CorrectivesSees, ActionStep
<1> QED BY <1>1, <1>2, ActionsReplay, PTL DEF Spec
=============================================================================
