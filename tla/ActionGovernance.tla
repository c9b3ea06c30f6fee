-------------------------- MODULE ActionGovernance --------------------------
(***************************************************************************)
(* Governed corrective actions: ownership, due-date extensions,            *)
(* escalations and evidence review                                         *)
(* (modules/workflow-action/action_governance.go).                         *)
(*                                                                         *)
(* Every mutation runs under ActionGovernanceEngine.mu and carries the     *)
(* StateVersion its caller read; one that is stale is refused and changes  *)
(* nothing, so each step below is a call made with the current version.    *)
(***************************************************************************)
EXTENDS Naturals, Sequences

CONSTANTS
    Action, Person, Evidence, Request,
    Nobody,       \* the blank owner, and the reviewer of an undecided item
    DueDates,     \* due dates in use, a set of numbers
    MaxVersion    \* bound on StateVersion

GovernanceAssumption ==
    Nobody \notin Person /\ DueDates \subseteq Nat /\ MaxVersion \in Nat \ {0}

VARIABLE actions   \* ActionGovernanceEngine.actions; version 0 is not registered

Item(statuses) == [status : statuses \cup {"ABSENT"}, by : Person \cup {Nobody},
                   reviewer : Person \cup {Nobody}]

NoItem == [status |-> "ABSENT", by |-> Nobody, reviewer |-> Nobody]

\* OwnershipRecord: who, and whether the record IsActive.
Custody == [owner : Person, active : BOOLEAN]

\* GovernedAction; dueOf gives the date an extension asks for, from the date it
\* was asked against.
GovernedAction ==
    [closed : BOOLEAN, owner : Person \cup {Nobody}, dueDate : DueDates \cup {0},
     version : 0 .. MaxVersion, custody : Seq(Custody),
     extensions : [Request -> Item({"PENDING", "APPROVED", "REJECTED"})],
     dueOf : [Request -> DueDates \cup {0}],
     escalations : [Request -> Item({"PENDING", "ACKNOWLEDGED"})],
     evidence : [Evidence -> Item({"SUBMITTED", "ACCEPTED", "REJECTED"})]]

Unregistered ==
    [closed |-> FALSE, owner |-> Nobody, dueDate |-> 0, version |-> 0, custody |-> <<>>,
     extensions |-> [q \in Request |-> NoItem], dueOf |-> [q \in Request |-> 0],
     escalations |-> [q \in Request |-> NoItem], evidence |-> [e \in Evidence |-> NoItem]]

GovernanceTypeOK == actions \in [Action -> GovernedAction]

GovernanceInit == actions = [a \in Action |-> Unregistered]

-----------------------------------------------------------------------------
\* Deliberate faults, used only to show that the properties can fail.
Deactivated_LastKept(custody) ==
    [i \in DOMAIN custody |-> IF i = Len(custody) THEN custody[i]
                              ELSE [custody[i] EXCEPT !.active = FALSE]]
Independent_OfOwnerOnly(r, item, p) == p # r.owner
Approved_AnyDate(r, q) == [r EXCEPT !.dueDate = CHOOSE d \in DueDates : d # r.dueOf[q]]
-----------------------------------------------------------------------------

\* Registered and not CLOSED: what every mutation requires.
Mutable(a) == actions[a].version > 0 /\ ~actions[a].closed

\* StateVersion++ of every mutation.
Bumped(r) == [r EXCEPT !.version = @ + 1]

Mutate(a, r) ==
    /\ Mutable(a)
    /\ actions[a].version < MaxVersion
    /\ actions' = [actions EXCEPT ![a] = Bumped(r)]

\* Every ownership record is closed before a new one is opened.
Deactivated(custody) == [i \in DOMAIN custody |-> [custody[i] EXCEPT !.active = FALSE]]

\* A request or evidence ID is free while no item carries it.
Unasked(item) == item.status = "ABSENT"

\* The item still awaits its decision.
Undecided(item) == item.status \in {"PENDING", "SUBMITTED"}

\* Segregation of duties: neither the requester nor the current owner decides.
Independent(r, item, p) == p # item.by /\ p # r.owner

\* ActionGovernanceEngine.RegisterAction.
RegisterAction(a, owner, due, closed) ==
    /\ actions[a].version = 0
    /\ actions' = [actions EXCEPT ![a] =
          [Unregistered EXCEPT !.version = 1, !.owner = owner, !.dueDate = due,
                               !.closed = closed,
                               !.custody = IF owner = Nobody THEN <<>>
                                           ELSE <<[owner |-> owner, active |-> TRUE]>>]]

\* ActionGovernanceEngine.ReassignOwner; the caller is only recorded.
ReassignOwner(a, newOwner) ==
    LET r == actions[a] IN
    Mutate(a, [r EXCEPT !.owner = newOwner,
                        !.custody = Append(Deactivated(@), [owner |-> newOwner,
                                                            active |-> TRUE])])

\* ActionGovernanceEngine.RevokeOwner.
RevokeOwner(a) ==
    LET r == actions[a] IN
    /\ r.owner # Nobody
    /\ Mutate(a, [r EXCEPT !.owner = Nobody, !.custody = Deactivated(@)])

\* ActionGovernanceEngine.RequestExtension: later than the due date of this moment.
RequestExtension(a, q, p, due) ==
    LET r == actions[a] IN
    /\ Unasked(r.extensions[q])
    /\ due > r.dueDate
    /\ Mutate(a, [r EXCEPT !.extensions[q] = [status |-> "PENDING", by |-> p,
                                              reviewer |-> Nobody],
                           !.dueOf[q] = due])

\* The due date an approved extension sets.
Approved(r, q) == [r EXCEPT !.dueDate = r.dueOf[q]]

\* ActionGovernanceEngine.ReviewExtension: approval writes the requested date,
\* whatever the due date has become since the request.
ReviewExtension(a, q, p, approve) ==
    LET r == actions[a]
        decided == [r EXCEPT !.extensions[q].reviewer = p,
                             !.extensions[q].status = IF approve THEN "APPROVED"
                                                      ELSE "REJECTED"]
    IN  /\ Undecided(r.extensions[q])
        /\ Independent(r, r.extensions[q], p)
        /\ Mutate(a, IF approve THEN Approved(decided, q) ELSE decided)

\* ActionGovernanceEngine.RequestEscalation.
RequestEscalation(a, q, p) ==
    LET r == actions[a] IN
    /\ Unasked(r.escalations[q])
    /\ Mutate(a, [r EXCEPT !.escalations[q] = [status |-> "PENDING", by |-> p,
                                               reviewer |-> Nobody]])

\* ActionGovernanceEngine.AcknowledgeEscalation.
AcknowledgeEscalation(a, q, p) ==
    LET r == actions[a] IN
    /\ Undecided(r.escalations[q])
    /\ Independent(r, r.escalations[q], p)
    /\ Mutate(a, [r EXCEPT !.escalations[q].status = "ACKNOWLEDGED",
                           !.escalations[q].reviewer = p])

\* ActionGovernanceEngine.SubmitEvidence, by whoever the caller says submitted it.
SubmitEvidence(a, e, p) ==
    LET r == actions[a] IN
    /\ Unasked(r.evidence[e])
    /\ Mutate(a, [r EXCEPT !.evidence[e] = [status |-> "SUBMITTED", by |-> p,
                                            reviewer |-> Nobody]])

\* ActionGovernanceEngine.ReviewEvidence.
ReviewEvidence(a, e, p, accept) ==
    LET r == actions[a] IN
    /\ Undecided(r.evidence[e])
    /\ Independent(r, r.evidence[e], p)
    /\ Mutate(a, [r EXCEPT !.evidence[e].reviewer = p,
                           !.evidence[e].status = IF accept THEN "ACCEPTED" ELSE "REJECTED"])

EvidenceNext ==
    \/ \E a \in Action, e \in Evidence, p \in Person : SubmitEvidence(a, e, p)
    \/ \E a \in Action, e \in Evidence, p \in Person, ok \in BOOLEAN :
          ReviewEvidence(a, e, p, ok)

CustodyNext ==
    \/ \E a \in Action, owner \in Person \cup {Nobody}, due \in DueDates, closed \in BOOLEAN :
          RegisterAction(a, owner, due, closed)
    \/ \E a \in Action, p \in Person : ReassignOwner(a, p)
    \/ \E a \in Action : RevokeOwner(a)

RequestNext ==
    \/ \E a \in Action, q \in Request, p \in Person, due \in DueDates :
          RequestExtension(a, q, p, due)
    \/ \E a \in Action, q \in Request, p \in Person, ok \in BOOLEAN :
          ReviewExtension(a, q, p, ok)
    \/ \E a \in Action, q \in Request, p \in Person : RequestEscalation(a, q, p)
    \/ \E a \in Action, q \in Request, p \in Person : AcknowledgeEscalation(a, q, p)

GovernanceNext == CustodyNext \/ RequestNext \/ EvidenceNext

GovernanceSpec == GovernanceInit /\ [][GovernanceNext]_actions

-----------------------------------------------------------------------------
\* At most one custody record is active, it is the newest, and it is the current
\* owner's; without an owner none is ("unbroken ... trail of ownership").
OneActiveCustodian ==
    GovernanceTypeOK /\
    \A a \in Action :
        LET r == actions[a]  n == Len(r.custody) IN
        /\ \A i \in 1 .. n : r.custody[i].active => i = n
        /\ r.owner # Nobody => n > 0 /\ r.custody[n] = [owner |-> r.owner, active |-> TRUE]
        /\ r.owner = Nobody => \A i \in 1 .. n : ~r.custody[i].active

\* No item was ever decided by the one who raised it; undecided items have no
\* reviewer and decided ones have exactly one, across changes of ownership.
DecidedByAnother ==
    \A a \in Action :
        \A item \in {actions[a].extensions[q] : q \in Request}
                    \cup {actions[a].escalations[q] : q \in Request}
                    \cup {actions[a].evidence[e] : e \in Evidence} :
            /\ Unasked(item) \/ Undecided(item) => item.reviewer = Nobody
            /\ ~Unasked(item) /\ ~Undecided(item) => item.reviewer \in Person \ {item.by}

\* From r to n, extension q was approved, by neither its requester nor the owner that r
\* has by now, and n is due when q asked.
ApprovedBy(r, n, q) ==
    /\ Undecided(r.extensions[q]) /\ n.extensions[q].status = "APPROVED"
    /\ n.extensions[q].reviewer \notin {r.extensions[q].by, r.owner}
    /\ n.dueDate = r.dueOf[q]

\* However the approvals follow one another and the ownership changes, the due date is the
\* registered one or the one asked for by an extension that was approved in that very
\* step by somebody independent of requester and present owner.
DueDateIsApproved ==
    [][\A a \in Action : actions'[a].dueDate # actions[a].dueDate =>
          \/ actions[a].version = 0
          \/ \E q \in Request : ApprovedBy(actions[a], actions'[a], q)]_actions
=============================================================================
