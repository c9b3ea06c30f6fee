--------------------------- MODULE ActionLifecycle ---------------------------
(***************************************************************************)
(* Corrective actions: modules/workflow-action/action_lifecycle.go.        *)
(*                                                                         *)
(* Owner, reviewer and the overdue timer act on one action through         *)
(* ActionManager.mu, in any order: the timer may fire while a review is    *)
(* pending.  Callers are identified; a refused call changes nothing.       *)
(***************************************************************************)
EXTENDS Naturals, Sequences, FiniteSets

CONSTANTS
    Action, Person, Evidence,
    Required,     \* [Action -> RequiredEvidenceCount]
    DueDate,      \* [Action -> due date]; 0 is the zero time
    Timer,        \* the actor "system_timer"
    None,         \* no closedBy
    MaxTime,      \* bound on the clock
    MaxHistory    \* bound on the length of a history

ActionAssumption ==
    /\ Required \in [Action -> Nat] /\ DueDate \in [Action -> 0 .. MaxTime]
    /\ {Timer, None} \cap Person = {} /\ MaxHistory \in Nat /\ MaxTime \in Nat \ {0}

VARIABLES
    actions,   \* ActionManager.actions; state "ABSENT" is a free ID
    now        \* ActionManager.clock

vars == <<actions, now>>

States == {"ABSENT", "ASSIGNED", "IN_PROGRESS", "IN_REVIEW", "REJECTED", "OVERDUE",
           "CLOSED", "REOPENED"}

\* ActionHistoryEntry; attached is the evidence the entry names.
Entry == [from : States, to : States, actor : Person \cup {Timer}, attached : SUBSET Evidence]

ActionRecord == [state : States, owner : Person \cup {None}, reviewer : Person \cup {None},
                 evidence : SUBSET Evidence, history : Seq(Entry),
                 closedBy : Person \cup {None}]

TypeOK == actions \in [Action -> ActionRecord] /\ now \in 1 .. MaxTime

Init ==
    /\ actions = [a \in Action |-> [state |-> "ABSENT", owner |-> None, reviewer |-> None,
                                    evidence |-> {}, history |-> <<>>, closedBy |-> None]]
    /\ now = 1

-----------------------------------------------------------------------------
\* Deliberate faults, used only to show that the properties can fail.
Enough_OffByOne(r, a) == Cardinality(r.evidence) + 1 >= Required[a]
Logged_FromTarget(r, to, p, attached) ==
    [r EXCEPT !.state = to,
              !.history = Append(@, [from |-> to, to |-> to, actor |-> p,
                                     attached |-> attached])]
-----------------------------------------------------------------------------

\* States from which the owner may start work, and submit for review.
Startable == {"ASSIGNED", "REJECTED", "REOPENED", "OVERDUE"}
Submittable == Startable \cup {"IN_PROGRESS"}

Enough(r, a) == Cardinality(r.evidence) >= Required[a]
ByOwner(r, p) == p = r.owner
ByReviewer(r, p) == p = r.reviewer

\* Every transition appends one history entry, numbered by its position.
Logged(r, to, p, attached) ==
    [r EXCEPT !.state = to,
              !.history = Append(@, [from |-> r.state, to |-> to, actor |-> p,
                                     attached |-> attached])]

\* Reopening keeps the evidence that was accepted and clears the closure.
Reopened(r, p) == [Logged(r, "REOPENED", p, {}) EXCEPT !.closedBy = None]

Update(a, r) ==
    /\ Len(r.history) <= MaxHistory
    /\ actions' = [actions EXCEPT ![a] = r]
    /\ UNCHANGED now

\* ActionManager.CreateAction: nothing keeps owner and reviewer apart.
CreateAction(a, owner, reviewer, creator) ==
    /\ actions[a].state = "ABSENT"
    /\ Update(a, Logged([actions[a] EXCEPT !.owner = owner, !.reviewer = reviewer],
                        "ASSIGNED", creator, {}))

\* ActionManager.StartWork; from IN_PROGRESS it is an idempotent no-op.
StartWork(a, p) ==
    LET r == actions[a] IN
    /\ ByOwner(r, p)
    /\ r.state \in Startable
    /\ Update(a, Logged(r, "IN_PROGRESS", p, {}))

\* ActionManager.AttachEvidence, allowed in every state but CLOSED.
AttachEvidence(a, p, e) ==
    LET r == actions[a] IN
    /\ r.state \notin {"ABSENT", "CLOSED"}
    /\ ByOwner(r, p)
    /\ e \notin r.evidence
    /\ Update(a, [Logged(r, r.state, p, {e}) EXCEPT !.evidence = @ \cup {e}])

\* ActionManager.SubmitForReview.
SubmitForReview(a, p) ==
    LET r == actions[a] IN
    /\ ByOwner(r, p)
    /\ r.state \in Submittable
    /\ Enough(r, a)
    /\ Update(a, Logged(r, "IN_REVIEW", p, {}))

\* ActionManager.RejectReview.
RejectReview(a, p) ==
    LET r == actions[a] IN
    /\ ByReviewer(r, p)
    /\ r.state = "IN_REVIEW"
    /\ Update(a, Logged(r, "REJECTED", p, {}))

\* ActionManager.CloseAction.
CloseAction(a, p) ==
    LET r == actions[a] IN
    /\ ByReviewer(r, p)
    /\ r.state = "IN_REVIEW"
    /\ Enough(r, a)
    /\ Update(a, [Logged(r, "CLOSED", p, {}) EXCEPT !.closedBy = p])

\* ActionManager.ReopenAction.
ReopenAction(a, p) ==
    LET r == actions[a] IN
    /\ r.state = "CLOSED"
    /\ ByReviewer(r, p)
    /\ Update(a, Reopened(r, p))

\* ActionManager.CheckOverdue: any open state, a pending review included.
CheckOverdue(a) ==
    LET r == actions[a] IN
    /\ r.state \notin {"ABSENT", "CLOSED", "OVERDUE"}
    /\ DueDate[a] # 0 /\ now > DueDate[a]
    /\ Update(a, Logged(r, "OVERDUE", Timer, {}))

\* The clock advances (environment).
Tick == now < MaxTime /\ now' = now + 1 /\ UNCHANGED actions

Next ==
    \/ \E a \in Action, owner, reviewer, creator \in Person :
          CreateAction(a, owner, reviewer, creator)
    \/ \E a \in Action, p \in Person :
          StartWork(a, p) \/ SubmitForReview(a, p) \/ RejectReview(a, p)
          \/ CloseAction(a, p) \/ ReopenAction(a, p)
    \/ \E a \in Action, p \in Person, e \in Evidence : AttachEvidence(a, p, e)
    \/ \E a \in Action : CheckOverdue(a)
    \/ Tick

Spec == Init /\ [][Next]_vars

-----------------------------------------------------------------------------
\* The history of an action replays to its state and to its evidence: entries
\* chain from ASSIGNED to the present state, and the evidence held is exactly what
\* the entries attached, through rejections and reopenings.
HistoryReplays ==
    TypeOK /\
    \A a \in Action :
        LET r == actions[a]  h == r.history IN
        /\ \A i \in DOMAIN h : h[i].from = IF i = 1 THEN "ABSENT" ELSE h[i - 1].to
        /\ r.state = IF h = <<>> THEN "ABSENT" ELSE h[Len(h)].to
        /\ r.evidence = UNION {h[i].attached : i \in DOMAIN h}

\* Every closure in a history was made by the reviewer out of a review that the
\* owner had opened with the required evidence already attached, the timer not
\* having interrupted in between; closedBy names the closer while closed.
ClosureEarned ==
    \A a \in Action :
        LET r == actions[a]  h == r.history IN
        /\ r.closedBy = IF r.state = "CLOSED" THEN r.reviewer ELSE None
        /\ \A i \in DOMAIN h : h[i].to = "CLOSED" =>
              /\ h[i].actor = r.reviewer
              /\ \E s \in 1 .. (i - 1) :
                    /\ h[s].from \in Submittable /\ h[s].to = "IN_REVIEW"
                    /\ h[s].actor = r.owner
                    /\ \A k \in (s + 1) .. (i - 1) : h[k].to = "IN_REVIEW"
                    /\ Cardinality(UNION {h[k].attached : k \in 1 .. s}) >= Required[a]
=============================================================================
