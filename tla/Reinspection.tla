---------------------------- MODULE Reinspection ----------------------------
(***************************************************************************)
(* Reinspection orders over governed actions:                              *)
(* modules/workflow-action/reinspection_lifecycle.go, composed with        *)
(* ActionGovernance.                                                       *)
(*                                                                         *)
(* The two engines have separate locks.  VerifySatisfactory holds its own  *)
(* (busy), calls GetAction and then, the action engine's lock released,    *)
(* walks the evidence slice.  GetAction copies the struct but not the      *)
(* slice, so the walk covers the items present at the copy and reads each  *)
(* status while ReviewEvidence may be writing it: it sees the status of    *)
(* the copy or the present one, item by item.  As in ActionGovernance,     *)
(* calls with a stale StateVersion are refused and left out.               *)
(*                                                                         *)
(* A caller is named by a spelling, perhaps padded with blanks.  Whether a *)
(* caller is revoked is looked up under the spelling given; three methods  *)
(* trim it afterwards, the others write it down as it is.  Roles are the   *)
(* person's, and a reinspector's name is trimmed when it is assigned.      *)
(***************************************************************************)
EXTENDS ActionGovernance, FiniteSets

CONSTANTS
    Order,
    ActionOf,       \* [Order -> Action]: ReinspectionOrder.ActionID
    Inspector,      \* [Order -> Person]: OriginalInspector
    Spelling,       \* the strings a caller may be named by, the trimmed names among them
    TrimSpace,      \* [Spelling -> Person]: strings.TrimSpace
    Supervisor,     \* people acting under a supervisor role
    Closer,         \* people acting under a role with human closure authority
    Auditor,        \* people with a third-party auditor role
    Rules,          \* independence rules in use
    Required,       \* GovernedAction.RequiredEvidenceCount
    Idle,           \* no verification is under way
    MaxHistory      \* bound on the length of an order's history

ReinspectionAssumption ==
    /\ ActionOf \in [Order -> Action] /\ Inspector \in [Order -> Person]
    /\ Person \subseteq Spelling /\ Nobody \notin Spelling
    /\ TrimSpace \in [Spelling -> Person] /\ \A p \in Person : TrimSpace[p] = p
    /\ Supervisor \cup Closer \cup Auditor \subseteq Person
    /\ Rules \subseteq {"SAME_INSPECTOR_ALLOWED", "DIFFERENT_INSPECTOR_REQUIRED",
                        "THIRD_PARTY_REQUIRED"}
    /\ Required \in Nat /\ MaxHistory \in Nat

VARIABLES
    orders,         \* ReinspectionEngine.orders
    revokedActors,  \* ReinspectionEngine.revokedActors: the spellings revoked
    busy,           \* the verification between GetAction and its end, or Idle
    basis           \* observer: [Order -> evidence the last verification accepted]

vars == <<actions, orders, revokedActors, busy, basis>>

States == {"ABSENT", "PENDING_ASSIGNMENT", "ASSIGNED", "IN_PROGRESS",
           "VERIFIED_SATISFACTORY", "REJECTED_DEFICIENT", "CLOSED", "REOPENED"}

Entry == [to : States, actor : Spelling \cup {Nobody}]

OrderRecord == [state : States, rule : Rules \cup {"none"}, reinspector : Person \cup {Nobody},
                closedBy : Spelling \cup {Nobody}, recurrences : Nat, history : Seq(Entry)]

\* What VerifySatisfactory holds while it walks: the evidence items of the copy,
\* with the statuses they had; known is FALSE if GetAction failed.
Walk == [order : Order, caller : Person, known : BOOLEAN, items : SUBSET Evidence,
         copied : [Evidence -> {"ABSENT", "SUBMITTED", "ACCEPTED", "REJECTED"}]]

TypeOK ==
    /\ GovernanceTypeOK
    /\ orders \in [Order -> OrderRecord]
    /\ revokedActors \subseteq Spelling
    /\ busy \in Walk \cup {Idle}
    /\ basis \in [Order -> [known : BOOLEAN, items : SUBSET Evidence]]

Init ==
    /\ GovernanceInit
    /\ orders = [o \in Order |-> [state |-> "ABSENT", rule |-> "none", reinspector |-> Nobody,
                                  closedBy |-> Nobody, recurrences |-> 0, history |-> <<>>]]
    /\ revokedActors = {}
    /\ busy = Idle
    /\ basis = [o \in Order |-> [known |-> FALSE, items |-> {}]]

-----------------------------------------------------------------------------
\* Deliberate faults, used only to show that the properties can fail.
AcceptedOnly_Submitted(status) == status # "REJECTED"
Closable_InProgress(state) == state \in {"VERIFIED_SATISFACTORY", "IN_PROGRESS"}
-----------------------------------------------------------------------------

\* The independence rule, applied to the person an order is assigned to.
SatisfiesRule(o, rule, p) ==
    /\ rule = "DIFFERENT_INSPECTOR_REQUIRED" => p # Inspector[o]
    /\ rule = "THIRD_PARTY_REQUIRED" => p \in Auditor

\* The assigned reinspector, or any supervisor: the caller as given is not revoked, and
\* the independence test is about the name trimmed.
MayInspect(o, caller) ==
    /\ caller \notin revokedActors
    /\ TrimSpace[caller] = orders[o].reinspector \/ TrimSpace[caller] \in Supervisor

\* Who may close and reopen: a human with closure authority, not revoked as spelt.
MayClose(caller) == caller \notin revokedActors /\ TrimSpace[caller] \in Closer

\* A status that lets verification through.
AcceptedOnly(status) == status \notin {"REJECTED", "SUBMITTED"}

\* FinalClose's required preceding state.
Closable(state) == state = "VERIFIED_SATISFACTORY"

\* A change of an order's state and the history entry it appends.
Entered(r, to, p) ==
    [r EXCEPT !.state = to, !.history = Append(@, [to |-> to, actor |-> p])]

\* A call of the reinspection engine that leaves the action engine alone.
Save(o, r) ==
    /\ busy = Idle
    /\ Len(r.history) <= MaxHistory
    /\ orders' = [orders EXCEPT ![o] = r]
    /\ UNCHANGED <<actions, revokedActors, busy, basis>>

\* ReinspectionEngine.RevokeActorAuthority, under the spelling given.
RevokeActorAuthority(actor) ==
    /\ busy = Idle
    /\ revokedActors' = revokedActors \cup {actor}
    /\ UNCHANGED <<actions, orders, busy, basis>>

\* ReinspectionEngine.CreateReinspectionOrder, the caller leaving State blank.
CreateReinspectionOrder(o, rule, p) ==
    /\ orders[o].state = "ABSENT"
    /\ p # Nobody => SatisfiesRule(o, rule, p)
    /\ Save(o, Entered([orders[o] EXCEPT !.rule = rule, !.reinspector = p],
                       IF p = Nobody THEN "PENDING_ASSIGNMENT" ELSE "ASSIGNED", Nobody))

\* ReinspectionEngine.AssignReinspector: from every open state, verified included.
AssignReinspector(o, p, caller) ==
    /\ orders[o].state \notin {"ABSENT", "CLOSED"}
    /\ caller \notin revokedActors
    /\ SatisfiesRule(o, orders[o].rule, p)
    /\ Save(o, Entered([orders[o] EXCEPT !.reinspector = p], "ASSIGNED", caller))

\* ReinspectionEngine.StartReinspection; from IN_PROGRESS an idempotent no-op.
StartReinspection(o, caller) ==
    /\ MayInspect(o, caller)
    /\ orders[o].state \in {"ASSIGNED", "REJECTED_DEFICIENT", "REOPENED"}
    /\ Save(o, Entered(orders[o], "IN_PROGRESS", TrimSpace[caller]))

\* ReinspectionEngine.VerifySatisfactory up to and including GetAction.
VerifyRead(o, caller) ==
    LET r == actions[ActionOf[o]] IN
    /\ busy = Idle
    /\ MayInspect(o, caller)
    /\ orders[o].state = "IN_PROGRESS"
    /\ busy' = [order |-> o, caller |-> TrimSpace[caller], known |-> r.version > 0,
                items |-> {e \in Evidence : ~Unasked(r.evidence[e])},
                copied |-> [e \in Evidence |-> r.evidence[e].status]]
    /\ UNCHANGED <<actions, orders, revokedActors, basis>>

\* The walk and the rest of VerifySatisfactory.  old is the set of items whose
\* status it read before their latest change.  An action the engine does not know
\* is not checked at all.
VerifyWrite(old) ==
    LET o == busy.order
        seen(e) == IF e \in old THEN busy.copied[e]
                   ELSE actions[ActionOf[o]].evidence[e].status
        passes == ~busy.known \/ /\ \A e \in busy.items : AcceptedOnly(seen(e))
                                 /\ Cardinality(busy.items) >= Required
    IN  /\ busy # Idle
        /\ old \subseteq busy.items
        /\ busy' = Idle
        /\ IF passes
           THEN /\ Len(orders[o].history) < MaxHistory
                /\ orders' = [orders EXCEPT ![o] =
                                 Entered(@, "VERIFIED_SATISFACTORY", busy.caller)]
                /\ basis' = [basis EXCEPT ![o] = [known |-> busy.known, items |-> busy.items]]
           ELSE UNCHANGED <<orders, basis>>
        /\ UNCHANGED <<actions, revokedActors>>

\* ReinspectionEngine.SubmitDeficiencyRejection.
SubmitDeficiencyRejection(o, caller, recurred) ==
    /\ MayInspect(o, caller)
    /\ orders[o].state = "IN_PROGRESS"
    /\ Save(o, Entered([orders[o] EXCEPT !.recurrences = IF recurred THEN @ + 1 ELSE @],
                       "REJECTED_DEFICIENT", TrimSpace[caller]))

\* ReinspectionEngine.FinalClose, online, by a human with closure authority: the
\* state is checked, the action's evidence is not looked at again.
FinalClose(o, caller) ==
    /\ MayClose(caller)
    /\ Closable(orders[o].state)
    /\ Save(o, [Entered(orders[o], "CLOSED", caller) EXCEPT !.closedBy = caller])

\* ReinspectionEngine.Reopen.
Reopen(o, caller) ==
    /\ MayClose(caller)
    /\ orders[o].state = "CLOSED"
    /\ Save(o, [Entered(orders[o], "REOPENED", caller) EXCEPT !.closedBy = Nobody])

\* ReinspectionEngine.LinkRecurrence.
LinkRecurrence(o, caller) ==
    /\ orders[o].state \notin {"ABSENT", "CLOSED"}
    /\ caller \notin revokedActors
    /\ Save(o, Entered([orders[o] EXCEPT !.recurrences = @ + 1], orders[o].state, caller))

\* Steps of the action engine, which its own lock lets in at any time.
ActionStep ==
    /\ CustodyNext \/ EvidenceNext
    /\ UNCHANGED <<orders, revokedActors, busy, basis>>

Next ==
    \/ ActionStep
    \/ \E actor \in Spelling : RevokeActorAuthority(actor)
    \/ \E o \in Order, rule \in Rules, p \in Person \cup {Nobody} :
          CreateReinspectionOrder(o, rule, p)
    \/ \E o \in Order, p \in Person, caller \in Spelling : AssignReinspector(o, p, caller)
    \/ \E o \in Order, caller \in Spelling :
          \/ StartReinspection(o, caller) \/ VerifyRead(o, caller)
          \/ FinalClose(o, caller) \/ Reopen(o, caller) \/ LinkRecurrence(o, caller)
    \/ \E o \in Order, caller \in Spelling, recurred \in BOOLEAN :
          SubmitDeficiencyRejection(o, caller, recurred)
    \/ \E old \in SUBSET Evidence : VerifyWrite(old)

Spec == Init /\ [][Next]_vars

-----------------------------------------------------------------------------
Verified(o) == orders[o].state \in {"VERIFIED_SATISFACTORY", "CLOSED"}

\* The unlocked walk is harmless: evidence a verification of a known action rested
\* on is accepted and stays accepted, and there was enough of it, because accepted
\* and rejected are final statuses.
VerifiedOnAccepted ==
    TypeOK /\
    \A o \in Order : Verified(o) /\ basis[o].known =>
        /\ \A e \in basis[o].items : actions[ActionOf[o]].evidence[e].status = "ACCEPTED"
        /\ Cardinality(basis[o].items) >= Required

\* A closed order was verified and then closed by the person named, with nothing
\* but recurrence links in between; the history ends in the present state.
ClosedAfterVerification ==
    \A o \in Order :
        LET r == orders[o]  h == r.history IN
        /\ h # <<>> => h[Len(h)].to = r.state
        /\ r.state = "CLOSED" =>
              /\ TrimSpace[r.closedBy] \in Closer /\ h[Len(h)].actor = r.closedBy
              /\ h[Len(h) - 1].to = "VERIFIED_SATISFACTORY"
        /\ r.state # "CLOSED" => r.closedBy = Nobody

\* "Revocation check: caller must not be revoked": no entry is added to a history under
\* a name that is revoked.  Not so for a caller who is trimmed after the check.
RevokedActorsAreSilent ==
    [][\A o \in Order :
          LET h == orders'[o].history IN
          Len(h) > Len(orders[o].history) => h[Len(h)].actor \notin revokedActors]_vars

\* "Reinspection verification and closure require ... zero pending/rejected
\* evidence": no evidence of an action that the verification checked is undecided or
\* rejected at the closure.
ClosedOnCleanEvidence ==
    [][\A o \in Order :
          orders[o].state # "CLOSED" /\ orders'[o].state = "CLOSED" /\ basis[o].known =>
          \A e \in Evidence :
             actions[ActionOf[o]].evidence[e].status \notin {"SUBMITTED", "REJECTED"}]_vars
=============================================================================
