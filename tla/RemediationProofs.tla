-------------------------- MODULE RemediationProofs --------------------------
(***************************************************************************)
(* Proofs about the rest of modules/workflow-action, as MCWork composes    *)
(* it: ActionGovernance, Reinspection over its own governed actions,       *)
(* FindingLifecycle and FailClosedGovernor, for every set of actions,      *)
(* people, orders, findings, rules, targets and requests, and every bound. *)
(***************************************************************************)
EXTENDS MCWork, SequenceTheorems, TLAPS

-----------------------------------------------------------------------------
\* Action governance.

\* The rules for one governed action: its custody, and each of its items.
InCustody(r) ==
    LET n == Len(r.custody) IN
    /\ \A i \in 1 .. n : r.custody[i].active => i = n
    /\ r.owner # Nobody => n > 0 /\ r.custody[n] = [owner |-> r.owner, active |-> TRUE]
    /\ r.owner = Nobody => \A i \in 1 .. n : ~r.custody[i].active

Decided(item) ==
    /\ G!Unasked(item) \/ G!Undecided(item) => item.reviewer = Nobody
    /\ ~G!Unasked(item) /\ ~G!Undecided(item) => item.reviewer \in Staff \ {item.by}

Settled(r) ==
    /\ \A q \in Ask : Decided(r.extensions[q]) /\ Decided(r.escalations[q])
    /\ \A e \in Evidence : Decided(r.evidence[e])

Governed(r) == r \in G!GovernedAction /\ InCustody(r) /\ Settled(r)

GovernanceInv ==
    governed \in [Action -> G!GovernedAction] /\ \A a \in Action : Governed(governed[a])

\* How the due date of an action may differ between two of its records.
DueMoved(r, n) ==
    n.dueDate # r.dueDate => r.version = 0 \/ \E q \in Ask : G!ApprovedBy(r, n, q)

\* Closing all custody records leaves none active, and as many as there were.
LEMMA AllDeactivated ==
    ASSUME NEW c \in Seq(G!Custody)
    PROVE  /\ G!Deactivated(c) \in Seq(G!Custody) /\ Len(G!Deactivated(c)) = Len(c)
           /\ \A i \in 1 .. Len(c) : ~G!Deactivated(c)[i].active
<1>0. DOMAIN c = 1 .. Len(c) /\ Len(c) \in Nat
  OBVIOUS
<1>1. \A i \in DOMAIN c : c[i] \in G!Custody
  OBVIOUS
<1>2. \A i \in DOMAIN c : /\ [c[i] EXCEPT !.active = FALSE] \in G!Custody
                          /\ ~[c[i] EXCEPT !.active = FALSE].active
  BY <1>1 DEF G!Custody
<1>3. G!Deactivated(c) \in [1 .. Len(c) -> G!Custody]
  BY <1>0, <1>2 DEF G!Deactivated
<1>4. \A i \in 1 .. Len(c) : G!Deactivated(c)[i] = [c[i] EXCEPT !.active = FALSE]
  BY <1>0 DEF G!Deactivated
<1>5. \A i \in 1 .. Len(c) : ~G!Deactivated(c)[i].active
  BY <1>0, <1>2, <1>4
<1>6. G!Deactivated(c) \in Seq(G!Custody) /\ Len(G!Deactivated(c)) = Len(c)
  BY <1>0, <1>3
<1> QED BY <1>5, <1>6

\* An unregistered action has no owner and no items.
LEMMA UnregisteredGoverned == Governed(G!Unregistered)
<1> DEFINE r == G!Unregistered
           none == [q \in Ask |-> G!NoItem]
<1>1. \A statuses : G!NoItem \in G!Item(statuses)
  BY DEF G!NoItem, G!Item
<1>2. Decided(G!NoItem)
  BY DEF G!NoItem, Decided, G!Unasked, G!Undecided
<1>3. /\ r.closed = FALSE /\ r.owner = Nobody /\ r.dueDate = 0 /\ r.version = 0
      /\ r.custody = <<>> /\ r.extensions = [q \in Ask |-> G!NoItem]
      /\ r.dueOf = [q \in Ask |-> 0] /\ r.escalations = [q \in Ask |-> G!NoItem]
      /\ r.evidence = [e \in Evidence |-> G!NoItem]
  BY DEF G!Unregistered
<1>4. <<>> \in Seq(G!Custody) /\ Len(<<>>) = 0 /\ 0 \in 0 .. MaxChanges
  BY WorkAssumption DEF G!GovernanceAssumption
<1>5. r \in G!GovernedAction
  <2> HIDE DEF G!NoItem
  <2> QED BY <1>1, <1>4 DEF G!Unregistered, G!GovernedAction
<1> HIDE DEF r
<1>6. Settled(r)
  BY <1>2, <1>3 DEF Settled
<1>7. InCustody(r)
  BY <1>3, <1>4 DEF InCustody
<1> QED BY <1>5, <1>6, <1>7 DEF Governed, r

\* A record that differs in decided items only.
LEMMA ItemsReplaced ==
    ASSUME NEW r, Governed(r), NEW n \in G!GovernedAction, n.custody = r.custody,
           n.owner = r.owner,
           \A q \in Ask : /\ n.extensions[q] = r.extensions[q] \/ Decided(n.extensions[q])
                          /\ n.escalations[q] = r.escalations[q] \/ Decided(n.escalations[q]),
           \A e \in Evidence : n.evidence[e] = r.evidence[e] \/ Decided(n.evidence[e])
    PROVE  Governed(n)
<1>1. InCustody(n)
  BY DEF Governed, InCustody
<1>2. Settled(n)
  BY DEF Governed, Settled
<1> QED BY <1>1, <1>2 DEF Governed

\* A mutation puts in place the new record with the next version.
LEMMA MutateStep ==
    ASSUME GovernanceInv, NEW a \in Action, NEW n, Governed(n), G!Mutate(a, n),
           n.version = governed[a].version, DueMoved(governed[a], n)
    PROVE  GovernanceInv' /\ \A x \in Action : DueMoved(governed[x], governed'[x])
<1> DEFINE b == [n EXCEPT !.version = n.version + 1]
<1>1. governed \in [Action -> G!GovernedAction] /\ \A x \in Action : Governed(governed[x])
  BY DEF GovernanceInv
<1>2. governed' = [governed EXCEPT ![a] = b] /\ governed[a].version < MaxChanges
  BY DEF G!Mutate, G!Bumped
<1>3. n.version + 1 \in 0 .. MaxChanges
  BY <1>2, WorkAssumption DEF Governed, G!GovernedAction, G!GovernanceAssumption
<1>4. /\ b \in G!GovernedAction /\ b.custody = n.custody /\ b.owner = n.owner
      /\ b.extensions = n.extensions /\ b.escalations = n.escalations
      /\ b.evidence = n.evidence /\ b.dueDate = n.dueDate
  BY <1>3 DEF Governed, G!GovernedAction
<1> HIDE DEF b
<1>5. Governed(b)
  BY <1>4, ItemsReplaced
<1>6. DueMoved(governed[a], b)
  BY <1>4 DEF DueMoved, G!ApprovedBy
<1>7. \A x \in Action : governed'[x] = IF x = a THEN b ELSE governed[x]
  BY <1>1, <1>2
<1>8. governed' \in [Action -> G!GovernedAction]
  BY <1>1, <1>2, <1>4
<1>9. ASSUME NEW x \in Action
      PROVE  Governed(governed'[x]) /\ DueMoved(governed[x], governed'[x])
  <2>1. CASE x = a
    BY <1>5, <1>6, <1>7, <2>1
  <2>2. CASE x # a
    <3>1. governed'[x] = governed[x]
      BY <1>7, <2>2
    <3> QED BY <1>1, <3>1 DEF DueMoved
  <2> QED BY <2>1, <2>2
<1> QED BY <1>8, <1>9 DEF GovernanceInv

\* A new item, and one that another than its author has decided.
LEMMA ItemRaised ==
    ASSUME NEW p \in Staff, NEW st \in {"PENDING", "SUBMITTED"}, NEW statuses, st \in statuses
    PROVE  LET item == [status |-> st, by |-> p, reviewer |-> Nobody] IN
           item \in G!Item(statuses) /\ Decided(item)
  BY DEF G!Item, Decided, G!Unasked, G!Undecided

LEMMA ItemDecided ==
    ASSUME NEW statuses, NEW item \in G!Item(statuses), NEW r, NEW p \in Staff,
           G!Independent(r, item, p),
           NEW st \in statuses \ {"ABSENT", "PENDING", "SUBMITTED"}
    PROVE  LET n == [item EXCEPT !.reviewer = p, !.status = st] IN
           n \in G!Item(statuses) /\ Decided(n) /\ n.status = st
  BY DEF G!Item, Decided, G!Unasked, G!Undecided, G!Independent

\* Every operation of the governance engine keeps the rules, and moves the due date of a
\* registered action only by an approval.
LEMMA GovernanceStep ==
    GovernanceInv /\ [G!GovernanceNext]_governed
    => GovernanceInv' /\ \A x \in Action : DueMoved(governed[x], governed'[x])
<1> SUFFICES ASSUME GovernanceInv, [G!GovernanceNext]_governed
             PROVE  GovernanceInv' /\ \A x \in Action : DueMoved(governed[x], governed'[x])
  OBVIOUS
<1> DEFINE Goal == GovernanceInv' /\ \A x \in Action : DueMoved(governed[x], governed'[x])
           Extension == {"PENDING", "APPROVED", "REJECTED"}
           Escalation == {"PENDING", "ACKNOWLEDGED"}
           Proof == {"SUBMITTED", "ACCEPTED", "REJECTED"}
<1>0. /\ governed \in [Action -> G!GovernedAction]
      /\ \A a \in Action : governed[a] \in G!GovernedAction /\ Governed(governed[a])
  BY DEF GovernanceInv
<1>1. ASSUME NEW a \in Action, NEW owner \in Staff \cup {Nobody}, NEW due \in Dates,
             NEW closed \in BOOLEAN, G!RegisterAction(a, owner, due, closed)
      PROVE  Goal
  <2> DEFINE new == [owner |-> owner, active |-> TRUE]
             c == IF owner = Nobody THEN <<>> ELSE <<new>>
             r1 == [G!Unregistered EXCEPT !.version = 1]
             r2 == [r1 EXCEPT !.owner = owner]
             r3 == [r2 EXCEPT !.dueDate = due]
             r4 == [r3 EXCEPT !.closed = closed]
             n == [r4 EXCEPT !.custody = c]
  <2>1. governed' = [governed EXCEPT ![a] = n] /\ governed[a].version = 0
    BY <1>1 DEF G!RegisterAction
  <2>2. owner # Nobody => new \in G!Custody
    BY DEF G!Custody
  <2>3. c \in Seq(G!Custody)
    BY <2>2
  <2>4. G!Unregistered \in G!GovernedAction /\ Settled(G!Unregistered)
    BY UnregisteredGoverned DEF Governed
  <2>5. 1 \in 0 .. MaxChanges
    BY WorkAssumption DEF G!GovernanceAssumption
  <2>6. /\ r1 \in G!GovernedAction /\ r1.extensions = G!Unregistered.extensions
        /\ r1.escalations = G!Unregistered.escalations /\ r1.evidence = G!Unregistered.evidence
    BY <2>4, <2>5 DEF G!GovernedAction
  <2> HIDE DEF r1
  <2>7. /\ r2 \in G!GovernedAction /\ r2.extensions = r1.extensions /\ r2.owner = owner
        /\ r2.escalations = r1.escalations /\ r2.evidence = r1.evidence
    BY <2>6 DEF G!GovernedAction
  <2> HIDE DEF r2
  <2>8. /\ r3 \in G!GovernedAction /\ r3.extensions = r2.extensions /\ r3.owner = owner
        /\ r3.escalations = r2.escalations /\ r3.evidence = r2.evidence
    BY <2>7 DEF G!GovernedAction
  <2> HIDE DEF r3
  <2>9. /\ r4 \in G!GovernedAction /\ r4.extensions = r3.extensions /\ r4.owner = owner
        /\ r4.escalations = r3.escalations /\ r4.evidence = r3.evidence
    BY <2>8 DEF G!GovernedAction
  <2> HIDE DEF r4, c
  <2>10. /\ n \in G!GovernedAction /\ n.extensions = r4.extensions /\ n.owner = owner
         /\ n.escalations = r4.escalations /\ n.evidence = r4.evidence /\ n.custody = c
    BY <2>3, <2>9 DEF G!GovernedAction
  <2> HIDE DEF n
  <2>11. Settled(n)
    BY <2>4, <2>6, <2>7, <2>8, <2>9, <2>10 DEF Settled
  <2>12. InCustody(n)
    <3>1. CASE owner = Nobody
      <4>1. Len(c) = 0
        BY <3>1 DEF c
      <4> QED BY <2>10, <3>1, <4>1 DEF InCustody
    <3>2. CASE owner # Nobody
      <4>1. Len(c) = 1 /\ c[1] = new
        BY <3>2 DEF c
      <4> QED BY <2>10, <3>2, <4>1 DEF InCustody
    <3> QED BY <3>1, <3>2
  <2>13. Governed(n)
    BY <2>10, <2>11, <2>12 DEF Governed
  <2>14. \A x \in Action : governed'[x] = IF x = a THEN n ELSE governed[x]
    BY <1>0, <2>1
  <2>15. governed' \in [Action -> G!GovernedAction]
    BY <1>0, <2>1, <2>10
  <2>16. ASSUME NEW x \in Action
         PROVE  Governed(governed'[x]) /\ DueMoved(governed[x], governed'[x])
    <3>1. CASE x = a
      BY <2>1, <2>13, <2>14, <3>1 DEF DueMoved
    <3>2. CASE x # a
      <4>1. governed'[x] = governed[x]
        BY <2>14, <3>2
      <4> QED BY <1>0, <4>1 DEF DueMoved
    <3> QED BY <3>1, <3>2
  <2> QED BY <2>15, <2>16 DEF GovernanceInv
<1>2. ASSUME NEW a \in Action, NEW p \in Staff, G!ReassignOwner(a, p)
      PROVE  Goal
  <2> DEFINE r == governed[a]
             new == [owner |-> p, active |-> TRUE]
             d == G!Deactivated(r.custody)
             o == [r EXCEPT !.owner = p]
             n == [o EXCEPT !.custody = Append(d, new)]
  <2>1. r \in G!GovernedAction /\ Governed(r)
    BY <1>0
  <2>2. G!Mutate(a, n)
    BY <1>2, <2>1 DEF G!ReassignOwner, G!GovernedAction
  <2> HIDE DEF r
  <2>3. r.custody \in Seq(G!Custody) /\ new \in G!Custody
    BY <2>1 DEF G!GovernedAction, G!Custody
  <2>4. /\ d \in Seq(G!Custody) /\ Len(d) = Len(r.custody)
        /\ \A i \in 1 .. Len(d) : ~d[i].active
    BY <2>3, AllDeactivated
  <2> HIDE DEF d
  <2>5. /\ Append(d, new) \in Seq(G!Custody) /\ Len(Append(d, new)) = Len(d) + 1
        /\ \A i \in 1 .. Len(d) : Append(d, new)[i] = d[i]
        /\ Append(d, new)[Len(d) + 1] = new /\ Len(d) \in Nat
    BY <2>3, <2>4
  <2>6. /\ o \in G!GovernedAction /\ o.owner = p /\ o.extensions = r.extensions
        /\ o.escalations = r.escalations /\ o.evidence = r.evidence
        /\ o.version = r.version /\ o.dueDate = r.dueDate
    BY <2>1 DEF G!GovernedAction
  <2> HIDE DEF o
  <2>7. /\ n \in G!GovernedAction /\ n.owner = p /\ n.extensions = r.extensions
        /\ n.escalations = r.escalations /\ n.evidence = r.evidence
        /\ n.version = r.version /\ n.dueDate = r.dueDate /\ n.custody = Append(d, new)
    BY <2>5, <2>6 DEF G!GovernedAction
  <2> HIDE DEF n
  <2>8. InCustody(n)
    <3>1. p # Nobody
      BY WorkAssumption DEF G!GovernanceAssumption
    <3>2. \A i \in 1 .. (Len(d) + 1) : i \in 1 .. Len(d) \/ i = Len(d) + 1
      BY <2>5
    <3>3. \A i \in 1 .. Len(n.custody) : n.custody[i].active => i = Len(n.custody)
      BY <2>4, <2>5, <2>7, <3>2
    <3> QED BY <2>5, <2>7, <3>1, <3>3 DEF InCustody
  <2>9. Settled(n)
    BY <2>1, <2>7 DEF Governed, Settled
  <2>10. Governed(n) /\ DueMoved(r, n)
    BY <2>7, <2>8, <2>9 DEF Governed, DueMoved
  <2> QED BY <2>2, <2>7, <2>10, MutateStep DEF r
<1>3. ASSUME NEW a \in Action, G!RevokeOwner(a)
      PROVE  Goal
  <2> DEFINE r == governed[a]
             d == G!Deactivated(r.custody)
             o == [r EXCEPT !.owner = Nobody]
             n == [o EXCEPT !.custody = d]
  <2>1. r \in G!GovernedAction /\ Governed(r)
    BY <1>0
  <2>2. G!Mutate(a, n)
    BY <1>3, <2>1 DEF G!RevokeOwner, G!GovernedAction
  <2> HIDE DEF r
  <2>3. r.custody \in Seq(G!Custody)
    BY <2>1 DEF G!GovernedAction
  <2>4. /\ d \in Seq(G!Custody) /\ Len(d) = Len(r.custody)
        /\ \A i \in 1 .. Len(d) : ~d[i].active
    BY <2>3, AllDeactivated
  <2> HIDE DEF d
  <2>5. /\ o \in G!GovernedAction /\ o.owner = Nobody /\ o.extensions = r.extensions
        /\ o.escalations = r.escalations /\ o.evidence = r.evidence
        /\ o.version = r.version /\ o.dueDate = r.dueDate
    BY <2>1 DEF G!GovernedAction
  <2> HIDE DEF o
  <2>6. /\ n \in G!GovernedAction /\ n.owner = Nobody /\ n.extensions = r.extensions
        /\ n.escalations = r.escalations /\ n.evidence = r.evidence
        /\ n.version = r.version /\ n.dueDate = r.dueDate /\ n.custody = d
    BY <2>4, <2>5 DEF G!GovernedAction
  <2> HIDE DEF n
  <2>7. InCustody(n)
    BY <2>4, <2>6 DEF InCustody
  <2>8. Settled(n)
    BY <2>1, <2>6 DEF Governed, Settled
  <2>9. Governed(n) /\ DueMoved(r, n)
    BY <2>6, <2>7, <2>8 DEF Governed, DueMoved
  <2> QED BY <2>2, <2>6, <2>9, MutateStep DEF r
<1>4. ASSUME NEW a \in Action, NEW q \in Ask, NEW p \in Staff, NEW due \in Dates,
             G!RequestExtension(a, q, p, due)
      PROVE  Goal
  <2> DEFINE r == governed[a]
             item == [status |-> "PENDING", by |-> p, reviewer |-> Nobody]
             x == [r.extensions EXCEPT ![q] = item]
             y == [r.dueOf EXCEPT ![q] = due]
             m == [r EXCEPT !.extensions = x]
             n == [m EXCEPT !.dueOf = y]
  <2>1. r \in G!GovernedAction /\ Governed(r)
    BY <1>0
  <2>2. G!Mutate(a, n)
    BY <1>4, <2>1 DEF G!RequestExtension, G!GovernedAction
  <2> HIDE DEF r
  <2>3. item \in G!Item(Extension) /\ Decided(item)
    BY ItemRaised
  <2> HIDE DEF item
  <2>4. /\ r.extensions \in [Ask -> G!Item(Extension)] /\ r.dueOf \in [Ask -> Dates \cup {0}]
    BY <2>1 DEF G!GovernedAction
  <2>5. /\ x \in [Ask -> G!Item(Extension)] /\ y \in [Ask -> Dates \cup {0}]
        /\ \A z \in Ask : x[z] = r.extensions[z] \/ Decided(x[z])
    BY <2>3, <2>4
  <2> HIDE DEF x, y
  <2>6. /\ m \in G!GovernedAction /\ m.owner = r.owner /\ m.extensions = x
        /\ m.escalations = r.escalations /\ m.evidence = r.evidence
        /\ m.version = r.version /\ m.dueDate = r.dueDate /\ m.custody = r.custody
    BY <2>1, <2>5 DEF G!GovernedAction
  <2> HIDE DEF m
  <2>7. /\ n \in G!GovernedAction /\ n.owner = r.owner /\ n.extensions = x
        /\ n.escalations = r.escalations /\ n.evidence = r.evidence
        /\ n.version = r.version /\ n.dueDate = r.dueDate /\ n.custody = r.custody
    BY <2>5, <2>6 DEF G!GovernedAction
  <2> HIDE DEF n
  <2>8. Governed(n) /\ DueMoved(r, n)
    BY <2>1, <2>5, <2>7, ItemsReplaced DEF DueMoved
  <2> QED BY <2>2, <2>7, <2>8, MutateStep DEF r
<1>5. ASSUME NEW a \in Action, NEW q \in Ask, NEW p \in Staff, NEW ok \in BOOLEAN,
             G!ReviewExtension(a, q, p, ok)
      PROVE  Goal
  <2> DEFINE r == governed[a]
             st == IF ok THEN "APPROVED" ELSE "REJECTED"
             item == [r.extensions[q] EXCEPT !.reviewer = p, !.status = st]
             x == [r.extensions EXCEPT ![q] = item]
             m == [r EXCEPT !.extensions = x]
             n == IF ok THEN [m EXCEPT !.dueDate = m.dueOf[q]] ELSE m
  <2>1. r \in G!GovernedAction /\ Governed(r)
    BY <1>0
  <2>2. /\ G!Undecided(r.extensions[q]) /\ G!Independent(r, r.extensions[q], p)
        /\ G!Mutate(a, IF ok THEN G!Approved([r EXCEPT !.extensions[q].reviewer = p,
                                                       !.extensions[q].status = st], q)
                       ELSE [r EXCEPT !.extensions[q].reviewer = p,
                                      !.extensions[q].status = st])
    BY <1>5 DEF G!ReviewExtension
  <2>3. [r EXCEPT !.extensions[q].reviewer = p, !.extensions[q].status = st] = m
    BY <2>1 DEF G!GovernedAction, G!Item
  <2>4. G!Mutate(a, n)
    BY <2>2, <2>3 DEF G!Approved
  <2> HIDE DEF r
  <2>5. /\ r.extensions \in [Ask -> G!Item(Extension)] /\ r.dueOf \in [Ask -> Dates \cup {0}]
        /\ r.extensions[q] \in G!Item(Extension) /\ r.dueOf[q] \in Dates \cup {0}
    BY <2>1 DEF G!GovernedAction
  <2>6. st \in Extension \ {"ABSENT", "PENDING", "SUBMITTED"}
    OBVIOUS
  <2> HIDE DEF st
  <2>7. item \in G!Item(Extension) /\ Decided(item) /\ item.status = st /\ item.reviewer = p
    <3>1. item \in G!Item(Extension) /\ Decided(item)
      BY <2>2, <2>5, <2>6, ItemDecided
    <3> QED BY <2>5, <3>1 DEF G!Item
  <2> HIDE DEF item
  <2>8. /\ x \in [Ask -> G!Item(Extension)] /\ x[q] = item
        /\ \A z \in Ask : x[z] = r.extensions[z] \/ Decided(x[z])
    BY <2>5, <2>7
  <2> HIDE DEF x
  <2>9. /\ m \in G!GovernedAction /\ m.owner = r.owner /\ m.extensions = x
        /\ m.escalations = r.escalations /\ m.evidence = r.evidence /\ m.dueOf = r.dueOf
        /\ m.version = r.version /\ m.dueDate = r.dueDate /\ m.custody = r.custody
    BY <2>1, <2>8 DEF G!GovernedAction
  <2> HIDE DEF m
  <2>10. /\ n \in G!GovernedAction /\ n.owner = r.owner /\ n.extensions = x
        /\ n.escalations = r.escalations /\ n.evidence = r.evidence
        /\ n.version = r.version /\ n.custody = r.custody
        /\ n.dueDate = IF ok THEN r.dueOf[q] ELSE r.dueDate
    <3>1. CASE ok
      BY <2>5, <2>9, <3>1 DEF G!GovernedAction
    <3>2. CASE ~ok
      BY <2>9, <3>2
    <3> QED BY <3>1, <3>2
  <2> HIDE DEF n
  <2>11. DueMoved(r, n)
    <3>1. /\ ok => n.extensions[q].status = "APPROVED"
          /\ n.extensions[q].reviewer = p
      BY <2>7, <2>8, <2>10 DEF st
    <3>2. ok => G!ApprovedBy(r, n, q)
      BY <2>2, <2>10, <3>1 DEF G!ApprovedBy, G!Independent
    <3> QED BY <2>10, <3>2 DEF DueMoved
  <2>12. Governed(n)
    BY <2>1, <2>8, <2>10, ItemsReplaced
  <2> QED BY <2>4, <2>10, <2>11, <2>12, MutateStep DEF r
<1>6. ASSUME NEW a \in Action, NEW q \in Ask, NEW p \in Staff, G!RequestEscalation(a, q, p)
      PROVE  Goal
  <2> DEFINE r == governed[a]
             item == [status |-> "PENDING", by |-> p, reviewer |-> Nobody]
             x == [r.escalations EXCEPT ![q] = item]
             n == [r EXCEPT !.escalations = x]
  <2>1. r \in G!GovernedAction /\ Governed(r)
    BY <1>0
  <2>2. G!Mutate(a, n)
    BY <1>6, <2>1 DEF G!RequestEscalation, G!GovernedAction
  <2> HIDE DEF r
  <2>3. item \in G!Item(Escalation) /\ Decided(item)
    BY ItemRaised
  <2> HIDE DEF item
  <2>4. r.escalations \in [Ask -> G!Item(Escalation)]
    BY <2>1 DEF G!GovernedAction
  <2>5. /\ x \in [Ask -> G!Item(Escalation)]
        /\ \A z \in Ask : x[z] = r.escalations[z] \/ Decided(x[z])
    BY <2>3, <2>4
  <2> HIDE DEF x
  <2>6. /\ n \in G!GovernedAction /\ n.owner = r.owner /\ n.extensions = r.extensions
        /\ n.escalations = x /\ n.evidence = r.evidence
        /\ n.version = r.version /\ n.dueDate = r.dueDate /\ n.custody = r.custody
    BY <2>1, <2>5 DEF G!GovernedAction
  <2> HIDE DEF n
  <2>7. Governed(n) /\ DueMoved(r, n)
    BY <2>1, <2>5, <2>6, ItemsReplaced DEF DueMoved
  <2> QED BY <2>2, <2>6, <2>7, MutateStep DEF r
<1>7. ASSUME NEW a \in Action, NEW q \in Ask, NEW p \in Staff, G!AcknowledgeEscalation(a, q, p)
      PROVE  Goal
  <2> DEFINE r == governed[a]
             seen == [r.escalations[q] EXCEPT !.status = "ACKNOWLEDGED"]
             item == [seen EXCEPT !.reviewer = p]
             x == [r.escalations EXCEPT ![q] = item]
             n == [r EXCEPT !.escalations = x]
  <2>1. r \in G!GovernedAction /\ Governed(r)
    BY <1>0
  <2>2. /\ G!Independent(r, r.escalations[q], p)
        /\ G!Mutate(a, [r EXCEPT !.escalations[q].status = "ACKNOWLEDGED",
                                 !.escalations[q].reviewer = p])
    BY <1>7 DEF G!AcknowledgeEscalation
  <2>3. [r EXCEPT !.escalations[q].status = "ACKNOWLEDGED", !.escalations[q].reviewer = p] = n
    BY <2>1 DEF G!GovernedAction, G!Item
  <2>4. G!Mutate(a, n)
    BY <2>2, <2>3
  <2> HIDE DEF r
  <2>5. /\ r.escalations \in [Ask -> G!Item(Escalation)]
        /\ r.escalations[q] \in G!Item(Escalation)
    BY <2>1 DEF G!GovernedAction
  <2>6. "ACKNOWLEDGED" \in Escalation \ {"ABSENT", "PENDING", "SUBMITTED"}
    OBVIOUS
  <2>7. item \in G!Item(Escalation) /\ Decided(item)
    <3> DEFINE same == [r.escalations[q] EXCEPT !.reviewer = p, !.status = "ACKNOWLEDGED"]
    <3>1. item = same
      BY <2>5 DEF G!Item
    <3>2. same \in G!Item(Escalation) /\ Decided(same)
      BY <2>2, <2>5, <2>6, ItemDecided
    <3> QED BY <3>1, <3>2
  <2> HIDE DEF item
  <2>8. /\ x \in [Ask -> G!Item(Escalation)]
        /\ \A z \in Ask : x[z] = r.escalations[z] \/ Decided(x[z])
    BY <2>5, <2>7
  <2> HIDE DEF x
  <2>9. /\ n \in G!GovernedAction /\ n.owner = r.owner /\ n.extensions = r.extensions
        /\ n.escalations = x /\ n.evidence = r.evidence
        /\ n.version = r.version /\ n.dueDate = r.dueDate /\ n.custody = r.custody
    BY <2>1, <2>8 DEF G!GovernedAction
  <2> HIDE DEF n
  <2>10. Governed(n) /\ DueMoved(r, n)
    BY <2>1, <2>8, <2>9, ItemsReplaced DEF DueMoved
  <2> QED BY <2>4, <2>9, <2>10, MutateStep DEF r
<1>8. ASSUME NEW a \in Action, NEW e \in Evidence, NEW p \in Staff, G!SubmitEvidence(a, e, p)
      PROVE  Goal
  <2> DEFINE r == governed[a]
             item == [status |-> "SUBMITTED", by |-> p, reviewer |-> Nobody]
             x == [r.evidence EXCEPT ![e] = item]
             n == [r EXCEPT !.evidence = x]
  <2>1. r \in G!GovernedAction /\ Governed(r)
    BY <1>0
  <2>2. G!Mutate(a, n)
    BY <1>8, <2>1 DEF G!SubmitEvidence, G!GovernedAction
  <2> HIDE DEF r
  <2>3. item \in G!Item(Proof) /\ Decided(item)
    BY ItemRaised
  <2> HIDE DEF item
  <2>4. r.evidence \in [Evidence -> G!Item(Proof)]
    BY <2>1 DEF G!GovernedAction
  <2>5. /\ x \in [Evidence -> G!Item(Proof)]
        /\ \A z \in Evidence : x[z] = r.evidence[z] \/ Decided(x[z])
    BY <2>3, <2>4
  <2> HIDE DEF x
  <2>6. /\ n \in G!GovernedAction /\ n.owner = r.owner /\ n.extensions = r.extensions
        /\ n.escalations = r.escalations /\ n.evidence = x
        /\ n.version = r.version /\ n.dueDate = r.dueDate /\ n.custody = r.custody
    BY <2>1, <2>5 DEF G!GovernedAction
  <2> HIDE DEF n
  <2>7. Governed(n) /\ DueMoved(r, n)
    BY <2>1, <2>5, <2>6, ItemsReplaced DEF DueMoved
  <2> QED BY <2>2, <2>6, <2>7, MutateStep DEF r
<1>9. ASSUME NEW a \in Action, NEW e \in Evidence, NEW p \in Staff, NEW ok \in BOOLEAN,
             G!ReviewEvidence(a, e, p, ok)
      PROVE  Goal
  <2> DEFINE r == governed[a]
             st == IF ok THEN "ACCEPTED" ELSE "REJECTED"
             item == [r.evidence[e] EXCEPT !.reviewer = p, !.status = st]
             x == [r.evidence EXCEPT ![e] = item]
             n == [r EXCEPT !.evidence = x]
  <2>1. r \in G!GovernedAction /\ Governed(r)
    BY <1>0
  <2>2. /\ G!Independent(r, r.evidence[e], p)
        /\ G!Mutate(a, [r EXCEPT !.evidence[e].reviewer = p, !.evidence[e].status = st])
    BY <1>9 DEF G!ReviewEvidence
  <2>3. [r EXCEPT !.evidence[e].reviewer = p, !.evidence[e].status = st] = n
    BY <2>1 DEF G!GovernedAction, G!Item
  <2>4. G!Mutate(a, n)
    BY <2>2, <2>3
  <2> HIDE DEF r
  <2>5. r.evidence \in [Evidence -> G!Item(Proof)] /\ r.evidence[e] \in G!Item(Proof)
    BY <2>1 DEF G!GovernedAction
  <2>6. st \in Proof \ {"ABSENT", "PENDING", "SUBMITTED"}
    OBVIOUS
  <2>7. item \in G!Item(Proof) /\ Decided(item)
    BY <2>2, <2>5, <2>6, ItemDecided
  <2> HIDE DEF item
  <2>8. /\ x \in [Evidence -> G!Item(Proof)]
        /\ \A z \in Evidence : x[z] = r.evidence[z] \/ Decided(x[z])
    BY <2>5, <2>7
  <2> HIDE DEF x
  <2>9. /\ n \in G!GovernedAction /\ n.owner = r.owner /\ n.extensions = r.extensions
        /\ n.escalations = r.escalations /\ n.evidence = x
        /\ n.version = r.version /\ n.dueDate = r.dueDate /\ n.custody = r.custody
    BY <2>1, <2>8 DEF G!GovernedAction
  <2> HIDE DEF n
  <2>10. Governed(n) /\ DueMoved(r, n)
    BY <2>1, <2>8, <2>9, ItemsReplaced DEF DueMoved
  <2> QED BY <2>4, <2>9, <2>10, MutateStep DEF r
<1>10. CASE UNCHANGED governed
  BY <1>10 DEF GovernanceInv, DueMoved
<1> QED BY <1>1, <1>2, <1>3, <1>4, <1>5, <1>6, <1>7, <1>8, <1>9, <1>10
      DEF G!GovernanceNext, G!CustodyNext, G!RequestNext, G!EvidenceNext

\* What action governance sees of a step.
LEMMA GovernanceSees == [Next]_vars => [G!GovernanceNext]_governed
  BY DEF Next, vars, Workflows, Correctives, Governance, Reinspections, Findings, Scores, Gate

\* The inductive invariant holds whatever the other parts do.
LEMMA GovernanceInvariant == Spec => []GovernanceInv
<1>1. Init => GovernanceInv
  BY UnregisteredGoverned DEF Init, G!GovernanceInit, GovernanceInv, Governed
<1>2. GovernanceInv /\ [Next]_vars => GovernanceInv'
  BY GovernanceSees, GovernanceStep
<1> QED BY <1>1, <1>2, PTL DEF Spec

\* The invariant gives what OneActiveCustodian and DecidedByAnother say.
LEMMA GovernedInCustody == GovernanceInv => OneActiveCustodian
<1> SUFFICES ASSUME GovernanceInv PROVE G!OneActiveCustodian /\ G!DecidedByAnother
  BY DEF OneActiveCustodian
<1>1. G!GovernanceTypeOK
  BY DEF GovernanceInv, G!GovernanceTypeOK
<1>2. \A a \in Action : InCustody(governed[a]) /\ Settled(governed[a])
  BY DEF GovernanceInv, Governed
<1>3. G!OneActiveCustodian
  BY <1>1, <1>2 DEF G!OneActiveCustodian, InCustody
<1>4. G!DecidedByAnother
  BY <1>2 DEF G!DecidedByAnother, Settled, Decided
<1> QED BY <1>3, <1>4

\* ActionGovernanceEngine alone: custody is single and decisions are independent.
THEOREM GovernanceKeepsCustody == G!GovernanceSpec => []OneActiveCustodian
<1>1. G!GovernanceInit => GovernanceInv
  BY UnregisteredGoverned DEF G!GovernanceInit, GovernanceInv, Governed
<1> QED BY <1>1, GovernanceStep, GovernedInCustody, PTL DEF G!GovernanceSpec

\* The property of the run remediation about ActionGovernanceEngine: one unbroken trail of
\* ownership, and nobody decides what they asked for.
THEOREM OneActiveCustodianHolds == Spec => []OneActiveCustodian
<1> QED BY GovernedInCustody, GovernanceInvariant, PTL

-----------------------------------------------------------------------------
\* Reinspection, over governed actions of its own.

\* Only a registered action has evidence, so registration overwrites none.
EvidenceOfRegistered(r) ==
    \A e \in Evidence : r.evidence[e].status # "ABSENT" => r.version > 0

ActionsInv ==
    /\ actions \in [Action -> R!GovernedAction]
    /\ \A a \in Action : EvidenceOfRegistered(actions[a])

\* Accepted and rejected are final.
StatusMoved(r, n) ==
    \A e \in Evidence : \/ n.evidence[e].status = r.evidence[e].status
                        \/ /\ r.evidence[e].status \in {"ABSENT", "SUBMITTED"}
                           /\ n.evidence[e].status # "ABSENT"

LEMMA DeactivatedTyped ==
    ASSUME NEW c \in Seq(R!Custody)
    PROVE  R!Deactivated(c) \in Seq(R!Custody)
<1>0. DOMAIN c = 1 .. Len(c) /\ Len(c) \in Nat
  OBVIOUS
<1>1. \A i \in DOMAIN c : c[i] \in R!Custody
  OBVIOUS
<1>2. \A i \in DOMAIN c : [c[i] EXCEPT !.active = FALSE] \in R!Custody
  BY <1>1 DEF R!Custody
<1>3. R!Deactivated(c) \in [1 .. Len(c) -> R!Custody]
  BY <1>0, <1>2 DEF R!Deactivated
<1> QED BY <1>0, <1>3

LEMMA UnregisteredTyped ==
    /\ R!Unregistered \in R!GovernedAction
    /\ \A e \in Evidence : R!Unregistered.evidence[e].status = "ABSENT"
<1>1. \A statuses : R!NoItem \in R!Item(statuses)
  BY DEF R!NoItem, R!Item
<1>2. <<>> \in Seq(R!Custody) /\ 0 \in 0 .. MaxVersion
  BY WorkAssumption DEF R!GovernanceAssumption
<1>3. R!Unregistered \in R!GovernedAction
  BY <1>1, <1>2 DEF R!Unregistered, R!GovernedAction
<1>4. R!NoItem.status = "ABSENT"
  BY DEF R!NoItem
<1>5. \A e \in Evidence : R!Unregistered.evidence[e] = R!NoItem
  BY DEF R!Unregistered
<1> QED BY <1>3, <1>4, <1>5

\* One action gets a new record.
LEMMA ReplaceStep ==
    ASSUME ActionsInv, NEW a \in Action, NEW n \in R!GovernedAction,
           actions' = [actions EXCEPT ![a] = n],
           n.version > 0, StatusMoved(actions[a], n)
    PROVE  ActionsInv' /\ \A x \in Action : StatusMoved(actions[x], actions'[x])
<1>1. actions \in [Action -> R!GovernedAction] /\ \A x \in Action : EvidenceOfRegistered(actions[x])
  BY DEF ActionsInv
<1>2. \A x \in Action : actions'[x] = IF x = a THEN n ELSE actions[x]
  BY <1>1
<1>3. actions' \in [Action -> R!GovernedAction]
  BY <1>1
<1>4. EvidenceOfRegistered(n)
  BY DEF EvidenceOfRegistered
<1>5. ASSUME NEW x \in Action
      PROVE  EvidenceOfRegistered(actions'[x]) /\ StatusMoved(actions[x], actions'[x])
  <2>1. CASE x = a
    BY <1>2, <1>4, <2>1
  <2>2. CASE x # a
    <3>1. actions'[x] = actions[x]
      BY <1>2, <2>2
    <3> QED BY <1>1, <3>1 DEF StatusMoved
  <2> QED BY <2>1, <2>2
<1> QED BY <1>3, <1>5 DEF ActionsInv

LEMMA MutatedStep ==
    ASSUME ActionsInv, NEW a \in Action, NEW n \in R!GovernedAction, R!Mutate(a, n),
           n.version = actions[a].version, StatusMoved(actions[a], n)
    PROVE  ActionsInv' /\ \A x \in Action : StatusMoved(actions[x], actions'[x])
<1> DEFINE b == [n EXCEPT !.version = n.version + 1]
<1>1. /\ actions' = [actions EXCEPT ![a] = b] /\ actions[a].version < MaxVersion
  BY DEF R!Mutate, R!Bumped
<1>2. n.version + 1 \in 0 .. MaxVersion /\ n.version + 1 > 0
  BY <1>1, WorkAssumption DEF R!GovernedAction, R!GovernanceAssumption
<1>3. b \in R!GovernedAction /\ b.version > 0 /\ b.evidence = n.evidence
  BY <1>2 DEF R!GovernedAction
<1> HIDE DEF b
<1>4. StatusMoved(actions[a], b)
  BY <1>3 DEF StatusMoved
<1> QED BY <1>1, <1>3, <1>4, ReplaceStep

\* What the action engine does while an order is being verified, or at any time.
LEMMA EngineStep ==
    ASSUME ActionsInv, R!CustodyNext \/ R!EvidenceNext
    PROVE  ActionsInv' /\ \A x \in Action : StatusMoved(actions[x], actions'[x])
<1> DEFINE Goal == ActionsInv' /\ \A x \in Action : StatusMoved(actions[x], actions'[x])
           Proof == {"SUBMITTED", "ACCEPTED", "REJECTED"}
<1>0. \A a \in Action : actions[a] \in R!GovernedAction /\ EvidenceOfRegistered(actions[a])
  BY DEF ActionsInv
<1>1. ASSUME NEW a \in Action, NEW owner \in Person \cup {Nobody}, NEW due \in DueDates,
             NEW closed \in BOOLEAN, R!RegisterAction(a, owner, due, closed)
      PROVE  Goal
  <2> DEFINE new == [owner |-> owner, active |-> TRUE]
             c == IF owner = Nobody THEN <<>> ELSE <<new>>
             r1 == [R!Unregistered EXCEPT !.version = 1]
             r2 == [r1 EXCEPT !.owner = owner]
             r3 == [r2 EXCEPT !.dueDate = due]
             r4 == [r3 EXCEPT !.closed = closed]
             n == [r4 EXCEPT !.custody = c]
  <2>1. actions' = [actions EXCEPT ![a] = n] /\ actions[a].version = 0
    BY <1>1 DEF R!RegisterAction
  <2>2. owner # Nobody => new \in R!Custody
    BY DEF R!Custody
  <2>3. c \in Seq(R!Custody)
    BY <2>2
  <2>4. 1 \in 0 .. MaxVersion
    BY WorkAssumption DEF R!GovernanceAssumption
  <2>5. /\ r1 \in R!GovernedAction /\ r1.evidence = R!Unregistered.evidence /\ r1.version = 1
    BY <2>4, UnregisteredTyped DEF R!GovernedAction
  <2> HIDE DEF r1
  <2>6. r2 \in R!GovernedAction /\ r2.evidence = r1.evidence /\ r2.version = 1
    BY <2>5 DEF R!GovernedAction
  <2> HIDE DEF r2
  <2>7. r3 \in R!GovernedAction /\ r3.evidence = r2.evidence /\ r3.version = 1
    BY <2>6 DEF R!GovernedAction
  <2> HIDE DEF r3
  <2>8. r4 \in R!GovernedAction /\ r4.evidence = r3.evidence /\ r4.version = 1
    BY <2>7 DEF R!GovernedAction
  <2> HIDE DEF r4, c
  <2>9. n \in R!GovernedAction /\ n.evidence = r4.evidence /\ n.version = 1
    BY <2>3, <2>8 DEF R!GovernedAction
  <2> HIDE DEF n
  <2>10. \A e \in Evidence : /\ n.evidence[e].status = "ABSENT"
                             /\ actions[a].evidence[e].status = "ABSENT"
    <3>1. n.evidence = R!Unregistered.evidence
      BY <2>5, <2>6, <2>7, <2>8, <2>9
    <3> QED BY <1>0, <2>1, <3>1, UnregisteredTyped DEF EvidenceOfRegistered
  <2>11. StatusMoved(actions[a], n)
    BY <2>10 DEF StatusMoved
  <2>12. n.version > 0
    BY <2>9
  <2> QED BY <2>1, <2>9, <2>11, <2>12, ReplaceStep
<1>2. ASSUME NEW a \in Action, NEW p \in Person, R!ReassignOwner(a, p)
      PROVE  Goal
  <2> DEFINE r == actions[a]
             new == [owner |-> p, active |-> TRUE]
             c == Append(R!Deactivated(r.custody), new)
             o == [r EXCEPT !.owner = p]
             n == [o EXCEPT !.custody = c]
  <2>1. r \in R!GovernedAction
    BY <1>0
  <2>2. R!Mutate(a, n)
    BY <1>2, <2>1 DEF R!ReassignOwner, R!GovernedAction
  <2> HIDE DEF r
  <2>3. r.custody \in Seq(R!Custody) /\ new \in R!Custody
    BY <2>1 DEF R!GovernedAction, R!Custody
  <2>4. c \in Seq(R!Custody)
    BY <2>3, DeactivatedTyped
  <2> HIDE DEF c
  <2>5. o \in R!GovernedAction /\ o.evidence = r.evidence /\ o.version = r.version
    BY <2>1 DEF R!GovernedAction
  <2> HIDE DEF o
  <2>6. n \in R!GovernedAction /\ n.evidence = r.evidence /\ n.version = r.version
    BY <2>4, <2>5 DEF R!GovernedAction
  <2> HIDE DEF n
  <2>7. StatusMoved(r, n)
    BY <2>6 DEF StatusMoved
  <2> QED BY <2>2, <2>6, <2>7, MutatedStep DEF r
<1>3. ASSUME NEW a \in Action, R!RevokeOwner(a)
      PROVE  Goal
  <2> DEFINE r == actions[a]
             c == R!Deactivated(r.custody)
             o == [r EXCEPT !.owner = Nobody]
             n == [o EXCEPT !.custody = c]
  <2>1. r \in R!GovernedAction
    BY <1>0
  <2>2. R!Mutate(a, n)
    BY <1>3, <2>1 DEF R!RevokeOwner, R!GovernedAction
  <2> HIDE DEF r
  <2>3. r.custody \in Seq(R!Custody)
    BY <2>1 DEF R!GovernedAction
  <2>4. c \in Seq(R!Custody)
    BY <2>3, DeactivatedTyped
  <2> HIDE DEF c
  <2>5. o \in R!GovernedAction /\ o.evidence = r.evidence /\ o.version = r.version
    BY <2>1 DEF R!GovernedAction
  <2> HIDE DEF o
  <2>6. n \in R!GovernedAction /\ n.evidence = r.evidence /\ n.version = r.version
    BY <2>4, <2>5 DEF R!GovernedAction
  <2> HIDE DEF n
  <2>7. StatusMoved(r, n)
    BY <2>6 DEF StatusMoved
  <2> QED BY <2>2, <2>6, <2>7, MutatedStep DEF r
<1>4. ASSUME NEW a \in Action, NEW e \in Evidence, NEW p \in Person, R!SubmitEvidence(a, e, p)
      PROVE  Goal
  <2> DEFINE r == actions[a]
             item == [status |-> "SUBMITTED", by |-> p, reviewer |-> Nobody]
             x == [r.evidence EXCEPT ![e] = item]
             n == [r EXCEPT !.evidence = x]
  <2>1. r \in R!GovernedAction
    BY <1>0
  <2>2. R!Mutate(a, n) /\ r.evidence[e].status = "ABSENT"
    BY <1>4, <2>1 DEF R!SubmitEvidence, R!GovernedAction, R!Unasked
  <2> HIDE DEF r
  <2>3. item \in R!Item(Proof) /\ item.status = "SUBMITTED"
    BY DEF R!Item
  <2> HIDE DEF item
  <2>4. r.evidence \in [Evidence -> R!Item(Proof)]
    BY <2>1 DEF R!GovernedAction
  <2>5. /\ x \in [Evidence -> R!Item(Proof)]
        /\ \A z \in Evidence : x[z] = IF z = e THEN item ELSE r.evidence[z]
    BY <2>3, <2>4
  <2> HIDE DEF x
  <2>6. n \in R!GovernedAction /\ n.evidence = x /\ n.version = r.version
    BY <2>1, <2>5 DEF R!GovernedAction
  <2> HIDE DEF n
  <2>7. StatusMoved(r, n)
    BY <2>2, <2>3, <2>5, <2>6 DEF StatusMoved
  <2> QED BY <2>2, <2>6, <2>7, MutatedStep DEF r
<1>5. ASSUME NEW a \in Action, NEW e \in Evidence, NEW p \in Person, NEW ok \in BOOLEAN,
             R!ReviewEvidence(a, e, p, ok)
      PROVE  Goal
  <2> DEFINE r == actions[a]
             st == IF ok THEN "ACCEPTED" ELSE "REJECTED"
             item == [r.evidence[e] EXCEPT !.reviewer = p, !.status = st]
             x == [r.evidence EXCEPT ![e] = item]
             n == [r EXCEPT !.evidence = x]
  <2>1. r \in R!GovernedAction
    BY <1>0
  <2>2. /\ r.evidence[e].status \in {"PENDING", "SUBMITTED"}
        /\ R!Mutate(a, [r EXCEPT !.evidence[e].reviewer = p, !.evidence[e].status = st])
    BY <1>5 DEF R!ReviewEvidence, R!Undecided
  <2>3. [r EXCEPT !.evidence[e].reviewer = p, !.evidence[e].status = st] = n
    BY <2>1 DEF R!GovernedAction, R!Item
  <2>4. R!Mutate(a, n)
    BY <2>2, <2>3
  <2> HIDE DEF r
  <2>5. r.evidence \in [Evidence -> R!Item(Proof)] /\ r.evidence[e] \in R!Item(Proof)
    BY <2>1 DEF R!GovernedAction
  <2>6. item \in R!Item(Proof) /\ item.status # "ABSENT" /\ r.evidence[e].status = "SUBMITTED"
    BY <2>2, <2>5 DEF R!Item
  <2> HIDE DEF item
  <2>7. /\ x \in [Evidence -> R!Item(Proof)]
        /\ \A z \in Evidence : x[z] = IF z = e THEN item ELSE r.evidence[z]
    BY <2>5, <2>6
  <2> HIDE DEF x
  <2>8. n \in R!GovernedAction /\ n.evidence = x /\ n.version = r.version
    BY <2>1, <2>7 DEF R!GovernedAction
  <2> HIDE DEF n
  <2>9. StatusMoved(r, n)
    BY <2>6, <2>7, <2>8 DEF StatusMoved
  <2> QED BY <2>4, <2>8, <2>9, MutatedStep DEF r
<1> QED BY <1>1, <1>2, <1>3, <1>4, <1>5 DEF R!CustodyNext, R!EvidenceNext

\* The rules for one order: its history ends in its state, and closure follows verification.
OrderInOrder(r) ==
    LET h == r.history IN
    /\ r \in R!OrderRecord
    /\ IF h = <<>> THEN r.state = "ABSENT" ELSE h[Len(h)].to = r.state
    /\ r.state = "CLOSED" => /\ TrimSpace[r.closedBy] \in Closer /\ h[Len(h)].actor = r.closedBy
                             /\ h[Len(h) - 1].to = "VERIFIED_SATISFACTORY"
    /\ r.state # "CLOSED" => r.closedBy = Nobody

\* What a verification under way may rely on: the order waits for it, and an
\* item that was accepted when it was copied still is.
WalkInv ==
    busy # Idle =>
        /\ orders[busy.order].state = "IN_PROGRESS"
        /\ \A e \in busy.items :
              /\ busy.copied[e] # "ABSENT"
              /\ actions[ActionOf[busy.order]].evidence[e].status # "ABSENT"
              /\ busy.copied[e] = "ACCEPTED"
                 => actions[ActionOf[busy.order]].evidence[e].status = "ACCEPTED"

BasisInv ==
    \A o \in Order : R!Verified(o) /\ basis[o].known =>
        /\ \A e \in basis[o].items : actions[ActionOf[o]].evidence[e].status = "ACCEPTED"
        /\ R!Cardinality(basis[o].items) >= Required

ReinspectionInv ==
    /\ ActionsInv /\ R!TypeOK
    /\ \A o \in Order : OrderInOrder(orders[o])
    /\ WalkInv /\ BasisInv

\* No order, no evidence.
LEMMA ReinspectionInitially == R!Init => ReinspectionInv
<1> SUFFICES ASSUME R!Init PROVE ReinspectionInv
  OBVIOUS
<1> DEFINE r0 == [state |-> "ABSENT", rule |-> "none", reinspector |-> Nobody,
                  closedBy |-> Nobody, recurrences |-> 0, history |-> <<>>]
           b0 == [known |-> FALSE, items |-> {}]
<1>1. /\ actions = [a \in Action |-> R!Unregistered] /\ orders = [o \in Order |-> r0]
      /\ revokedActors = {} /\ busy = Idle /\ basis = [o \in Order |-> b0]
  BY DEF R!Init, R!GovernanceInit
<1>2. ActionsInv
  BY <1>1, UnregisteredTyped DEF ActionsInv, EvidenceOfRegistered
<1>3. r0 \in R!OrderRecord
  BY DEF R!OrderRecord, R!States
<1>4. r0.state = "ABSENT" /\ r0.history = <<>> /\ r0.closedBy = Nobody
  OBVIOUS
<1>5. b0 \in [known : BOOLEAN, items : SUBSET Evidence] /\ b0.known = FALSE
  OBVIOUS
<1> HIDE DEF r0, b0
<1>6. OrderInOrder(r0)
  BY <1>3, <1>4 DEF OrderInOrder
<1>7. R!TypeOK
  BY <1>1, <1>2, <1>3, <1>5 DEF R!TypeOK, R!GovernanceTypeOK, ActionsInv
<1> QED BY <1>1, <1>2, <1>5, <1>6, <1>7 DEF ReinspectionInv, WalkInv, BasisInv

\* The entry that Entered appends, and what it makes of an order.
EnteredEntry(to, p) == [to |-> to, actor |-> p]

IsEntered(n, r, to, p) ==
    /\ n \in R!OrderRecord /\ n.state = to /\ n.closedBy = r.closedBy
    /\ n.history = Append(r.history, EnteredEntry(to, p))

LEMMA EnteredRecord ==
    ASSUME NEW r \in R!OrderRecord, NEW to \in R!States, NEW p \in Spelling \cup {Nobody}
    PROVE  IsEntered(R!Entered(r, to, p), r, to, p)
<1> DEFINE e == EnteredEntry(to, p)
           m == [r EXCEPT !.state = to]
           n == [m EXCEPT !.history = Append(m.history, e)]
<1>1. e \in R!Entry
  BY DEF R!Entry, EnteredEntry
<1>2. /\ m \in R!OrderRecord /\ m.history = r.history /\ m.state = to
      /\ m.closedBy = r.closedBy
  BY DEF R!OrderRecord
<1>3. R!Entered(r, to, p) = n
  BY DEF R!Entered, EnteredEntry
<1> HIDE DEF e, m
<1>4. Append(m.history, e) \in Seq(R!Entry)
  BY <1>1, <1>2 DEF R!OrderRecord
<1>5. /\ n \in R!OrderRecord /\ n.history = Append(r.history, e) /\ n.state = to
      /\ n.closedBy = r.closedBy
  BY <1>2, <1>4 DEF R!OrderRecord
<1> HIDE DEF n
<1>6. IsEntered(n, r, to, p)
  BY <1>5 DEF IsEntered, e
<1> QED BY <1>3, <1>6

\* An order after one entry more: out of a verification it may close, else it is open.
LEMMA OrderEntered ==
    ASSUME NEW r, OrderInOrder(r), NEW to \in R!States, NEW p \in Spelling \cup {Nobody},
           NEW n \in R!OrderRecord, n.state = to,
           n.history = Append(r.history, EnteredEntry(to, p)),
           IF to = "CLOSED" THEN n.closedBy = p /\ TrimSpace[p] \in Closer /\ R!Closable(r.state)
                            ELSE n.closedBy = Nobody
    PROVE  OrderInOrder(n)
<1> DEFINE h == r.history
           e == EnteredEntry(to, p)
<1>1. h \in Seq(R!Entry) /\ e.to = to /\ e.actor = p
  BY DEF OrderInOrder, R!OrderRecord, EnteredEntry
<1>2. n.history = Append(h, e)
  OBVIOUS
<1> HIDE DEF e
<1>3. /\ Len(h) \in Nat /\ n.history # <<>> /\ Len(n.history) = Len(h) + 1
      /\ n.history[Len(h) + 1] = e /\ \A i \in 1 .. Len(h) : n.history[i] = h[i]
  BY <1>1, <1>2
<1>4. n.history[Len(n.history)].to = n.state
  BY <1>1, <1>3
<1>5. ASSUME to = "CLOSED"
      PROVE  /\ TrimSpace[n.closedBy] \in Closer /\ n.history[Len(n.history)].actor = n.closedBy
             /\ n.history[Len(n.history) - 1].to = "VERIFIED_SATISFACTORY"
  <2>1. n.closedBy = p /\ TrimSpace[p] \in Closer /\ r.state = "VERIFIED_SATISFACTORY"
    BY <1>5 DEF R!Closable
  <2>2. h # <<>> /\ h[Len(h)].to = "VERIFIED_SATISFACTORY"
    BY <2>1 DEF OrderInOrder
  <2>3. Len(h) \in 1 .. Len(h) /\ Len(n.history) - 1 = Len(h)
    BY <1>1, <1>3, <2>2
  <2> QED BY <1>1, <1>3, <2>1, <2>2, <2>3
<1> QED BY <1>3, <1>4, <1>5 DEF OrderInOrder

\* A call of the reinspection engine saves an order that no verification holds.
LEMMA SaveStep ==
    ASSUME ReinspectionInv, NEW o \in Order, NEW n, R!Save(o, n), OrderInOrder(n),
           n.state \in {"VERIFIED_SATISFACTORY", "CLOSED"} => R!Verified(o)
    PROVE  ReinspectionInv'
<1>1. /\ busy = Idle /\ orders' = [orders EXCEPT ![o] = n] /\ actions' = actions
      /\ revokedActors' = revokedActors /\ busy' = busy /\ basis' = basis
  BY DEF R!Save
<1>2. orders \in [Order -> R!OrderRecord] /\ n \in R!OrderRecord
  BY DEF ReinspectionInv, R!TypeOK, OrderInOrder
<1>3. \A x \in Order : orders'[x] = IF x = o THEN n ELSE orders[x]
  BY <1>1, <1>2
<1>4. orders' \in [Order -> R!OrderRecord]
  BY <1>1, <1>2
<1>5. R!TypeOK'
  BY <1>1, <1>4 DEF ReinspectionInv, R!TypeOK, R!GovernanceTypeOK
<1>6. \A x \in Order : OrderInOrder(orders'[x])
  BY <1>3 DEF ReinspectionInv
<1>7. \A x \in Order : orders'[x].state \in {"VERIFIED_SATISFACTORY", "CLOSED"} => R!Verified(x)
  BY <1>3 DEF R!Verified
<1>8. BasisInv'
  BY <1>1, <1>7 DEF ReinspectionInv, BasisInv, R!Verified
<1> QED BY <1>1, <1>5, <1>6, <1>8 DEF ReinspectionInv, ActionsInv, EvidenceOfRegistered, WalkInv

\* The same for a call that only enters a state other than CLOSED.
LEMMA EnterOrderStep ==
    ASSUME ReinspectionInv, NEW o \in Order, NEW r \in R!OrderRecord,
           r.history = orders[o].history, r.closedBy = orders[o].closedBy,
           orders[o].state # "CLOSED",
           NEW to \in R!States \ {"CLOSED"},
           NEW p \in Spelling \cup {Nobody},
           R!Save(o, R!Entered(r, to, p)),
           to = "VERIFIED_SATISFACTORY" => orders[o].state = to
    PROVE  ReinspectionInv'
<1> DEFINE n == R!Entered(r, to, p)
<1>0. OrderInOrder(orders[o]) /\ to \in R!States
  BY DEF ReinspectionInv
<1>1. IsEntered(n, r, to, p)
  BY <1>0, EnteredRecord
<1>2. R!Save(o, n)
  OBVIOUS
<1> HIDE DEF n
<1>3. /\ n \in R!OrderRecord /\ n.state = to /\ n.closedBy = Nobody
      /\ n.history = Append(orders[o].history, EnteredEntry(to, p))
  BY <1>0, <1>1 DEF IsEntered, OrderInOrder
<1>4. OrderInOrder(n)
  BY <1>0, <1>3, OrderEntered
<1>5. n.state \in {"VERIFIED_SATISFACTORY", "CLOSED"} => R!Verified(o)
  BY <1>3 DEF R!Verified
<1> QED BY <1>2, <1>3, <1>4, <1>5, SaveStep

\* Every step of the two engines keeps the invariant.
LEMMA ReinspectionStep ==
    ReinspectionInv /\ [R!Next]_(R!vars) => ReinspectionInv'
<1> SUFFICES ASSUME ReinspectionInv, [R!Next]_(R!vars) PROVE ReinspectionInv'
  OBVIOUS
<1>0. /\ ActionsInv /\ R!TypeOK /\ WalkInv /\ BasisInv
      /\ orders \in [Order -> R!OrderRecord]
      /\ \A o \in Order : OrderInOrder(orders[o]) /\ orders[o] \in R!OrderRecord
  BY DEF ReinspectionInv, R!TypeOK
<1>1. \A c \in Spelling : TrimSpace[c] \in Spelling \cup {Nobody}
  BY WorkAssumption DEF R!ReinspectionAssumption
<1>2. CASE R!ActionStep
  <2>1. /\ ActionsInv' /\ \A x \in Action : StatusMoved(actions[x], actions'[x])
        /\ UNCHANGED <<orders, revokedActors, busy, basis>>
    BY <1>0, <1>2, EngineStep DEF R!ActionStep
  <2>2. R!TypeOK'
    BY <1>0, <2>1 DEF R!TypeOK, R!GovernanceTypeOK, ActionsInv
  <2>3. \A o \in Order, e \in Evidence :
           LET s == actions[ActionOf[o]].evidence[e].status
               t == actions'[ActionOf[o]].evidence[e].status IN
           t = s \/ (s \in {"ABSENT", "SUBMITTED"} /\ t # "ABSENT")
    <3>1. \A o \in Order : ActionOf[o] \in Action
      BY WorkAssumption DEF R!ReinspectionAssumption
    <3> QED BY <2>1, <3>1 DEF StatusMoved
  <2>4. WalkInv'
    <3> SUFFICES ASSUME busy # Idle PROVE WalkInv'
      BY <2>1 DEF WalkInv
    <3>1. busy \in R!Walk
      BY <1>0 DEF R!TypeOK
    <3>2. busy.order \in Order /\ \A e \in busy.items : e \in Evidence
      BY <3>1 DEF R!Walk
    <3>3. \A e \in busy.items :
            LET s == actions[ActionOf[busy.order]].evidence[e].status
                t == actions'[ActionOf[busy.order]].evidence[e].status IN
            t = s \/ (s \in {"ABSENT", "SUBMITTED"} /\ t # "ABSENT")
      BY <2>3, <3>2
    <3> QED BY <1>0, <2>1, <3>3 DEF WalkInv
  <2>5. BasisInv'
    <3>1. \A o \in Order : \A e \in basis[o].items : e \in Evidence
      BY <1>0 DEF R!TypeOK
    <3>2. \A o \in Order : \A e \in basis[o].items :
             actions[ActionOf[o]].evidence[e].status = "ACCEPTED"
             => actions'[ActionOf[o]].evidence[e].status = "ACCEPTED"
      BY <2>3, <3>1
    <3> QED BY <1>0, <2>1, <3>2 DEF BasisInv, R!Verified
  <2> QED BY <1>0, <2>1, <2>2, <2>4, <2>5 DEF ReinspectionInv
<1>3. ASSUME NEW actor \in Spelling, R!RevokeActorAuthority(actor)
      PROVE  ReinspectionInv'
  <2>1. /\ busy = Idle /\ revokedActors' = revokedActors \cup {actor}
        /\ UNCHANGED <<actions, orders, busy, basis>>
    BY <1>3 DEF R!RevokeActorAuthority
  <2>2. R!TypeOK'
    BY <1>0, <2>1 DEF R!TypeOK, R!GovernanceTypeOK
  <2> QED BY <1>0, <2>1, <2>2
          DEF ReinspectionInv, ActionsInv, EvidenceOfRegistered, WalkInv, BasisInv, R!Verified
<1>4. ASSUME NEW o \in Order, NEW rule \in Rules, NEW p \in Person \cup {Nobody},
             R!CreateReinspectionOrder(o, rule, p)
      PROVE  ReinspectionInv'
  <2> DEFINE to == IF p = Nobody THEN "PENDING_ASSIGNMENT" ELSE "ASSIGNED"
             m == [orders[o] EXCEPT !.rule = rule]
             r == [m EXCEPT !.reinspector = p]
  <2>1. orders[o].state = "ABSENT" /\ R!Save(o, R!Entered(r, to, Nobody))
    BY <1>4 DEF R!CreateReinspectionOrder
  <2>2. to \in R!States \ {"CLOSED"} /\ to # "VERIFIED_SATISFACTORY"
    BY DEF R!States
  <2>3. Nobody \in Spelling \cup {Nobody}
    OBVIOUS
  <2>4. /\ m \in R!OrderRecord /\ m.history = orders[o].history
        /\ m.closedBy = orders[o].closedBy
    BY <1>0 DEF R!OrderRecord
  <2> HIDE DEF m, to
  <2>5. /\ r \in R!OrderRecord /\ r.history = orders[o].history
        /\ r.closedBy = orders[o].closedBy
    BY <2>4 DEF R!OrderRecord
  <2> HIDE DEF r
  <2> QED BY <2>1, <2>2, <2>3, <2>5, EnterOrderStep
<1>5. ASSUME NEW o \in Order, NEW p \in Person, NEW caller \in Spelling,
             R!AssignReinspector(o, p, caller)
      PROVE  ReinspectionInv'
  <2> DEFINE r == [orders[o] EXCEPT !.reinspector = p]
  <2>1. /\ orders[o].state # "CLOSED" /\ caller \in Spelling \cup {Nobody}
        /\ R!Save(o, R!Entered(r, "ASSIGNED", caller))
    BY <1>5 DEF R!AssignReinspector
  <2>2. /\ r \in R!OrderRecord /\ r.history = orders[o].history
        /\ r.closedBy = orders[o].closedBy
    BY <1>0 DEF R!OrderRecord
  <2>3. "ASSIGNED" \in R!States \ {"CLOSED"}
    BY DEF R!States
  <2> HIDE DEF r
  <2> QED BY <2>1, <2>2, <2>3, EnterOrderStep
<1>6. ASSUME NEW o \in Order, NEW caller \in Spelling, R!StartReinspection(o, caller)
      PROVE  ReinspectionInv'
  <2>1. /\ orders[o].state # "CLOSED" /\ TrimSpace[caller] \in Spelling \cup {Nobody}
        /\ R!Save(o, R!Entered(orders[o], "IN_PROGRESS", TrimSpace[caller]))
    BY <1>1, <1>6 DEF R!StartReinspection, R!MayInspect
  <2>2. "IN_PROGRESS" \in R!States \ {"CLOSED"}
    BY DEF R!States
  <2> QED BY <1>0, <2>1, <2>2, EnterOrderStep
<1>7. ASSUME NEW o \in Order, NEW caller \in Spelling, R!VerifyRead(o, caller)
      PROVE  ReinspectionInv'
  <2> DEFINE r == actions[ActionOf[o]]
             known == r.version > 0
             items == {e \in Evidence : ~R!Unasked(r.evidence[e])}
             copied == [e \in Evidence |-> r.evidence[e].status]
             w == [order |-> o, caller |-> TrimSpace[caller], known |-> known, items |-> items,
                   copied |-> copied]
  <2>1. /\ busy' = w /\ orders[o].state = "IN_PROGRESS"
        /\ UNCHANGED <<actions, orders, revokedActors, basis>>
    BY <1>7 DEF R!VerifyRead, R!MayInspect
  <2>2. r \in R!GovernedAction
    BY <1>0, WorkAssumption DEF ActionsInv, R!ReinspectionAssumption
  <2>3. /\ \A e \in Evidence : r.evidence[e].status \in {"ABSENT", "SUBMITTED", "ACCEPTED", "REJECTED"}
    <3>1. \A e \in Evidence : r.evidence[e] \in R!Item({"SUBMITTED", "ACCEPTED", "REJECTED"})
      BY <2>2 DEF R!GovernedAction
    <3> QED BY <3>1 DEF R!Item
  <2>4. /\ copied \in [Evidence -> {"ABSENT", "SUBMITTED", "ACCEPTED", "REJECTED"}]
        /\ items \in SUBSET Evidence /\ known \in BOOLEAN
        /\ \A e \in items : copied[e] = r.evidence[e].status /\ copied[e] # "ABSENT"
    BY <2>3 DEF R!Unasked
  <2> HIDE DEF known, items, copied
  <2>5. /\ w \in R!Walk /\ w.order = o /\ w.items = items
        /\ w.copied = copied
    BY <2>4, WorkAssumption DEF R!Walk, R!ReinspectionAssumption
  <2> HIDE DEF w
  <2>6. R!TypeOK'
    BY <1>0, <2>1, <2>5 DEF R!TypeOK, R!GovernanceTypeOK
  <2>7. WalkInv'
    BY <2>1, <2>4, <2>5 DEF WalkInv
  <2> QED BY <1>0, <2>1, <2>6, <2>7
          DEF ReinspectionInv, ActionsInv, EvidenceOfRegistered, BasisInv, R!Verified
<1>8. ASSUME NEW o \in Order, NEW caller \in Spelling, R!FinalClose(o, caller)
      PROVE  ReinspectionInv'
  <2> DEFINE m == R!Entered(orders[o], "CLOSED", caller)
             n == [m EXCEPT !.closedBy = caller]
             e == EnteredEntry("CLOSED", caller)
  <2>1. /\ TrimSpace[caller] \in Closer /\ R!Closable(orders[o].state)
        /\ R!Save(o, n)
    BY <1>8 DEF R!FinalClose, R!MayClose
  <2>2. "CLOSED" \in R!States /\ caller \in Spelling \cup {Nobody} /\ e.actor = caller
    BY DEF R!States, EnteredEntry
  <2>3. IsEntered(m, orders[o], "CLOSED", caller)
    BY <1>0, <2>2, EnteredRecord
  <2> HIDE DEF m
  <2>4. /\ n \in R!OrderRecord /\ n.state = "CLOSED" /\ n.closedBy = caller
        /\ n.history = Append(orders[o].history, e)
    BY <2>3 DEF IsEntered, R!OrderRecord
  <2> HIDE DEF n
  <2>5. OrderInOrder(n)
    BY <1>0, <2>1, <2>2, <2>4, OrderEntered
  <2>6. R!Verified(o)
    BY <2>1 DEF R!Closable, R!Verified
  <2> HIDE DEF e
  <2> QED BY <2>1, <2>2, <2>4, <2>5, <2>6, SaveStep
<1>9. ASSUME NEW o \in Order, NEW caller \in Spelling, R!Reopen(o, caller)
      PROVE  ReinspectionInv'
  <2> DEFINE m == R!Entered(orders[o], "REOPENED", caller)
             n == [m EXCEPT !.closedBy = Nobody]
             e == EnteredEntry("REOPENED", caller)
  <2>1. R!Save(o, n)
    BY <1>9 DEF R!Reopen
  <2>2. "REOPENED" \in R!States /\ caller \in Spelling \cup {Nobody} /\ e.actor = caller
    BY DEF R!States, EnteredEntry
  <2>3. IsEntered(m, orders[o], "REOPENED", caller)
    BY <1>0, <2>2, EnteredRecord
  <2> HIDE DEF m
  <2>4. /\ n \in R!OrderRecord /\ n.state = "REOPENED" /\ n.closedBy = Nobody
        /\ n.history = Append(orders[o].history, e)
    BY <2>3 DEF IsEntered, R!OrderRecord
  <2> HIDE DEF n
  <2>5. OrderInOrder(n)
    BY <1>0, <2>2, <2>4, OrderEntered
  <2> HIDE DEF e
  <2> QED BY <2>1, <2>2, <2>4, <2>5, SaveStep
<1>10. ASSUME NEW o \in Order, NEW caller \in Spelling, R!LinkRecurrence(o, caller)
      PROVE  ReinspectionInv'
  <2> DEFINE r == [orders[o] EXCEPT !.recurrences = orders[o].recurrences + 1]
  <2>1. /\ orders[o].state # "CLOSED" /\ caller \in Spelling \cup {Nobody}
        /\ R!Save(o, R!Entered(r, orders[o].state, caller))
    BY <1>10 DEF R!LinkRecurrence
  <2>2. orders[o].recurrences + 1 \in Nat /\ orders[o].state \in R!States \ {"CLOSED"}
    BY <1>0, <2>1 DEF R!OrderRecord
  <2>3. /\ r \in R!OrderRecord /\ r.history = orders[o].history
        /\ r.closedBy = orders[o].closedBy
    BY <1>0, <2>2 DEF R!OrderRecord
  <2> HIDE DEF r
  <2> QED BY <2>1, <2>2, <2>3, EnterOrderStep
<1>11. ASSUME NEW o \in Order, NEW caller \in Spelling, NEW recurred \in BOOLEAN,
              R!SubmitDeficiencyRejection(o, caller, recurred)
       PROVE  ReinspectionInv'
  <2> DEFINE k == IF recurred THEN orders[o].recurrences + 1 ELSE orders[o].recurrences
             r == [orders[o] EXCEPT !.recurrences = k]
  <2>1. /\ orders[o].state # "CLOSED" /\ TrimSpace[caller] \in Spelling \cup {Nobody}
        /\ R!Save(o, R!Entered(r, "REJECTED_DEFICIENT", TrimSpace[caller]))
    BY <1>1, <1>11 DEF R!SubmitDeficiencyRejection, R!MayInspect
  <2>2. k \in Nat /\ "REJECTED_DEFICIENT" \in R!States \ {"CLOSED"}
    BY <1>0 DEF R!OrderRecord, R!States
  <2> HIDE DEF k
  <2>3. /\ r \in R!OrderRecord /\ r.history = orders[o].history
        /\ r.closedBy = orders[o].closedBy
    BY <1>0, <2>2 DEF R!OrderRecord
  <2> HIDE DEF r
  <2> QED BY <2>1, <2>2, <2>3, EnterOrderStep
<1>12. ASSUME NEW old \in SUBSET Evidence, R!VerifyWrite(old)
       PROVE  ReinspectionInv'
  <2> DEFINE o == busy.order
             p == busy.caller
             status(e) == actions[ActionOf[o]].evidence[e].status
             seen(e) == IF e \in old THEN busy.copied[e] ELSE status(e)
             passes == ~busy.known \/ /\ \A e \in busy.items : R!AcceptedOnly(seen(e))
                                      /\ R!Cardinality(busy.items) >= Required
             n == R!Entered(orders[o], "VERIFIED_SATISFACTORY", p)
             b == [known |-> busy.known, items |-> busy.items]
  <2>1. /\ busy # Idle /\ busy' = Idle /\ UNCHANGED <<actions, revokedActors>>
        /\ IF passes THEN /\ orders' = [orders EXCEPT ![o] = n]
                          /\ basis' = [basis EXCEPT ![o] = b]
           ELSE UNCHANGED <<orders, basis>>
    BY <1>12 DEF R!VerifyWrite
  <2>2. busy \in R!Walk
    BY <1>0, <2>1 DEF R!TypeOK
  <2>3. /\ o \in Order /\ p \in Spelling \cup {Nobody} /\ busy.items \in SUBSET Evidence
        /\ busy.known \in BOOLEAN
        /\ busy.copied \in [Evidence -> {"ABSENT", "SUBMITTED", "ACCEPTED", "REJECTED"}]
    BY <2>2, WorkAssumption DEF R!Walk, R!ReinspectionAssumption
  <2>4. /\ orders[o].state = "IN_PROGRESS"
        /\ \A e \in busy.items : /\ busy.copied[e] # "ABSENT" /\ status(e) # "ABSENT"
                                 /\ busy.copied[e] = "ACCEPTED" => status(e) = "ACCEPTED"
    BY <1>0, <2>1 DEF WalkInv
  <2>5. \A e \in Evidence : status(e) \in {"ABSENT", "SUBMITTED", "ACCEPTED", "REJECTED"}
    <3>1. actions[ActionOf[o]] \in R!GovernedAction
      BY <1>0, <2>3, WorkAssumption DEF ActionsInv, R!ReinspectionAssumption
    <3>2. \A e \in Evidence : actions[ActionOf[o]].evidence[e]
                              \in R!Item({"SUBMITTED", "ACCEPTED", "REJECTED"})
      BY <3>1 DEF R!GovernedAction
    <3> QED BY <3>2 DEF R!Item
  <2>6. CASE ~passes
    <3>1. UNCHANGED <<orders, basis, actions, revokedActors>> /\ busy' = Idle
      BY <2>1, <2>6
    <3>2. R!TypeOK'
      BY <1>0, <3>1 DEF R!TypeOK, R!GovernanceTypeOK
    <3> QED BY <1>0, <3>1, <3>2
            DEF ReinspectionInv, ActionsInv, EvidenceOfRegistered, WalkInv, BasisInv, R!Verified
  <2>7. CASE passes
    <3>1. orders' = [orders EXCEPT ![o] = n] /\ basis' = [basis EXCEPT ![o] = b]
      BY <2>1, <2>7
    <3>2. busy.known => /\ \A e \in busy.items : status(e) = "ACCEPTED"
                        /\ R!Cardinality(busy.items) >= Required
      <4> SUFFICES ASSUME busy.known PROVE /\ \A e \in busy.items : status(e) = "ACCEPTED"
                                           /\ R!Cardinality(busy.items) >= Required
        OBVIOUS
      <4>1. \A e \in busy.items : seen(e) \notin {"REJECTED", "SUBMITTED"}
        BY <2>7 DEF R!AcceptedOnly
      <4>2. \A e \in busy.items : e \in Evidence
        BY <2>3
      <4>3. ASSUME NEW e \in busy.items PROVE status(e) = "ACCEPTED"
        <5>1. CASE e \in old
          BY <2>3, <2>4, <4>1, <4>2, <5>1
        <5>2. CASE e \notin old
          BY <2>4, <2>5, <4>1, <4>2, <5>2
        <5> QED BY <5>1, <5>2
      <4> QED BY <2>7, <4>3
    <3>3. "VERIFIED_SATISFACTORY" \in R!States
      BY DEF R!States
    <3>4. IsEntered(n, orders[o], "VERIFIED_SATISFACTORY", p)
      BY <1>0, <2>3, <3>3, EnteredRecord
    <3>5. /\ b \in [known : BOOLEAN, items : SUBSET Evidence] /\ b.known = busy.known
          /\ b.items = busy.items
      BY <2>3
    <3> HIDE DEF n, b, o, p
    <3>6. /\ n \in R!OrderRecord /\ n.state = "VERIFIED_SATISFACTORY" /\ n.closedBy = Nobody
          /\ n.history = Append(orders[o].history, EnteredEntry("VERIFIED_SATISFACTORY", p))
      BY <1>0, <2>3, <2>4, <3>4 DEF IsEntered, OrderInOrder
    <3>7. OrderInOrder(n)
      BY <1>0, <2>3, <3>3, <3>6, OrderEntered
    <3>8. /\ \A x \in Order : orders'[x] = IF x = o THEN n ELSE orders[x]
          /\ \A x \in Order : basis'[x] = IF x = o THEN b ELSE basis[x]
      BY <1>0, <3>1 DEF R!TypeOK
    <3>9. R!TypeOK'
      <4>1. orders' \in [Order -> R!OrderRecord]
        BY <1>0, <3>1, <3>6
      <4>2. basis' \in [Order -> [known : BOOLEAN, items : SUBSET Evidence]]
        BY <1>0, <3>1, <3>5 DEF R!TypeOK
      <4> QED BY <1>0, <2>1, <4>1, <4>2 DEF R!TypeOK, R!GovernanceTypeOK
    <3>10. \A x \in Order : OrderInOrder(orders'[x])
      BY <1>0, <3>7, <3>8
    <3>11. BasisInv'
      <4> SUFFICES ASSUME NEW x \in Order, R!Verified(x)', basis'[x].known
                   PROVE  /\ \A e \in basis'[x].items :
                                actions[ActionOf[x]].evidence[e].status = "ACCEPTED"
                          /\ R!Cardinality(basis'[x].items) >= Required
        BY <2>1 DEF BasisInv
      <4>1. CASE x = o
        BY <3>2, <3>5, <3>8, <4>1 DEF o
      <4>2. CASE x # o
        <5>1. orders'[x] = orders[x] /\ basis'[x] = basis[x]
          BY <3>8, <4>2
        <5> QED BY <1>0, <5>1 DEF BasisInv, R!Verified
      <4> QED BY <4>1, <4>2
    <3> QED BY <1>0, <2>1, <3>9, <3>10, <3>11
            DEF ReinspectionInv, ActionsInv, EvidenceOfRegistered, WalkInv
  <2> QED BY <2>6, <2>7
<1>13. CASE UNCHANGED R!vars
  <2>1. /\ actions' = actions /\ orders' = orders /\ revokedActors' = revokedActors
        /\ busy' = busy /\ basis' = basis
    BY <1>13 DEF R!vars
  <2>2. R!TypeOK'
    BY <1>0, <2>1 DEF R!TypeOK, R!GovernanceTypeOK
  <2> QED BY <1>0, <2>1, <2>2
          DEF ReinspectionInv, ActionsInv, EvidenceOfRegistered, WalkInv, BasisInv, R!Verified
<1> QED BY <1>2, <1>3, <1>4, <1>5, <1>6, <1>7, <1>8, <1>9, <1>10, <1>11, <1>12, <1>13 DEF R!Next

\* What reinspection sees of a step.
LEMMA ReinspectionSees == [Next]_vars => [R!Next]_(R!vars)
  BY DEF Next, vars, Workflows, Correctives, Governance, Reinspections, Findings, Scores, Gate,
         reinspectionVars, R!vars

\* The inductive invariant holds whatever the other parts do.
LEMMA ReinspectionInvariant == Spec => []ReinspectionInv
<1>1. Init => ReinspectionInv
  BY ReinspectionInitially DEF Init
<1>2. ReinspectionInv /\ [Next]_vars => ReinspectionInv'
  BY ReinspectionSees, ReinspectionStep
<1> QED BY <1>1, <1>2, PTL DEF Spec

\* The invariant gives what VerifiedOnAccepted and ClosedAfterVerification say.
LEMMA OrdersVerified == ReinspectionInv => VerifiedOnAccepted
<1> SUFFICES ASSUME ReinspectionInv PROVE R!VerifiedOnAccepted /\ R!ClosedAfterVerification
  BY DEF VerifiedOnAccepted
<1>1. R!VerifiedOnAccepted
  BY DEF ReinspectionInv, BasisInv, R!VerifiedOnAccepted
<1>2. \A o \in Order : OrderInOrder(orders[o])
  BY DEF ReinspectionInv
<1>3. R!ClosedAfterVerification
  BY <1>2 DEF OrderInOrder, R!ClosedAfterVerification
<1> QED BY <1>1, <1>3

\* ReinspectionEngine with the action engine it reads, alone: verification rests on accepted
\* evidence and closure on verification.
THEOREM ReinspectionVerifies == R!Spec => []VerifiedOnAccepted
<1>1. R!Init => ReinspectionInv
  BY ReinspectionInitially
<1> QED BY <1>1, ReinspectionStep, OrdersVerified, PTL DEF R!Spec

\* The property of the run remediation about VerifySatisfactory and FinalClose: although the
\* walk over the evidence holds no lock, a verification rests on accepted evidence, and
\* closure follows verification.
THEOREM VerifiedOnAcceptedHolds == Spec => []VerifiedOnAccepted
<1> QED BY OrdersVerified, ReinspectionInvariant, PTL

\* The action property of the run remediation: only an extension approved by somebody other
\* than its requester and the owner of that moment moves a due date, to the date asked for.
THEOREM DueDateIsApprovedHolds == Spec => DueDateIsApproved
<1>1. GovernanceInv /\ [Next]_vars
      => [\A a \in Action : governed'[a].dueDate # governed[a].dueDate =>
             \/ governed[a].version = 0
             \/ \E q \in Ask : G!ApprovedBy(governed[a], governed'[a], q)]_governed
  BY GovernanceSees, GovernanceStep DEF DueMoved
<1> QED BY <1>1, GovernanceInvariant, PTL DEF Spec, DueDateIsApproved, G!DueDateIsApproved

-----------------------------------------------------------------------------
\* Findings.

\* A validated CreateFinding that waits for the lock.
Call == [id : Finding, record : F!FindingRecord]

\* Under the rule as it stands, the record is flagged if it must be.
Flagged(r) == r.rule # None /\ catalog[r.rule].mandatory => r.critical

\* A trail h that begins with the creation and replays to a state, a severity and a flag.
Trail(h, state, severity, critical) ==
    /\ \A i \in 1 .. Len(h) : h[i].action = "CREATED" <=> i = 1
    /\ F!Replays(F!Naming(h, "STATE_TRANSITION"), [i \in 1 .. Len(h) |-> h[i].state], state)
    /\ F!Replays(F!Naming(h, "SEVERITY_UPDATED"), [i \in 1 .. Len(h) |-> h[i].severity],
                 severity)
    /\ F!Replays(F!Naming(h, "CRITICAL_FLAG_UPDATED"), [i \in 1 .. Len(h) |-> h[i].critical],
                 critical)

\* The entry e may follow a trail, empty or not, of a record that becomes r: only the first
\* is a creation, and what e names goes on from where r was, while the rest is kept.
GoesOn(e, empty, action, told, was, is) ==
    IF e.action \in {"CREATED", action} THEN told[2] = is /\ (empty \/ told[1] = was)
    ELSE is = was
Follows(e, empty, old, r) ==
    /\ e.action = "CREATED" <=> empty
    /\ GoesOn(e, empty, "STATE_TRANSITION", e.state, old.state, r.state)
    /\ GoesOn(e, empty, "SEVERITY_UPDATED", e.severity, old.severity, r.severity)
    /\ GoesOn(e, empty, "CRITICAL_FLAG_UPDATED", e.critical, old.critical, r.critical)

\* The rules for one finding.
Accounted(r) ==
    /\ r \in F!FindingRecord
    /\ r.history = <<>> <=> r.state = "ABSENT"
    /\ Trail(r.history, r.state, r.severity, r.critical)
    /\ r.state = "ABSENT" => r.recurrence = None
    /\ r.state # "ABSENT" => r.severity \in 1 .. 4 /\ r.rule \in Rule

\* What waits for the lock was flagged by the rule it was validated under.
Waiting(r) ==
    /\ r.state = "OPEN" /\ r.severity \in 1 .. 4 /\ r.rule \in Rule /\ r.history = <<>>
    /\ changes = 0 => Flagged(r)

PendingInv ==
    /\ pending \in [Person -> Call \cup {None}]
    /\ \A p \in Person : pending[p] # None => Waiting(pending[p].record)

FindingInv ==
    /\ F!TypeOK /\ PendingInv
    /\ \A f \in Finding : Accounted(findings[f])
    /\ F!MandatoryIsCritical /\ F!RecurrenceAcyclic

\* A finding, once there, stays the same finding.
Identity ==
    \A f \in Finding : findings[f].state # "ABSENT" =>
        /\ findings'[f].rule = findings[f].rule
        /\ findings'[f].recurrence = findings[f].recurrence
        /\ SubSeq(findings'[f].history, 1, Len(findings[f].history)) = findings[f].history

LEMMA NoFindingTyped ==
    /\ F!NoFinding \in F!FindingRecord /\ F!NoFinding.state = "ABSENT"
    /\ F!NoFinding.history = <<>> /\ F!NoFinding.recurrence = None /\ F!NoFinding.rule = None
  BY DEF F!NoFinding, F!FindingRecord, F!States

\* No finding, and no call under way.
LEMMA FindingsInitially == F!Init => FindingInv
<1> SUFFICES ASSUME F!Init PROVE FindingInv
  OBVIOUS
<1>1. /\ catalog \in [Rule -> RuleSet] /\ findings = [f \in Finding |-> F!NoFinding]
      /\ pending = [p \in Person |-> None] /\ changes = 0 /\ creates = 0
  BY DEF F!Init
<1>2. \A f \in Finding : findings[f] = F!NoFinding
  BY <1>1
<1>3. \A f \in Finding : Accounted(findings[f])
  BY <1>2, NoFindingTyped DEF Accounted, Trail, F!Replays, F!Naming
<1>4. findings \in [Finding -> F!FindingRecord]
  BY <1>1, NoFindingTyped
<1>5. F!TypeOK
  BY <1>1, <1>4, WorkAssumption DEF F!TypeOK, F!FindingAssumption
<1>6. PendingInv
  BY <1>1 DEF PendingInv
<1>7. F!MandatoryIsCritical
  BY <1>2, NoFindingTyped DEF F!MandatoryIsCritical
<1>8. F!RecurrenceAcyclic
  <2>1. None \notin Finding
    BY WorkAssumption DEF F!FindingAssumption
  <2>2. \A f \in Finding : findings[f].recurrence = None
    BY <1>2, NoFindingTyped
  <2>3. ASSUME NEW group \in (SUBSET Finding) \ {{}}
        PROVE  \E f \in group : findings[f].recurrence \notin group
    <3>1. PICK f \in group : f \in Finding
      OBVIOUS
    <3> QED BY <2>1, <2>2, <3>1
  <2> QED BY <2>2, <2>3 DEF F!RecurrenceAcyclic
<1> QED BY <1>3, <1>5, <1>6, <1>7, <1>8 DEF FindingInv

\* A trail with one more entry: if the entry names the value it tells how that moved on,
\* and if not the value has not moved.
LEMMA ReplaysOn ==
    ASSUME NEW n \in Nat, NEW T \in SUBSET (1 .. n), NEW told, NEW longer, NEW was, NEW is,
           F!Replays(T, told, was), \A i \in 1 .. n : longer[i] = told[i],
           NEW U, \/ U = T /\ is = was
                  \/ /\ U = T \cup {n + 1} /\ longer[n + 1][2] = is
                     /\ T = {} \/ longer[n + 1][1] = was
    PROVE  F!Replays(U, longer, is)
<1>1. CASE U = T /\ is = was
  <2>1. \A i \in T : longer[i] = told[i]
    OBVIOUS
  <2>2. \A i \in T : (\A j \in T : j <= i) => longer[i][2] = is
    BY <1>1, <2>1 DEF F!Replays
  <2>3. \A i, j \in T : i < j /\ (\A k \in T : k <= i \/ j <= k) => longer[j][1] = longer[i][2]
    BY <2>1 DEF F!Replays
  <2> QED BY <1>1, <2>2, <2>3 DEF F!Replays
<1>2. CASE U = T \cup {n + 1} /\ longer[n + 1][2] = is /\ (T = {} \/ longer[n + 1][1] = was)
  <2>1. ASSUME NEW i \in U, \A j \in U : j <= i PROVE longer[i][2] = is
    BY <1>2, <2>1
  <2>2. ASSUME NEW i \in U, NEW j \in U, i < j, \A k \in U : k <= i \/ j <= k
        PROVE  longer[j][1] = longer[i][2]
    <3>1. i \in T
      BY <1>2, <2>2
    <3>2. CASE j = n + 1
      <4>1. \A k \in T : k <= i
        BY <1>2, <2>2, <3>2
      <4> QED BY <1>2, <3>1, <3>2, <4>1 DEF F!Replays
    <3>3. CASE j # n + 1
      BY <1>2, <2>2, <3>1, <3>3 DEF F!Replays
    <3> QED BY <3>2, <3>3
  <2> QED BY <2>1, <2>2 DEF F!Replays
<1> QED BY <1>1, <1>2

\* The same for the trail of entries itself.
LEMMA NamingOn ==
    ASSUME NEW h \in Seq(F!Entry), NEW e \in F!Entry, NEW action
    PROVE  LET longer == Append(h, e)  n == Len(h)
           IN  /\ n \in Nat /\ longer \in Seq(F!Entry) /\ Len(longer) = n + 1
               /\ longer[n + 1] = e /\ \A i \in 1 .. n : longer[i] = h[i]
               /\ F!Naming(h, action) \in SUBSET (1 .. n)
               /\ h = <<>> => F!Naming(h, action) = {}
               /\ F!Naming(longer, action) = IF e.action \in {"CREATED", action}
                                             THEN F!Naming(h, action) \cup {n + 1}
                                             ELSE F!Naming(h, action)
<1> DEFINE longer == Append(h, e)
           n == Len(h)
<1>1. /\ n \in Nat /\ longer \in Seq(F!Entry) /\ Len(longer) = n + 1
      /\ longer[n + 1] = e /\ \A i \in 1 .. n : longer[i] = h[i]
  OBVIOUS
<1>2. h = <<>> => n = 0
  OBVIOUS
<1> HIDE DEF longer
<1>3. F!Naming(longer, action) = IF e.action \in {"CREATED", action}
                                THEN F!Naming(h, action) \cup {n + 1} ELSE F!Naming(h, action)
  BY <1>1 DEF F!Naming
<1>4. F!Naming(h, action) \in SUBSET (1 .. n) /\ (h = <<>> => F!Naming(h, action) = {})
  BY <1>2 DEF F!Naming
<1> QED BY <1>1, <1>3, <1>4 DEF longer

\* A trail goes on with an entry that may follow it.
LEMMA TrailOn ==
    ASSUME NEW h \in Seq(F!Entry), NEW e \in F!Entry, NEW old, NEW r,
           Trail(h, old.state, old.severity, old.critical), Follows(e, h = <<>>, old, r)
    PROVE  Trail(Append(h, e), r.state, r.severity, r.critical)
<1> DEFINE longer == Append(h, e)
           n == Len(h)
<1>1. /\ n \in Nat /\ longer \in Seq(F!Entry) /\ Len(longer) = n + 1
      /\ longer[n + 1] = e /\ \A i \in 1 .. n : longer[i] = h[i]
  BY NamingOn
<1>2. ASSUME NEW action
      PROVE  /\ F!Naming(h, action) \in SUBSET (1 .. n)
             /\ h = <<>> => F!Naming(h, action) = {}
             /\ F!Naming(longer, action) = IF e.action \in {"CREATED", action}
                                           THEN F!Naming(h, action) \cup {n + 1}
                                           ELSE F!Naming(h, action)
  BY NamingOn
<1>3. h = <<>> <=> n = 0
  OBVIOUS
<1> HIDE DEF longer, n
<1>4. \A i \in 1 .. Len(longer) : longer[i].action = "CREATED" <=> i = 1
  <2>1. \A i \in 1 .. n : longer[i].action = "CREATED" <=> i = 1
    BY <1>1 DEF Trail, n
  <2>2. longer[n + 1].action = "CREATED" <=> n + 1 = 1
    BY <1>1, <1>3 DEF Follows
  <2> QED BY <1>1, <2>1, <2>2
<1>5. F!Replays(F!Naming(longer, "STATE_TRANSITION"),
                [i \in 1 .. Len(longer) |-> longer[i].state], r.state)
  <2> DEFINE told == [i \in 1 .. n |-> h[i].state]
             on == [i \in 1 .. Len(longer) |-> longer[i].state]
             T == F!Naming(h, "STATE_TRANSITION")
             U == F!Naming(longer, "STATE_TRANSITION")
  <2>1. F!Replays(T, told, old.state)
    BY DEF Trail, n
  <2>2. on[n + 1] = e.state /\ \A i \in 1 .. n : on[i] = told[i]
    BY <1>1
  <2>3. \/ U = T /\ r.state = old.state
        \/ U = T \cup {n + 1} /\ e.state[2] = r.state /\ (T = {} \/ e.state[1] = old.state)
    BY <1>2 DEF Follows, GoesOn
  <2>4. T \in SUBSET (1 .. n)
    BY <1>2
  <2> HIDE DEF told, on, T, U
  <2>5. F!Replays(U, on, r.state)
    BY <1>1, <2>1, <2>2, <2>3, <2>4, ReplaysOn
  <2> QED BY <2>5 DEF on, U
<1>6. F!Replays(F!Naming(longer, "SEVERITY_UPDATED"),
                [i \in 1 .. Len(longer) |-> longer[i].severity], r.severity)
  <2> DEFINE told == [i \in 1 .. n |-> h[i].severity]
             on == [i \in 1 .. Len(longer) |-> longer[i].severity]
             T == F!Naming(h, "SEVERITY_UPDATED")
             U == F!Naming(longer, "SEVERITY_UPDATED")
  <2>1. F!Replays(T, told, old.severity)
    BY DEF Trail, n
  <2>2. on[n + 1] = e.severity /\ \A i \in 1 .. n : on[i] = told[i]
    BY <1>1
  <2>3. \/ U = T /\ r.severity = old.severity
        \/ /\ U = T \cup {n + 1} /\ e.severity[2] = r.severity
           /\ T = {} \/ e.severity[1] = old.severity
    BY <1>2 DEF Follows, GoesOn
  <2>4. T \in SUBSET (1 .. n)
    BY <1>2
  <2> HIDE DEF told, on, T, U
  <2>5. F!Replays(U, on, r.severity)
    BY <1>1, <2>1, <2>2, <2>3, <2>4, ReplaysOn
  <2> QED BY <2>5 DEF on, U
<1>7. F!Replays(F!Naming(longer, "CRITICAL_FLAG_UPDATED"),
                [i \in 1 .. Len(longer) |-> longer[i].critical], r.critical)
  <2> DEFINE told == [i \in 1 .. n |-> h[i].critical]
             on == [i \in 1 .. Len(longer) |-> longer[i].critical]
             T == F!Naming(h, "CRITICAL_FLAG_UPDATED")
             U == F!Naming(longer, "CRITICAL_FLAG_UPDATED")
  <2>1. F!Replays(T, told, old.critical)
    BY DEF Trail, n
  <2>2. on[n + 1] = e.critical /\ \A i \in 1 .. n : on[i] = told[i]
    BY <1>1
  <2>3. \/ U = T /\ r.critical = old.critical
        \/ /\ U = T \cup {n + 1} /\ e.critical[2] = r.critical
           /\ T = {} \/ e.critical[1] = old.critical
    BY <1>2 DEF Follows, GoesOn
  <2>4. T \in SUBSET (1 .. n)
    BY <1>2
  <2> HIDE DEF told, on, T, U
  <2>5. F!Replays(U, on, r.critical)
    BY <1>1, <2>1, <2>2, <2>3, <2>4, ReplaysOn
  <2> QED BY <2>5 DEF on, U
<1> QED BY <1>4, <1>5, <1>6, <1>7 DEF Trail, longer

\* The entries of the methods that change one value.
LEMMA BlankEntryTyped ==
    ASSUME NEW p \in Person,
           NEW action \in {"SEVERITY_UPDATED", "CRITICAL_FLAG_UPDATED", "STATE_TRANSITION"}
    PROVE  /\ F!BlankEntry(action, p) \in F!Entry
           /\ F!BlankEntry(action, p).action = action
<1>1. "ABSENT" \in F!States
  BY DEF F!States
<1>2. <<"ABSENT", "ABSENT">> \in F!States \X F!States
  BY <1>1
<1>3. <<0, 0>> \in (0 .. 4) \X (0 .. 4)
  OBVIOUS
<1>4. <<FALSE, FALSE>> \in BOOLEAN \X BOOLEAN
  BY Zenon
<1> QED BY <1>2, <1>3, <1>4 DEF F!BlankEntry, F!Entry

LEMMA CreatedEntryTyped ==
    ASSUME NEW p \in Person, NEW old, NEW r \in F!FindingRecord, r.state = "OPEN"
    PROVE  F!CreatedEntry(r, p) \in F!Entry /\ Follows(F!CreatedEntry(r, p), TRUE, old, r)
<1> DEFINE e == F!CreatedEntry(r, p)
<1>1. /\ "ABSENT" \in F!States /\ "OPEN" \in F!States
      /\ r.severity \in 0 .. 4 /\ r.critical \in BOOLEAN
  BY DEF F!States, F!FindingRecord
<1>2. <<"ABSENT", "OPEN">> \in F!States \X F!States
  BY <1>1
<1>3. <<0, r.severity>> \in (0 .. 4) \X (0 .. 4)
  BY <1>1
<1>4. <<FALSE, r.critical>> \in BOOLEAN \X BOOLEAN
  BY <1>1, Zenon
<1>5. /\ e.action = "CREATED" /\ e.actor = p /\ e.state = <<"ABSENT", "OPEN">>
      /\ e.severity = <<0, r.severity>> /\ e.critical = <<FALSE, r.critical>>
  BY DEF F!CreatedEntry
<1>6. e \in F!Entry
  BY <1>2, <1>3, <1>4 DEF F!CreatedEntry, F!Entry
<1> HIDE DEF e
<1> QED BY <1>5, <1>6 DEF Follows, GoesOn, e

LEMMA SeverityEntryTyped ==
    ASSUME NEW p \in Person, NEW old \in F!FindingRecord, NEW r \in F!FindingRecord,
           r.state = old.state, r.critical = old.critical
    PROVE  /\ F!SeverityEntry(old, r.severity, p) \in F!Entry
           /\ Follows(F!SeverityEntry(old, r.severity, p), FALSE, old, r)
<1> DEFINE blank == F!BlankEntry("SEVERITY_UPDATED", p)
           e == [blank EXCEPT !.severity = <<old.severity, r.severity>>]
<1>1. blank \in F!Entry /\ blank.action = "SEVERITY_UPDATED"
  BY BlankEntryTyped
<1> HIDE DEF blank
<1>2. <<old.severity, r.severity>> \in (0 .. 4) \X (0 .. 4)
  BY DEF F!FindingRecord
<1>3. e \in F!Entry /\ e.action = "SEVERITY_UPDATED" /\ e.severity = <<old.severity, r.severity>>
  BY <1>1, <1>2 DEF F!Entry
<1>4. F!SeverityEntry(old, r.severity, p) = e
  BY DEF F!SeverityEntry, blank
<1> HIDE DEF e
<1> QED BY <1>3, <1>4 DEF Follows, GoesOn

LEMMA CriticalEntryTyped ==
    ASSUME NEW p \in Person, NEW old \in F!FindingRecord, NEW r \in F!FindingRecord,
           r.state = old.state, r.severity = old.severity
    PROVE  /\ F!CriticalEntry(old, r.critical, p) \in F!Entry
           /\ Follows(F!CriticalEntry(old, r.critical, p), FALSE, old, r)
<1> DEFINE blank == F!BlankEntry("CRITICAL_FLAG_UPDATED", p)
           e == [blank EXCEPT !.critical = <<old.critical, r.critical>>]
<1>1. blank \in F!Entry /\ blank.action = "CRITICAL_FLAG_UPDATED"
  BY BlankEntryTyped
<1> HIDE DEF blank
<1>2. <<old.critical, r.critical>> \in BOOLEAN \X BOOLEAN
  BY DEF F!FindingRecord
<1>3. /\ e \in F!Entry /\ e.action = "CRITICAL_FLAG_UPDATED"
      /\ e.critical = <<old.critical, r.critical>>
  BY <1>1, <1>2 DEF F!Entry
<1>4. F!CriticalEntry(old, r.critical, p) = e
  BY DEF F!CriticalEntry, blank
<1> HIDE DEF e
<1> QED BY <1>3, <1>4 DEF Follows, GoesOn

LEMMA StateEntryTyped ==
    ASSUME NEW p \in Person, NEW old \in F!FindingRecord, NEW r \in F!FindingRecord,
           r.severity = old.severity, r.critical = old.critical
    PROVE  /\ F!StateEntry(old, r.state, p) \in F!Entry
           /\ Follows(F!StateEntry(old, r.state, p), FALSE, old, r)
<1> DEFINE blank == F!BlankEntry("STATE_TRANSITION", p)
           e == [blank EXCEPT !.state = <<old.state, r.state>>]
<1>1. blank \in F!Entry /\ blank.action = "STATE_TRANSITION"
  BY BlankEntryTyped
<1> HIDE DEF blank
<1>2. <<old.state, r.state>> \in F!States \X F!States
  BY DEF F!FindingRecord
<1>3. e \in F!Entry /\ e.action = "STATE_TRANSITION" /\ e.state = <<old.state, r.state>>
  BY <1>1, <1>2 DEF F!Entry
<1>4. F!StateEntry(old, r.state, p) = e
  BY DEF F!StateEntry, blank
<1> HIDE DEF e
<1> QED BY <1>3, <1>4 DEF Follows, GoesOn

\* A write under the lock: of a finding that is there, or of a new one linked backwards.
LEMMA WriteStep ==
    ASSUME FindingInv, NEW f \in Finding, NEW r \in F!FindingRecord, NEW e \in F!Entry,
           F!Write(f, r, e), Follows(e, findings[f].history = <<>>, findings[f], r),
           r.state # "ABSENT", r.severity \in 1 .. 4, r.rule \in Rule,
           r.history = findings[f].history, changes = 0 => Flagged(r),
           IF findings[f].state = "ABSENT" THEN F!Linked(f, r.recurrence)
           ELSE r.recurrence = findings[f].recurrence /\ r.rule = findings[f].rule,
           UNCHANGED <<catalog, changes, creates>>, PendingInv'
    PROVE  FindingInv' /\ Identity
<1> DEFINE n == [r EXCEPT !.history = Append(r.history, e)]
<1>0. /\ findings \in [Finding -> F!FindingRecord]
      /\ \A x \in Finding : Accounted(findings[x])
      /\ F!MandatoryIsCritical /\ F!RecurrenceAcyclic /\ F!TypeOK
  BY DEF FindingInv, F!TypeOK
<1>1. findings' = [findings EXCEPT ![f] = n]
  BY DEF F!Write
<1>2. r.history \in Seq(F!Entry) /\ Append(r.history, e) \in Seq(F!Entry)
  BY DEF F!FindingRecord
<1>3. /\ n \in F!FindingRecord /\ n.history = Append(r.history, e)
      /\ n.state = r.state /\ n.severity = r.severity /\ n.critical = r.critical
      /\ n.rule = r.rule /\ n.recurrence = r.recurrence
  BY <1>2 DEF F!FindingRecord
<1> HIDE DEF n
<1>4. n.history # <<>> /\ SubSeq(n.history, 1, Len(r.history)) = r.history
  <2>1. /\ Len(r.history) \in Nat /\ n.history \in Seq(F!Entry)
        /\ Len(n.history) = Len(r.history) + 1
        /\ \A i \in 1 .. Len(r.history) : n.history[i] = r.history[i]
    BY <1>2, <1>3
  <2>2. SubSeq(n.history, 1, Len(r.history)) = r.history
    BY <1>2, <2>1
  <2> QED BY <2>1, <2>2
<1>5. Trail(n.history, n.state, n.severity, n.critical)
  <2>1. Accounted(findings[f])
    BY <1>0
  <2>2. Trail(r.history, findings[f].state, findings[f].severity, findings[f].critical)
    BY <2>1 DEF Accounted
  <2>3. Trail(Append(r.history, e), r.state, r.severity, r.critical)
    BY <1>2, <2>2, TrailOn
  <2> QED BY <1>3, <2>3
<1>6. Accounted(n)
  BY <1>3, <1>4, <1>5 DEF Accounted
<1>7. \A x \in Finding : findings'[x] = IF x = f THEN n ELSE findings[x]
  BY <1>0, <1>1
<1>8. findings' \in [Finding -> F!FindingRecord]
  BY <1>0, <1>1, <1>3
<1>9. \A x \in Finding : Accounted(findings'[x])
  BY <1>0, <1>6, <1>7
<1>10. F!TypeOK'
  <2>1. \A x \in Person : pending'[x] = None \/ pending'[x].id \in Finding
    BY DEF PendingInv, Call
  <2> QED BY <1>0, <1>8, <2>1 DEF F!TypeOK
<1>11. F!MandatoryIsCritical'
  <2>1. changes = 0 => Flagged(n)
    BY <1>3 DEF Flagged
  <2> QED BY <1>0, <1>7, <2>1 DEF F!MandatoryIsCritical, Flagged
<1>12. F!RecurrenceAcyclic'
  <2>0. None \notin Finding
    BY WorkAssumption DEF F!FindingAssumption
  <2>1. n.state # "ABSENT" /\ \A x \in Finding : findings[x].state # "ABSENT" => findings'[x].state # "ABSENT"
    BY <1>3, <1>7
  <2>2. \A x \in Finding : findings[x].recurrence # None
                           => /\ findings[x].recurrence \in Finding
                              /\ findings[findings[x].recurrence].state # "ABSENT"
    <3>1. \A x \in Finding : findings[x].recurrence \in Finding \cup {None}
      BY <1>0 DEF F!FindingRecord
    <3> QED BY <1>0, <3>1 DEF F!RecurrenceAcyclic
  <2>3. CASE findings[f].state # "ABSENT"
    <3>1. \A x \in Finding : findings'[x].recurrence = findings[x].recurrence
      BY <1>3, <1>7, <2>3
    <3>2. \A x \in Finding : findings'[x].recurrence # None =>
             findings'[findings'[x].recurrence].state # "ABSENT"
      BY <2>1, <2>2, <3>1
    <3> QED BY <1>0, <3>1, <3>2 DEF F!RecurrenceAcyclic
  <2>4. CASE findings[f].state = "ABSENT"
    <3> DEFINE g == n.recurrence
    <3>1. g = None \/ (g \in Finding /\ findings[g].state # "ABSENT")
      <4>1. g \in Finding \cup {None}
        BY <1>3 DEF F!FindingRecord
      <4> QED BY <1>3, <2>4, <4>1 DEF F!Linked, F!Free
    <3>2. g # f
      BY <2>0, <2>4, <3>1
    <3>3. \A x \in Finding : x # f => findings'[x].recurrence = findings[x].recurrence
      BY <1>7
    <3>4. findings'[f].recurrence = g
      BY <1>7
    <3> HIDE DEF g
    <3>5. ASSUME NEW x \in Finding, findings'[x].recurrence # None
          PROVE  findings'[findings'[x].recurrence].state # "ABSENT"
      <4>1. CASE x = f
        BY <2>1, <3>1, <3>4, <3>5, <4>1
      <4>2. CASE x # f
        BY <2>1, <2>2, <3>3, <3>5, <4>2
      <4> QED BY <4>1, <4>2
    <3>6. ASSUME NEW group \in (SUBSET Finding) \ {{}}
          PROVE  \E x \in group : findings'[x].recurrence \notin group
      <4>1. CASE group = {f}
        BY <3>2, <3>4, <4>1
      <4>2. CASE group # {f}
        <5> DEFINE rest == group \ {f}
        <5>1. rest \in (SUBSET Finding) \ {{}}
          BY <4>2
        <5>2. PICK x \in rest : findings[x].recurrence \notin rest
          BY <1>0, <5>1 DEF F!RecurrenceAcyclic
        <5>3. x \in Finding /\ x # f /\ x \in group
          BY <5>1
        <5>4. findings[x].recurrence # f
          BY <2>0, <2>2, <2>4, <5>3
        <5>5. findings'[x].recurrence \notin group
          BY <3>3, <5>2, <5>3, <5>4
        <5> QED BY <5>3, <5>5
      <4> QED BY <4>1, <4>2
    <3> QED BY <3>5, <3>6 DEF F!RecurrenceAcyclic
  <2> QED BY <2>3, <2>4
<1>13. Identity
  <2>1. ASSUME NEW x \in Finding, findings[x].state # "ABSENT"
        PROVE  /\ findings'[x].rule = findings[x].rule
               /\ findings'[x].recurrence = findings[x].recurrence
               /\ SubSeq(findings'[x].history, 1, Len(findings[x].history)) = findings[x].history
    <3>1. CASE x = f
      BY <1>3, <1>4, <1>7, <2>1, <3>1
    <3>2. CASE x # f
      <4>1. findings'[x] = findings[x] /\ findings[x].history \in Seq(F!Entry)
        BY <1>0, <1>7, <3>2 DEF F!FindingRecord
      <4> QED BY <4>1
    <3> QED BY <3>1, <3>2
  <2> QED BY <2>1 DEF Identity
<1> QED BY <1>9, <1>10, <1>11, <1>12, <1>13 DEF FindingInv

\* Every step of the finding manager keeps the invariant and the findings' identity.
LEMMA FindingStep == FindingInv /\ [F!Next]_(F!vars) => FindingInv' /\ Identity
<1> SUFFICES ASSUME FindingInv, [F!Next]_(F!vars) PROVE FindingInv' /\ Identity
  OBVIOUS
<1>0. /\ F!TypeOK /\ PendingInv /\ F!MandatoryIsCritical /\ F!RecurrenceAcyclic
      /\ findings \in [Finding -> F!FindingRecord]
      /\ \A f \in Finding : findings[f] \in F!FindingRecord /\ Accounted(findings[f])
  BY DEF FindingInv, F!TypeOK
<1>1. ASSUME findings' = findings PROVE Identity
  <2>1. \A f \in Finding : findings[f].history \in Seq(F!Entry)
    BY <1>0 DEF F!FindingRecord
  <2>2. \A f \in Finding : SubSeq(findings[f].history, 1, Len(findings[f].history))
                           = findings[f].history
    BY <2>1
  <2> QED BY <1>1, <2>2 DEF Identity
<1>2. ASSUME UNCHANGED <<pending, catalog, changes>> PROVE PendingInv'
  BY <1>0, <1>2 DEF PendingInv, Waiting, Flagged
<1>3. ASSUME NEW f \in Finding, changes = 0 PROVE Flagged(findings[f])
  BY <1>0, <1>3 DEF F!MandatoryIsCritical, Flagged
<1>4. ASSUME NEW rule \in Rule, NEW def \in RuleSet, F!RegisterRule(rule, def)
      PROVE  FindingInv' /\ Identity
  <2>1. /\ catalog' = [catalog EXCEPT ![rule] = def] /\ changes' = changes + 1
        /\ changes < MaxRules /\ UNCHANGED <<findings, pending, creates>>
    BY <1>4 DEF F!RegisterRule
  <2>2. changes' \in 0 .. MaxRules /\ changes' # 0
    BY <1>0, <2>1, WorkAssumption DEF F!TypeOK, F!FindingAssumption
  <2>3. F!TypeOK'
    BY <1>0, <2>1, <2>2 DEF F!TypeOK
  <2>4. PendingInv'
    BY <1>0, <2>1, <2>2 DEF PendingInv, Waiting
  <2> QED BY <1>0, <1>1, <2>1, <2>2, <2>3, <2>4
          DEF FindingInv, F!MandatoryIsCritical, F!RecurrenceAcyclic
<1>5. ASSUME NEW p \in Person, NEW f \in Finding, NEW rule \in Rule,
             NEW severity \in Severities \cup {0}, NEW critical \in BOOLEAN,
             NEW control \in BOOLEAN, NEW recurrence \in Finding \cup {None},
             F!ValidateFinding(p, f, rule, severity, critical, control, recurrence)
      PROVE  FindingInv' /\ Identity
  <2> DEFINE def == catalog[rule]
             rank == IF severity = 0 THEN def.default ELSE severity
             flag == F!Resolved(def, critical)
             r1 == [F!NoFinding EXCEPT !.state = "OPEN"]
             r2 == [r1 EXCEPT !.rule = rule]
             r3 == [r2 EXCEPT !.severity = rank]
             r4 == [r3 EXCEPT !.critical = flag]
             r5 == [r4 EXCEPT !.control = control]
             n == [r5 EXCEPT !.recurrence = recurrence]
             call == [id |-> f, record |-> n]
  <2>1. /\ creates < MaxCreates /\ creates' = creates + 1
        /\ pending' = [pending EXCEPT ![p] = call]
        /\ UNCHANGED <<catalog, findings, changes>>
    BY <1>5 DEF F!ValidateFinding
  <2>2. def \in F!RuleDefinition
    BY <1>0, WorkAssumption DEF F!TypeOK, F!FindingAssumption
  <2>3. def.mandatory \in BOOLEAN /\ def.default \in 1 .. 4
    BY <2>2 DEF F!RuleDefinition
  <2>4. rank \in 1 .. 4 /\ flag \in BOOLEAN /\ (def.mandatory => flag)
    BY <2>3, WorkAssumption DEF F!FindingAssumption, F!Resolved
  <2> HIDE DEF rank, flag
  <2>5. r1 \in F!FindingRecord /\ r1.state = "OPEN" /\ r1.history = <<>>
    BY NoFindingTyped DEF F!FindingRecord, F!States
  <2> HIDE DEF r1
  <2>6. r2 \in F!FindingRecord /\ r2.state = "OPEN" /\ r2.history = <<>> /\ r2.rule = rule
    BY <2>5 DEF F!FindingRecord
  <2> HIDE DEF r2
  <2>7. /\ r3 \in F!FindingRecord /\ r3.state = "OPEN" /\ r3.history = <<>> /\ r3.rule = rule
        /\ r3.severity = rank
    BY <2>4, <2>6 DEF F!FindingRecord
  <2> HIDE DEF r3
  <2>8. /\ r4 \in F!FindingRecord /\ r4.state = "OPEN" /\ r4.history = <<>> /\ r4.rule = rule
        /\ r4.severity = rank /\ r4.critical = flag
    BY <2>4, <2>7 DEF F!FindingRecord
  <2> HIDE DEF r4
  <2>9. /\ r5 \in F!FindingRecord /\ r5.state = "OPEN" /\ r5.history = <<>> /\ r5.rule = rule
        /\ r5.severity = rank /\ r5.critical = flag
    BY <2>8 DEF F!FindingRecord
  <2> HIDE DEF r5
  <2>10. /\ n \in F!FindingRecord /\ n.state = "OPEN" /\ n.history = <<>> /\ n.rule = rule
         /\ n.severity = rank /\ n.critical = flag
    BY <2>9 DEF F!FindingRecord
  <2> HIDE DEF n
  <2>11. call \in Call /\ call.record = n
    BY <2>10 DEF Call
  <2> HIDE DEF call
  <2>12. Waiting(n)
    BY <2>4, <2>10 DEF Waiting, Flagged
  <2>13. PendingInv'
    <3>1. pending' \in [Person -> Call \cup {None}]
      BY <1>0, <2>1, <2>11 DEF PendingInv
    <3>2. \A x \in Person : pending'[x] = IF x = p THEN call ELSE pending[x]
      BY <1>0, <2>1 DEF PendingInv
    <3>3. \A x \in Person : pending'[x] # None => Waiting(pending'[x].record)
      BY <1>0, <2>11, <2>12, <3>2 DEF PendingInv
    <3> QED BY <2>1, <3>1, <3>3 DEF PendingInv, Waiting, Flagged
  <2>14. F!TypeOK'
    <3>1. creates' \in 0 .. MaxCreates
      BY <1>0, <2>1, WorkAssumption DEF F!TypeOK, F!FindingAssumption
    <3>2. \A x \in Person : pending'[x] = None \/ pending'[x].id \in Finding
      BY <2>13 DEF PendingInv, Call
    <3> QED BY <1>0, <2>1, <3>1, <3>2 DEF F!TypeOK
  <2> QED BY <1>0, <1>1, <2>1, <2>13, <2>14
          DEF FindingInv, F!MandatoryIsCritical, F!RecurrenceAcyclic
<1>6. ASSUME NEW p \in Person, F!InsertFinding(p)
      PROVE  FindingInv' /\ Identity
  <2> DEFINE f == pending[p].id
             r == pending[p].record
             e == F!CreatedEntry(r, p)
  <2>1. /\ pending[p] # None /\ pending' = [pending EXCEPT ![p] = None]
        /\ UNCHANGED <<catalog, changes, creates>>
        /\ \/ F!Free(f) /\ F!Linked(f, r.recurrence) /\ F!Write(f, r, e)
           \/ UNCHANGED findings
    BY <1>6 DEF F!InsertFinding
  <2>2. pending[p] \in Call /\ Waiting(r)
    BY <1>0, <2>1 DEF PendingInv
  <2>3. f \in Finding /\ r \in F!FindingRecord
    BY <2>2 DEF Call
  <2>4. PendingInv'
    <3>1. pending' \in [Person -> Call \cup {None}]
      BY <1>0, <2>1 DEF PendingInv
    <3>2. \A x \in Person : pending'[x] = IF x = p THEN None ELSE pending[x]
      BY <1>0, <2>1 DEF PendingInv
    <3>3. \A x \in Person : pending'[x] # None => Waiting(pending'[x].record)
      BY <1>0, <3>2 DEF PendingInv
    <3> QED BY <2>1, <3>1, <3>3 DEF PendingInv, Waiting, Flagged
  <2>5. CASE UNCHANGED findings
    <3>1. F!TypeOK'
      <4>1. \A x \in Person : pending'[x] = None \/ pending'[x].id \in Finding
        BY <2>4 DEF PendingInv, Call
      <4> QED BY <1>0, <2>1, <2>5, <4>1 DEF F!TypeOK
    <3> QED BY <1>0, <1>1, <2>1, <2>4, <2>5, <3>1
            DEF FindingInv, F!MandatoryIsCritical, F!RecurrenceAcyclic
  <2>6. CASE F!Free(f) /\ F!Linked(f, r.recurrence) /\ F!Write(f, r, e)
    <3> HIDE DEF f, r
    <3>1. findings[f].state = "ABSENT" /\ findings[f].history = <<>>
      BY <1>0, <2>3, <2>6 DEF F!Free, Accounted
    <3>2. /\ r.state # "ABSENT" /\ r.severity \in 1 .. 4 /\ r.rule \in Rule
          /\ r.history = findings[f].history /\ (changes = 0 => Flagged(r))
      BY <2>2, <3>1 DEF Waiting
    <3>3. e \in F!Entry /\ Follows(e, TRUE, findings[f], r)
      BY <2>2, <2>3, CreatedEntryTyped DEF Waiting
    <3> HIDE DEF e
    <3> QED BY <2>1, <2>3, <2>4, <2>6, <3>1, <3>2, <3>3, WriteStep
  <2> QED BY <2>1, <2>5, <2>6
<1>7. ASSUME NEW f \in Finding, NEW severity \in Severities, NEW p \in Person,
             F!UpdateSeverity(f, severity, p)
      PROVE  FindingInv' /\ Identity
  <2> DEFINE r == [findings[f] EXCEPT !.severity = severity]
             e == F!SeverityEntry(findings[f], severity, p)
  <2>1. /\ findings[f].state # "ABSENT" /\ F!Write(f, r, e)
        /\ UNCHANGED <<catalog, pending, changes, creates>>
    BY <1>7 DEF F!UpdateSeverity, F!Open
  <2>2. severity \in 1 .. 4
    BY WorkAssumption DEF F!FindingAssumption
  <2>3. /\ r \in F!FindingRecord /\ r.severity = severity /\ r.state = findings[f].state
        /\ r.history = findings[f].history /\ r.recurrence = findings[f].recurrence
        /\ r.rule = findings[f].rule /\ r.critical = findings[f].critical
    BY <1>0, <2>2 DEF F!FindingRecord
  <2> HIDE DEF r
  <2>4. r.rule \in Rule /\ (changes = 0 => Flagged(r))
    BY <1>0, <1>3, <2>1, <2>3 DEF Accounted, Flagged
  <2>5. findings[f].history # <<>> /\ findings[f].severity \in 1 .. 4
    BY <1>0, <2>1 DEF Accounted
  <2>6. e \in F!Entry /\ Follows(e, FALSE, findings[f], r)
    BY <1>0, <2>2, <2>3, SeverityEntryTyped
  <2> HIDE DEF e
  <2> QED BY <1>2, <2>1, <2>2, <2>3, <2>4, <2>5, <2>6, WriteStep
<1>8. ASSUME NEW f \in Finding, NEW critical \in BOOLEAN, NEW p \in Person,
             F!UpdateCriticalFlag(f, critical, p)
      PROVE  FindingInv' /\ Identity
  <2> DEFINE r == [findings[f] EXCEPT !.critical = critical]
             e == F!CriticalEntry(findings[f], critical, p)
  <2>1. /\ findings[f].state # "ABSENT" /\ F!Write(f, r, e)
        /\ critical \/ ~catalog[findings[f].rule].mandatory
        /\ UNCHANGED <<catalog, pending, changes, creates>>
    BY <1>8 DEF F!UpdateCriticalFlag, F!Open
  <2>2. /\ r \in F!FindingRecord /\ r.severity = findings[f].severity
        /\ r.state = findings[f].state
        /\ r.history = findings[f].history /\ r.recurrence = findings[f].recurrence
        /\ r.rule = findings[f].rule /\ r.critical = critical
    BY <1>0 DEF F!FindingRecord
  <2> HIDE DEF r
  <2>3. r.rule \in Rule /\ r.severity \in 1 .. 4 /\ (changes = 0 => Flagged(r))
    BY <1>0, <2>1, <2>2 DEF Accounted, Flagged
  <2>4. findings[f].history # <<>>
    BY <1>0, <2>1 DEF Accounted
  <2>5. e \in F!Entry /\ Follows(e, FALSE, findings[f], r)
    BY <1>0, <2>2, CriticalEntryTyped
  <2> HIDE DEF e
  <2> QED BY <1>2, <2>1, <2>2, <2>3, <2>4, <2>5, WriteStep
<1>9. ASSUME NEW f \in Finding, NEW to \in F!States \ {"ABSENT"}, NEW p \in Person,
             F!TransitionState(f, to, p)
      PROVE  FindingInv' /\ Identity
  <2> DEFINE m == [findings[f] EXCEPT !.state = to]
             c == IF to = "CLOSED" THEN p ELSE m.closedBy
             r == [m EXCEPT !.closedBy = c]
             e == F!StateEntry(findings[f], to, p)
  <2>1. /\ findings[f].state # "ABSENT" /\ F!Write(f, r, e)
        /\ UNCHANGED <<catalog, pending, changes, creates>>
    BY <1>0, <1>9 DEF F!TransitionState, F!Open, F!FindingRecord
  <2>2. /\ m \in F!FindingRecord /\ m.severity = findings[f].severity /\ m.state = to
        /\ m.history = findings[f].history /\ m.recurrence = findings[f].recurrence
        /\ m.rule = findings[f].rule /\ m.critical = findings[f].critical
    BY <1>0 DEF F!FindingRecord
  <2> HIDE DEF m
  <2>3. c \in Person \cup {None}
    BY <2>2 DEF F!FindingRecord
  <2> HIDE DEF c
  <2>4. /\ r \in F!FindingRecord /\ r.severity = findings[f].severity /\ r.state = to
        /\ r.history = findings[f].history /\ r.recurrence = findings[f].recurrence
        /\ r.rule = findings[f].rule /\ r.critical = findings[f].critical
    BY <2>2, <2>3 DEF F!FindingRecord
  <2> HIDE DEF r
  <2>5. r.rule \in Rule /\ r.severity \in 1 .. 4 /\ (changes = 0 => Flagged(r))
    BY <1>0, <1>3, <2>1, <2>4 DEF Accounted, Flagged
  <2>6. findings[f].history # <<>>
    BY <1>0, <2>1 DEF Accounted
  <2>7. e \in F!Entry /\ Follows(e, FALSE, findings[f], r)
    BY <1>0, <2>4, StateEntryTyped
  <2> HIDE DEF e
  <2> QED BY <1>2, <2>1, <2>4, <2>5, <2>6, <2>7, WriteStep
<1>10. CASE UNCHANGED F!vars
  <2>1. /\ catalog' = catalog /\ findings' = findings /\ pending' = pending
        /\ changes' = changes /\ creates' = creates
    BY <1>10 DEF F!vars
  <2>2. F!TypeOK'
    BY <1>0, <2>1 DEF F!TypeOK
  <2> QED BY <1>0, <1>1, <1>2, <2>1, <2>2
          DEF FindingInv, F!MandatoryIsCritical, F!RecurrenceAcyclic
<1> QED BY <1>4, <1>5, <1>6, <1>7, <1>8, <1>9, <1>10 DEF F!Next

\* What the findings see of a step.
LEMMA FindingsSees == [Next]_vars => [F!Next]_(F!vars)
  BY DEF Next, vars, Workflows, Correctives, Governance, Reinspections, Findings, Scores, Gate,
         findingVars, F!vars

\* The inductive invariant holds whatever the other parts do.
LEMMA FindingInvariant == Spec => []FindingInv
<1>1. Init => FindingInv
  BY FindingsInitially DEF Init
<1>2. FindingInv /\ [Next]_vars => FindingInv'
  BY FindingsSees, FindingStep
<1> QED BY <1>1, <1>2, PTL DEF Spec

\* The invariant gives what AuditAccounts joins.
LEMMA FindingsAccounted == FindingInv => AuditAccounts
  BY DEF FindingInv, AuditAccounts, Accounted, Trail, F!AuditAccounts

\* FindingManager alone, in all its steps at once, not only those the two parts of the run
\* findings explore: trails account, mandatory findings are critical, no recurrence cycle.
THEOREM FindingsAccount == F!Spec => []AuditAccounts
<1>1. F!Init => FindingInv
  BY FindingsInitially
<1> QED BY <1>1, FindingStep, FindingsAccounted, PTL DEF F!Spec

\* The property of the run findings about FindingManager: the trail accounts for every
\* finding, mandatory findings are critical while the catalog stands, and recurrence links
\* never form a cycle, although creations race.
THEOREM AuditAccountsHolds == Spec => []AuditAccounts
<1> QED BY FindingsAccounted, FindingInvariant, PTL

\* The action property of the run findings: CreateFinding never replaces a finding.
THEOREM IdentityIsFixedHolds == Spec => IdentityIsFixed
<1>1. FindingInv /\ [Next]_vars
      => [\A f \in Finding : findings[f].state # "ABSENT" =>
             /\ findings'[f].rule = findings[f].rule
             /\ findings'[f].recurrence = findings[f].recurrence
             /\ SubSeq(findings'[f].history, 1, Len(findings[f].history))
                   = findings[f].history]_(F!vars)
  BY FindingsSees, FindingStep DEF Identity
<1> QED BY <1>1, FindingInvariant, PTL DEF Spec, IdentityIsFixed, F!IdentityIsFixed

-----------------------------------------------------------------------------
\* The fail-closed governor.

\* The ledger shows, after since and up to last, that a human supervisor resolved x of t.
Resolution(e, t, x) ==
    /\ e.action \in {"UNKNOWN_RESOLVED", "CRITICAL_CLEARED"}
    /\ e.target = t /\ e.item = x /\ e.actor \notin Bot /\ e.role \in SupervisorRole

ResolvedWithin(t, x, since, last) ==
    \E j \in (since + 1) .. last : Resolution(auditLedger[j], t, x)

\* An item raised for a target still stands against it, or was resolved since.
StandsOrResolved ==
    \A t \in Target, x \in Q!Item : raised[t][x] # None =>
        \/ x \in criticalTargets[t] \/ x \in quarantinedTargets[t]
        \/ ResolvedWithin(t, x, raised[t][x], Len(auditLedger))

RaisedInv ==
    /\ raised \in [Target -> [Q!Item -> Nat \cup {None}]]
    /\ \A t \in Target, x \in Q!Item : raised[t][x] # None => raised[t][x] <= Len(auditLedger)

GovernorInv == Q!TypeOK /\ RaisedInv /\ StandsOrResolved /\ Q!ResolvedBeforePassing

\* Nothing raised, nothing passed; the defaults are well formed.
LEMMA GovernorInitially == Q!Init => GovernorInv
<1> SUFFICES ASSUME Q!Init PROVE GovernorInv
  OBVIOUS
<1>1. /\ criticalTargets = [t \in Target |-> {}] /\ quarantinedTargets = [t \in Target |-> {}]
      /\ auditLedger = <<>> /\ passed = {}
      /\ raised = [t \in Target |-> [x \in Q!Item |-> None]]
  BY DEF Q!Init
<1>2. rules \subseteq Q!RuleID
  BY DEF Q!Init, Q!RuleID
<1>3. transitions \in [DOMAIN Q!DefaultTransitionCatalog \cup Rebound -> Q!RuleID \cup {None}]
  BY WorkAssumption DEF Q!Init, Q!RuleID, Q!GovernorAssumption
<1>4. Q!TypeOK
  BY <1>1, <1>2, <1>3 DEF Q!TypeOK
<1> QED BY <1>1, <1>4 DEF GovernorInv, RaisedInv, StandsOrResolved, Q!ResolvedBeforePassing

\* A permit into a protected state is given only where nothing stands against the target.
LEMMA PermittedUnopposed ==
    ASSUME NEW r, Q!Decision(r) = "TRANSITION_PERMITTED", r.to \in Q!Protected
    PROVE  criticalTargets[r.target] = {} /\ quarantinedTargets[r.target] = {}
  BY DEF Q!Decision, Q!CriticalActive, Q!UnknownActive

LEMMA DecisionTyped ==
    ASSUME NEW r
    PROVE  Q!Decision(r) \in {"OVERRIDE_ATTEMPT_DENIED", "AI_BOUNDARY_BLOCKED",
                              "CRITICAL_FAIL_BLOCKED", "UNKNOWN_QUARANTINE_RECORDED",
                              "SCORE_BELOW_THRESHOLD", "TRANSITION_PERMITTED",
                              "TRANSITION_DENIED"}
  BY DEF Q!Decision

\* One entry more in the ledger.
LEMMA LedgerGrows ==
    ASSUME Q!TypeOK, NEW e \in Q!Entry, auditLedger' = Append(auditLedger, e)
    PROVE  /\ auditLedger' \in Seq(Q!Entry) /\ Len(auditLedger) \in Nat
           /\ Len(auditLedger') = Len(auditLedger) + 1
           /\ DOMAIN auditLedger = 1 .. Len(auditLedger)
           /\ DOMAIN auditLedger' = 1 .. (Len(auditLedger) + 1)
           /\ \A i \in 1 .. Len(auditLedger) : auditLedger'[i] = auditLedger[i]
           /\ auditLedger'[Len(auditLedger) + 1] = e
<1>1. auditLedger \in Seq(Q!Entry)
  BY DEF Q!TypeOK
<1> QED BY <1>1

\* What was resolved stays resolved, in the longer ledger.
LEMMA ResolvedStays ==
    ASSUME Q!TypeOK, NEW e \in Q!Entry, auditLedger' = Append(auditLedger, e),
           NEW t, NEW x, NEW since \in Nat, NEW last \in 0 .. Len(auditLedger),
           ResolvedWithin(t, x, since, last), NEW later \in Nat, last <= later
    PROVE  \E j \in (since + 1) .. later : Resolution(auditLedger'[j], t, x)
<1>1. PICK j \in (since + 1) .. last : Resolution(auditLedger[j], t, x)
  BY DEF ResolvedWithin
<1>2. Len(auditLedger) \in Nat /\ \A i \in 1 .. Len(auditLedger) : auditLedger'[i] = auditLedger[i]
  BY LedgerGrows
<1>3. j \in 1 .. Len(auditLedger) /\ j \in (since + 1) .. later
  BY <1>2
<1> QED BY <1>1, <1>2, <1>3

\* The property of the next state, raised being as it was.
LEMMA ResolvedNext ==
    ASSUME raised' = raised,
           \A i \in passed', x \in Q!Item :
              raised[auditLedger'[i].target][x] # None /\ raised[auditLedger'[i].target][x] < i
              => \E j \in (raised[auditLedger'[i].target][x] + 1) .. (i - 1) :
                    Resolution(auditLedger'[j], auditLedger'[i].target, x)
    PROVE  Q!ResolvedBeforePassing'
  BY DEF Q!ResolvedBeforePassing, Resolution

\* An entry is logged and at most one item is resolved by it: no permit is given.
LEMMA LoggedStep ==
    ASSUME GovernorInv, NEW e \in Q!Entry, auditLedger' = Append(auditLedger, e),
           UNCHANGED <<rules, transitions, raised>>,
           criticalTargets' \in [Target -> SUBSET CriticalFinding],
           quarantinedTargets' \in [Target -> SUBSET Question],
           \A t \in Target, x \in Q!Item :
              \/ Resolution(e, t, x)
              \/ /\ x \in criticalTargets[t] => x \in criticalTargets'[t]
                 /\ x \in quarantinedTargets[t] => x \in quarantinedTargets'[t],
           passed' \in SUBSET (passed \cup {Len(auditLedger) + 1}),
           Len(auditLedger) + 1 \in passed'
           => criticalTargets[e.target] = {} /\ quarantinedTargets[e.target] = {}
    PROVE  GovernorInv'
<1> DEFINE n == Len(auditLedger)
<1>0. Q!TypeOK /\ RaisedInv /\ StandsOrResolved /\ Q!ResolvedBeforePassing
  BY DEF GovernorInv
<1>1. /\ auditLedger' \in Seq(Q!Entry) /\ n \in Nat /\ Len(auditLedger') = n + 1
      /\ DOMAIN auditLedger = 1 .. n /\ DOMAIN auditLedger' = 1 .. (n + 1)
      /\ \A i \in 1 .. n : auditLedger'[i] = auditLedger[i]
      /\ auditLedger'[n + 1] = e
  BY <1>0, LedgerGrows
<1>2. Q!TypeOK'
  <2>1. passed' \subseteq DOMAIN auditLedger'
    BY <1>0, <1>1 DEF Q!TypeOK
  <2> QED BY <1>0, <1>1, <2>1 DEF Q!TypeOK
<1>3. \A t \in Target, x \in Q!Item : raised[t][x] # None => raised[t][x] \in 0 .. n
  BY <1>0, <1>1 DEF RaisedInv
<1>4. RaisedInv'
  BY <1>0, <1>1, <1>3 DEF RaisedInv
<1>5. ASSUME NEW t \in Target, NEW x \in Q!Item, raised[t][x] # None
      PROVE  \/ x \in criticalTargets'[t] \/ x \in quarantinedTargets'[t]
             \/ \E j \in (raised[t][x] + 1) .. (n + 1) : Resolution(auditLedger'[j], t, x)
  <2>0. raised[t][x] \in 0 .. n /\ raised[t][x] \in Nat
    BY <1>1, <1>3, <1>5
  <2>1. CASE Resolution(e, t, x)
    <3>1. n + 1 \in (raised[t][x] + 1) .. (n + 1)
      BY <1>1, <2>0
    <3> QED BY <1>1, <2>1, <3>1
  <2>2. CASE /\ x \in criticalTargets[t] => x \in criticalTargets'[t]
             /\ x \in quarantinedTargets[t] => x \in quarantinedTargets'[t]
    <3>1. CASE x \in criticalTargets[t] \/ x \in quarantinedTargets[t]
      BY <2>2, <3>1
    <3>2. CASE ResolvedWithin(t, x, raised[t][x], n)
      <4>1. n \in 0 .. n /\ n + 1 \in Nat /\ n <= n + 1
        BY <1>1
      <4> QED BY <1>0, <2>0, <3>2, <4>1, ResolvedStays
    <3> QED BY <1>0, <1>5, <3>1, <3>2 DEF StandsOrResolved
  <2> QED BY <2>1, <2>2
<1>6. StandsOrResolved'
  BY <1>1, <1>5 DEF StandsOrResolved, ResolvedWithin
<1>7. ASSUME NEW i \in passed', NEW x \in Q!Item,
             raised[auditLedger'[i].target][x] # None, raised[auditLedger'[i].target][x] < i
      PROVE  \E j \in (raised[auditLedger'[i].target][x] + 1) .. (i - 1) :
                Resolution(auditLedger'[j], auditLedger'[i].target, x)
  <2> DEFINE t == auditLedger'[i].target
             since == raised[t][x]
  <2>0. i \in 1 .. (n + 1) /\ auditLedger'[i] \in Q!Entry
    BY <1>1, <1>2 DEF Q!TypeOK
  <2>1. t \in Target
    BY <2>0 DEF Q!Entry
  <2> HIDE DEF t
  <2>2. since # None /\ since < i
    BY <1>7 DEF t
  <2>3. since \in 0 .. n /\ since \in Nat
    BY <1>1, <1>3, <2>1, <2>2
  <2> HIDE DEF since
  <2>4. CASE i \in passed /\ i \in 1 .. n
    <3>1. t = auditLedger[i].target
      BY <1>1, <2>4 DEF t
    <3>2. ResolvedWithin(t, x, since, i - 1)
      BY <1>0, <2>4, <2>2, <3>1 DEF Q!ResolvedBeforePassing, ResolvedWithin, Resolution, since
    <3>3. i - 1 \in 0 .. n /\ i - 1 \in Nat /\ i - 1 <= i - 1
      BY <1>1, <2>4
    <3>4. \E j \in (since + 1) .. (i - 1) : Resolution(auditLedger'[j], t, x)
      BY <1>0, <2>3, <3>2, <3>3, ResolvedStays
    <3> QED BY <3>4 DEF since, t
  <2>5. CASE i = n + 1
    <3>1. t = e.target
      BY <1>1, <2>5 DEF t
    <3>2. criticalTargets[t] = {} /\ quarantinedTargets[t] = {}
      BY <2>5, <3>1
    <3>3. ResolvedWithin(t, x, since, n)
      BY <1>0, <2>1, <2>2, <3>2 DEF StandsOrResolved, since
    <3>4. n \in 0 .. n /\ n <= n
      BY <1>1
    <3>5. \E j \in (since + 1) .. n : Resolution(auditLedger'[j], t, x)
      BY <1>0, <1>1, <2>3, <3>3, <3>4, ResolvedStays
    <3>6. i - 1 = n
      BY <1>1, <2>5
    <3> QED BY <3>5, <3>6 DEF since, t
  <2>6. i \in passed => i \in 1 .. n
    BY <1>0, <1>1 DEF Q!TypeOK
  <2> QED BY <2>4, <2>5, <2>6
<1>8. Q!ResolvedBeforePassing'
  BY <1>7, ResolvedNext
<1> QED BY <1>2, <1>4, <1>6, <1>8 DEF GovernorInv

\* An item is raised anew, after everything in the ledger: no permit so far is younger.
LEMMA RaisedStep ==
    ASSUME GovernorInv, NEW t \in Target, NEW x \in Q!Item,
           raised' = [raised EXCEPT ![t][x] = Len(auditLedger)],
           UNCHANGED <<rules, transitions, auditLedger, passed>>,
           criticalTargets' \in [Target -> SUBSET CriticalFinding],
           quarantinedTargets' \in [Target -> SUBSET Question],
           \A u \in Target : /\ criticalTargets[u] \subseteq criticalTargets'[u]
                             /\ quarantinedTargets[u] \subseteq quarantinedTargets'[u],
           x \in criticalTargets'[t] \cup quarantinedTargets'[t]
    PROVE  GovernorInv'
<1> DEFINE n == Len(auditLedger)
<1>0. Q!TypeOK /\ RaisedInv /\ StandsOrResolved /\ Q!ResolvedBeforePassing
  BY DEF GovernorInv
<1>1. auditLedger \in Seq(Q!Entry) /\ n \in Nat /\ DOMAIN auditLedger = 1 .. n
  <2>1. auditLedger \in Seq(Q!Entry)
    BY <1>0 DEF Q!TypeOK
  <2> QED BY <2>1
<1>2. \A u \in Target, y \in Q!Item :
         raised'[u][y] = IF u = t /\ y = x THEN n ELSE raised[u][y]
  BY <1>0 DEF RaisedInv
<1>3. raised' \in [Target -> [Q!Item -> Nat \cup {None}]]
  <2>1. [raised[t] EXCEPT ![x] = n] \in [Q!Item -> Nat \cup {None}]
    BY <1>0, <1>1 DEF RaisedInv
  <2>2. raised' = [raised EXCEPT ![t] = [raised[t] EXCEPT ![x] = n]]
    OBVIOUS
  <2> QED BY <1>0, <2>1, <2>2 DEF RaisedInv
<1>4. Q!TypeOK'
  BY <1>0 DEF Q!TypeOK
<1>5. RaisedInv'
  <2>1. \A u \in Target, y \in Q!Item : raised'[u][y] # None => raised'[u][y] <= n
    BY <1>0, <1>1, <1>2 DEF RaisedInv
  <2> QED BY <1>3, <2>1 DEF RaisedInv
<1>6. StandsOrResolved'
  <2> SUFFICES ASSUME NEW u \in Target, NEW y \in Q!Item, raised'[u][y] # None
               PROVE  \/ y \in criticalTargets'[u] \/ y \in quarantinedTargets'[u]
                      \/ ResolvedWithin(u, y, raised'[u][y], n)
    BY DEF StandsOrResolved, ResolvedWithin
  <2>1. CASE u = t /\ y = x
    BY <2>1
  <2>2. CASE ~(u = t /\ y = x)
    <3>1. raised'[u][y] = raised[u][y]
      BY <1>2, <2>2
    <3> QED BY <1>0, <3>1 DEF StandsOrResolved
  <2> QED BY <2>1, <2>2
<1>7. Q!ResolvedBeforePassing'
  <2> SUFFICES ASSUME NEW i \in passed, NEW y \in Q!Item,
                      raised'[auditLedger[i].target][y] # None,
                      raised'[auditLedger[i].target][y] < i
               PROVE  \E j \in (raised'[auditLedger[i].target][y] + 1) .. (i - 1) :
                         Resolution(auditLedger[j], auditLedger[i].target, y)
    BY DEF Q!ResolvedBeforePassing, Resolution
  <2> DEFINE u == auditLedger[i].target
  <2>1. i \in 1 .. n /\ auditLedger[i] \in Q!Entry
    BY <1>0, <1>1 DEF Q!TypeOK
  <2>2. u \in Target
    BY <2>1 DEF Q!Entry
  <2>3. ~(u = t /\ y = x)
    BY <1>1, <1>2, <2>1
  <2>4. raised'[u][y] = raised[u][y]
    BY <1>2, <2>2, <2>3
  <2> QED BY <1>0, <2>4 DEF Q!ResolvedBeforePassing, Resolution
<1> QED BY <1>4, <1>5, <1>6, <1>7 DEF GovernorInv

\* Every call of the governor and of its books keeps the invariant.
LEMMA GovernorStep == GovernorInv /\ [Q!Next]_(Q!vars) => GovernorInv'
<1> SUFFICES ASSUME GovernorInv, [Q!Next]_(Q!vars) PROVE GovernorInv'
  OBVIOUS
<1>0. /\ Q!TypeOK /\ criticalTargets \in [Target -> SUBSET CriticalFinding]
      /\ quarantinedTargets \in [Target -> SUBSET Question]
      /\ passed \in SUBSET (passed \cup {Len(auditLedger) + 1})
      /\ Len(auditLedger) + 1 \notin passed
  <2>1. Q!TypeOK
    BY DEF GovernorInv
  <2>2. auditLedger \in Seq(Q!Entry)
    BY <2>1 DEF Q!TypeOK
  <2>3. Len(auditLedger) + 1 \notin DOMAIN auditLedger
    BY <2>2
  <2> QED BY <2>1, <2>3 DEF Q!TypeOK
<1>1. ASSUME NEW t \in Target, NEW f \in CriticalFinding, Q!RegisterCriticalFinding(t, f)
      PROVE  GovernorInv'
  <2>1. /\ criticalTargets' = [criticalTargets EXCEPT ![t] = criticalTargets[t] \cup {f}]
        /\ raised' = [raised EXCEPT ![t][f] = Len(auditLedger)]
        /\ UNCHANGED <<rules, transitions, quarantinedTargets, auditLedger, passed>>
    BY <1>1 DEF Q!RegisterCriticalFinding, Q!books
  <2>2. /\ criticalTargets' \in [Target -> SUBSET CriticalFinding]
        /\ \A u \in Target : criticalTargets[u] \subseteq criticalTargets'[u]
        /\ f \in criticalTargets'[t]
    BY <1>0, <2>1
  <2>3. f \in Q!Item /\ quarantinedTargets' \in [Target -> SUBSET Question]
    BY <1>0, <2>1 DEF Q!Item
  <2>4. \A u \in Target : /\ criticalTargets[u] \subseteq criticalTargets'[u]
                          /\ quarantinedTargets[u] \subseteq quarantinedTargets'[u]
    BY <2>1, <2>2
  <2> QED BY <2>1, <2>2, <2>3, <2>4, RaisedStep
<1>2. ASSUME NEW t \in Target, NEW q \in Question, Q!RegisterQuarantinedQuestion(t, q)
      PROVE  GovernorInv'
  <2>1. /\ quarantinedTargets' = [quarantinedTargets EXCEPT ![t] = quarantinedTargets[t] \cup {q}]
        /\ raised' = [raised EXCEPT ![t][q] = Len(auditLedger)]
        /\ UNCHANGED <<rules, transitions, criticalTargets, auditLedger, passed>>
    BY <1>2 DEF Q!RegisterQuarantinedQuestion, Q!books
  <2>2. /\ quarantinedTargets' \in [Target -> SUBSET Question]
        /\ \A u \in Target : quarantinedTargets[u] \subseteq quarantinedTargets'[u]
        /\ q \in quarantinedTargets'[t]
    BY <1>0, <2>1
  <2>3. q \in Q!Item /\ criticalTargets' \in [Target -> SUBSET CriticalFinding]
    BY <1>0, <2>1 DEF Q!Item
  <2>4. \A u \in Target : /\ criticalTargets[u] \subseteq criticalTargets'[u]
                          /\ quarantinedTargets[u] \subseteq quarantinedTargets'[u]
    BY <2>1, <2>2
  <2> QED BY <2>1, <2>2, <2>3, <2>4, RaisedStep
<1>3. ASSUME NEW t \in Target, NEW q \in Question, NEW p \in Actor, NEW role \in Role,
             Q!ResolveUnknownQuestion(t, q, p, role)
      PROVE  GovernorInv'
  <2> DEFINE e == [action |-> "UNKNOWN_RESOLVED", target |-> t, actor |-> p, role |-> role,
                   item |-> q]
  <2>1. /\ quarantinedTargets' = [quarantinedTargets EXCEPT ![t] = quarantinedTargets[t] \ {q}]
        /\ auditLedger' = Append(auditLedger, e) /\ p \notin Bot /\ role \in SupervisorRole
        /\ UNCHANGED <<rules, transitions, criticalTargets, raised, passed>>
    BY <1>3 DEF Q!ResolveUnknownQuestion, Q!MayResolve, Q!Log, Q!Cleared, Q!books
  <2>2. e \in Q!Entry /\ Resolution(e, t, q)
    BY <2>1 DEF Q!Entry, Q!Item, Resolution
  <2> HIDE DEF e
  <2>3. /\ quarantinedTargets' \in [Target -> SUBSET Question]
        /\ \A u \in Target, x \in Q!Item :
              \/ u = t /\ x = q
              \/ x \in quarantinedTargets[u] => x \in quarantinedTargets'[u]
    BY <1>0, <2>1
  <2>4. \A u \in Target, x \in Q!Item :
           \/ Resolution(e, u, x)
           \/ /\ x \in criticalTargets[u] => x \in criticalTargets'[u]
              /\ x \in quarantinedTargets[u] => x \in quarantinedTargets'[u]
    BY <2>1, <2>2, <2>3
  <2> QED BY <1>0, <2>1, <2>2, <2>3, <2>4, LoggedStep
<1>4. ASSUME NEW t \in Target, NEW f \in CriticalFinding, NEW p \in Actor, NEW role \in Role,
             Q!ClearCriticalFinding(t, f, p, role)
      PROVE  GovernorInv'
  <2> DEFINE e == [action |-> "CRITICAL_CLEARED", target |-> t, actor |-> p, role |-> role,
                   item |-> f]
  <2>1. /\ criticalTargets' = [criticalTargets EXCEPT ![t] = criticalTargets[t] \ {f}]
        /\ auditLedger' = Append(auditLedger, e) /\ p \notin Bot /\ role \in SupervisorRole
        /\ UNCHANGED <<rules, transitions, quarantinedTargets, raised, passed>>
    BY <1>4 DEF Q!ClearCriticalFinding, Q!MayResolve, Q!Log, Q!Cleared, Q!books
  <2>2. e \in Q!Entry /\ Resolution(e, t, f)
    BY <2>1 DEF Q!Entry, Q!Item, Resolution
  <2> HIDE DEF e
  <2>3. /\ criticalTargets' \in [Target -> SUBSET CriticalFinding]
        /\ \A u \in Target, x \in Q!Item :
              \/ u = t /\ x = f
              \/ x \in criticalTargets[u] => x \in criticalTargets'[u]
    BY <1>0, <2>1
  <2>4. \A u \in Target, x \in Q!Item :
           \/ Resolution(e, u, x)
           \/ /\ x \in criticalTargets[u] => x \in criticalTargets'[u]
              /\ x \in quarantinedTargets[u] => x \in quarantinedTargets'[u]
    BY <2>1, <2>2, <2>3
  <2> QED BY <1>0, <2>1, <2>2, <2>3, <2>4, LoggedStep
<1>5. ASSUME NEW r \in Query, Q!Qualify(r)
      PROVE  GovernorInv'
  <2> DEFINE e == [action |-> Q!Decision(r), target |-> r.target, actor |-> r.actor,
                   role |-> r.role, item |-> None]
  <2>1. /\ auditLedger' = Append(auditLedger, e)
        /\ passed' = IF Q!Decision(r) = "TRANSITION_PERMITTED" /\ r.to \in Q!Protected
                     THEN passed \cup {Len(auditLedger) + 1} ELSE passed
        /\ UNCHANGED <<rules, transitions, criticalTargets, quarantinedTargets, raised>>
    BY <1>5 DEF Q!Qualify, Q!Log, Q!books
  <2>2. r.target \in Target /\ r.actor \in Actor /\ r.role \in Role
    BY WorkAssumption DEF Q!GovernorAssumption
  <2>3. e \in Q!Entry /\ e.target = r.target
    BY <2>2, DecisionTyped DEF Q!Entry
  <2> HIDE DEF e
  <2>4. Len(auditLedger) + 1 \in passed'
        => criticalTargets[e.target] = {} /\ quarantinedTargets[e.target] = {}
    BY <1>0, <2>1, <2>3, PermittedUnopposed
  <2>5. /\ passed' \in SUBSET (passed \cup {Len(auditLedger) + 1})
        /\ criticalTargets' \in [Target -> SUBSET CriticalFinding]
        /\ quarantinedTargets' \in [Target -> SUBSET Question]
    BY <1>0, <2>1
  <2>6. \A u \in Target, x \in Q!Item :
           \/ Resolution(e, u, x)
           \/ /\ x \in criticalTargets[u] => x \in criticalTargets'[u]
              /\ x \in quarantinedTargets[u] => x \in quarantinedTargets'[u]
    BY <2>1
  <2> QED BY <2>1, <2>3, <2>4, <2>5, <2>6, LoggedStep
<1>6. CASE \/ \E rule \in NewRule : Q!RegisterRule(rule)
           \/ \E key \in Rebound, rule \in NewRule : Q!RegisterTransition(key, rule)
           \/ UNCHANGED Q!vars
  <2>1. UNCHANGED <<criticalTargets, quarantinedTargets, auditLedger, raised, passed>>
    BY <1>6 DEF Q!RegisterRule, Q!RegisterTransition, Q!vars
  <2>2. /\ rules' \subseteq Q!RuleID
        /\ transitions' \in [DOMAIN Q!DefaultTransitionCatalog \cup Rebound
                             -> Q!RuleID \cup {None}]
    BY <1>0, <1>6 DEF Q!RegisterRule, Q!RegisterTransition, Q!vars, Q!TypeOK, Q!RuleID
  <2>3. Q!TypeOK'
    BY <1>0, <2>1, <2>2 DEF Q!TypeOK
  <2> QED BY <2>1, <2>3 DEF GovernorInv, RaisedInv, StandsOrResolved, ResolvedWithin, Resolution,
                            Q!ResolvedBeforePassing
<1> QED BY <1>1, <1>2, <1>3, <1>4, <1>5, <1>6 DEF Q!Next

\* What the governor sees of a step.
LEMMA GovernorSees == [Next]_vars => [Q!Next]_(Q!vars)
  BY DEF Next, vars, Workflows, Correctives, Governance, Reinspections, Findings, Scores, Gate,
         governorVars, Q!vars

\* The invariant contains ResolvedBeforePassing.
LEMMA GovernorHolds == GovernorInv => ResolvedBeforePassing
  BY DEF GovernorInv, ResolvedBeforePassing

\* FailClosedGovernor alone: what was raised is resolved before its target passes.
THEOREM GovernorFailsClosed == Q!Spec => []ResolvedBeforePassing
<1>1. Q!Init => GovernorInv
  BY GovernorInitially
<1> QED BY <1>1, GovernorStep, GovernorHolds, PTL DEF Q!Spec

\* The property of the run findings about FailClosedGovernor.Qualify: nothing passes into a
\* protected state while an item registered for it was not resolved by a human supervisor.
THEOREM ResolvedBeforePassingHolds == Spec => []ResolvedBeforePassing
<1>1. Init => GovernorInv
  BY GovernorInitially DEF Init
<1>2. GovernorInv /\ [Next]_vars => GovernorInv'
  BY GovernorSees, GovernorStep
<1> QED BY <1>1, <1>2, GovernorHolds, PTL DEF Spec
=============================================================================
