---------------------------- MODULE OutboxProofs ----------------------------
(***************************************************************************)
(* Proofs about Outbox.tla for any sets of transactions, events, tenants.  *)
(***************************************************************************)
EXTENDS Outbox, SequenceTheorems, TLAPS

\* What publishing a batch does to the log, position by position
\* (OutboxTx.Commit's loop: old entries stay, new ones are numbered on).
LEMMA PublishedPositions ==
    ASSUME NEW t \in Tx, OutboxInv, Commit(t)
    PROVE  /\ Len(committed') = Len(committed) + Len(tx[t].staged)
           /\ committed' \in Seq(Envelope)
           /\ \A i \in 1 .. Len(committed) : committed'[i] = committed[i]
           /\ \A i \in (Len(committed) + 1) .. Len(committed') :
                 /\ i - Len(committed) \in 1 .. Len(tx[t].staged)
                 /\ committed'[i] = [id |-> tx[t].staged[i - Len(committed)],
                                     owner |-> tx[t].tenant,
                                     writer |-> t, seq |-> i]
<1>1. tx[t] \in TxRecord /\ tx[t].tenant \in Tenant
  BY DEF OutboxInv, TypeOK, Commit, Usable
<1>2. tx[t].staged \in Seq(EventID)
  BY <1>1 DEF TxRecord
<1>3. seqCounter = Len(committed) /\ committed \in Seq(Envelope)
  BY DEF OutboxInv, TypeOK, DenseNumbering
<1> DEFINE n == Numbered(t)
<1>4. n \in Seq(Envelope) /\ Len(n) = Len(tx[t].staged)
  <2>1. \A i \in 1 .. Len(tx[t].staged) : n[i] \in Envelope
    BY <1>1, <1>2, <1>3 DEF Numbered, Envelope
  <2>2. Len(tx[t].staged) \in Nat
    BY <1>2
  <2>3. n \in [1 .. Len(tx[t].staged) -> Envelope]
    BY <2>1 DEF Numbered
  <2> HIDE DEF n
  <2>4. n \in Seq(Envelope)
    BY <2>2, <2>3
  <2>5. Len(n) = Len(tx[t].staged)
    BY <2>2, <2>3, <2>4, LenProperties
  <2> QED BY <2>4, <2>5
<1>5. \A i \in 1 .. Len(n) :
         n[i] = [id |-> tx[t].staged[i], owner |-> tx[t].tenant, writer |-> t,
                 seq |-> Len(committed) + i]
  BY <1>2, <1>3 DEF Numbered
<1>6. committed' = committed \o n
  BY DEF Commit
<1> HIDE DEF n
<1>7. committed' \in Seq(Envelope) /\ Len(committed') = Len(committed) + Len(n)
  BY <1>3, <1>4, <1>6, ConcatProperties
<1>8. \A i \in 1 .. Len(committed) : committed'[i] = committed[i]
  BY <1>3, <1>4, <1>6
<1>9. ASSUME NEW i \in (Len(committed) + 1) .. Len(committed')
      PROVE  /\ i - Len(committed) \in 1 .. Len(tx[t].staged)
             /\ committed'[i] = [id |-> tx[t].staged[i - Len(committed)],
                                 owner |-> tx[t].tenant, writer |-> t, seq |-> i]
  <2>1. i - Len(committed) \in 1 .. Len(n)
    BY <1>3, <1>4, <1>7
  <2>2. committed'[i] = n[i - Len(committed)]
    BY <1>3, <1>4, <1>6, <1>7
  <2>3. Len(committed) + (i - Len(committed)) = i
    BY <1>3, <1>7
  <2> QED BY <2>1, <2>2, <2>3, <1>4, <1>5
<1> QED BY <1>4, <1>7, <1>8, <1>9

\* Commit and Rollback both end a transaction by setting its status and
\* dropping what it staged; the transaction stays well typed.
LEMMA FinishedTyped ==
    ASSUME tx \in [Tx -> TxRecord], NEW t \in Tx,
           NEW s \in {"committed", "rolledback"}
    PROVE  [tx EXCEPT ![t].status = s, ![t].staged = <<>>] \in [Tx -> TxRecord]
<1> DEFINE r == [tx[t] EXCEPT !.status = s]
           n == [r EXCEPT !.staged = <<>>]
<1>1. tx[t] \in TxRecord
  OBVIOUS
<1>2. r \in TxRecord
  BY <1>1 DEF TxRecord
<1>3. n \in TxRecord
  <2>1. <<>> \in Seq(EventID)
    OBVIOUS
  <2> HIDE DEF r
  <2> QED BY <1>2, <2>1 DEF TxRecord
<1>4. [tx EXCEPT ![t].status = s, ![t].staged = <<>>] = [tx EXCEPT ![t] = n]
  OBVIOUS
<1> HIDE DEF n
<1> QED BY <1>3, <1>4

\* Every step keeps the values of Outbox and OutboxTx well typed.
LEMMA TypePreserved == OutboxInv /\ [Next]_vars => TypeOK'
<1> SUFFICES ASSUME OutboxInv, [Next]_vars PROVE TypeOK'
  OBVIOUS
<1> USE DEF TypeOK
<1>0. TypeOK BY DEF OutboxInv
<1>1. ASSUME NEW t \in Tx, NEW tenant \in Tenant, BeginTx(t, tenant) PROVE TypeOK'
  <2> DEFINE r == [tx[t] EXCEPT !.status = "open"]
             n == [r EXCEPT !.tenant = tenant]
  <2>1. r \in TxRecord
    BY <1>0 DEF TxRecord
  <2>2. n \in TxRecord
    <3> HIDE DEF r
    <3> QED BY <2>1 DEF TxRecord
  <2>3. tx' = [tx EXCEPT ![t] = n]
    BY <1>1 DEF BeginTx
  <2> HIDE DEF n
  <2>4. tx' \in [Tx -> TxRecord]
    BY <1>0, <2>2, <2>3
  <2> QED BY <1>0, <1>1, <2>4 DEF BeginTx
<1>2. ASSUME NEW t \in Tx, NEW e \in EventID, NEW tenant \in Tenant \cup {None},
             StageCheck(t, e, tenant)
      PROVE TypeOK'
  BY <1>0, <1>2 DEF StageCheck, TxRecord
<1>3. ASSUME NEW t \in Tx, StageAppend(t) PROVE TypeOK'
  <2>1. tx[t] \in TxRecord /\ tx[t].pending \in EventID
    BY <1>0, <1>3 DEF StageAppend, TxRecord
  <2>2. Append(tx[t].staged, tx[t].pending) \in Seq(EventID)
    BY <2>1 DEF TxRecord
  <2> QED BY <1>0, <1>3, <2>1, <2>2 DEF StageAppend, TxRecord
<1>4. ASSUME NEW t \in Tx, StageReject(t) PROVE TypeOK'
  BY <1>0, <1>4 DEF StageReject, TxRecord
<1>5. ASSUME NEW t \in Tx, Commit(t) PROVE TypeOK'
  <2>1. committed' \in Seq(Envelope)
    BY <1>5, PublishedPositions
  <2>2. tx[t] \in TxRecord
    BY <1>0
  <2>3. Elements(tx[t].staged) \subseteq EventID /\ Len(tx[t].staged) \in Nat
    BY <2>2 DEF Elements, TxRecord
  <2>4. tx' \in [Tx -> TxRecord]
    BY <1>0, <1>5, FinishedTyped DEF Commit
  <2>5. eventIDs' \subseteq EventID /\ seqCounter' \in Nat
    BY <1>0, <1>5, <2>3 DEF Commit
  <2> QED BY <2>1, <2>4, <2>5
<1>6. ASSUME NEW t \in Tx, Rollback(t) PROVE TypeOK'
  BY <1>0, <1>6, FinishedTyped DEF Rollback
<1>7. CASE UNCHANGED vars
  BY <1>0, <1>7 DEF vars
<1> QED BY <1>1, <1>2, <1>3, <1>4, <1>5, <1>6, <1>7 DEF Next

\* Stage, Rollback and BeginTx touch one transaction and never the log; what
\* they may do to the transaction is all the invariant needs to know of them.
LEMMA PrivateStep ==
    ASSUME OutboxInv, TypeOK', NEW t \in Tx,
           UNCHANGED <<committed, eventIDs, seqCounter>>,
           \A u \in Tx \ {t} : tx'[u] = tx[u],
           tx[t].status # "committed",
           tx'[t].status # "unborn" => tx'[t].tenant \in Tenant,
           tx'[t].pending # None => tx'[t].status = "open",
           tx'[t].pending \notin Elements(tx'[t].staged),
           \A i, j \in 1 .. Len(tx'[t].staged) :
               tx'[t].staged[i] = tx'[t].staged[j] => i = j
    PROVE  OutboxInv'
<1>1. UniqueEvents' /\ DenseNumbering' /\ IndexIsExact'
  BY DEF OutboxInv, UniqueEvents, DenseNumbering, IndexIsExact
<1>2. OnlyCommittedVisible'
  <2> SUFFICES ASSUME NEW i \in 1 .. Len(committed)
               PROVE  /\ tx'[committed[i].writer].status = "committed"
                      /\ tx'[committed[i].writer].tenant = committed[i].owner
    BY DEF OnlyCommittedVisible
  <2>1. committed[i] \in Envelope
    BY ElementOfSeq DEF OutboxInv, TypeOK
  <2>2. committed[i].writer \in Tx
    BY <2>1 DEF Envelope
  <2>3. committed[i].writer # t
    BY DEF OutboxInv, OnlyCommittedVisible
  <2> QED BY <2>3, <2>2 DEF OutboxInv, OnlyCommittedVisible
<1>3. StagedDistinct'
  <2> SUFFICES ASSUME NEW u \in Tx
               PROVE  /\ \A i, j \in 1 .. Len(tx'[u].staged) :
                            tx'[u].staged[i] = tx'[u].staged[j] => i = j
                      /\ tx'[u].pending \notin Elements(tx'[u].staged)
    BY DEF StagedDistinct, Elements
  <2>1. CASE u = t BY <2>1
  <2>2. CASE u # t BY <2>2 DEF OutboxInv, StagedDistinct
  <2> QED BY <2>1, <2>2
<1>4. \A u \in Tx : tx'[u].status # "unborn" => tx'[u].tenant \in Tenant
  BY DEF OutboxInv
<1>5. \A u \in Tx : tx'[u].pending # None => tx'[u].status = "open"
  BY DEF OutboxInv
<1> QED BY <1>1, <1>2, <1>3, <1>4, <1>5 DEF OutboxInv

\* Commit keeps the invariant: the recheck under outbox.mu makes the batch
\* disjoint from the index, and the batch itself has no repetitions.
LEMMA CommitPreserves ==
    ASSUME NEW t \in Tx, OutboxInv, Commit(t), TypeOK' PROVE OutboxInv'
<1> DEFINE old == 1 .. Len(committed)
           new == (Len(committed) + 1) .. Len(committed')
<1>1. /\ Len(committed) \in Nat /\ Len(committed') \in Nat
      /\ Len(committed') = Len(committed) + Len(tx[t].staged)
      /\ Len(tx[t].staged) \in Nat /\ seqCounter = Len(committed)
  <2>1. tx[t].staged \in Seq(EventID)
    BY DEF OutboxInv, TypeOK, TxRecord
  <2> QED BY <2>1, PublishedPositions DEF OutboxInv, TypeOK, DenseNumbering
<1>2. \A i \in old : committed'[i] = committed[i]
  BY PublishedPositions
<1>3. \A i \in new : /\ i - Len(committed) \in 1 .. Len(tx[t].staged)
                     /\ committed'[i].id = tx[t].staged[i - Len(committed)]
                     /\ committed'[i].owner = tx[t].tenant
                     /\ committed'[i].writer = t
                     /\ committed'[i].seq = i
  <2> SUFFICES ASSUME NEW i \in new
               PROVE  /\ i - Len(committed) \in 1 .. Len(tx[t].staged)
                      /\ committed'[i].id = tx[t].staged[i - Len(committed)]
                      /\ committed'[i].owner = tx[t].tenant
                      /\ committed'[i].writer = t
                      /\ committed'[i].seq = i
    OBVIOUS
  <2>1. /\ i - Len(committed) \in 1 .. Len(tx[t].staged)
        /\ committed'[i] = [id |-> tx[t].staged[i - Len(committed)],
                            owner |-> tx[t].tenant, writer |-> t, seq |-> i]
    BY PublishedPositions
  <2> QED BY <2>1
<1>4. 1 .. Len(committed') = old \cup new
  BY <1>1
<1>5. Elements(tx[t].staged) \cap eventIDs = {}
  BY DEF Commit, FreshAtCommit
<1>6. eventIDs = {committed[i].id : i \in old}
  BY DEF OutboxInv, IndexIsExact
<1>7. tx[t].status = "open" /\ tx[t].tenant \in Tenant
  <2>1. tx[t] \in TxRecord
    BY DEF OutboxInv, TypeOK
  <2> QED BY <2>1 DEF OutboxInv, Commit, Usable, Closed, TxRecord
<1>8. /\ tx'[t].status = "committed" /\ tx'[t].tenant = tx[t].tenant
      /\ tx'[t].staged = <<>> /\ tx'[t].pending = None
      /\ \A u \in Tx \ {t} : tx'[u] = tx[u]
  BY DEF Commit, Usable, OutboxInv, TypeOK, TxRecord
<1>9. UniqueEvents'
  <2> SUFFICES ASSUME NEW i \in old \cup new, NEW j \in old \cup new,
                      committed'[i].id = committed'[j].id
               PROVE  i = j
    BY <1>4 DEF UniqueEvents
  <2>1. CASE i \in old /\ j \in old
    BY <2>1, <1>2 DEF OutboxInv, UniqueEvents
  <2>2. ASSUME NEW k \in old, NEW m \in new, committed'[k].id = committed'[m].id
        PROVE  FALSE
    <3>1. committed'[k].id \in eventIDs
      BY <1>2, <1>6
    <3>2. committed'[m].id \in Elements(tx[t].staged)
      BY <1>3 DEF Elements
    <3> QED BY <3>1, <3>2, <2>2, <1>5
  <2>3. CASE i \in new /\ j \in new
    <3>1. tx[t].staged[i - Len(committed)] = tx[t].staged[j - Len(committed)]
      BY <2>3, <1>3
    <3>2. i - Len(committed) = j - Len(committed)
      BY <3>1, <2>3, <1>3 DEF OutboxInv, StagedDistinct
    <3> QED BY <3>2, <2>3, <1>1
  <2> QED BY <2>1, <2>2, <2>3
<1>10. DenseNumbering'
  <2>1. \A i \in old : committed'[i].seq = i
    BY <1>2 DEF OutboxInv, DenseNumbering
  <2>2. seqCounter' = Len(committed')
    BY <1>1 DEF Commit
  <2> QED BY <2>1, <2>2, <1>3, <1>4 DEF DenseNumbering
<1>11. IndexIsExact'
  <2>1. eventIDs' = eventIDs \cup Elements(tx[t].staged)
    BY DEF Commit
  <2>2. \A e : e \in Elements(tx[t].staged) => \E i \in new : committed'[i].id = e
    <3> SUFFICES ASSUME NEW k \in 1 .. Len(tx[t].staged)
                 PROVE  \E i \in new : committed'[i].id = tx[t].staged[k]
      BY DEF Elements
    <3>1. Len(committed) + k \in new /\ (Len(committed) + k) - Len(committed) = k
      BY <1>1
    <3> QED BY <3>1, <1>3
  <2>3. \A i \in new : committed'[i].id \in Elements(tx[t].staged)
    BY <1>3 DEF Elements
  <2>4. \A i \in old : committed'[i].id \in eventIDs
    BY <1>2, <1>6
  <2>5. \A e \in eventIDs : \E i \in old : committed'[i].id = e
    BY <1>2, <1>6
  <2>6. eventIDs' = {committed'[i].id : i \in old \cup new}
    BY <2>1, <2>2, <2>3, <2>4, <2>5
  <2> QED BY <2>6, <1>4 DEF IndexIsExact
<1>12. OnlyCommittedVisible'
  <2> SUFFICES ASSUME NEW i \in old \cup new
               PROVE  /\ tx'[committed'[i].writer].status = "committed"
                      /\ tx'[committed'[i].writer].tenant = committed'[i].owner
    BY <1>4 DEF OnlyCommittedVisible
  <2>1. CASE i \in new
    BY <2>1, <1>3, <1>8
  <2>2. CASE i \in old
    <3>1. committed[i] \in Envelope
      BY <2>2, ElementOfSeq DEF OutboxInv, TypeOK
    <3>2. committed[i].writer \in Tx \ {t}
      BY <3>1, <2>2, <1>7 DEF Envelope, OutboxInv, OnlyCommittedVisible
    <3> QED BY <3>2, <2>2, <1>2, <1>8 DEF OutboxInv, OnlyCommittedVisible
  <2> QED BY <2>1, <2>2
<1>13. StagedDistinct'
  <2>1. \A u \in Tx \ {t} : /\ \A i, j \in 1 .. Len(tx'[u].staged) :
                                   tx'[u].staged[i] = tx'[u].staged[j] => i = j
                           /\ tx'[u].pending \notin Elements(tx'[u].staged)
    BY <1>8 DEF OutboxInv, StagedDistinct
  <2>2. Elements(<<>>) = {} /\ Len(<<>>) = 0
    BY DEF Elements
  <2> QED BY <2>1, <2>2, <1>8 DEF StagedDistinct, Elements
<1>14. \A u \in Tx : tx'[u].status # "unborn" => tx'[u].tenant \in Tenant
  BY <1>7, <1>8 DEF OutboxInv
<1>15. \A u \in Tx : tx'[u].pending # None => tx'[u].status = "open"
  BY <1>8 DEF OutboxInv
<1> QED BY <1>9, <1>10, <1>11, <1>12, <1>13, <1>14, <1>15 DEF OutboxInv

\* The strengthened invariant holds in every reachable state of the outbox.
THEOREM OutboxInvariant == Spec => []OutboxInv
<1>1. Init => OutboxInv
  <2> SUFFICES ASSUME Init PROVE OutboxInv
    OBVIOUS
  <2>1. <<>> \in Seq(Envelope) /\ <<>> \in Seq(EventID) /\ Len(<<>>) = 0
    OBVIOUS
  <2>2. TypeOK
    BY <2>1 DEF Init, TypeOK, TxRecord
  <2>3. UniqueEvents /\ DenseNumbering /\ IndexIsExact /\ OnlyCommittedVisible
    BY <2>1 DEF Init, UniqueEvents, DenseNumbering, IndexIsExact, OnlyCommittedVisible
  <2>4. StagedDistinct
    <3> SUFFICES ASSUME NEW t \in Tx
                 PROVE  /\ \A i, j \in 1 .. Len(tx[t].staged) :
                              tx[t].staged[i] = tx[t].staged[j] => i = j
                        /\ tx[t].pending \notin Elements(tx[t].staged)
      BY DEF StagedDistinct
    <3>1. tx[t].staged = <<>>
      BY DEF Init
    <3>2. 1 .. Len(tx[t].staged) = {}
      BY <3>1
    <3>3. Elements(tx[t].staged) = {}
      BY <3>2 DEF Elements
    <3> QED BY <3>2, <3>3
  <2> QED BY <2>2, <2>3, <2>4 DEF OutboxInv, Init
<1>2. OutboxInv /\ [Next]_vars => OutboxInv'
  <2> SUFFICES ASSUME OutboxInv, [Next]_vars PROVE OutboxInv'
    OBVIOUS
  <2>0. TypeOK' /\ TypeOK
    BY TypePreserved DEF OutboxInv
  <2>1. ASSUME NEW t \in Tx, NEW tenant \in Tenant, BeginTx(t, tenant) PROVE OutboxInv'
    <3>1. tx'[t] = [tx[t] EXCEPT !.status = "open", !.tenant = tenant]
      BY <2>0, <2>1 DEF BeginTx, TypeOK, TxRecord
    <3>2. tx[t] \in TxRecord
      BY <2>0 DEF TypeOK
    <3>3. /\ tx'[t].status = "open" /\ tx'[t].tenant = tenant
          /\ tx'[t].staged = tx[t].staged /\ tx'[t].pending = tx[t].pending
      BY <3>1, <3>2 DEF TxRecord
    <3>4. \A u \in Tx \ {t} : tx'[u] = tx[u]
      BY <2>0, <2>1 DEF BeginTx, TypeOK
    <3>5. \A i, j \in 1 .. Len(tx'[t].staged) :
             tx'[t].staged[i] = tx'[t].staged[j] => i = j
      BY <3>3 DEF OutboxInv, StagedDistinct
    <3>6. tx'[t].pending \notin Elements(tx'[t].staged)
      BY <3>3 DEF OutboxInv, StagedDistinct
    <3> QED BY <2>0, <2>1, <3>3, <3>4, <3>5, <3>6, PrivateStep DEF BeginTx
  <2>2. ASSUME NEW t \in Tx, NEW e \in EventID, NEW tenant \in Tenant \cup {None},
               StageCheck(t, e, tenant)
        PROVE  OutboxInv'
    <3>1. tx[t] \in TxRecord
      BY <2>0 DEF TypeOK
    <3>2. /\ tx'[t].status = tx[t].status /\ tx'[t].tenant = tx[t].tenant
          /\ tx'[t].staged = tx[t].staged /\ tx'[t].pending = e
          /\ \A u \in Tx \ {t} : tx'[u] = tx[u]
      BY <2>0, <2>2, <3>1 DEF StageCheck, TypeOK, TxRecord
    <3>3. tx[t].status = "open"
      BY <2>2, <3>1 DEF StageCheck, Usable, Closed, TxRecord
    <3>4. \A i, j \in 1 .. Len(tx'[t].staged) :
             tx'[t].staged[i] = tx'[t].staged[j] => i = j
      BY <3>2 DEF OutboxInv, StagedDistinct
    <3>5. tx'[t].pending \notin Elements(tx'[t].staged)
      BY <2>2, <3>2 DEF StageCheck, StagedOnce
    <3>6. tx'[t].tenant \in Tenant
      BY <3>2, <3>3 DEF OutboxInv
    <3> QED BY <2>0, <2>2, <3>2, <3>3, <3>4, <3>5, <3>6, PrivateStep DEF StageCheck
  <2>3. ASSUME NEW t \in Tx, StageAppend(t) PROVE OutboxInv'
    <3> DEFINE s == tx[t].staged
               p == tx[t].pending
    <3>1. tx[t] \in TxRecord /\ s \in Seq(EventID) /\ p \in EventID
      BY <2>0, <2>3 DEF StageAppend, TypeOK, TxRecord
    <3>2. /\ tx'[t].status = tx[t].status /\ tx'[t].tenant = tx[t].tenant
          /\ tx'[t].staged = Append(s, p) /\ tx'[t].pending = None
          /\ \A u \in Tx \ {t} : tx'[u] = tx[u]
      BY <2>0, <2>3, <3>1 DEF StageAppend, TypeOK, TxRecord
    <3>3. tx[t].status = "open" /\ p \notin Elements(s)
      BY <2>3 DEF StageAppend, OutboxInv, StagedDistinct
    <3>4. /\ Len(Append(s, p)) = Len(s) + 1 /\ Len(s) \in Nat
          /\ \A i \in 1 .. Len(s) : Append(s, p)[i] = s[i] /\ s[i] \in EventID
          /\ Append(s, p)[Len(s) + 1] = p
      BY <3>1
    <3>5. \A i, j \in 1 .. Len(Append(s, p)) :
             Append(s, p)[i] = Append(s, p)[j] => i = j
      <4>1. \A i, j \in 1 .. Len(s) : s[i] = s[j] => i = j
        BY DEF OutboxInv, StagedDistinct
      <4>2. \A i \in 1 .. Len(s) : s[i] # p
        BY <3>3 DEF Elements
      <4> HIDE DEF s, p
      <4> QED BY <3>4, <4>1, <4>2
    <3>6. None \notin Elements(Append(s, p))
      <4>1. \A i \in 1 .. Len(Append(s, p)) : Append(s, p)[i] \in EventID
        BY <3>1, <3>4
      <4> QED BY <4>1, NoneAssumption DEF Elements
    <3>7. tx'[t].tenant \in Tenant
      BY <3>2, <3>3 DEF OutboxInv
    <3>8. tx'[t].pending \notin Elements(tx'[t].staged)
      BY <3>2, <3>6
    <3>9. \A i, j \in 1 .. Len(tx'[t].staged) :
             tx'[t].staged[i] = tx'[t].staged[j] => i = j
      BY <3>2, <3>5
    <3>10. /\ \A u \in Tx \ {t} : tx'[u] = tx[u]
           /\ tx[t].status # "committed" /\ tx'[t].pending = None
      BY <3>2, <3>3
    <3>11. UNCHANGED <<committed, eventIDs, seqCounter>>
      BY <2>3 DEF StageAppend
    <3> HIDE DEF s, p
    <3> QED BY <2>0, <3>7, <3>8, <3>9, <3>10, <3>11, PrivateStep
  <2>4. ASSUME NEW t \in Tx, StageReject(t) PROVE OutboxInv'
    <3>1. tx[t] \in TxRecord
      BY <2>0 DEF TypeOK
    <3>2. /\ tx'[t].status = tx[t].status /\ tx'[t].tenant = tx[t].tenant
          /\ tx'[t].staged = tx[t].staged /\ tx'[t].pending = None
          /\ \A u \in Tx \ {t} : tx'[u] = tx[u]
      BY <2>0, <2>4, <3>1 DEF StageReject, TypeOK, TxRecord
    <3>3. tx[t].status = "open"
      BY <2>4 DEF StageReject, OutboxInv
    <3>4. \A i, j \in 1 .. Len(tx'[t].staged) :
             tx'[t].staged[i] = tx'[t].staged[j] => i = j
      BY <3>2 DEF OutboxInv, StagedDistinct
    <3>5. None \notin Elements(tx[t].staged)
      <4>1. \A i \in 1 .. Len(tx[t].staged) : tx[t].staged[i] \in EventID
        BY <3>1, ElementOfSeq DEF TxRecord
      <4> QED BY <4>1, NoneAssumption DEF Elements
    <3>6. tx'[t].tenant \in Tenant
      BY <3>2, <3>3 DEF OutboxInv
    <3> QED BY <2>0, <2>4, <3>2, <3>3, <3>4, <3>5, <3>6, PrivateStep DEF StageReject
  <2>5. ASSUME NEW t \in Tx, Commit(t) PROVE OutboxInv'
    BY <2>0, <2>5, CommitPreserves
  <2>6. ASSUME NEW t \in Tx, Rollback(t) PROVE OutboxInv'
    <3>1. tx[t] \in TxRecord
      BY <2>0 DEF TypeOK
    <3>2. /\ tx'[t].status = "rolledback" /\ tx'[t].tenant = tx[t].tenant
          /\ tx'[t].staged = <<>> /\ tx'[t].pending = None
          /\ \A u \in Tx \ {t} : tx'[u] = tx[u]
      BY <2>0, <2>6, <3>1 DEF Rollback, Usable, TypeOK, TxRecord
    <3>3. tx[t].status = "open"
      BY <2>6, <3>1 DEF Rollback, Usable, Closed, TxRecord
    <3>4. Elements(<<>>) = {} /\ Len(<<>>) = 0
      BY DEF Elements
    <3>5. tx'[t].tenant \in Tenant
      BY <3>2, <3>3 DEF OutboxInv
    <3>6. tx'[t].pending \notin Elements(tx'[t].staged)
      BY <3>2, <3>4
    <3>7. \A i, j \in 1 .. Len(tx'[t].staged) :
             tx'[t].staged[i] = tx'[t].staged[j] => i = j
      BY <3>2, <3>4
    <3>8. UNCHANGED <<committed, eventIDs, seqCounter>>
      BY <2>6 DEF Rollback
    <3> QED BY <2>0, <3>2, <3>3, <3>5, <3>6, <3>7, <3>8, PrivateStep
  <2>7. CASE UNCHANGED vars
    BY <2>7 DEF vars, OutboxInv, TypeOK, UniqueEvents, DenseNumbering, IndexIsExact,
                OnlyCommittedVisible, StagedDistinct, Elements
  <2> QED BY <2>1, <2>2, <2>3, <2>4, <2>5, <2>6, <2>7 DEF Next
<1> QED BY <1>1, <1>2, PTL DEF Spec

\* No event is ever published twice (Commit's recheck, event_outbox.go).
THEOREM NoDuplicatePublication == Spec => []UniqueEvents
<1>1. OutboxInv => UniqueEvents
  BY DEF OutboxInv
<1> QED BY <1>1, OutboxInvariant, PTL

\* Only committed transactions are visible, under their own tenant (Rollback,
\* refused Commit).
THEOREM RollbackInvisible == Spec => []OnlyCommittedVisible
<1>1. OutboxInv => OnlyCommittedVisible
  BY DEF OutboxInv
<1> QED BY <1>1, OutboxInvariant, PTL

\* The outbox implements the atomic log: every Commit publishes one whole batch
\* of fresh, densely numbered events, and no other step is visible.
THEOREM OutboxRefinesAtomicLog == Spec => ImplementsAtomicLog
<1> DEFINE fate == [t \in Tx |-> Fate(t)]
<1>1. Init => Abstract!Init
  BY DEF Init, Abstract!Init, Fate
<1>2. OutboxInv /\ OutboxInv' /\ [Next]_vars => [Abstract!Next]_<<committed, fate>>
  <2> SUFFICES ASSUME OutboxInv, OutboxInv', [Next]_vars
               PROVE  Abstract!Next \/ UNCHANGED <<committed, fate>>
    OBVIOUS
  <2>0. tx \in [Tx -> TxRecord] /\ \A u \in Tx : tx[u] \in TxRecord
    BY DEF OutboxInv, TypeOK
  <2>1. ASSUME NEW t \in Tx, NEW tenant \in Tenant, BeginTx(t, tenant)
        PROVE  UNCHANGED <<committed, fate>>
    BY <2>0, <2>1 DEF BeginTx, Fate, TxRecord
  <2>2. ASSUME NEW t \in Tx, NEW e \in EventID, NEW tenant \in Tenant \cup {None},
               StageCheck(t, e, tenant)
        PROVE  UNCHANGED <<committed, fate>>
    BY <2>0, <2>2 DEF StageCheck, Fate, TxRecord
  <2>3. ASSUME NEW t \in Tx, StageAppend(t) PROVE UNCHANGED <<committed, fate>>
    BY <2>0, <2>3 DEF StageAppend, Fate, TxRecord
  <2>4. ASSUME NEW t \in Tx, StageReject(t) PROVE UNCHANGED <<committed, fate>>
    BY <2>0, <2>4 DEF StageReject, Fate, TxRecord
  <2>5. ASSUME NEW t \in Tx, Commit(t) PROVE Abstract!Next
    <3>1. fate[t] = "undecided" /\ fate' = [fate EXCEPT ![t] = "published"]
      <4>1. tx[t].status \notin {"committed", "rolledback"} /\ tx'[t].status = "committed"
        BY <2>0, <2>5 DEF Commit, Usable, Closed, TxRecord
      <4>2. \A u \in Tx \ {t} : tx'[u] = tx[u]
        BY <2>0, <2>5 DEF Commit
      <4> QED BY <4>1, <4>2 DEF Fate
    <3>2. /\ Len(committed') = Len(committed) + Len(tx[t].staged)
          /\ \A i \in 1 .. Len(committed) : committed'[i] = committed[i]
          /\ \A i \in (Len(committed) + 1) .. Len(committed') :
                /\ i - Len(committed) \in 1 .. Len(tx[t].staged)
                /\ committed'[i] = [id |-> tx[t].staged[i - Len(committed)],
                                    owner |-> tx[t].tenant,
                                    writer |-> t, seq |-> i]
      BY <2>5, PublishedPositions
    <3>3. Len(committed) <= Len(committed') /\ committed' \in Seq(Abstract!Entry)
      <4>1. Len(tx[t].staged) \in Nat /\ Len(committed) \in Nat
        BY <2>0 DEF TxRecord, OutboxInv, TypeOK
      <4>2. Abstract!Entry = Envelope
        BY DEF Abstract!Entry, Envelope
      <4> QED BY <3>2, <4>1, <4>2 DEF OutboxInv, TypeOK
    <3>4. ASSUME NEW i \in (Len(committed) + 1) .. Len(committed')
          PROVE  /\ committed'[i].writer = t /\ committed'[i].seq = i
                 /\ committed'[i].owner = tx[t].tenant
      <4>1. committed'[i] = [id |-> tx[t].staged[i - Len(committed)],
                             owner |-> tx[t].tenant, writer |-> t, seq |-> i]
        BY <3>2
      <4> QED BY <4>1
    <3>5. \A i, j \in 1 .. Len(committed') : committed'[i].id = committed'[j].id => i = j
      BY DEF OutboxInv, UniqueEvents
    <3>6. \A i \in (Len(committed) + 1) .. Len(committed') : i \in 1 .. Len(committed')
      BY DEF OutboxInv, TypeOK
    <3> HIDE DEF fate
    <3>7. Abstract!Publish(t)
      BY <3>1, <3>2, <3>3, <3>4, <3>5, <3>6 DEF Abstract!Publish, Abstract!Added, fate
    <3> QED BY <3>7 DEF Abstract!Next
  <2>6. ASSUME NEW t \in Tx, Rollback(t) PROVE Abstract!Next
    <3>1. tx[t].status \notin {"committed", "rolledback"} /\ tx'[t].status = "rolledback"
      BY <2>0, <2>6 DEF Rollback, Usable, Closed, TxRecord
    <3>2. \A u \in Tx \ {t} : tx'[u] = tx[u]
      BY <2>0, <2>6 DEF Rollback
    <3>3. fate[t] = "undecided" /\ fate' = [fate EXCEPT ![t] = "abandoned"]
      BY <3>1, <3>2 DEF Fate
    <3>4. Abstract!Abandon(t)
      BY <2>6, <3>3 DEF Abstract!Abandon, Rollback
    <3> QED BY <3>4 DEF Abstract!Next
  <2>7. CASE UNCHANGED vars
    BY <2>7 DEF vars, Fate
  <2> QED BY <2>1, <2>2, <2>3, <2>4, <2>5, <2>6, <2>7 DEF Next
<1> QED BY <1>1, <1>2, OutboxInvariant, PTL DEF Spec, ImplementsAtomicLog, Abstract!Spec
=============================================================================
