------------------------------- MODULE Outbox -------------------------------
(***************************************************************************)
(* The transactional outbox of modules/events-outbox-jobs/event_outbox.go. *)
(*                                                                         *)
(* A transaction (OutboxTx) stages events privately and Commit publishes   *)
(* them, numbered, into the shared Outbox.  Two locks are involved:        *)
(*   tx.mu      held for the whole of Stage, Commit and Rollback;          *)
(*   outbox.mu  held in Stage only while eventIDs is read, and for the     *)
(*              whole publication in Commit.                               *)
(* Stage therefore takes two steps (StageCheck, then StageAppend or        *)
(* StageReject) between which another transaction may commit the very      *)
(* event that was just found to be unpublished.                            *)
(***************************************************************************)
EXTENDS Naturals, Sequences

CONSTANTS
    Tx,        \* transactions
    EventID,   \* event identifiers
    Tenant,    \* tenants
    None       \* "" / no value

ASSUME NoneAssumption == None \notin EventID /\ None \notin Tenant

VARIABLES
    committed,   \* Outbox.committed
    eventIDs,    \* Outbox.eventIDs
    seqCounter,  \* Outbox.seqCounter
    tx           \* the OutboxTx objects

vars == <<committed, eventIDs, seqCounter, tx>>

-----------------------------------------------------------------------------
Envelope == [id : EventID, owner : Tenant, writer : Tx, seq : Nat \ {0}]

\* status "committed" and "rolledback" are both tx.closed = true; "unborn" is a
\* transaction BeginTx has not created.  pending is the event whose Stage call
\* holds tx.mu between its look at Outbox.eventIDs and its append.
TxRecord == [status  : {"unborn", "open", "committed", "rolledback"},
             tenant  : Tenant \cup {None},
             staged  : Seq(EventID),
             pending : EventID \cup {None}]

TypeOK ==
    /\ committed \in Seq(Envelope)
    /\ eventIDs \subseteq EventID
    /\ seqCounter \in Nat
    /\ tx \in [Tx -> TxRecord]

Init ==
    /\ committed = <<>>
    /\ eventIDs = {}
    /\ seqCounter = 0
    /\ tx = [t \in Tx |-> [status |-> "unborn", tenant |-> None,
                           staged |-> <<>>, pending |-> None]]

\* The events of a sequence of identifiers.
Elements(s) == {s[i] : i \in 1 .. Len(s)}

-----------------------------------------------------------------------------
\* Deliberate faults, used only to show that the properties can fail.
FreshAtCommit_NoRecheck(t) == TRUE
StagedOnce_Unchecked(t, e) == TRUE
Closed_AfterRollbackOnly(t) == tx[t].status = "rolledback"
Numbered_FromZero(t) ==
    [i \in 1 .. Len(tx[t].staged) |->
        [id |-> tx[t].staged[i], owner |-> tx[t].tenant, writer |-> t,
         seq |-> seqCounter + i - 1]]
-----------------------------------------------------------------------------

\* tx.closed
Closed(t) == tx[t].status \in {"committed", "rolledback"}

\* tx.mu is free and the transaction may still be used.
Usable(t) ==
    /\ tx[t].status # "unborn"
    /\ ~Closed(t)
    /\ tx[t].pending = None

\* Outbox.BeginTx: bind a new staging scope to a tenant.
BeginTx(t, tenant) ==
    /\ tx[t].status = "unborn"
    /\ tx' = [tx EXCEPT ![t].status = "open", ![t].tenant = tenant]
    /\ UNCHANGED <<committed, eventIDs, seqCounter>>

\* The event is not yet staged in this transaction (stagedIDs).
StagedOnce(t, e) == e \notin Elements(tx[t].staged)

\* OutboxTx.Stage up to the release of outbox.mu: the caller's tenant, when
\* given, is the transaction's, and the event is neither staged nor published.
StageCheck(t, e, tenant) ==
    /\ Usable(t)
    /\ tenant # None => tenant = tx[t].tenant
    /\ StagedOnce(t, e)
    /\ e \notin eventIDs
    /\ tx' = [tx EXCEPT ![t].pending = e]
    /\ UNCHANGED <<committed, eventIDs, seqCounter>>

\* The rest of OutboxTx.Stage, all validations passed.
StageAppend(t) ==
    /\ tx[t].pending # None
    /\ tx' = [tx EXCEPT ![t].staged = Append(@, tx[t].pending),
                        ![t].pending = None]
    /\ UNCHANGED <<committed, eventIDs, seqCounter>>

\* The rest of OutboxTx.Stage when producer, type, versions, correlation or
\* digest are refused: nothing is staged and tx.mu is released.
StageReject(t) ==
    /\ tx[t].pending # None
    /\ tx' = [tx EXCEPT ![t].pending = None]
    /\ UNCHANGED <<committed, eventIDs, seqCounter>>

\* Commit's final verification under outbox.mu.  When it fails Commit returns
\* ErrDuplicateEventID and leaves the transaction open, its events staged.
FreshAtCommit(t) == Elements(tx[t].staged) \cap eventIDs = {}

\* The staged events with the sequence numbers they are published under.
Numbered(t) ==
    [i \in 1 .. Len(tx[t].staged) |->
        [id |-> tx[t].staged[i], owner |-> tx[t].tenant, writer |-> t,
         seq |-> seqCounter + i]]

\* OutboxTx.Commit
Commit(t) ==
    /\ Usable(t)
    /\ FreshAtCommit(t)
    /\ committed' = committed \o Numbered(t)
    /\ eventIDs' = eventIDs \cup Elements(tx[t].staged)
    /\ seqCounter' = seqCounter + Len(tx[t].staged)
    /\ tx' = [tx EXCEPT ![t].status = "committed", ![t].staged = <<>>]

\* OutboxTx.Rollback
Rollback(t) ==
    /\ Usable(t)
    /\ tx' = [tx EXCEPT ![t].status = "rolledback", ![t].staged = <<>>]
    /\ UNCHANGED <<committed, eventIDs, seqCounter>>

Next ==
    \E t \in Tx :
        \/ \E tenant \in Tenant : BeginTx(t, tenant)
        \/ \E e \in EventID, tenant \in Tenant \cup {None} : StageCheck(t, e, tenant)
        \/ StageAppend(t)
        \/ StageReject(t)
        \/ Commit(t)
        \/ Rollback(t)

Spec == Init /\ [][Next]_vars

-----------------------------------------------------------------------------
\* No event is published twice, although two transactions may both have found
\* it unpublished when they staged it (Stage's early check, Commit's recheck).
UniqueEvents ==
    \A i, j \in 1 .. Len(committed) : committed[i].id = committed[j].id => i = j

\* The numbers handed out are 1, 2, 3, ... in publication order, so the sort of
\* CommittedEvents and CommittedEventsForTenant never reorders nor has ties.
DenseNumbering ==
    /\ seqCounter = Len(committed)
    /\ \A i \in 1 .. Len(committed) : committed[i].seq = i

\* The duplicate index Stage and Commit rely on is exactly what was published.
IndexIsExact == eventIDs = {committed[i].id : i \in 1 .. Len(committed)}

\* Nothing a transaction staged is visible unless that transaction committed,
\* and then under the tenant it was begun for: Rollback leaves no trace, and a
\* refused Commit publishes no part of its batch.
OnlyCommittedVisible ==
    \A i \in 1 .. Len(committed) :
        /\ tx[committed[i].writer].status = "committed"
        /\ tx[committed[i].writer].tenant = committed[i].owner

\* A transaction holds at most one copy of an event, also while Stage is
\* between its check and its append.
StagedDistinct ==
    \A t \in Tx :
        /\ \A i, j \in 1 .. Len(tx[t].staged) :
              tx[t].staged[i] = tx[t].staged[j] => i = j
        /\ tx[t].pending \notin Elements(tx[t].staged)

\* The inductive invariant the proofs of OutboxProofs.tla use: UniqueEvents
\* needs the index, and the index needs the staged batches to be duplicate-free.
OutboxInv ==
    /\ TypeOK
    /\ UniqueEvents
    /\ DenseNumbering
    /\ IndexIsExact
    /\ OnlyCommittedVisible
    /\ StagedDistinct
    /\ \A t \in Tx : tx[t].status # "unborn" => tx[t].tenant \in Tenant
    /\ \A t \in Tx : tx[t].pending # None => tx[t].status = "open"

-----------------------------------------------------------------------------
\* The outbox implements the atomic log: Commit is Publish, Rollback is Abandon,
\* everything else is invisible.
Fate(t) ==
    CASE tx[t].status = "committed"  -> "published"
      [] tx[t].status = "rolledback" -> "abandoned"
      [] OTHER -> "undecided"

Abstract == INSTANCE AtomicLog
              WITH Writer <- Tx, Item <- EventID, Owner <- Tenant,
                   log <- committed, fate <- [t \in Tx |-> Fate(t)]

ImplementsAtomicLog == Abstract!Spec
=============================================================================
