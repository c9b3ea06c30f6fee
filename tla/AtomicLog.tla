------------------------------ MODULE AtomicLog ------------------------------
(***************************************************************************)
(* What the transactional outbox promises its consumers, without saying    *)
(* how: a log that only grows, by whole batches, one batch per writer; a   *)
(* writer is published once or abandoned, never both; no identifier is     *)
(* published twice; positions are dense.  Outbox.tla implements it.        *)
(***************************************************************************)
EXTENDS Naturals, Sequences

CONSTANTS Writer, Item, Owner

VARIABLES
    log,   \* sequence of [id, owner, writer, seq] records, in publication order
    fate   \* [Writer -> Fates]

Fates == {"undecided", "published", "abandoned"}

Entry == [id : Item, owner : Owner, writer : Writer, seq : Nat \ {0}]

Init ==
    /\ log = <<>>
    /\ fate = [w \in Writer |-> "undecided"]

\* The positions a step adds to the log.
Added == (Len(log) + 1) .. Len(log')

\* A writer publishes its whole batch at once: every new entry is the writer's,
\* belongs to one owner, carries a fresh identifier and its own position.
Publish(w) ==
    /\ fate[w] = "undecided"
    /\ fate' = [fate EXCEPT ![w] = "published"]
    /\ log' \in Seq(Entry)
    /\ Len(log) <= Len(log')
    /\ \A i \in 1 .. Len(log) : log'[i] = log[i]
    /\ \A i \in Added : log'[i].writer = w /\ log'[i].seq = i
    /\ \A i, j \in Added : log'[i].owner = log'[j].owner
    /\ \A i \in Added, j \in 1 .. Len(log') : log'[i].id = log'[j].id => i = j

Abandon(w) ==
    /\ fate[w] = "undecided"
    /\ fate' = [fate EXCEPT ![w] = "abandoned"]
    /\ UNCHANGED log

Next == \E w \in Writer : Publish(w) \/ Abandon(w)

Spec == Init /\ [][Next]_<<log, fate>>
=============================================================================
