--------------------------- MODULE ImmutableStore ---------------------------
(***************************************************************************)
(* The sealed versions of published snapshots and their lineage:           *)
(* modules/publication-snapshot/immutable_publication.go.                  *)
(*                                                                         *)
(* Digests are the values they cover, so equal digests mean equal content. *)
(* Two snapshots of a tenant share the store; a successor may be named     *)
(* across snapshots.                                                       *)
(***************************************************************************)
EXTENDS Naturals, Sequences

CONSTANTS
    Snapshot, Payload,
    None,          \* the empty digest
    MaxVersion,    \* bound on versions
    MaxLinks       \* bound on RegisterReplacement calls

ImmutableStoreAssumption == MaxVersion \in Nat \ {0} /\ MaxLinks \in Nat

VARIABLES
    store,         \* [Snapshot -> [version -> record]], a partial function
    lineageIndex,  \* [Snapshot -> Seq(lineage entry)]
    links          \* RegisterReplacement calls so far

vars == <<store, lineageIndex, links>>

Sig == [snapshot : Snapshot, version : 1 .. MaxVersion, payload : Payload]
PublicationRecord ==
    [payload : Payload, signature : Sig, predVersion : 0 .. MaxVersion,
     predDigest : Sig \cup {None}, succVersion : 0 .. MaxVersion,
     succDigest : Sig \cup {None},
     replacement : {"none", "CORRECTION", "SUPERSEDED", "WITHDRAWAL"}]

Stored(s) == DOMAIN store[s]

TypeOK ==
    /\ \A s \in Snapshot : /\ Stored(s) \subseteq 1 .. MaxVersion
                           /\ \A v \in Stored(s) : store[s][v] \in PublicationRecord
    /\ links \in 0 .. MaxLinks

Init ==
    /\ store = [s \in Snapshot |-> <<>>]
    /\ lineageIndex = [s \in Snapshot |-> <<>>]
    /\ links = 0

-----------------------------------------------------------------------------
\* Deliberate faults, used only to show that the properties can fail.
PredecessorOK_NotChecked(s, v, pv, pd) == v = 1 \/ pv \in Stored(s)
-----------------------------------------------------------------------------

ComputeSignatureDigest(s, v, p) == [snapshot |-> s, version |-> v, payload |-> p]

\* A version is stored once.
New(s, v) == v \notin Stored(s)

\* The predecessor named must be the previous version, stored, under its digest.
PredecessorOK(s, v, pv, pd) ==
    IF v = 1 THEN pv = 0 /\ pd = None
    ELSE pv = v - 1 /\ pv \in Stored(s) /\ store[s][pv].signature = pd

\* ImmutablePublicationStore.StorePublishedVersion: seals the version, and links the
\* predecessor to it.
StorePublishedVersion(s, v, p, pv, pd) ==
    LET sig == ComputeSignatureDigest(s, v, p)
        rec == [payload |-> p, signature |-> sig, predVersion |-> pv, predDigest |-> pd,
                succVersion |-> 0, succDigest |-> None, replacement |-> "none"]
        linked(w) == [store[s][w] EXCEPT !.succVersion = v, !.succDigest = sig,
                                         !.replacement = "SUPERSEDED"]
    IN  /\ New(s, v)
        /\ PredecessorOK(s, v, pv, pd)
        /\ store' = [store EXCEPT ![s] = [w \in Stored(s) \cup {v} |->
                       CASE w = v -> rec [] w = pv /\ w # v -> linked(w) [] OTHER -> store[s][w]]]
        /\ lineageIndex' = [lineageIndex EXCEPT ![s] =
                              Append(@, [version |-> v, signature |-> sig, pred |-> pd])]
        /\ UNCHANGED links

\* ImmutablePublicationStore.RegisterReplacement: the successor's snapshot ID is only
\* required to be non-blank, its version is stored as given, the digest is left.
RegisterReplacement(s, v, succVersion, type) ==
    /\ links < MaxLinks
    /\ v \in Stored(s)
    /\ store' = [store EXCEPT ![s][v].succVersion = succVersion, ![s][v].replacement = type]
    /\ links' = links + 1
    /\ UNCHANGED lineageIndex

\* ReconstructPublicationAuditTrail's verdict on the versions in ascending order.
VerifiedIntact(s) ==
    \A v \in Stored(s) :
        /\ v = 1 \/ v - 1 \in Stored(s)
        /\ store[s][v].predVersion = v - 1
        /\ store[s][v].predDigest = IF v = 1 THEN None ELSE store[s][v - 1].signature
        /\ store[s][v].signature = ComputeSignatureDigest(s, v, store[s][v].payload)

Next ==
    \/ \E s \in Snapshot, v \in 1 .. MaxVersion, p \in Payload, pv \in 0 .. MaxVersion,
         pd \in {None} \cup UNION {{store[t][w].signature : w \in Stored(t)} : t \in Snapshot} :
          StorePublishedVersion(s, v, p, pv, pd)
    \/ \E s \in Snapshot, v, w \in 1 .. MaxVersion, type \in {"CORRECTION", "WITHDRAWAL"} :
          RegisterReplacement(s, v, w, type)

Spec == Init /\ [][Next]_vars

-----------------------------------------------------------------------------
\* Reconstruction finds the trail intact in every state, and the lineage index agrees
\* with it: versions arrive in order, without gaps, each chained to the one before.
LineageIntact ==
    TypeOK /\
    \A s \in Snapshot :
        /\ VerifiedIntact(s)
        /\ Len(lineageIndex[s]) = Len(store[s])
        /\ \A i \in DOMAIN lineageIndex[s] :
              lineageIndex[s][i].version = i
              /\ lineageIndex[s][i].signature = store[s][i].signature
=============================================================================
