------------------------- MODULE IntegrityRegistry -------------------------
(***************************************************************************)
(* Originals and the objects derived from them, of one tenant:             *)
(* IntegrityRegistry of modules/records-audit/immutable_objects.go.        *)
(*                                                                         *)
(* Records are built by NewOriginalRecord and NewDerivedRecord, in the     *)
(* DRAFT state and with their tenant; both maps are keyed by tenant and    *)
(* object, and a record of another tenant is refused.  Methods hold reg.mu *)
(* throughout.  Repeating an acceptance or an archival changes nothing.    *)
(***************************************************************************)
CONSTANTS
    Object,
    None          \* not registered

VARIABLES
    originals,    \* IntegrityRegistry.originals: the record's state
    derived       \* IntegrityRegistry.derived: the record's parent and state

vars == <<originals, derived>>

RecordLifecycleState == {"DRAFT", "ACCEPTED", "ARCHIVED"}
DerivedRecord == [parent : Object, state : {"DRAFT", "ACCEPTED"}]

IntegrityRegistryAssumption == None \notin RecordLifecycleState

TypeOK ==
    /\ originals \in [Object -> RecordLifecycleState \cup {None}]
    /\ derived \in [Object -> DerivedRecord \cup {None}]

Init ==
    /\ originals = [o \in Object |-> None]
    /\ derived = [o \in Object |-> None]

-----------------------------------------------------------------------------
\* Deliberate faults, used only to show that the properties can fail.
ParentAccepted_Exists(o) == originals[o] # None
Unused_OriginalsOnly(o) == originals[o] = None
-----------------------------------------------------------------------------

\* The ID is neither an original's nor a derived object's.
Unused(o) == originals[o] = None /\ derived[o] = None

ParentAccepted(o) == originals[o] = "ACCEPTED"

RegisterOriginal(o) ==
    /\ Unused(o)
    /\ originals' = [originals EXCEPT ![o] = "DRAFT"]
    /\ UNCHANGED derived

Move(o, from, to) ==
    /\ originals[o] = from
    /\ originals' = [originals EXCEPT ![o] = to]
    /\ UNCHANGED derived

AcceptOriginal(o) == Move(o, "DRAFT", "ACCEPTED")
ArchiveOriginal(o) == Move(o, "ACCEPTED", "ARCHIVED")

RegisterDerived(o, parent) ==
    /\ Unused(o)
    /\ ParentAccepted(parent)
    /\ derived' = [derived EXCEPT ![o] = [parent |-> parent, state |-> "DRAFT"]]
    /\ UNCHANGED originals

AcceptDerived(o) ==
    /\ derived[o] # None /\ derived[o].state = "DRAFT"
    /\ derived' = [derived EXCEPT ![o].state = "ACCEPTED"]
    /\ UNCHANGED originals

Next ==
    \E o \in Object :
        \/ RegisterOriginal(o) \/ AcceptOriginal(o) \/ ArchiveOriginal(o)
        \/ \E parent \in Object : RegisterDerived(o, parent)
        \/ AcceptDerived(o)

Spec == Init /\ [][Next]_vars

-----------------------------------------------------------------------------
\* VerifyIntegrityLinkage of a derived object under its own digest.
VerifyIntegrityLinkage(o) ==
    derived[o] # None /\ originals[derived[o].parent] = "ACCEPTED"

\* No order of registrations makes an ID both original and derived, and a derived
\* object's linkage verifies until its parent is archived, never failing because the
\* parent is missing or was not accepted.
LinkageHolds ==
    TypeOK /\
    \A o \in Object : derived[o] # None =>
        /\ originals[o] = None
        /\ VerifyIntegrityLinkage(o) \/ originals[derived[o].parent] = "ARCHIVED"
=============================================================================
