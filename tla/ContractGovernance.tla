------------------------- MODULE ContractGovernance -------------------------
(***************************************************************************)
(* The registries of modules/contract-migration-governance: the contract   *)
(* registry (registry.go) and the compatibility registry with owners,      *)
(* dependencies and migration paths (compatibility_registry.go).           *)
(*                                                                         *)
(* A contract stands for a name and kind, a version is its three numbers.  *)
(* A migration path is kept as the version it starts from, None if there   *)
(* is none: its end must be the entry's own version.  Blank fields, digest *)
(* syntax and the JSON forms are left out, so a batch given to             *)
(* ValidateRegistryJSON is a sequence of calls of Register.                *)
(***************************************************************************)
EXTENDS Naturals, Sequences, FiniteSets

CONSTANTS
    Contract,
    Module,       \* the modules that may own a contract
    Version,      \* <<major, minor, patch>>
    Digest,
    Direction,    \* the directions declared
    None,         \* no owner, no migration path
    MaxEntries    \* bound on what both registries hold

VARIABLES
    contractOwners,   \* CompatibilityRegistry.contractOwners
    entries,          \* CompatibilityRegistry.entries
    records           \* ContractRegistry.records

compatibility == <<contractOwners, entries>>
vars == <<compatibility, records>>

Reference == [contract : Contract, version : Version]
Entry == [owner : Module, version : Version, digest : Digest, direction : Direction,
          needs : SUBSET Reference, from : Version \cup {None}]
\* The entries callers come with: at most one dependency each.
Offered == [owner : Module, version : Version, digest : Digest, direction : Direction,
            needs : {{}} \cup {{ref} : ref \in Reference}, from : Version \cup {None}]
Record == [owner : Module, version : Version, digest : Digest, backward : BOOLEAN]

ContractAssumption ==
    /\ Direction \subseteq {"BACKWARD", "FORWARD", "BIDIRECTIONAL", "BREAKING"}
    /\ \A v \in Version : v \in Nat \X Nat \X Nat
    /\ None \notin Module

TypeOK ==
    /\ contractOwners \in [Contract -> Module \cup {None}]
    /\ entries \in [Contract -> Seq(Entry)]
    /\ records \in [Contract -> Seq(Record)]

Init ==
    /\ contractOwners = [c \in Contract |-> None]
    /\ entries = [c \in Contract |-> <<>>]
    /\ records = [c \in Contract |-> <<>>]

-----------------------------------------------------------------------------
\* SemVer.Compare < 0.
Before(v, w) ==
    \/ v[1] < w[1]
    \/ v[1] = w[1] /\ v[2] < w[2]
    \/ v[1] = w[1] /\ v[2] = w[2] /\ v[3] < w[3]

Latest(history) == history[Len(history)]
Versions(history) == {history[i].version : i \in 1 .. Len(history)}

Held(registry) == Cardinality({k \in Contract \X (1 .. MaxEntries) :
                                  k[2] <= Len(registry[k[1]])})

-----------------------------------------------------------------------------
\* Deliberate faults, used only to show that the properties can fail.
MustMigrate_MajorOnly(old, new) == new.version[1] > old.version[1]
-----------------------------------------------------------------------------

\* isBreaking of Register.
MustMigrate(old, new) ==
    \/ new.version[1] > old.version[1]
    \/ new.direction \in {"BREAKING", "FORWARD"}

\* CompatibilityEntry.Validate.
Valid(e) == e.from # None => Before(e.from, e.version)

Registered(ref) == ref.version \in Versions(entries[ref.contract])

\* CompatibilityRegistry.Register by the owner the entry names.  Registering a version
\* again changes nothing, and the first entry of a contract is not compared.
Register(c, e) ==
    LET history == entries[c] IN
    /\ Valid(e)
    /\ \A ref \in e.needs : Registered(ref)
    /\ contractOwners[c] \in {None, e.owner}
    /\ history # <<>> =>
          /\ Before(Latest(history).version, e.version)
          /\ MustMigrate(Latest(history), e) => e.from = Latest(history).version
    /\ Held(entries) + Held(records) < MaxEntries
    /\ contractOwners' = [contractOwners EXCEPT ![c] = e.owner]
    /\ entries' = [entries EXCEPT ![c] = Append(@, e)]
    /\ UNCHANGED records

\* EvaluateEvolution between two entries of one contract.
EvaluateEvolution(old, new) ==
    LET isBreaking == new.version[1] > old.version[1] \/ new.direction \in {"BREAKING", "FORWARD"}
    IN CASE old.owner # new.owner -> "INCOMPATIBLE"
         [] old.owner = new.owner /\ old.version = new.version /\ old.digest = new.digest ->
               "COMPATIBLE"
         [] old.owner = new.owner /\ Before(new.version, old.version) -> "INCOMPATIBLE"
         [] OTHER ->
               IF ~isBreaking THEN "COMPATIBLE"
               ELSE IF new.from = old.version THEN "MIGRATION_REQUIRED" ELSE "INCOMPATIBLE"

\* ContractRegistry.Register: any owner may add the next version.
RegisterRecord(c, r) ==
    /\ records[c] # <<>> => Before(Latest(records[c]).version, r.version)
    /\ Held(entries) + Held(records) < MaxEntries
    /\ records' = [records EXCEPT ![c] = Append(@, r)]
    /\ UNCHANGED compatibility

\* EvaluateCompatibility between two records of one contract.
EvaluateCompatibility(old, new) ==
    IF /\ old.owner = new.owner
       /\ \/ old.version = new.version /\ old.digest = new.digest
          \/ /\ ~Before(new.version, old.version)
             /\ new.version[1] = old.version[1]
             /\ new.backward
    THEN "COMPATIBLE" ELSE "MIGRATION_REQUIRED"

Next ==
    \E c \in Contract :
        \/ \E e \in Offered : Register(c, e)
        \/ \E r \in Record : RegisterRecord(c, r)

Spec == Init /\ [][Next]_vars

-----------------------------------------------------------------------------
\* One version of a contract depends on another.
Nodes == UNION {{<<c, v>> : v \in Versions(entries[c])} : c \in Contract}
DependsOn(x, y) ==
    \E i \in 1 .. Len(entries[x[1]]) :
        /\ entries[x[1]][i].version = x[2]
        /\ [contract |-> y[1], version |-> y[2]] \in entries[x[1]][i].needs

\* What Register lets in stays sound: each entry follows the one before it by an
\* evolution EvaluateEvolution accepts, every dependency is still there, and none is
\* circular: of any versions, one needs none of the others nor itself.
EvolutionSound ==
    /\ \A c \in Contract, i \in 1 .. MaxEntries :
          i < Len(entries[c]) =>
              EvaluateEvolution(entries[c][i], entries[c][i + 1]) # "INCOMPATIBLE"
    /\ \A c \in Contract : \A i \in 1 .. Len(entries[c]) :
          \A ref \in entries[c][i].needs : Registered(ref)
    /\ \A group \in SUBSET Nodes : group # {} =>
          \E x \in group : \A y \in group : ~DependsOn(x, y)

\* Compatible steps compose: a consumer who takes every version as it comes and one who
\* skips some are told the same, in both registries.
CompatibleStepsCompose ==
    \A c \in Contract :
        /\ \A i, j \in 1 .. Len(records[c]) :
              i < j /\ (\A k \in i .. j - 1 :
                           EvaluateCompatibility(records[c][k], records[c][k + 1]) = "COMPATIBLE")
                 => EvaluateCompatibility(records[c][i], records[c][j]) = "COMPATIBLE"
        /\ \A i, j \in 1 .. Len(entries[c]) :
              i < j /\ (\A k \in i .. j - 1 :
                           EvaluateEvolution(entries[c][k], entries[c][k + 1]) = "COMPATIBLE")
                 => EvaluateEvolution(entries[c][i], entries[c][j]) = "COMPATIBLE"
=============================================================================
