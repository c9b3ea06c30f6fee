------------------------- MODULE DirectoryProfiles -------------------------
(***************************************************************************)
(* The directory of modules/identity-authorization: the registry           *)
(* (directory_profile.go), the resolver that changes profiles and keeps    *)
(* their history (directory_resolution.go), and what viewers may see       *)
(* (directory_visibility.go).                                              *)
(*                                                                         *)
(* The registry and the ledger have a lock each and the resolver none: a   *)
(* call of it reads a copy, writes the changed copy back and appends its   *)
(* record in three steps, and calls interleave between them.  One tenant:  *)
(* tenants share no key.  The attributes a call may change are one opaque  *)
(* value; sanitizing, text search and paging are left out.                 *)
(***************************************************************************)
EXTENDS Naturals, Sequences

CONSTANTS
    ProfileID,
    Subject,
    Post,         \* [company, project, site]: the structural part of a profile
    Attribute,    \* display name, job title, department and areas, together
    Call,         \* calls of the resolver that may overlap
    Viewer,       \* [role, scope]: authenticated viewers of the tenant
    Filter,       \* [company, project, site, inactive]: search requests
    Blank,        \* an empty field
    None,         \* no profile
    MaxLedger     \* bound on the calls made

VARIABLES
    profiles,     \* DirectoryRegistry.profiles
    ledger,       \* DirectoryResolutionLedger.records
    calls,        \* [Call -> progress of the call]
    begun,        \* number of calls begun
    crossed,      \* observer: profiles on which two calls overlapped
    bypassed,     \* observer: profiles deactivated in the registry itself
    inactivated   \* observer: profiles for which InactivateProfile answered

observers == <<crossed, bypassed, inactivated>>
vars == <<profiles, ledger, calls, begun, observers>>

ProfileStatus == {"ACTIVE", "INACTIVE"}
Profile == [subject : Subject, post : Post, attr : Attribute, status : ProfileStatus]
ResolutionRecord ==
    [id : ProfileID, previous : ProfileStatus \cup {None}, new : ProfileStatus]

\* A call before its write, with the changed copy, and before its record.
Idle == [at |-> "idle"]
Writing == [at : {"write"}, id : ProfileID, value : Profile,
            previous : ProfileStatus \cup {None}, new : ProfileStatus]
Recording == [at : {"record"}, id : ProfileID, previous : ProfileStatus \cup {None},
              new : ProfileStatus]

DirectoryAssumption == None \notin Profile /\ None \notin ProfileStatus /\ MaxLedger \in Nat

TypeOK ==
    /\ profiles \in [ProfileID -> Profile \cup {None}]
    /\ ledger \in Seq(ResolutionRecord)
    /\ calls \in [Call -> Writing \cup Recording \cup {Idle}]
    /\ begun \in 0 .. MaxLedger

Init ==
    /\ profiles = [id \in ProfileID |-> None]
    /\ ledger = <<>>
    /\ calls = [c \in Call |-> Idle]
    /\ begun = 0
    /\ crossed = {} /\ bypassed = {} /\ inactivated = {}

-----------------------------------------------------------------------------
\* Deliberate faults, used only to show that the properties can fail.
Deactivate_ResultDropped(p) == p
Query_FilterWins(own, asked) == {IF asked # Blank THEN asked ELSE own}
-----------------------------------------------------------------------------

NewDirectoryProfile(s, post, a) ==
    [subject |-> s, post |-> post, attr |-> a, status |-> "ACTIVE"]
IsActive(p) == p.status = "ACTIVE"
Deactivate(p) == [p EXCEPT !.status = "INACTIVE"]

InFlight(id) == {c \in Call : calls[c] # Idle /\ calls[c].id = id}

\* A call of the resolver begins on profile id and goes on with progress.
Begin(c, id, progress) ==
    /\ calls[c] = Idle
    /\ begun < MaxLedger
    /\ begun' = begun + 1
    /\ calls' = [calls EXCEPT ![c] = progress]
    /\ crossed' = IF InFlight(id) # {} THEN crossed \cup {id} ELSE crossed
    /\ UNCHANGED <<ledger, bypassed, inactivated>>

\* DirectoryResolver.RegisterProfile: the registry first, the record later.
RegisterProfile(c, id, p) ==
    /\ profiles[id] = None
    /\ Begin(c, id, [at |-> "record", id |-> id, previous |-> None, new |-> p.status])
    /\ profiles' = [profiles EXCEPT ![id] = p]

\* UpdateProfileAttributes up to its write: only an active profile, only a change.
UpdateProfileAttributes(c, id, attr) ==
    /\ profiles[id] # None
    /\ LET p == profiles[id] IN
        /\ IsActive(p)
        /\ attr # p.attr
        /\ Begin(c, id, [at |-> "write", id |-> id, value |-> [p EXCEPT !.attr = attr],
                         previous |-> p.status, new |-> p.status])
    /\ UNCHANGED profiles

\* InactivateProfile up to its write.
InactivateProfile(c, id) ==
    /\ profiles[id] # None
    /\ LET p == profiles[id] IN
        /\ IsActive(p)
        /\ Begin(c, id, [at |-> "write", id |-> id, value |-> Deactivate(p),
                         previous |-> p.status, new |-> "INACTIVE"])
    /\ UNCHANGED profiles

\* The copy is written back whatever the profile is by now.
Write(c) ==
    /\ calls[c].at = "write"
    /\ profiles' = [profiles EXCEPT ![calls[c].id] = calls[c].value]
    /\ calls' = [calls EXCEPT ![c] = [at |-> "record", id |-> calls[c].id,
                                      previous |-> calls[c].previous, new |-> calls[c].new]]
    /\ UNCHANGED <<ledger, begun, observers>>

AppendRecord(c) ==
    /\ calls[c].at = "record"
    /\ ledger' = Append(ledger, [id |-> calls[c].id, previous |-> calls[c].previous,
                                 new |-> calls[c].new])
    /\ calls' = [calls EXCEPT ![c] = Idle]
    /\ inactivated' = IF calls[c].new = "INACTIVE" THEN inactivated \cup {calls[c].id}
                      ELSE inactivated
    /\ UNCHANGED <<profiles, begun, crossed, bypassed>>

\* DirectoryRegistry.DeactivateProfile: no history.
DeactivateProfile(id) ==
    /\ profiles[id] # None
    /\ profiles' = [profiles EXCEPT ![id] = Deactivate(profiles[id])]
    /\ bypassed' = bypassed \cup {id}
    /\ UNCHANGED <<ledger, calls, begun, crossed, inactivated>>

Next ==
    \/ \E c \in Call, id \in ProfileID, s \in Subject, post \in Post, a \in Attribute :
          RegisterProfile(c, id, NewDirectoryProfile(s, post, a))
    \/ \E c \in Call, id \in ProfileID, a \in Attribute : UpdateProfileAttributes(c, id, a)
    \/ \E c \in Call, id \in ProfileID : InactivateProfile(c, id)
    \/ \E c \in Call : Write(c) \/ AppendRecord(c)
    \/ \E id \in ProfileID : DeactivateProfile(id)

Spec == Init /\ [][Next]_vars

-----------------------------------------------------------------------------
\* DirectoryVisibilityService.  Every role may read the directory.

ResolveScopeLevel(scope) ==
    CASE scope.area # Blank -> "area"
      [] scope.site # Blank -> "site"
      [] scope.project # Blank -> "project"
      [] scope.company # Blank -> "company"
      [] OTHER -> "tenant"

\* What the viewer is held to at a level, or Blank.
Held(v, level) ==
    IF level = "project" \/ ResolveScopeLevel(v.scope) = level THEN v.scope[level] ELSE Blank

SeesInactive(v) == v.role \in {"TENANT_ADMIN", "AUDITOR"}

\* The field of the query sent to the registry: what is asked for within what the
\* viewer is held to, and no query if it lies outside.
Query(own, asked) ==
    CASE own = Blank -> {asked}
      [] own # Blank /\ asked \in {Blank, own} -> {own}
      [] OTHER -> {}

SearchDirectory(v, f) ==
    {id \in ProfileID :
        /\ v.role = "CONTRACTOR" => v.scope.project # Blank
        /\ profiles[id] # None
        /\ IsActive(profiles[id]) \/ (SeesInactive(v) /\ f.inactive)
        /\ \A l \in {"company", "project", "site"} :
              \E q \in Query(Held(v, l), f[l]) : q \in {Blank, profiles[id].post[l]}
        /\ v.scope.project \in {Blank, profiles[id].post.project}}

GetVisibleProfile(v) ==
    {id \in ProfileID :
        /\ profiles[id] # None
        /\ IsActive(profiles[id]) \/ SeesInactive(v)
        /\ \A l \in {"company", "project"} : Held(v, l) \in {Blank, profiles[id].post[l]}
        /\ Held(v, "site") = Blank \/ profiles[id].post.site \in {Blank, Held(v, "site")}}

\* The site is not looked at.
ListVisibleProfilesBySubject(v, s) ==
    {id \in ProfileID :
        /\ profiles[id] # None
        /\ profiles[id].subject = s
        /\ IsActive(profiles[id]) \/ SeesInactive(v)
        /\ \A l \in {"company", "project"} : Held(v, l) \in {Blank, profiles[id].post[l]}}

-----------------------------------------------------------------------------
\* The three ways to look agree: what a search finds can be opened, what can be opened
\* is listed under its subject, and nobody held to a project or a company sees beyond.
VisibilityNested ==
    \A v \in Viewer :
        LET opened == GetVisibleProfile(v)
            listed == UNION {ListVisibleProfilesBySubject(v, s) : s \in Subject}
        IN  /\ \A f \in Filter : SearchDirectory(v, f) \subseteq opened
            /\ opened \subseteq listed
            /\ \A id \in listed, l \in {"company", "project"} :
                  Held(v, l) \in {Blank, profiles[id].post[l]}

RecordsOf(id) == {i \in 1 .. Len(ledger) : ledger[i].id = id}

\* The last of the records at these places leaves status; with none, there is no status.
Leaves(places, status) ==
    IF places = {} THEN status = None
    ELSE \E i \in places : (\A j \in places : j <= i) /\ ledger[i].new = status

\* A profile whose calls never overlapped has a history that replays to it: registered
\* once, each record starting where the one before ended, the last at its status.
SerialHistoryReplays ==
    \A id \in ProfileID \ (crossed \cup bypassed) :
        profiles[id] # None /\ InFlight(id) = {} =>
            /\ \A i \in RecordsOf(id) :
                  Leaves({j \in RecordsOf(id) : j < i}, ledger[i].previous)
            /\ Leaves(RecordsOf(id), profiles[id].status)

\* "Inactive profiles are omitted from active directory discovery"
\* (directory_resolution.go, line 14): nothing in the resolver activates a profile, so
\* one it inactivated is not found any more.
InactivatedIsOmitted ==
    \A id \in inactivated, v \in Viewer, f \in Filter :
        ~f.inactive => id \notin SearchDirectory(v, f)
=============================================================================
