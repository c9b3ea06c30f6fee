------------------------- MODULE TemplateLifecycle -------------------------
(***************************************************************************)
(* Checklist template versions and the instances pinned to them:           *)
(* modules/configuration-checklist/template_lifecycle.go.                  *)
(*                                                                         *)
(* A version is an object in its caller's hands, used by one caller at a   *)
(* time.  Content stands for its title and questions.  The content that    *)
(* was reviewed and approved is kept beside the marker; the code keeps the *)
(* marker alone.                                                           *)
(***************************************************************************)
CONSTANTS
    Version,      \* template and version ID
    Content,
    Instance,
    None          \* no version, no marker, no snapshot

VARIABLES
    versions,     \* TemplateVersion objects
    instances     \* ChecklistInstance objects

vars == <<versions, instances>>

LifecycleState == {"Draft", "InReview", "Approved", "Published", "Retired"}

\* TemplateVersion; PublishedSnapshot is the content it deep-copies.
TemplateVersion ==
    [state : LifecycleState, content : Content, review : Content \cup {None},
     approval : Content \cup {None}, provenance : Version \cup {None},
     snapshot : Content \cup {None}]

ChecklistInstance == [version : Version, snapshot : Content]

TemplateLifecycleAssumption == None \notin TemplateVersion \cup ChecklistInstance

TypeOK ==
    /\ versions \in [Version -> TemplateVersion \cup {None}]
    /\ instances \in [Instance -> ChecklistInstance \cup {None}]

Init ==
    /\ versions = [v \in Version |-> None]
    /\ instances = [i \in Instance |-> None]

-----------------------------------------------------------------------------
\* Deliberate faults, used only to show that the properties can fail.
Editable_UntilPublished(v) ==
    versions[v] # None /\ versions[v].state \notin {"Published", "Retired"}
-----------------------------------------------------------------------------

In(v, state) == versions[v] # None /\ versions[v].state = state

\* UpdateContent is permitted in Draft only.
Editable(v) == In(v, "Draft")

\* A new version in Draft: of NewTemplateVersion, and of Copy with its source.
Draft(v, c, source) ==
    /\ versions[v] = None
    /\ versions' = [versions EXCEPT ![v] =
          [state |-> "Draft", content |-> c, review |-> None, approval |-> None,
           provenance |-> source, snapshot |-> None]]
    /\ UNCHANGED instances

NewTemplateVersion(v, c) == Draft(v, c, None)
Copy(v, w) == versions[v] # None /\ Draft(w, versions[v].content, v)

\* Changes one version.
Set(v, t) == versions' = [versions EXCEPT ![v] = t] /\ UNCHANGED instances

UpdateContent(v, c) == Editable(v) /\ Set(v, [versions[v] EXCEPT !.content = c])

SubmitForReview(v) == In(v, "Draft") /\ Set(v, [versions[v] EXCEPT !.state = "InReview"])

RecordReview(v) ==
    /\ In(v, "InReview")
    /\ Set(v, [versions[v] EXCEPT !.review = versions[v].content])

\* The review marker stays.
RejectToDraft(v) == In(v, "InReview") /\ Set(v, [versions[v] EXCEPT !.state = "Draft"])

Approve(v) ==
    /\ In(v, "InReview") /\ versions[v].review # None
    /\ Set(v, [versions[v] EXCEPT !.state = "Approved", !.approval = versions[v].content])

Publish(v) ==
    /\ In(v, "Approved") /\ versions[v].review # None /\ versions[v].approval # None
    /\ Set(v, [versions[v] EXCEPT !.state = "Published", !.snapshot = versions[v].content])

Retire(v) == In(v, "Published") /\ Set(v, [versions[v] EXCEPT !.state = "Retired"])

\* Instantiate copies the published snapshot.
Instantiate(v, i) ==
    /\ In(v, "Published") /\ versions[v].snapshot # None
    /\ instances[i] = None
    /\ instances' = [instances EXCEPT ![i] = [version |-> v, snapshot |-> versions[v].snapshot]]
    /\ UNCHANGED versions

Next ==
    \/ \E v \in Version, c \in Content : NewTemplateVersion(v, c) \/ UpdateContent(v, c)
    \/ \E v, w \in Version : Copy(v, w)
    \/ \E v \in Version : SubmitForReview(v) \/ RecordReview(v) \/ RejectToDraft(v)
    \/ \E v \in Version : Approve(v) \/ Publish(v) \/ Retire(v)
    \/ \E v \in Version, i \in Instance : Instantiate(v, i)

Spec == Init /\ [][Next]_vars

-----------------------------------------------------------------------------
\* What a checklist instance asks is what was approved for its version, and it stays
\* so through rejections, edits, retirement and copies.
InstancesAsApproved ==
    TypeOK /\
    \A i \in Instance : instances[i] # None =>
        LET v == versions[instances[i].version] IN
        /\ v.state \in {"Published", "Retired"}
        /\ instances[i].snapshot = v.approval
        /\ v.content = v.approval
=============================================================================
