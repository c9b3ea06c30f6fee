---------------------------- MODULE RecordsProofs ----------------------------
(***************************************************************************)
(* Proofs about the components of MCRecords, for every value of their      *)
(* constants.  For each component: the inductive invariant, one step per   *)
(* action, the component's own theorem, and the property the run records   *)
(* checks, which follows because only the part in focus moves.             *)
(***************************************************************************)
EXTENDS MCRecords, FiniteSetTheorems, SequenceTheorems, TLAPS

-----------------------------------------------------------------------------
\* IntegrityRegistry.  LinkageHolds is inductive as it stands: a derived object is
\* registered under an accepted parent, an accepted original only ever becomes archived,
\* and an ID in use is never registered again.

\* The empty registry satisfies the invariant.
LEMMA LinkageInitially == I!Init => I!LinkageHolds
  BY DEF I!Init, I!LinkageHolds, I!TypeOK

\* RegisterOriginal, AcceptOriginal and ArchiveOriginal move one original forward and
\* leave the derived objects alone.
LEMMA OriginalStep ==
    ASSUME I!LinkageHolds, NEW o \in Object,
           I!RegisterOriginal(o) \/ I!AcceptOriginal(o) \/ I!ArchiveOriginal(o)
    PROVE  I!LinkageHolds'
  <1>1. PICK to \in I!RecordLifecycleState :
           /\ originals' = [originals EXCEPT ![o] = to]
           /\ originals[o] \in {"ACCEPTED", "ARCHIVED"} => to \in {"ACCEPTED", "ARCHIVED"}
    BY RecordsAssumption DEF I!RegisterOriginal, I!AcceptOriginal, I!ArchiveOriginal, I!Move,
       I!Unused, I!RecordLifecycleState, I!IntegrityRegistryAssumption
  <1>2. derived' = derived
    BY DEF I!RegisterOriginal, I!AcceptOriginal, I!ArchiveOriginal, I!Move
  <1>3. derived[o] = None
    BY RecordsAssumption DEF I!RegisterOriginal, I!AcceptOriginal, I!ArchiveOriginal, I!Move,
       I!Unused, I!LinkageHolds, I!IntegrityRegistryAssumption, I!RecordLifecycleState
  <1>4. I!TypeOK'
    BY <1>1, <1>2 DEF I!LinkageHolds, I!TypeOK
  <1>5. ASSUME NEW p \in Object, derived'[p] # None
        PROVE  /\ originals'[p] = None
               /\ I!VerifyIntegrityLinkage(p)' \/ originals'[derived'[p].parent] = "ARCHIVED"
    <2>1. p # o /\ derived[p] \in I!DerivedRecord /\ derived[p].parent \in Object
      BY <1>2, <1>3, <1>5 DEF I!LinkageHolds, I!TypeOK, I!DerivedRecord
    <2>2. originals[p] = None /\ originals[derived[p].parent] \in {"ACCEPTED", "ARCHIVED"}
      BY <1>2, <1>5 DEF I!LinkageHolds, I!VerifyIntegrityLinkage
    <2>3. originals'[p] = None
      BY <1>1, <2>1, <2>2 DEF I!LinkageHolds, I!TypeOK
    <2>4. originals'[derived[p].parent] \in {"ACCEPTED", "ARCHIVED"}
      BY <1>1, <2>1, <2>2 DEF I!LinkageHolds, I!TypeOK
    <2> QED BY <1>2, <1>5, <2>3, <2>4 DEF I!VerifyIntegrityLinkage
  <1> QED BY <1>4, <1>5 DEF I!LinkageHolds

\* RegisterDerived and AcceptDerived change one derived object, whose parent was
\* accepted when it was registered.
LEMMA DerivedStep ==
    ASSUME I!LinkageHolds, NEW o \in Object,
           I!AcceptDerived(o) \/ \E parent \in Object : I!RegisterDerived(o, parent)
    PROVE  I!LinkageHolds'
  <1>1. originals' = originals
    BY DEF I!RegisterDerived, I!AcceptDerived
  <1>2. PICK r \in I!DerivedRecord :
           /\ derived' = [derived EXCEPT ![o] = r]
           /\ originals[o] = None
           /\ originals[r.parent] \in {"ACCEPTED", "ARCHIVED"}
    <2>1. CASE I!AcceptDerived(o)
      <3>1. derived[o] \in I!DerivedRecord
        BY <2>1 DEF I!AcceptDerived, I!LinkageHolds, I!TypeOK
      <3> DEFINE new == [derived[o] EXCEPT !.state = "ACCEPTED"]
      <3>2. new \in I!DerivedRecord /\ new.parent = derived[o].parent
        BY <3>1 DEF I!DerivedRecord
      <3>3. originals[o] = None /\ originals[derived[o].parent] \in {"ACCEPTED", "ARCHIVED"}
        BY <2>1 DEF I!AcceptDerived, I!LinkageHolds, I!VerifyIntegrityLinkage
      <3>4. derived' = [derived EXCEPT ![o] = new]
        BY <2>1, <3>1 DEF I!AcceptDerived
      <3> HIDE DEF new
      <3> QED BY <3>2, <3>3, <3>4
    <2>2. CASE \E parent \in Object : I!RegisterDerived(o, parent)
      <3>1. PICK parent \in Object : I!RegisterDerived(o, parent)
        BY <2>2
      <3> DEFINE new == [parent |-> parent, state |-> "DRAFT"]
      <3>2. new \in I!DerivedRecord /\ new.parent = parent
        BY DEF I!DerivedRecord
      <3> QED BY <3>1, <3>2 DEF I!RegisterDerived, I!Unused, I!ParentAccepted
    <2> QED BY <2>1, <2>2
  <1>3. I!TypeOK'
    BY <1>1, <1>2 DEF I!LinkageHolds, I!TypeOK
  <1>4. ASSUME NEW p \in Object, derived'[p] # None
        PROVE  /\ originals'[p] = None
               /\ I!VerifyIntegrityLinkage(p)' \/ originals'[derived'[p].parent] = "ARCHIVED"
    <2>1. CASE p = o
      <3>1. derived'[p] = r
        BY <1>2, <2>1 DEF I!LinkageHolds, I!TypeOK
      <3> QED BY <1>1, <1>2, <1>4, <2>1, <3>1 DEF I!VerifyIntegrityLinkage
    <2>2. CASE p # o
      <3>1. derived'[p] = derived[p]
        BY <1>2, <2>2 DEF I!LinkageHolds, I!TypeOK
      <3> QED BY <1>1, <1>4, <3>1 DEF I!LinkageHolds, I!VerifyIntegrityLinkage
    <2> QED BY <2>1, <2>2
  <1> QED BY <1>3, <1>4 DEF I!LinkageHolds

\* Every registration, acceptance and archival keeps the linkage.
LEMMA LinkageStep == I!LinkageHolds /\ [I!Next]_(I!vars) => I!LinkageHolds'
  <1> SUFFICES ASSUME I!LinkageHolds, [I!Next]_(I!vars) PROVE I!LinkageHolds'
    OBVIOUS
  <1>1. CASE I!Next
    BY <1>1, OriginalStep, DerivedStep DEF I!Next
  <1>2. CASE UNCHANGED I!vars
    BY <1>2 DEF I!vars, I!LinkageHolds, I!TypeOK, I!VerifyIntegrityLinkage
  <1> QED BY <1>1, <1>2

\* For any set of objects: no ID is ever both original and derived, and a derived
\* object's linkage verifies until its parent is archived.
THEOREM LinkageInvariant == I!Spec => []I!LinkageHolds
  BY LinkageInitially, LinkageStep, PTL DEF I!Spec

\* The property of the run records about VerifyIntegrityLinkage.
THEOREM LinkageHoldsAlways == Spec => []LinkageHolds
<1>1. Init => LinkageHolds
  BY LinkageInitially DEF Init, LinkageHolds
<1>2. LinkageHolds /\ [Next]_vars => LinkageHolds'
  <2> SUFFICES ASSUME LinkageHolds, [Next]_vars, focus' = "integrity" PROVE I!LinkageHolds'
    BY DEF LinkageHolds
  <2>1. focus = "integrity" /\ [I!Next]_(I!vars)
    BY DEF Next, vars, Records, Integrity, Custody, Templates, Registry, Lifecycle, Store,
       iOnly, I!vars
  <2> QED BY <2>1, LinkageStep DEF LinkageHolds
<1> QED BY <1>1, <1>2, PTL DEF Spec

-----------------------------------------------------------------------------
\* TemplateLifecycle.  Nothing edits a version once it is approved: its content is what
\* was approved from approval on, and its published snapshot is that content.

\* A version's content, approval and snapshot agree as its state requires.
AsApproved(t) ==
    /\ t.state \in {"Approved", "Published", "Retired"} => t.content = t.approval
    /\ t.state \in {"Published", "Retired"} => t.snapshot = t.approval

TemplateInv ==
    /\ T!InstancesAsApproved
    /\ \A v \in Template : versions[v] # None => AsApproved(versions[v])
    /\ \A i \in Checklist : instances[i] # None => versions[instances[i].version] # None

\* No version, no instance.
LEMMA TemplatesInitially == T!Init => TemplateInv
  BY DEF T!Init, TemplateInv, T!InstancesAsApproved, T!TypeOK

\* A version that replaces another keeps the instances right when it agrees with itself
\* and, once published, keeps what was approved and stays published or retired.
LEMMA VersionStep ==
    ASSUME TemplateInv, NEW v \in Template, NEW t \in T!TemplateVersion, AsApproved(t),
           versions' = [versions EXCEPT ![v] = t], UNCHANGED instances,
           versions[v] # None /\ versions[v].state \in {"Published", "Retired"} =>
              /\ t.state \in {"Published", "Retired"}
              /\ t.content = versions[v].content /\ t.approval = versions[v].approval
    PROVE  TemplateInv'
<1>0. T!TypeOK
  BY DEF TemplateInv, T!InstancesAsApproved
<1>1. T!TypeOK'
  BY <1>0 DEF T!TypeOK
<1>2. t # None
  BY RecordsAssumption DEF T!TemplateLifecycleAssumption
<1>3. \A w \in Template : versions'[w] = IF w = v THEN t ELSE versions[w]
  BY <1>0 DEF T!TypeOK
<1>4. \A w \in Template : versions'[w] # None => AsApproved(versions'[w])
  BY <1>3 DEF TemplateInv
<1>5. ASSUME NEW i \in Checklist, instances'[i] # None
      PROVE  LET w == versions'[instances'[i].version] IN
             /\ w # None
             /\ w.state \in {"Published", "Retired"}
             /\ instances'[i].snapshot = w.approval
             /\ w.content = w.approval
  <2>1. instances[i] \in T!ChecklistInstance /\ instances[i].version \in Template
    BY <1>0, <1>5 DEF T!TypeOK, T!ChecklistInstance
  <2>2. /\ versions[instances[i].version] # None
        /\ versions[instances[i].version].state \in {"Published", "Retired"}
        /\ instances[i].snapshot = versions[instances[i].version].approval
        /\ versions[instances[i].version].content = versions[instances[i].version].approval
    BY <1>5 DEF TemplateInv, T!InstancesAsApproved
  <2>3. CASE instances[i].version = v
    BY <1>2, <1>3, <2>1, <2>2, <2>3
  <2>4. CASE instances[i].version # v
    BY <1>3, <2>1, <2>2, <2>4
  <2> QED BY <2>3, <2>4
<1> QED BY <1>1, <1>4, <1>5 DEF TemplateInv, T!InstancesAsApproved

\* NewTemplateVersion and Copy start a version in Draft.
LEMMA DraftStep ==
    ASSUME TemplateInv, NEW v \in Template, NEW c \in Content,
           NEW source \in Template \cup {None}, T!Draft(v, c, source)
    PROVE  TemplateInv'
<1> DEFINE t == [state |-> "Draft", content |-> c, review |-> None, approval |-> None,
                 provenance |-> source, snapshot |-> None]
<1>1. t \in T!TemplateVersion /\ AsApproved(t)
  BY DEF T!TemplateVersion, T!LifecycleState, AsApproved
<1>2. versions' = [versions EXCEPT ![v] = t] /\ UNCHANGED instances /\ versions[v] = None
  BY DEF T!Draft
<1> HIDE DEF t
<1> QED BY <1>1, <1>2, VersionStep

\* UpdateContent, SubmitForReview, RecordReview and RejectToDraft come before approval.
LEMMA BeforeApprovalStep ==
    ASSUME TemplateInv, NEW v \in Template, NEW c \in Content,
           T!UpdateContent(v, c) \/ T!SubmitForReview(v) \/ T!RecordReview(v) \/ T!RejectToDraft(v)
    PROVE  TemplateInv'
<1>0. versions[v] \in T!TemplateVersion /\ versions[v].state \in {"Draft", "InReview"}
  BY DEF TemplateInv, T!InstancesAsApproved, T!TypeOK, T!UpdateContent, T!SubmitForReview,
     T!RecordReview, T!RejectToDraft, T!Editable, T!In
<1>1. PICK t \in T!TemplateVersion : /\ versions' = [versions EXCEPT ![v] = t]
                                    /\ UNCHANGED instances
                                    /\ t.state \in {"Draft", "InReview"}
  <2>1. CASE T!UpdateContent(v, c)
    <3> DEFINE t == [versions[v] EXCEPT !.content = c]
    <3>1. t \in T!TemplateVersion /\ t.state = versions[v].state
      BY <1>0 DEF T!TemplateVersion
    <3>2. versions' = [versions EXCEPT ![v] = t] /\ UNCHANGED instances
      BY <2>1 DEF T!UpdateContent, T!Set
    <3> HIDE DEF t
    <3> QED BY <1>0, <3>1, <3>2
  <2>2. CASE T!RecordReview(v)
    <3> DEFINE t == [versions[v] EXCEPT !.review = versions[v].content]
    <3>1. t \in T!TemplateVersion /\ t.state = versions[v].state
      BY <1>0 DEF T!TemplateVersion
    <3>2. versions' = [versions EXCEPT ![v] = t] /\ UNCHANGED instances
      BY <2>2 DEF T!RecordReview, T!Set
    <3> HIDE DEF t
    <3> QED BY <1>0, <3>1, <3>2
  <2>3. ASSUME NEW s \in {"Draft", "InReview"}, T!Set(v, [versions[v] EXCEPT !.state = s])
        PROVE  \E t \in T!TemplateVersion : /\ versions' = [versions EXCEPT ![v] = t]
                                            /\ UNCHANGED instances
                                            /\ t.state \in {"Draft", "InReview"}
    <3> DEFINE t == [versions[v] EXCEPT !.state = s]
    <3>1. t \in T!TemplateVersion /\ t.state = s
      BY <1>0 DEF T!TemplateVersion, T!LifecycleState
    <3>2. versions' = [versions EXCEPT ![v] = t] /\ UNCHANGED instances
      BY <2>3 DEF T!Set
    <3> HIDE DEF t
    <3> QED BY <3>1, <3>2
  <2> QED BY <2>1, <2>2, <2>3 DEF T!SubmitForReview, T!RejectToDraft
<1>2. AsApproved(t)
  BY <1>1 DEF AsApproved
<1> QED BY <1>0, <1>1, <1>2, VersionStep

\* Approve takes the content as it is; Publish copies it; Retire leaves it.
LEMMA ApprovalStep ==
    ASSUME TemplateInv, NEW v \in Template, T!Approve(v) \/ T!Publish(v) \/ T!Retire(v)
    PROVE  TemplateInv'
<1>0. versions[v] \in T!TemplateVersion /\ AsApproved(versions[v])
  BY DEF TemplateInv, T!InstancesAsApproved, T!TypeOK, T!Approve, T!Publish, T!Retire, T!In
<1>1. PICK t \in T!TemplateVersion :
         /\ versions' = [versions EXCEPT ![v] = t] /\ UNCHANGED instances
         /\ AsApproved(t)
         /\ versions[v].state \in {"Published", "Retired"} =>
               /\ t.state \in {"Published", "Retired"}
               /\ t.content = versions[v].content /\ t.approval = versions[v].approval
  <2>1. CASE T!Approve(v)
    <3> DEFINE u == [versions[v] EXCEPT !.state = "Approved"]
               t == [u EXCEPT !.approval = versions[v].content]
    <3>1. u \in T!TemplateVersion /\ u.state = "Approved" /\ u.content = versions[v].content
      BY <1>0 DEF T!TemplateVersion, T!LifecycleState
    <3>2. t = [versions[v] EXCEPT !.state = "Approved", !.approval = versions[v].content]
      OBVIOUS
    <3> HIDE DEF u
    <3>3. t \in T!TemplateVersion /\ t.state = "Approved" /\ t.content = t.approval
      BY <1>0, <3>1 DEF T!TemplateVersion
    <3>4. versions' = [versions EXCEPT ![v] = t] /\ UNCHANGED instances
          /\ versions[v].state = "InReview"
      BY <2>1, <3>2 DEF T!Approve, T!Set, T!In
    <3> HIDE DEF t
    <3> QED BY <3>3, <3>4 DEF AsApproved
  <2>2. CASE T!Publish(v)
    <3> DEFINE u == [versions[v] EXCEPT !.state = "Published"]
               t == [u EXCEPT !.snapshot = versions[v].content]
    <3>1. u \in T!TemplateVersion /\ u.state = "Published" /\ u.content = versions[v].content
          /\ u.approval = versions[v].approval
      BY <1>0 DEF T!TemplateVersion, T!LifecycleState
    <3>2. t = [versions[v] EXCEPT !.state = "Published", !.snapshot = versions[v].content]
      OBVIOUS
    <3> HIDE DEF u
    <3>3. /\ t \in T!TemplateVersion /\ t.state = "Published" /\ t.content = u.content
          /\ t.approval = u.approval /\ t.snapshot = u.content
      BY <1>0, <3>1 DEF T!TemplateVersion
    <3>4. versions' = [versions EXCEPT ![v] = t] /\ UNCHANGED instances
          /\ versions[v].state = "Approved"
      BY <2>2, <3>2 DEF T!Publish, T!Set, T!In
    <3> HIDE DEF t
    <3> QED BY <1>0, <3>1, <3>3, <3>4 DEF AsApproved
  <2>3. CASE T!Retire(v)
    <3> DEFINE t == [versions[v] EXCEPT !.state = "Retired"]
    <3>1. /\ t \in T!TemplateVersion /\ t.state = "Retired" /\ t.content = versions[v].content
          /\ t.approval = versions[v].approval /\ t.snapshot = versions[v].snapshot
      BY <1>0 DEF T!TemplateVersion, T!LifecycleState
    <3>2. versions' = [versions EXCEPT ![v] = t] /\ UNCHANGED instances
          /\ versions[v].state = "Published"
      BY <2>3 DEF T!Retire, T!Set, T!In
    <3> HIDE DEF t
    <3> QED BY <1>0, <3>1, <3>2 DEF AsApproved
  <2> QED BY <2>1, <2>2, <2>3
<1> QED BY <1>1, VersionStep

\* Instantiate hands out the snapshot of a published version.
LEMMA InstantiateStep ==
    ASSUME TemplateInv, NEW v \in Template, NEW i \in Checklist, T!Instantiate(v, i)
    PROVE  TemplateInv'
<1>0. T!TypeOK /\ versions' = versions
  BY DEF TemplateInv, T!InstancesAsApproved, T!Instantiate
<1>1. /\ versions[v] \in T!TemplateVersion /\ AsApproved(versions[v]) /\ versions[v] # None
      /\ versions[v].state = "Published" /\ versions[v].snapshot # None
  BY <1>0 DEF TemplateInv, T!TypeOK, T!Instantiate, T!In
<1> DEFINE new == [version |-> v, snapshot |-> versions[v].snapshot]
<1>2. new \in T!ChecklistInstance /\ new.version = v /\ new.snapshot = versions[v].snapshot
  BY <1>1 DEF T!ChecklistInstance, T!TemplateVersion
<1>3. instances' = [instances EXCEPT ![i] = new]
  BY DEF T!Instantiate
<1> HIDE DEF new
<1>4. T!TypeOK'
  BY <1>0, <1>2, <1>3 DEF T!TypeOK
<1>5. \A j \in Checklist : instances'[j] = IF j = i THEN new ELSE instances[j]
  BY <1>0, <1>3 DEF T!TypeOK
<1>6. ASSUME NEW j \in Checklist, instances'[j] # None
      PROVE  LET w == versions'[instances'[j].version] IN
             /\ w # None
             /\ w.state \in {"Published", "Retired"}
             /\ instances'[j].snapshot = w.approval
             /\ w.content = w.approval
  <2>1. CASE j = i
    BY <1>0, <1>1, <1>2, <1>5, <2>1 DEF AsApproved
  <2>2. CASE j # i
    BY <1>0, <1>5, <1>6, <2>2 DEF TemplateInv, T!InstancesAsApproved
  <2> QED BY <2>1, <2>2
<1> QED BY <1>0, <1>4, <1>6 DEF TemplateInv, T!InstancesAsApproved

\* Every step of a version or an instance keeps the invariant.
LEMMA TemplateStep == TemplateInv /\ [T!Next]_(T!vars) => TemplateInv'
<1> SUFFICES ASSUME TemplateInv, [T!Next]_(T!vars) PROVE TemplateInv'
  OBVIOUS
<1>1. CASE UNCHANGED T!vars
  BY <1>1 DEF T!vars, TemplateInv, T!InstancesAsApproved, T!TypeOK
<1>2. ASSUME NEW v \in Template, NEW w \in Template, T!Copy(v, w) PROVE TemplateInv'
  <2>1. versions[v] \in T!TemplateVersion
    BY <1>2 DEF T!Copy, TemplateInv, T!InstancesAsApproved, T!TypeOK
  <2>2. versions[v].content \in Content
    BY <2>1 DEF T!TemplateVersion
  <2> QED BY <1>2, <2>2, DraftStep DEF T!Copy
<1>3. ASSUME NEW v \in Template, NEW c \in Content, T!NewTemplateVersion(v, c)
      PROVE  TemplateInv'
  BY <1>3, DraftStep DEF T!NewTemplateVersion
<1>4. ASSUME NEW v \in Template, T!SubmitForReview(v) \/ T!RecordReview(v) \/ T!RejectToDraft(v)
      PROVE  TemplateInv'
  <2>1. versions[v] \in T!TemplateVersion
    BY <1>4 DEF TemplateInv, T!InstancesAsApproved, T!TypeOK, T!SubmitForReview, T!RecordReview,
       T!RejectToDraft, T!In
  <2>2. versions[v].content \in Content
    BY <2>1 DEF T!TemplateVersion
  <2> QED BY <1>4, <2>2, BeforeApprovalStep
<1> QED BY <1>1, <1>2, <1>3, <1>4, BeforeApprovalStep, ApprovalStep, InstantiateStep DEF T!Next

\* For all versions, contents and instances: an instance asks what was approved for its
\* version, which stays published or retired.
THEOREM TemplatesAsApproved == T!Spec => []T!InstancesAsApproved
<1>1. T!Spec => []TemplateInv
  BY TemplatesInitially, TemplateStep, PTL DEF T!Spec
<1>2. TemplateInv => T!InstancesAsApproved
  BY DEF TemplateInv
<1> QED BY <1>1, <1>2, PTL

\* The property of the run records about Instantiate.
THEOREM InstancesAsApprovedHolds == Spec => []InstancesAsApproved
<1> DEFINE Inv == focus = "templates" => TemplateInv
<1>1. Init => Inv
  BY TemplatesInitially DEF Init
<1>2. Inv /\ [Next]_vars => Inv'
  <2> SUFFICES ASSUME Inv, [Next]_vars, focus' = "templates" PROVE TemplateInv'
    OBVIOUS
  <2>1. focus = "templates" /\ [T!Next]_(T!vars)
    BY DEF Next, vars, Records, Integrity, Custody, Templates, Registry, Lifecycle, Store,
       tOnly, T!vars
  <2> QED BY <2>1, TemplateStep
<1>3. Inv => InstancesAsApproved
  BY DEF InstancesAsApproved, TemplateInv
<1> QED BY <1>1, <1>2, <1>3, PTL DEF Spec

-----------------------------------------------------------------------------
\* ImmutableStore.  A version that is new and whose predecessor is the one before it and
\* stored can only be the next one, so the versions of a snapshot are a sequence; linking
\* a successor leaves what the seal covers.

LineageEntry ==
    [version : 1 .. MaxVersion, signature : S!Sig, pred : S!Sig \cup {None}]

\* The versions q of snapshot s are sealed and chained.
Chained(s, q) ==
    \A v \in 1 .. Len(q) :
        /\ q[v].predVersion = v - 1
        /\ q[v].predDigest = IF v = 1 THEN None ELSE q[v - 1].signature
        /\ q[v].signature = S!ComputeSignatureDigest(s, v, q[v].payload)

\* The index x lists the versions q in order.
IndexLists(x, q) ==
    /\ Len(x) = Len(q)
    /\ \A i \in 1 .. Len(q) : x[i].version = i /\ x[i].signature = q[i].signature

LineageInv ==
    /\ store \in [Chain -> Seq(S!PublicationRecord)]
    /\ lineageIndex \in [Chain -> Seq(LineageEntry)]
    /\ links \in 0 .. MaxLinks
    /\ \A s \in Chain : /\ Len(store[s]) <= MaxVersion
                        /\ Chained(s, store[s])
                        /\ IndexLists(lineageIndex[s], store[s])

\* Two states of a version that its successor's link alone tells apart.
SameSeal(r, t) ==
    /\ r.payload = t.payload /\ r.signature = t.signature
    /\ r.predVersion = t.predVersion /\ r.predDigest = t.predDigest

\* Nothing stored, nothing indexed.
LEMMA StoreInitially == S!Init => LineageInv
  BY RecordsAssumption DEF S!Init, LineageInv, S!ImmutableStoreAssumption, Chained, IndexLists

\* The only version that can be stored is the next one.
LEMMA NextVersion ==
    ASSUME LineageInv, NEW s \in Chain, NEW v \in 1 .. MaxVersion, NEW pv, NEW pd,
           S!New(s, v), S!PredecessorOK(s, v, pv, pd)
    PROVE  /\ v = Len(store[s]) + 1 /\ pv = v - 1
           /\ pd = IF v = 1 THEN None ELSE store[s][v - 1].signature
<1>1. store[s] \in Seq(S!PublicationRecord) /\ S!Stored(s) = 1 .. Len(store[s])
  BY DEF LineageInv, S!Stored
<1>2. v \notin 1 .. Len(store[s]) /\ Len(store[s]) \in Nat /\ v \in Nat \ {0}
  BY <1>1, RecordsAssumption DEF S!New, S!ImmutableStoreAssumption
<1>3. CASE v = 1
  BY <1>1, <1>2, <1>3 DEF S!PredecessorOK
<1>4. CASE v # 1
  BY <1>1, <1>2, <1>4 DEF S!PredecessorOK
<1> QED BY <1>3, <1>4

\* What the chain and the index say is about sealed fields.
LEMMA SealKept ==
    ASSUME NEW s, NEW q \in Seq(S!PublicationRecord), NEW r \in Seq(S!PublicationRecord),
           NEW x, Chained(s, q), IndexLists(x, q), Len(r) = Len(q),
           \A v \in 1 .. Len(q) : SameSeal(r[v], q[v])
    PROVE  Chained(s, r) /\ IndexLists(x, r)
<1>1. ASSUME NEW v \in 1 .. Len(r)
      PROVE  /\ r[v].predVersion = v - 1
             /\ r[v].predDigest = IF v = 1 THEN None ELSE r[v - 1].signature
             /\ r[v].signature = S!ComputeSignatureDigest(s, v, r[v].payload)
  <2>1. SameSeal(r[v], q[v]) /\ (v # 1 => SameSeal(r[v - 1], q[v - 1]))
    <3>1. Len(q) \in Nat /\ (v # 1 => v - 1 \in 1 .. Len(q))
      OBVIOUS
    <3> QED BY <3>1
  <2> QED BY <2>1 DEF Chained, SameSeal
<1>2. IndexLists(x, r)
  BY DEF IndexLists, SameSeal
<1> QED BY <1>1, <1>2 DEF Chained

\* The chain goes on with a version sealed after the last one.
LEMMA ChainOn ==
    ASSUME NEW s, NEW q \in Seq(S!PublicationRecord), NEW r \in Seq(S!PublicationRecord),
           NEW x \in Seq(LineageEntry), NEW e \in LineageEntry,
           Chained(s, q), IndexLists(x, q), Len(r) = Len(q) + 1,
           \A v \in 1 .. Len(q) : SameSeal(r[v], q[v]),
           r[Len(r)].predVersion = Len(q),
           r[Len(r)].predDigest = IF Len(q) = 0 THEN None ELSE q[Len(q)].signature,
           r[Len(r)].signature = S!ComputeSignatureDigest(s, Len(r), r[Len(r)].payload),
           e.version = Len(r), e.signature = r[Len(r)].signature
    PROVE  Chained(s, r) /\ IndexLists(Append(x, e), r)
<1>0. Len(q) \in Nat
  OBVIOUS
<1>1. ASSUME NEW v \in 1 .. Len(r)
      PROVE  /\ r[v].predVersion = v - 1
             /\ r[v].predDigest = IF v = 1 THEN None ELSE r[v - 1].signature
             /\ r[v].signature = S!ComputeSignatureDigest(s, v, r[v].payload)
  <2>0. v # 1 => v - 1 \in 1 .. Len(q) /\ SameSeal(r[v - 1], q[v - 1])
    <3>1. v # 1 => v - 1 \in 1 .. Len(q)
      BY <1>0
    <3> QED BY <3>1
  <2>1. CASE v = Len(r)
    <3>1. v - 1 = Len(q) /\ (v = 1 <=> Len(q) = 0)
      BY <1>0, <2>1
    <3>2. v # 1 => r[v - 1].signature = q[Len(q)].signature
      BY <2>0, <3>1 DEF SameSeal
    <3> QED BY <2>1, <3>1, <3>2
  <2>2. CASE v # Len(r)
    <3>1. v \in 1 .. Len(q)
      BY <1>0, <2>2
    <3> QED BY <2>0, <3>1 DEF Chained, SameSeal
  <2> QED BY <2>1, <2>2
<1>2. Len(Append(x, e)) = Len(r)
  BY DEF IndexLists
<1>3. ASSUME NEW i \in 1 .. Len(r)
      PROVE  Append(x, e)[i].version = i /\ Append(x, e)[i].signature = r[i].signature
  <2>1. CASE i = Len(r)
    BY <2>1 DEF IndexLists
  <2>2. CASE i # Len(r)
    <3>1. i \in 1 .. Len(q)
      BY <1>0, <2>2
    <3>2. Append(x, e)[i] = x[i]
      BY <3>1 DEF IndexLists
    <3> QED BY <3>1, <3>2 DEF IndexLists, SameSeal
  <2> QED BY <2>1, <2>2
<1> QED BY <1>1, <1>2, <1>3 DEF Chained, IndexLists

\* StorePublishedVersion seals the next version and links the last one to it.
LEMMA StoreStep ==
    ASSUME LineageInv, NEW s \in Chain, NEW v \in 1 .. MaxVersion, NEW p \in Payload,
           NEW pv \in 0 .. MaxVersion, NEW pd \in S!Sig \cup {None},
           S!StorePublishedVersion(s, v, p, pv, pd)
    PROVE  LineageInv'
<1>0. MaxVersion \in Nat /\ MaxLinks \in Nat
  BY RecordsAssumption DEF S!ImmutableStoreAssumption
<1> DEFINE q == store[s]
           sig == S!ComputeSignatureDigest(s, v, p)
           rec == [payload |-> p, signature |-> sig, predVersion |-> pv, predDigest |-> pd,
                   succVersion |-> 0, succDigest |-> None, replacement |-> "none"]
           linked(w) == [q[w] EXCEPT !.succVersion = v, !.succDigest = sig,
                                     !.replacement = "SUPERSEDED"]
           r == [w \in S!Stored(s) \cup {v} |->
                   CASE w = v -> rec [] w = pv /\ w # v -> linked(w) [] OTHER -> q[w]]
           e == [version |-> v, signature |-> sig, pred |-> pd]
<1>1. /\ S!New(s, v) /\ S!PredecessorOK(s, v, pv, pd)
      /\ store' = [store EXCEPT ![s] = r]
      /\ lineageIndex' = [lineageIndex EXCEPT ![s] = Append(lineageIndex[s], e)]
      /\ links' = links
  BY DEF S!StorePublishedVersion
<1>2. /\ v = Len(q) + 1 /\ pv = v - 1
      /\ pd = IF v = 1 THEN None ELSE q[v - 1].signature
  BY <1>1, NextVersion
<1>3. q \in Seq(S!PublicationRecord) /\ Len(q) \in Nat /\ S!Stored(s) = 1 .. Len(q)
  BY DEF LineageInv, S!Stored
<1>4. sig \in S!Sig
  BY DEF S!Sig, S!ComputeSignatureDigest
<1>5. rec \in S!PublicationRecord
  BY <1>0, <1>4 DEF S!PublicationRecord
<1>6. ASSUME NEW w \in 1 .. Len(q)
      PROVE  linked(w) \in S!PublicationRecord /\ SameSeal(linked(w), q[w])
  <2>1. q[w] \in S!PublicationRecord
    BY <1>3
  <2> DEFINE a == [q[w] EXCEPT !.succVersion = v]
             b == [a EXCEPT !.succDigest = sig]
             c == [b EXCEPT !.replacement = "SUPERSEDED"]
  <2>2. a \in S!PublicationRecord /\ SameSeal(a, q[w])
    BY <1>0, <2>1 DEF S!PublicationRecord, SameSeal
  <2>3. linked(w) = c
    BY <2>1 DEF S!PublicationRecord
  <2> HIDE DEF a, sig
  <2>4. b \in S!PublicationRecord /\ SameSeal(b, a)
    BY <1>4, <2>2 DEF S!PublicationRecord, SameSeal
  <2> HIDE DEF b
  <2>5. c \in S!PublicationRecord /\ SameSeal(c, b)
    BY <2>4 DEF S!PublicationRecord, SameSeal
  <2> HIDE DEF c
  <2> QED BY <2>2, <2>3, <2>4, <2>5 DEF SameSeal
<1>7. e \in LineageEntry
  BY <1>4 DEF LineageEntry
<1>8. S!Stored(s) \cup {v} = 1 .. Len(q) + 1
  BY <1>2, <1>3
<1> HIDE DEF linked, rec, sig, e
<1>9. ASSUME NEW w \in 1 .. Len(q) + 1
      PROVE  r[w] = IF w = v THEN rec ELSE IF w = pv THEN linked(w) ELSE q[w]
  BY <1>8
<1>10. \A w \in 1 .. Len(q) + 1 : r[w] \in S!PublicationRecord
  <2> SUFFICES ASSUME NEW w \in 1 .. Len(q) + 1 PROVE r[w] \in S!PublicationRecord
    OBVIOUS
  <2>1. CASE w = v
    BY <1>5, <1>9, <2>1
  <2>2. CASE w # v
    <3>1. w \in 1 .. Len(q)
      BY <1>2, <1>3, <2>2
    <3>2. q[w] \in S!PublicationRecord /\ linked(w) \in S!PublicationRecord
      BY <1>3, <1>6, <3>1
    <3>3. r[w] = linked(w) \/ r[w] = q[w]
      BY <1>9, <2>2
    <3> HIDE DEF r
    <3> QED BY <3>2, <3>3
  <2> QED BY <2>1, <2>2
<1>11. DOMAIN r = 1 .. Len(q) + 1 /\ r = [w \in 1 .. Len(q) + 1 |-> r[w]]
  BY <1>8
<1>12. \A w \in 1 .. Len(q) : SameSeal(r[w], q[w])
  <2> SUFFICES ASSUME NEW w \in 1 .. Len(q) PROVE SameSeal(r[w], q[w])
    OBVIOUS
  <2>1. w \in 1 .. Len(q) + 1 /\ w # v
    BY <1>2, <1>3
  <2> QED BY <1>6, <1>9, <2>1 DEF SameSeal
<1>13. r[Len(q) + 1] = rec
  BY <1>2, <1>3, <1>9
<1> HIDE DEF r
<1>14. r \in Seq(S!PublicationRecord) /\ Len(r) = Len(q) + 1
  BY <1>3, <1>10, <1>11
<1>15. /\ rec.predVersion = Len(q) /\ rec.signature = sig /\ rec.payload = p
       /\ rec.predDigest = IF Len(q) = 0 THEN None ELSE q[Len(q)].signature
  BY <1>2, <1>3 DEF rec
<1>16. e.version = Len(q) + 1 /\ e.signature = sig
  BY <1>2 DEF e
<1>17. sig = S!ComputeSignatureDigest(s, Len(q) + 1, p)
  BY <1>2 DEF sig
<1>18. /\ lineageIndex[s] \in Seq(LineageEntry) /\ Chained(s, q)
       /\ IndexLists(lineageIndex[s], q)
  BY DEF LineageInv
<1> HIDE DEF q
<1>19. Chained(s, r) /\ IndexLists(Append(lineageIndex[s], e), r)
  BY <1>3, <1>7, <1>12, <1>13, <1>14, <1>15, <1>16, <1>17, <1>18, ChainOn
<1>20. Len(r) <= MaxVersion
  BY <1>0, <1>2, <1>14
<1>21. store' \in [Chain -> Seq(S!PublicationRecord)]
       /\ lineageIndex' \in [Chain -> Seq(LineageEntry)]
  BY <1>1, <1>7, <1>14, <1>18 DEF LineageInv
<1>22. ASSUME NEW t \in Chain
       PROVE  /\ Len(store'[t]) <= MaxVersion
              /\ Chained(t, store'[t])
              /\ IndexLists(lineageIndex'[t], store'[t])
  <2>1. CASE t = s
    <3>1. store'[t] = r /\ lineageIndex'[t] = Append(lineageIndex[s], e)
      BY <1>1, <2>1 DEF LineageInv
    <3> QED BY <1>19, <1>20, <2>1, <3>1
  <2>2. CASE t # s
    <3>1. store'[t] = store[t] /\ lineageIndex'[t] = lineageIndex[t]
      BY <1>1, <2>2 DEF LineageInv
    <3> QED BY <3>1 DEF LineageInv
  <2> QED BY <2>1, <2>2
<1> QED BY <1>1, <1>21, <1>22 DEF LineageInv

\* RegisterReplacement names a successor, whatever it is; the seal does not cover it.
LEMMA ReplacementStep ==
    ASSUME LineageInv, NEW s \in Chain, NEW v \in 1 .. MaxVersion, NEW w \in 1 .. MaxVersion,
           NEW type \in {"CORRECTION", "WITHDRAWAL"}, S!RegisterReplacement(s, v, w, type)
    PROVE  LineageInv'
<1>0. MaxVersion \in Nat /\ MaxLinks \in Nat
  BY RecordsAssumption DEF S!ImmutableStoreAssumption
<1>1. /\ store[s] \in Seq(S!PublicationRecord) /\ v \in 1 .. Len(store[s])
      /\ store[s][v] \in S!PublicationRecord
  BY DEF LineageInv, S!RegisterReplacement, S!Stored
<1> DEFINE o == store[s][v]
           a == [o EXCEPT !.succVersion = w]
           b == [a EXCEPT !.replacement = type]
           r == [store[s] EXCEPT ![v] = b]
<1>2. a \in S!PublicationRecord /\ SameSeal(a, o)
  <2>1. o \in S!PublicationRecord /\ w \in 0 .. MaxVersion
    BY <1>0, <1>1
  <2> HIDE DEF o
  <2> QED BY <2>1 DEF S!PublicationRecord, SameSeal
<1>3. store' = [store EXCEPT ![s] = r]
  BY <1>1 DEF S!RegisterReplacement, LineageInv
<1> HIDE DEF a
<1>4. b \in S!PublicationRecord /\ SameSeal(b, a)
  BY <1>2 DEF S!PublicationRecord, SameSeal
<1> HIDE DEF b
<1>5. r \in Seq(S!PublicationRecord) /\ Len(r) = Len(store[s])
      /\ \A i \in 1 .. Len(store[s]) : r[i] = IF i = v THEN b ELSE store[s][i]
  BY <1>1, <1>4
<1> HIDE DEF r
<1>6. \A i \in 1 .. Len(store[s]) : SameSeal(r[i], store[s][i])
  BY <1>2, <1>4, <1>5 DEF SameSeal
<1>7. Chained(s, r) /\ IndexLists(lineageIndex[s], r)
  BY <1>1, <1>5, <1>6, SealKept DEF LineageInv
<1>8. /\ lineageIndex' = lineageIndex /\ links' \in 0 .. MaxLinks
      /\ store' \in [Chain -> Seq(S!PublicationRecord)]
  <2>1. lineageIndex' = lineageIndex /\ links' \in 0 .. MaxLinks
    <3>1. links \in 0 .. MaxLinks /\ links < MaxLinks /\ links' = links + 1
      BY DEF LineageInv, S!RegisterReplacement
    <3> QED BY <1>0, <3>1 DEF S!RegisterReplacement
  <2>2. store' \in [Chain -> Seq(S!PublicationRecord)]
    BY <1>3, <1>5 DEF LineageInv
  <2> QED BY <2>1, <2>2
<1>9. ASSUME NEW t \in Chain
      PROVE  /\ Len(store'[t]) <= MaxVersion
             /\ Chained(t, store'[t])
             /\ IndexLists(lineageIndex'[t], store'[t])
  <2>1. CASE t = s
    <3>1. store'[t] = r
      BY <1>3, <2>1 DEF LineageInv
    <3> QED BY <1>5, <1>7, <1>8, <2>1, <3>1 DEF LineageInv
  <2>2. CASE t # s
    <3>1. store'[t] = store[t]
      BY <1>3, <2>2 DEF LineageInv
    <3> QED BY <1>8, <3>1 DEF LineageInv
  <2> QED BY <2>1, <2>2
<1> QED BY <1>8, <1>9 DEF LineageInv

\* Both methods of the store keep the invariant.
LEMMA LineageStep == LineageInv /\ [S!Next]_(S!vars) => LineageInv'
<1> SUFFICES ASSUME LineageInv, [S!Next]_(S!vars) PROVE LineageInv'
  OBVIOUS
<1>1. CASE UNCHANGED S!vars
  BY <1>1 DEF S!vars, LineageInv
<1>2. ASSUME NEW t \in Chain, NEW w \in S!Stored(t) PROVE store[t][w].signature \in S!Sig
  <2>1. store[t][w] \in S!PublicationRecord
    BY <1>2 DEF LineageInv, S!Stored
  <2> QED BY <2>1 DEF S!PublicationRecord
<1>3. {None} \cup UNION {{store[t][w].signature : w \in S!Stored(t)} : t \in Chain}
         \subseteq S!Sig \cup {None}
  BY <1>2
<1> QED BY <1>1, <1>3, StoreStep, ReplacementStep DEF S!Next

\* ReconstructPublicationAuditTrail checks what the invariant says.
LEMMA LineageInvIntact == LineageInv => S!LineageIntact
<1> SUFFICES ASSUME LineageInv PROVE S!LineageIntact
  OBVIOUS
<1>1. \A s \in Chain : store[s] \in Seq(S!PublicationRecord) /\ Len(store[s]) \in Nat
                       /\ S!Stored(s) = 1 .. Len(store[s])
  BY DEF LineageInv, S!Stored
<1>2. S!TypeOK
  <2>1. ASSUME NEW s \in Chain, NEW v \in S!Stored(s)
        PROVE  v \in 1 .. MaxVersion /\ store[s][v] \in S!PublicationRecord
    <3>1. Len(store[s]) <= MaxVersion /\ v \in 1 .. Len(store[s])
      BY <1>1 DEF LineageInv
    <3> QED BY <1>1, <3>1, RecordsAssumption DEF S!ImmutableStoreAssumption
  <2> QED BY <2>1 DEF LineageInv, S!TypeOK
<1>3. ASSUME NEW s \in Chain PROVE S!VerifiedIntact(s)
  BY <1>1 DEF LineageInv, S!VerifiedIntact, Chained
<1>4. ASSUME NEW s \in Chain
      PROVE  /\ Len(lineageIndex[s]) = Len(store[s])
             /\ \A i \in DOMAIN lineageIndex[s] :
                   lineageIndex[s][i].version = i
                   /\ lineageIndex[s][i].signature = store[s][i].signature
  BY DEF LineageInv, IndexLists
<1> QED BY <1>2, <1>3, <1>4 DEF S!LineageIntact

\* For all snapshots, payloads and bounds: reconstruction finds every trail intact.
THEOREM TrailsIntact == S!Spec => []S!LineageIntact
<1>1. S!Spec => []LineageInv
  BY StoreInitially, LineageStep, PTL DEF S!Spec
<1> QED BY <1>1, LineageInvIntact, PTL

\* The property of the run records about ReconstructPublicationAuditTrail.
THEOREM LineageIntactHolds == Spec => []LineageIntact
<1> DEFINE Inv == focus = "store" => LineageInv
<1>1. Init => Inv
  BY StoreInitially DEF Init
<1>2. Inv /\ [Next]_vars => Inv'
  <2> SUFFICES ASSUME Inv, [Next]_vars, focus' = "store" PROVE LineageInv'
    OBVIOUS
  <2>1. focus = "store" /\ [S!Next]_(S!vars)
    BY DEF Next, vars, Records, Integrity, Custody, Templates, Registry, Lifecycle, Store,
       sOnly, S!vars
  <2> QED BY <2>1, LineageStep
<1>3. Inv => LineageIntact
  BY LineageInvIntact DEF LineageIntact
<1> QED BY <1>1, <1>2, <1>3, PTL DEF Spec

-----------------------------------------------------------------------------
\* PublicationLifecycle.  A snapshot gets to PUBLISHED through APPROVED alone, with the
\* evidence Approve checked; the ledger's last record of it is where it is.

\* What the approval and the publication of a snapshot have checked.
Fresh(m) ==
    /\ m.state \in {"APPROVED", "PUBLISHED"} =>
          /\ m.approval \in L!ApprovalEvidence
          /\ m.approval.role \in AuthorizedRole /\ m.approval.digest = m.digest
    /\ m.state = "PUBLISHED" =>
          /\ m.publishedAt <= m.approval.approvedAt + m.approval.maxAge
          /\ m.publishedAt < m.expires
          /\ m.expires - m.from <= MaxWindow

LifeInv ==
    /\ L!LedgerReplays
    /\ \A i \in 1 .. Len(ledger) : ledger[i].at <= now
    /\ \A s \in Snapshot : snaps[s] # None => Fresh(snaps[s])

Final == {"WITHDRAWN", "REPLACED", "SUPERSEDED"}

\* No snapshot registered, an empty ledger.
LEMMA LifecycleInitially == L!Init => LifeInv
<1> SUFFICES ASSUME L!Init PROVE LifeInv
  OBVIOUS
<1>1. L!TypeOK
  BY RecordsAssumption DEF L!Init, L!TypeOK, L!Times, L!PublicationLifecycleAssumption
<1>2. \A s \in Snapshot : L!Tells(ledger, s, snaps[s])
  BY DEF L!Init, L!Tells
<1> QED BY <1>1, <1>2 DEF L!Init, LifeInv, L!LedgerReplays

\* A record of one snapshot tells nothing of another.
LEMMA TellsOthers ==
    ASSUME NEW log \in Seq(L!Audit), NEW e \in L!Audit, NEW s, NEW m, e.snapshot # s,
           L!Tells(log, s, m)
    PROVE  L!Tells(Append(log, e), s, m)
<1> DEFINE new == Append(log, e)
           mine == {i \in 1 .. Len(log) : log[i].snapshot = s}
<1>1. {i \in 1 .. Len(new) : new[i].snapshot = s} = mine
  OBVIOUS
<1>2. \A i \in mine : new[i] = log[i]
  OBVIOUS
<1> HIDE DEF new
<1> QED BY <1>1, <1>2 DEF L!Tells, new

\* The record of a move continues the snapshot's chain.
LEMMA TellsOn ==
    ASSUME NEW log \in Seq(L!Audit), NEW e \in L!Audit, NEW s, NEW m, NEW n,
           e.snapshot = s, e.to = n.state, n # None,
           \A i \in 1 .. Len(log) : log[i].at <= e.at,
           m = None => e.from = None /\ e.to = "DRAFT",
           m # None => e.from = m.state /\ m.state \notin Final,
           L!Tells(log, s, m)
    PROVE  L!Tells(Append(log, e), s, n)
<1> DEFINE new == Append(log, e)
           k == Len(log) + 1
           mine == {i \in 1 .. Len(log) : log[i].snapshot = s}
           ours == {i \in 1 .. Len(new) : new[i].snapshot = s}
<1>0. Len(log) \in Nat /\ new[k] = e /\ Len(new) = k /\ mine \subseteq 1 .. Len(log)
      /\ mine \subseteq Nat
  OBVIOUS
<1>1. \A i \in 1 .. Len(log) : new[i] = log[i]
  OBVIOUS
<1>2. ours = mine \cup {k}
  <2>1. ASSUME NEW i \in ours PROVE i \in mine \cup {k}
    BY <1>0, <1>1
  <2>2. ASSUME NEW i \in mine PROVE i \in ours
    BY <1>0, <1>1
  <2>3. k \in ours
    BY <1>0
  <2> QED BY <2>1, <2>2, <2>3
<1>3. IF m = None THEN mine = {}
      ELSE /\ \E last \in mine : log[last].to = m.state /\ \A i \in mine : i <= last
           /\ \A i \in mine :
                 \/ /\ log[i].from = None /\ log[i].to = "DRAFT"
                    /\ \A j \in mine : i <= j
                 \/ \E p \in mine :
                       /\ p < i /\ \A j \in mine : j <= p \/ i <= j
                       /\ log[i].from = log[p].to /\ log[i].at >= log[p].at
                       /\ log[p].to \notin Final
  BY DEF L!Tells, Final
<1> HIDE DEF new, ours, mine
<1>4. k \in ours /\ new[k].to = n.state /\ \A i \in ours : i <= k
  <2>1. \A i \in mine : i <= k
    BY <1>0 DEF mine
  <2> QED BY <1>0, <1>2, <2>1
<1>5. ASSUME NEW i \in ours
      PROVE  \/ /\ new[i].from = None /\ new[i].to = "DRAFT"
                /\ \A j \in ours : i <= j
             \/ \E p \in ours :
                   /\ p < i /\ \A j \in ours : j <= p \/ i <= j
                   /\ new[i].from = new[p].to /\ new[i].at >= new[p].at
                   /\ new[p].to \notin Final
  <2>1. CASE i = k /\ m = None
    <3>1. ours = {k}
      BY <1>2, <1>3, <2>1
    <3> QED BY <1>0, <2>1, <3>1
  <2>2. CASE i = k /\ m # None
    <3>1. PICK last \in mine : log[last].to = m.state /\ \A j \in mine : j <= last
      BY <1>3, <2>2
    <3>2. last \in 1 .. Len(log) /\ last < k /\ new[last] = log[last] /\ last \in ours
      BY <1>0, <1>1, <1>2
    <3>3. \A j \in ours : j <= last \/ k <= j
      <4>1. k \in Nat /\ k <= k
        BY <1>0
      <4> HIDE DEF k
      <4> QED BY <1>2, <3>1, <4>1
    <3>4. e.at >= log[last].at
      <4>1. log[last] \in L!Audit
        BY <3>2
      <4>2. log[last].at \in Nat /\ e.at \in Nat
        BY <4>1 DEF L!Audit, L!Times
      <4> QED BY <3>2, <4>2
    <3> QED BY <1>0, <2>2, <3>1, <3>2, <3>3, <3>4
  <2>3. CASE i # k
    <3>1. i \in mine /\ i \in 1 .. Len(log) /\ i <= k /\ new[i] = log[i] /\ m # None
      BY <1>0, <1>1, <1>2, <1>3, <2>3
    <3>2. CASE log[i].from = None /\ log[i].to = "DRAFT" /\ \A j \in mine : i <= j
      <4>1. \A j \in ours : i <= j
        BY <1>2, <3>1, <3>2
      <4> QED BY <3>1, <3>2, <4>1
    <3>3. ASSUME NEW p \in mine, p < i, \A j \in mine : j <= p \/ i <= j,
                 log[i].from = log[p].to, log[i].at >= log[p].at, log[p].to \notin Final
          PROVE  \E q \in ours :
                   /\ q < i /\ \A j \in ours : j <= q \/ i <= j
                   /\ new[i].from = new[q].to /\ new[i].at >= new[q].at
                   /\ new[q].to \notin Final
      <4>1. p \in ours /\ new[p] = log[p]
        BY <1>0, <1>1, <1>2
      <4>2. \A j \in ours : j <= p \/ i <= j
        BY <1>2, <3>1, <3>3
      <4> QED BY <3>1, <3>3, <4>1, <4>2
    <3> QED BY <1>3, <3>1, <3>2, <3>3
  <2> QED BY <2>1, <2>2, <2>3
<1>6. L!Tells(new, s, n)
  BY <1>4, <1>5 DEF L!Tells, ours, Final
<1> QED BY <1>6 DEF new

\* A move of one snapshot, recorded in the ledger.
LEMMA MoveStep ==
    ASSUME LifeInv, NEW s \in Snapshot, NEW m \in L!Managed, NEW role \in Role \cup {"CREATOR"},
           Fresh(m), snaps[s] = None => m.state = "DRAFT",
           snaps[s] # None => snaps[s].state \notin Final, L!Move(s, m, role)
    PROVE  LifeInv'
<1>0. /\ now \in L!Times /\ snaps \in [Snapshot -> L!Managed \cup {None}]
      /\ ledger \in Seq(L!Audit) /\ now \in Nat
  BY DEF LifeInv, L!LedgerReplays, L!TypeOK, L!Times
<1> DEFINE e == [snapshot |-> s, to |-> m.state, role |-> role, at |-> now,
                 from |-> IF snaps[s] = None THEN None ELSE snaps[s].state]
<1>1. /\ snaps' = [snaps EXCEPT ![s] = m] /\ ledger' = Append(ledger, e) /\ now' = now
  BY DEF L!Move
<1>2. m.state \in L!States /\ (snaps[s] # None => snaps[s].state \in L!States)
  BY <1>0 DEF L!Managed
<1>3. e \in L!Audit /\ e.snapshot = s /\ e.to = m.state /\ e.at = now
      /\ e.from = IF snaps[s] = None THEN None ELSE snaps[s].state
  BY <1>0, <1>2 DEF L!Audit
<1> HIDE DEF e
<1>4. L!TypeOK'
  BY <1>0, <1>1, <1>3 DEF L!TypeOK
<1>5. m # None
  BY RecordsAssumption DEF L!PublicationLifecycleAssumption
<1>6. \A i \in 1 .. Len(ledger) : ledger[i].at <= now
  BY DEF LifeInv
<1>7. \A i \in 1 .. Len(ledger') : ledger'[i].at <= now'
  BY <1>0, <1>1, <1>3, <1>6
<1>8. ASSUME NEW t \in Snapshot PROVE L!Tells(ledger', t, snaps'[t])
  <2>1. L!Tells(ledger, t, snaps[t])
    BY DEF LifeInv, L!LedgerReplays
  <2>2. CASE t = s
    <3>1. snaps'[t] = m
      BY <1>0, <1>1, <2>2
    <3>2. L!Tells(Append(ledger, e), s, m)
      BY <1>0, <1>2, <1>3, <1>5, <1>6, <2>1, <2>2, TellsOn
    <3> QED BY <1>1, <2>2, <3>1, <3>2
  <2>3. CASE t # s
    <3>1. snaps'[t] = snaps[t]
      BY <1>0, <1>1, <2>3
    <3> QED BY <1>0, <1>1, <1>3, <2>1, <2>3, <3>1, TellsOthers
  <2> QED BY <2>2, <2>3
<1>9. ASSUME NEW t \in Snapshot, snaps'[t] # None PROVE Fresh(snaps'[t])
  BY <1>0, <1>1, <1>9 DEF LifeInv
<1> QED BY <1>4, <1>7, <1>8, <1>9 DEF LifeInv, L!LedgerReplays

\* RegisterDraft starts a snapshot.
LEMMA RegisterDraftStep ==
    ASSUME LifeInv, NEW s \in Snapshot, NEW d \in Digest, L!RegisterDraft(s, d)
    PROVE  LifeInv'
<1> DEFINE m == [state |-> "DRAFT", digest |-> d, approval |-> None, from |-> 0,
                 expires |-> 0, publishedAt |-> 0, successor |-> None]
<1>1. m \in L!Managed /\ m.state = "DRAFT"
  BY DEF L!Managed, L!States
<1>2. snaps[s] = None /\ L!Move(s, m, "CREATOR")
  BY DEF L!RegisterDraft
<1> HIDE DEF m
<1>3. Fresh(m)
  BY <1>1 DEF Fresh
<1> QED BY <1>1, <1>2, <1>3, MoveStep

\* A managed snapshot with one field changed is one still.
LEMMA ManagedFields ==
    ASSUME NEW m \in L!Managed
    PROVE  /\ m.state \in L!States /\ m.digest \in Digest
           /\ m.approval \in L!ApprovalEvidence \cup {None}
           /\ m.from \in Nat /\ m.expires \in Nat /\ m.publishedAt \in Nat
           /\ \A x \in L!States : [m EXCEPT !.state = x] \in L!Managed
           /\ \A x \in L!ApprovalEvidence : [m EXCEPT !.approval = x] \in L!Managed
           /\ \A x \in L!Times : [m EXCEPT !.from = x] \in L!Managed
           /\ \A x \in L!Times : [m EXCEPT !.expires = x] \in L!Managed
           /\ \A x \in L!Times : [m EXCEPT !.publishedAt = x] \in L!Managed
           /\ \A x \in Snapshot : [m EXCEPT !.successor = x] \in L!Managed
  BY DEF L!Managed, L!Times

\* SubmitForReview and Withdraw leave the states that serve; so do Replace and Supersede.
LEMMA LeaveStep ==
    ASSUME LifeInv, NEW s \in Snapshot, NEW t \in Snapshot, NEW role \in Role,
           \/ L!SubmitForReview(s, role) \/ L!Withdraw(s, role)
           \/ L!Replace(s, t, role) \/ L!Supersede(s, t, role)
    PROVE  LifeInv'
<1>0. snaps[s] \in L!Managed /\ snaps[s] # None /\ snaps[s].state \notin Final
  BY DEF LifeInv, L!LedgerReplays, L!TypeOK, L!SubmitForReview, L!Withdraw, L!Replace,
     L!Supersede, L!In, L!Withdrawable, Final
<1>1. ASSUME NEW m \in L!Managed, m.state \notin {"APPROVED", "PUBLISHED"}, L!Move(s, m, role)
      PROVE  LifeInv'
  <2>1. Fresh(m)
    BY <1>1 DEF Fresh
  <2> QED BY <1>0, <1>1, <2>1, MoveStep
<1>2. CASE L!SubmitForReview(s, role)
  <2> DEFINE m == [snaps[s] EXCEPT !.state = "UNDER_REVIEW"]
  <2>1. m \in L!Managed /\ m.state = "UNDER_REVIEW"
    BY <1>0, ManagedFields DEF L!States, L!Managed
  <2>2. L!Move(s, m, role)
    BY <1>2 DEF L!SubmitForReview
  <2> HIDE DEF m
  <2> QED BY <1>1, <2>1, <2>2
<1>3. CASE L!Withdraw(s, role)
  <2> DEFINE m == [snaps[s] EXCEPT !.state = "WITHDRAWN"]
  <2>1. m \in L!Managed /\ m.state = "WITHDRAWN"
    BY <1>0, ManagedFields DEF L!States, L!Managed
  <2>2. L!Move(s, m, role)
    BY <1>3 DEF L!Withdraw
  <2> HIDE DEF m
  <2> QED BY <1>1, <2>1, <2>2
<1>4. ASSUME NEW x \in {"REPLACED", "SUPERSEDED"},
             L!Move(s, [snaps[s] EXCEPT !.state = x, !.successor = t], role)
      PROVE  LifeInv'
  <2> DEFINE n == [snaps[s] EXCEPT !.state = x]
             m == [n EXCEPT !.successor = t]
  <2>1. n \in L!Managed /\ n.state = x
    BY <1>0, ManagedFields DEF L!States, L!Managed
  <2>2. m = [snaps[s] EXCEPT !.state = x, !.successor = t]
    OBVIOUS
  <2> HIDE DEF n
  <2>3. m \in L!Managed /\ m.state = x
    BY <2>1, ManagedFields DEF L!Managed
  <2>4. L!Move(s, m, role)
    BY <1>4, <2>2
  <2> HIDE DEF m
  <2> QED BY <1>1, <2>3, <2>4
<1> QED BY <1>2, <1>3, <1>4 DEF L!Replace, L!Supersede

\* Approve records the evidence it has checked.
LEMMA ApproveStep ==
    ASSUME LifeInv, NEW s \in Snapshot, NEW a \in L!ApprovalEvidence, L!Approve(s, a)
    PROVE  LifeInv'
<1>0. snaps[s] \in L!Managed /\ snaps[s] # None /\ snaps[s].state = "UNDER_REVIEW"
  BY DEF LifeInv, L!LedgerReplays, L!TypeOK, L!Approve, L!In
<1> DEFINE n == [snaps[s] EXCEPT !.state = "APPROVED"]
           m == [n EXCEPT !.approval = a]
<1>1. n \in L!Managed /\ n.state = "APPROVED" /\ n.digest = snaps[s].digest
  BY <1>0, ManagedFields DEF L!States, L!Managed
<1>2. m = [snaps[s] EXCEPT !.state = "APPROVED", !.approval = a]
  OBVIOUS
<1> HIDE DEF n
<1>3. m \in L!Managed /\ m.state = "APPROVED" /\ m.digest = n.digest /\ m.approval = a
  BY <1>1, ManagedFields DEF L!Managed
<1>4. L!Move(s, m, a.role) /\ a.role \in AuthorizedRole /\ a.digest = snaps[s].digest
  BY <1>2 DEF L!Approve, L!Matches
<1> HIDE DEF m
<1>5. Fresh(m)
  BY <1>1, <1>3, <1>4 DEF Fresh
<1>6. a.role \in Role
  BY DEF L!ApprovalEvidence
<1> QED BY <1>0, <1>3, <1>4, <1>5, <1>6, MoveStep DEF Final

\* Publish checks the approval's age and the window at the time of the call.
LEMMA PublishStep ==
    ASSUME LifeInv, NEW s \in Snapshot, NEW role \in Role, NEW from \in L!Times,
           NEW expires \in L!Times, L!Publish(s, role, from, expires)
    PROVE  LifeInv'
<1>0. /\ snaps[s] \in L!Managed /\ snaps[s] # None /\ snaps[s].state = "APPROVED"
      /\ now \in L!Times /\ Fresh(snaps[s])
  BY DEF LifeInv, L!LedgerReplays, L!TypeOK, L!Publish, L!In
<1>1. now \in Nat /\ from \in Nat /\ expires \in Nat
  BY <1>0 DEF L!Times
<1> DEFINE o == snaps[s]
           b == [o EXCEPT !.state = "PUBLISHED"]
           c == [b EXCEPT !.from = from]
           d == [c EXCEPT !.expires = expires]
           m == [d EXCEPT !.publishedAt = now]
<1>2. m = [snaps[s] EXCEPT !.state = "PUBLISHED", !.from = from, !.expires = expires,
                           !.publishedAt = now]
  OBVIOUS
<1>3. L!Move(s, m, role)
  BY <1>2 DEF L!Publish
<1>4. /\ b \in L!Managed /\ b.state = "PUBLISHED" /\ b.digest = o.digest
      /\ b.approval = o.approval
  BY <1>0, ManagedFields DEF L!States, L!Managed
<1> HIDE DEF b
<1>5. /\ c \in L!Managed /\ c.state = "PUBLISHED" /\ c.digest = o.digest
      /\ c.approval = o.approval /\ c.from = from
  BY <1>4, ManagedFields DEF L!Managed
<1> HIDE DEF c
<1>6. /\ d \in L!Managed /\ d.state = "PUBLISHED" /\ d.digest = o.digest
      /\ d.approval = o.approval /\ d.from = from /\ d.expires = expires
  BY <1>5, ManagedFields DEF L!Managed
<1> HIDE DEF d
<1>7. /\ m \in L!Managed /\ m.state = "PUBLISHED" /\ m.digest = o.digest
      /\ m.approval = o.approval /\ m.from = from /\ m.expires = expires
      /\ m.publishedAt = now
  BY <1>0, <1>6, ManagedFields DEF L!Managed
<1> HIDE DEF m
<1>8. /\ o.approval \in L!ApprovalEvidence
      /\ o.approval.role \in AuthorizedRole /\ o.approval.digest = o.digest
  BY <1>0 DEF Fresh
<1>9. o.approval.approvedAt \in Nat /\ o.approval.maxAge \in Nat
  <2>1. \A x \in ApprovalAges : x \in Nat
    BY RecordsAssumption DEF L!PublicationLifecycleAssumption
  <2>2. ASSUME NEW a \in L!ApprovalEvidence PROVE a.approvedAt \in Nat /\ a.maxAge \in Nat
    <3>1. a.approvedAt \in 1 .. MaxDays /\ a.maxAge \in ApprovalAges
      BY DEF L!ApprovalEvidence, L!Times
    <3>2. a.approvedAt \in Nat
      BY <3>1
    <3> QED BY <2>1, <3>1, <3>2
  <2> QED BY <1>8, <2>2
<1>10. now <= o.approval.approvedAt + o.approval.maxAge
  BY <1>1, <1>9 DEF L!Publish, L!IsStale
<1>11. now < expires /\ expires - from <= MaxWindow
  BY <1>1 DEF L!Publish, L!ValidWindow, L!IsExpired
<1>12. Fresh(m)
  BY <1>7, <1>8, <1>10, <1>11 DEF Fresh
<1> QED BY <1>0, <1>3, <1>7, <1>12, MoveStep DEF Final

\* Every call, and the clock, keep the invariant.
LEMMA LifecycleStep == LifeInv /\ [L!Next]_(L!vars) => LifeInv'
<1> SUFFICES ASSUME LifeInv, [L!Next]_(L!vars) PROVE LifeInv'
  OBVIOUS
<1>1. CASE UNCHANGED L!vars
  BY <1>1 DEF L!vars, LifeInv, L!LedgerReplays, L!TypeOK
<1>2. CASE L!Tick
  <2>1. /\ snaps' = snaps /\ ledger' = ledger /\ now' = now + 1 /\ now < MaxDays
        /\ L!TypeOK
    BY <1>2 DEF L!Tick, LifeInv, L!LedgerReplays
  <2>2. L!TypeOK'
    BY <2>1, RecordsAssumption DEF L!TypeOK, L!Times, L!PublicationLifecycleAssumption
  <2>3. \A i \in 1 .. Len(ledger) : ledger[i].at <= now + 1
    <3> SUFFICES ASSUME NEW i \in 1 .. Len(ledger) PROVE ledger[i].at <= now + 1
      OBVIOUS
    <3>1. ledger[i] \in L!Audit
      BY <2>1 DEF L!TypeOK
    <3>2. ledger[i].at \in Nat /\ now \in Nat
      BY <2>1, <3>1 DEF L!Audit, L!Times, L!TypeOK
    <3>3. ledger[i].at <= now
      BY DEF LifeInv
    <3> QED BY <3>2, <3>3
  <2> QED BY <2>1, <2>2, <2>3 DEF LifeInv, L!LedgerReplays
<1>3. ASSUME NEW s \in Snapshot, NEW role \in Role, L!SubmitForReview(s, role) \/ L!Withdraw(s, role)
      PROVE  LifeInv'
  BY <1>3, LeaveStep
<1> QED BY <1>1, <1>2, <1>3, RegisterDraftStep, ApproveStep, PublishStep, LeaveStep DEF L!Next

\* What is served is published and in its window.
LEMMA LifeInvServes == LifeInv => L!LedgerReplays /\ L!ServedOnFreshApproval
<1> SUFFICES ASSUME LifeInv, NEW s \in Snapshot, snaps[s] # None, L!IsActive(snaps[s], now)
             PROVE  LET m == snaps[s] IN
                    /\ m.approval.role \in AuthorizedRole /\ m.approval.digest = m.digest
                    /\ m.publishedAt <= m.approval.approvedAt + m.approval.maxAge
                    /\ m.publishedAt < m.expires /\ m.from <= now /\ now < m.expires
                    /\ m.expires - m.from <= MaxWindow
  BY DEF LifeInv, L!ServedOnFreshApproval
<1>1. snaps[s] \in L!Managed /\ now \in L!Times /\ Fresh(snaps[s])
  BY DEF LifeInv, L!LedgerReplays, L!TypeOK
<1>2. snaps[s].from \in Nat /\ snaps[s].expires \in Nat /\ now \in Nat
  BY <1>1, ManagedFields DEF L!Times
<1>3. snaps[s].state = "PUBLISHED" /\ ~L!IsExpired(snaps[s].expires, now) /\ now >= snaps[s].from
  BY DEF L!IsActive, L!EffectiveState
<1> QED BY <1>1, <1>2, <1>3 DEF Fresh, L!IsExpired

\* For all snapshots, roles, windows and ages: the ledger reproduces every snapshot's
\* state, and what is served was freshly approved and is within its window.
THEOREM PublicationsFresh == L!Spec => [](L!LedgerReplays /\ L!ServedOnFreshApproval)
<1>1. L!Spec => []LifeInv
  BY LifecycleInitially, LifecycleStep, PTL DEF L!Spec
<1> QED BY <1>1, LifeInvServes, PTL

\* The property of the run records about GetActivePublishedSnapshot.
THEOREM ServedOnFreshApprovalHolds == Spec => []ServedOnFreshApproval
<1> DEFINE Inv == focus = "lifecycle" => LifeInv
<1>1. Init => Inv
  BY LifecycleInitially DEF Init
<1>2. Inv /\ [Next]_vars => Inv'
  <2> SUFFICES ASSUME Inv, [Next]_vars, focus' = "lifecycle" PROVE LifeInv'
    OBVIOUS
  <2>1. focus = "lifecycle" /\ [L!Next]_(L!vars)
    BY DEF Next, vars, Records, Integrity, Custody, Templates, Registry, Lifecycle, Store,
       lOnly, L!vars
  <2> QED BY <2>1, LifecycleStep
<1>3. Inv => ServedOnFreshApproval
  BY LifeInvServes DEF ServedOnFreshApproval
<1> QED BY <1>1, <1>2, <1>3, PTL DEF Spec

-----------------------------------------------------------------------------
\* SnapshotRegistry.  What was once seen PUBLISHED keeps its payload and signature: only a
\* draft is published, and a published version can only be superseded or withdrawn.

\* The versions q of snapshot s with a as the published one: numbered in order, all but
\* the last superseded, and each within its allowlist.
KeptVersions(s, q, a) ==
    /\ Len(q) <= MaxVersion /\ a \in {0, Len(q)}
    /\ \A v \in 1 .. Len(q) :
          /\ q[v].id = s /\ q[v].version = v
          /\ q[v].status = "PUBLISHED" <=> a = v
          /\ q[v].status = "SUPERSEDED" <=> v < Len(q)
          /\ q[v].payload \subseteq q[v].allowlist \ Prohibited

\* Copy e is a version of reg that has been published, as it was then.
ShownIn(e, reg) ==
    /\ e.id \in Snapshot /\ e.version \in 1 .. Len(reg[e.id])
    /\ LET v == reg[e.id][e.version] IN
       /\ e.payload = v.payload /\ e.signature = v.signature
       /\ v.status # "DRAFT" /\ (v.status # "WITHDRAWN" => e.reviewer = v.reviewer)

RegistryInv ==
    /\ P!TypeOK
    /\ \A s \in Snapshot : KeptVersions(s, registered[s], activePub[s])
    /\ held # None /\ held.status = "PUBLISHED" => ShownIn(held, registered)
    /\ \A i \in 1 .. Len(exports) : ShownIn(exports[i], registered)

\* What may become of a version: a draft is free; from then on its payload and signature
\* stay, and its reviewer until a withdrawal.
MayBecome(o, n) ==
    \/ o.status = "DRAFT"
    \/ /\ n.payload = o.payload /\ n.signature = o.signature /\ n.status # "DRAFT"
       /\ n.status = "WITHDRAWN" \/ (o.status # "WITHDRAWN" /\ n.reviewer = o.reviewer)

\* Nothing registered, held or exported.
LEMMA RegistryInitially == P!Init => RegistryInv
<1> SUFFICES ASSUME P!Init PROVE RegistryInv
  OBVIOUS
<1>1. MaxVersion \in Nat
  BY RecordsAssumption DEF P!SnapshotRegistryAssumption
<1>2. P!TypeOK
  BY <1>1 DEF P!Init, P!TypeOK
<1>3. \A s \in Snapshot : KeptVersions(s, registered[s], activePub[s])
  BY <1>1 DEF P!Init, KeptVersions
<1> QED BY <1>2, <1>3 DEF P!Init, RegistryInv

\* New versions of one snapshot, each become of the one before, leave the copies right.
LEMMA VersionsStep ==
    ASSUME RegistryInv, NEW s \in Snapshot, NEW q \in Seq(P!PublicationSnapshot), NEW a,
           KeptVersions(s, q, a), Len(registered[s]) <= Len(q),
           \A v \in 1 .. Len(registered[s]) : MayBecome(registered[s][v], q[v]),
           registered' = [registered EXCEPT ![s] = q],
           activePub' = [activePub EXCEPT ![s] = a], UNCHANGED <<held, exports>>
    PROVE  RegistryInv'
<1>0. P!TypeOK /\ MaxVersion \in Nat
  BY RecordsAssumption DEF RegistryInv, P!SnapshotRegistryAssumption
<1>1. a \in 0 .. MaxVersion /\ Len(q) <= MaxVersion
  BY <1>0 DEF KeptVersions
<1>2. P!TypeOK'
  BY <1>0, <1>1 DEF P!TypeOK
<1>3. \A t \in Snapshot : registered'[t] = IF t = s THEN q ELSE registered[t]
  BY <1>0 DEF P!TypeOK
<1>4. \A t \in Snapshot : activePub'[t] = IF t = s THEN a ELSE activePub[t]
  BY <1>0 DEF P!TypeOK
<1>5. \A t \in Snapshot : KeptVersions(t, registered'[t], activePub'[t])
  BY <1>3, <1>4 DEF RegistryInv
<1>6. ASSUME NEW e, ShownIn(e, registered) PROVE ShownIn(e, registered')
  <2>1. CASE e.id = s
    <3>1. e.version \in 1 .. Len(registered[s]) /\ Len(registered[s]) \in Nat
      BY <1>0, <1>6, <2>1 DEF ShownIn, P!TypeOK
    <3>2. e.version \in 1 .. Len(q) /\ registered'[e.id] = q
      BY <1>3, <2>1, <3>1
    <3>3. MayBecome(registered[s][e.version], q[e.version])
      BY <3>1
    <3> QED BY <1>6, <2>1, <3>2, <3>3 DEF ShownIn, MayBecome
  <2>2. CASE e.id # s
    BY <1>3, <1>6, <2>2 DEF ShownIn
  <2> QED BY <2>1, <2>2
<1>7. held' # None /\ held'.status = "PUBLISHED" => ShownIn(held', registered')
  BY <1>6 DEF RegistryInv
<1>8. \A i \in 1 .. Len(exports') : ShownIn(exports'[i], registered')
  BY <1>6 DEF RegistryInv
<1> QED BY <1>2, <1>5, <1>7, <1>8 DEF RegistryInv

\* The contexts callers pass are contexts; a withdrawal's is one, too.
LEMMA ContextsGiven ==
    ASSUME NEW ctx \in P!GivenContext
    PROVE  /\ ctx \in P!Context
           /\ ctx.hash \in (Subject \X {"APPROVED_FOR_PUBLICATION", "REJECTED"}) \cup {None}
           /\ [ctx EXCEPT !.status = "WITHDRAWN"] \in P!Context
<1>1. CASE ctx = [subject |-> None, status |-> "APPROVED_FOR_PUBLICATION", hash |-> None]
  BY <1>1 DEF P!Context
<1>2. ASSUME NEW p \in Subject, NEW st \in {"APPROVED_FOR_PUBLICATION", "REJECTED"},
             ctx = [subject |-> p, status |-> st, hash |-> <<p, st>>]
      PROVE  /\ ctx \in P!Context
             /\ ctx.hash \in (Subject \X {"APPROVED_FOR_PUBLICATION", "REJECTED"}) \cup {None}
             /\ [ctx EXCEPT !.status = "WITHDRAWN"] \in P!Context
  <2>1. /\ <<p, st>> \in Subject \X {"APPROVED_FOR_PUBLICATION", "REJECTED"}
        /\ <<p, st>> \in Subject \X {"PENDING_REVIEW", "APPROVED_FOR_PUBLICATION", "REJECTED"}
    OBVIOUS
  <2> DEFINE hash == <<p, st>>
  <2> HIDE DEF hash
  <2>2. ctx = [subject |-> p, status |-> st, hash |-> hash]
    BY <1>2 DEF hash
  <2> QED BY <2>1, <2>2 DEF P!Context, hash
<1> QED BY <1>1, <1>2 DEF P!GivenContext

\* RedactPayload keeps within the allowlist what Acceptable lets through.
LEMMA RedactedWithin ==
    ASSUME NEW raw \in SUBSET Field, NEW allow \in Allowlist, NEW strict,
           P!Acceptable(raw, allow, strict)
    PROVE  /\ P!RedactPayload(raw, allow) \subseteq allow \ Prohibited
           /\ P!RedactPayload(raw, allow) \in SUBSET Field
  BY DEF P!Acceptable, P!RedactPayload

\* A version as it is first made.
LEMMA VersionMade ==
    ASSUME NEW s \in Snapshot, NEW n \in 1 .. MaxVersion,
           NEW st \in {"DRAFT", "PUBLISHED"}, NEW allow \in Allowlist,
           NEW payload \in SUBSET Field, NEW ctx \in P!Context,
           NEW hash \in (Subject \X {"APPROVED_FOR_PUBLICATION", "REJECTED"}) \cup {None}
    PROVE  [id |-> s, version |-> n, status |-> st, allowlist |-> allow,
            payload |-> payload, payloadDigest |-> payload, reviewer |-> ctx,
            signature |-> P!ComputeSignatureDigest(s, n, payload, hash)]
              \in P!PublicationSnapshot
<1> DEFINE sig == P!ComputeSignatureDigest(s, n, payload, hash)
<1>1. sig \in Snapshot \X (1 .. MaxVersion) \X (SUBSET Field)
                 \X ((Subject \X {"APPROVED_FOR_PUBLICATION", "REJECTED"}) \cup {None})
  BY DEF P!ComputeSignatureDigest
<1> HIDE DEF sig
<1> QED BY <1>1 DEF P!PublicationSnapshot, sig

\* RegisterDraft starts a snapshot that has no versions.
LEMMA DraftRegistered ==
    ASSUME RegistryInv, NEW s \in Snapshot, NEW raw \in SUBSET Field, NEW allow \in Allowlist,
           NEW strict \in BOOLEAN, P!RegisterDraft(s, raw, allow, strict)
    PROVE  RegistryInv'
<1>0. P!TypeOK /\ MaxVersion \in Nat /\ MaxVersion >= 1
  BY RecordsAssumption DEF RegistryInv, P!SnapshotRegistryAssumption
<1> DEFINE payload == P!RedactPayload(raw, allow)
           ctx == [subject |-> None, status |-> "PENDING_REVIEW", hash |-> None]
           rec == [id |-> s, version |-> 1, status |-> "DRAFT", allowlist |-> allow,
                   payload |-> payload, payloadDigest |-> payload, reviewer |-> ctx,
                   signature |-> P!ComputeSignatureDigest(s, 1, payload, None)]
<1>1. /\ Len(registered[s]) = 0 /\ P!Acceptable(raw, allow, strict)
      /\ registered' = [registered EXCEPT ![s] = <<rec>>]
      /\ UNCHANGED <<activePub, held, exports>>
  BY DEF P!RegisterDraft, P!Latest
<1>2. ctx \in P!Context
  BY DEF P!Context
<1>3. payload \subseteq allow \ Prohibited /\ payload \in SUBSET Field
  BY <1>1, RedactedWithin
<1>4. rec.id = s /\ rec.version = 1 /\ rec.status = "DRAFT" /\ rec.allowlist = allow
      /\ rec.payload = payload
  OBVIOUS
<1> HIDE DEF payload, ctx
<1>5. rec \in P!PublicationSnapshot
  BY <1>0, <1>2, <1>3, VersionMade
<1> HIDE DEF rec
<1>6. <<rec>> \in Seq(P!PublicationSnapshot) /\ Len(<<rec>>) = 1 /\ <<rec>>[1] = rec
  BY <1>5
<1>7. activePub[s] = 0
  BY <1>1 DEF RegistryInv, KeptVersions
<1>8. KeptVersions(s, <<rec>>, 0)
  BY <1>0, <1>3, <1>4, <1>6 DEF KeptVersions
<1>9. activePub' = [activePub EXCEPT ![s] = 0]
  BY <1>0, <1>1, <1>7 DEF P!TypeOK
<1> DEFINE q == <<rec>>
<1>10. q \in Seq(P!PublicationSnapshot) /\ KeptVersions(s, q, 0) /\ Len(registered[s]) <= Len(q)
       /\ \A v \in 1 .. Len(registered[s]) : MayBecome(registered[s][v], q[v])
  BY <1>1, <1>6, <1>8
<1> HIDE DEF q
<1>11. registered' = [registered EXCEPT ![s] = q]
  BY <1>1 DEF q
<1> QED BY <1>1, <1>9, <1>10, <1>11, VersionsStep

\* The last version of a snapshot is the only one that moves; what it is.
LEMMA LastVersion ==
    ASSUME RegistryInv, NEW s \in Snapshot, Len(registered[s]) > 0
    PROVE  LET n == Len(registered[s]) IN
           /\ n \in 1 .. MaxVersion /\ n \in 1 .. Len(registered[s])
           /\ registered[s] \in Seq(P!PublicationSnapshot)
           /\ registered[s][n] \in P!PublicationSnapshot
           /\ registered[s][n].id = s /\ registered[s][n].version = n
           /\ registered[s][n].status # "SUPERSEDED"
           /\ registered[s][n].payload \subseteq registered[s][n].allowlist \ Prohibited
           /\ registered[s][n].status = "PUBLISHED" <=> activePub[s] = n
<1>0. P!TypeOK /\ MaxVersion \in Nat /\ KeptVersions(s, registered[s], activePub[s])
  BY RecordsAssumption DEF RegistryInv, P!SnapshotRegistryAssumption
<1>1. registered[s] \in Seq(P!PublicationSnapshot) /\ Len(registered[s]) \in Nat
  BY <1>0 DEF P!TypeOK
<1>2. Len(registered[s]) \in 1 .. Len(registered[s])
  BY <1>1
<1>3. registered[s][Len(registered[s])] \in P!PublicationSnapshot
  BY <1>1, <1>2
<1> QED BY <1>0, <1>1, <1>2, <1>3 DEF KeptVersions

\* The last version changes within its allowlist, to a status that is not SUPERSEDED.
LEMMA LastChanged ==
    ASSUME RegistryInv, NEW s \in Snapshot, Len(registered[s]) > 0,
           NEW r \in P!PublicationSnapshot,
           MayBecome(registered[s][Len(registered[s])], r),
           r.id = s, r.version = Len(registered[s]), r.status \in {"PUBLISHED", "WITHDRAWN"},
           r.payload = registered[s][Len(registered[s])].payload,
           r.allowlist = registered[s][Len(registered[s])].allowlist,
           registered' = [registered EXCEPT ![s] = [registered[s] EXCEPT ![Len(registered[s])] = r]],
           activePub' = [activePub EXCEPT
                           ![s] = IF r.status = "PUBLISHED" THEN Len(registered[s]) ELSE 0],
           UNCHANGED <<held, exports>>
    PROVE  RegistryInv'
<1> DEFINE n == Len(registered[s])
           q == [registered[s] EXCEPT ![n] = r]
           a == IF r.status = "PUBLISHED" THEN n ELSE 0
<1>0. /\ n \in 1 .. MaxVersion /\ n \in 1 .. Len(registered[s])
      /\ registered[s] \in Seq(P!PublicationSnapshot)
      /\ registered[s][n].payload \subseteq registered[s][n].allowlist \ Prohibited
      /\ KeptVersions(s, registered[s], activePub[s])
  BY LastVersion DEF RegistryInv
<1>1. /\ q \in Seq(P!PublicationSnapshot) /\ Len(q) = n
      /\ \A v \in 1 .. n : q[v] = IF v = n THEN r ELSE registered[s][v]
  BY <1>0
<1>2. registered' = [registered EXCEPT ![s] = q] /\ activePub' = [activePub EXCEPT ![s] = a]
  OBVIOUS
<1>3. a \in {0, n} /\ (r.status = "PUBLISHED" <=> a = n) /\ n \in Nat /\ n > 0 /\ n <= MaxVersion
  BY <1>0
<1> HIDE DEF q, a
<1>4. ASSUME NEW v \in 1 .. n
      PROVE  /\ q[v].id = s /\ q[v].version = v
             /\ q[v].status = "PUBLISHED" <=> a = v
             /\ q[v].status = "SUPERSEDED" <=> v < n
             /\ q[v].payload \subseteq q[v].allowlist \ Prohibited
  <2>1. CASE v = n
    BY <1>0, <1>1, <1>3, <2>1
  <2>2. CASE v # n
    <3>1. q[v] = registered[s][v] /\ v < n /\ a # v
      BY <1>1, <1>3, <2>2
    <3>2. /\ registered[s][v].id = s /\ registered[s][v].version = v
          /\ registered[s][v].status = "SUPERSEDED"
          /\ registered[s][v].payload \subseteq registered[s][v].allowlist \ Prohibited
      BY <1>0, <3>1 DEF KeptVersions
    <3> QED BY <3>1, <3>2
  <2> QED BY <2>1, <2>2
<1>5. KeptVersions(s, q, a)
  BY <1>1, <1>3, <1>4 DEF KeptVersions
<1>6. \A v \in 1 .. Len(registered[s]) : MayBecome(registered[s][v], q[v])
  <2> SUFFICES ASSUME NEW v \in 1 .. Len(registered[s])
               PROVE  MayBecome(registered[s][v], q[v])
    OBVIOUS
  <2>1. CASE v = n
    BY <1>1, <2>1
  <2>2. CASE v # n
    <3>1. q[v] = registered[s][v] /\ v < n
      BY <1>1, <1>3, <2>2
    <3>2. registered[s][v].status = "SUPERSEDED"
      BY <1>0, <3>1 DEF KeptVersions
    <3> QED BY <3>1, <3>2 DEF MayBecome
  <2> QED BY <2>1, <2>2
<1>7. Len(registered[s]) <= Len(q)
  BY <1>1, <1>3
<1> QED BY <1>1, <1>2, <1>5, <1>6, <1>7, VersionsStep

\* PublishSnapshot: the last version is a draft, neither superseded, published nor
\* withdrawn, so no copy of it has been exported.
LEMMA SnapshotPublished ==
    ASSUME RegistryInv, NEW s \in Snapshot, NEW ctx \in P!GivenContext, P!PublishSnapshot(s, ctx)
    PROVE  RegistryInv'
<1> DEFINE n == Len(registered[s])
           o == registered[s][n]
           sig == P!ComputeSignatureDigest(s, n, o.payloadDigest, ctx.hash)
           b == [o EXCEPT !.status = "PUBLISHED"]
           c == [b EXCEPT !.reviewer = ctx]
           r == [c EXCEPT !.signature = sig]
<1>1. n > 0 /\ o.status \notin {"PUBLISHED", "WITHDRAWN"}
  BY DEF P!PublishSnapshot, P!Latest
<1>2. /\ n \in 1 .. MaxVersion /\ n \in 1 .. Len(registered[s])
      /\ registered[s] \in Seq(P!PublicationSnapshot) /\ o \in P!PublicationSnapshot
      /\ o.id = s /\ o.version = n /\ o.status # "SUPERSEDED"
  BY <1>1, LastVersion
<1>3. o.status = "DRAFT" /\ o.payloadDigest \in SUBSET Field
  BY <1>1, <1>2 DEF P!PublicationSnapshot
<1>4. /\ registered' = [registered EXCEPT ![s] = [registered[s] EXCEPT ![n] = r]]
      /\ activePub' = [activePub EXCEPT ![s] = n] /\ UNCHANGED <<held, exports>>
  <2>1. registered \in [Snapshot -> Seq(P!PublicationSnapshot)]
    BY DEF RegistryInv, P!TypeOK
  <2> QED BY <1>2, <2>1 DEF P!PublishSnapshot, P!Latest
<1>5. sig \in Snapshot \X (1 .. MaxVersion) \X (SUBSET Field)
                 \X ((Subject \X {"APPROVED_FOR_PUBLICATION", "REJECTED"}) \cup {None})
  BY <1>2, <1>3, ContextsGiven DEF P!ComputeSignatureDigest
<1> HIDE DEF sig, o
<1>6. /\ b \in P!PublicationSnapshot /\ b.status = "PUBLISHED" /\ b.id = o.id
      /\ b.version = o.version /\ b.payload = o.payload /\ b.allowlist = o.allowlist
  BY <1>2 DEF P!PublicationSnapshot
<1> HIDE DEF b
<1>7. ctx \in P!Context
  BY ContextsGiven
<1>8. /\ c \in P!PublicationSnapshot /\ c.status = "PUBLISHED" /\ c.id = o.id
      /\ c.version = o.version /\ c.payload = o.payload /\ c.allowlist = o.allowlist
  BY <1>6, <1>7 DEF P!PublicationSnapshot
<1> HIDE DEF c
<1>9. /\ r \in P!PublicationSnapshot /\ r.status = "PUBLISHED" /\ r.id = o.id
      /\ r.version = o.version /\ r.payload = o.payload /\ r.allowlist = o.allowlist
  BY <1>5, <1>8 DEF P!PublicationSnapshot
<1> HIDE DEF r
<1>10. MayBecome(o, r)
  BY <1>3 DEF MayBecome
<1> QED BY <1>1, <1>2, <1>4, <1>9, <1>10, LastChanged DEF o

\* WithdrawSnapshot replaces the reviewer and keeps payload and signature.
LEMMA SnapshotWithdrawn ==
    ASSUME RegistryInv, NEW s \in Snapshot, NEW ctx \in P!GivenContext, P!WithdrawSnapshot(s, ctx)
    PROVE  RegistryInv'
<1> DEFINE n == Len(registered[s])
           o == registered[s][n]
           given == [ctx EXCEPT !.status = "WITHDRAWN"]
           b == [o EXCEPT !.status = "WITHDRAWN"]
           r == [b EXCEPT !.reviewer = given]
<1>1. n > 0
  BY DEF P!WithdrawSnapshot, P!Latest
<1>2. /\ n \in 1 .. MaxVersion /\ n \in 1 .. Len(registered[s])
      /\ registered[s] \in Seq(P!PublicationSnapshot) /\ o \in P!PublicationSnapshot
      /\ o.id = s /\ o.version = n
  BY <1>1, LastVersion
<1>3. given \in P!Context
  BY ContextsGiven
<1>4. /\ registered' = [registered EXCEPT ![s] = [registered[s] EXCEPT ![n] = r]]
      /\ activePub' = [activePub EXCEPT ![s] = 0] /\ UNCHANGED <<held, exports>>
  <2>1. registered \in [Snapshot -> Seq(P!PublicationSnapshot)]
    BY DEF RegistryInv, P!TypeOK
  <2> QED BY <1>2, <2>1 DEF P!WithdrawSnapshot, P!Latest, P!Deactivated
<1> HIDE DEF given, o
<1>5. /\ b \in P!PublicationSnapshot /\ b.status = "WITHDRAWN" /\ b.id = o.id
      /\ b.version = o.version /\ b.payload = o.payload /\ b.allowlist = o.allowlist
      /\ b.signature = o.signature
  BY <1>2 DEF P!PublicationSnapshot
<1> HIDE DEF b
<1>6. /\ r \in P!PublicationSnapshot /\ r.status = "WITHDRAWN" /\ r.id = o.id
      /\ r.version = o.version /\ r.payload = o.payload /\ r.allowlist = o.allowlist
      /\ r.signature = o.signature
  BY <1>3, <1>5 DEF P!PublicationSnapshot
<1> HIDE DEF r
<1>7. MayBecome(o, r)
  BY <1>6 DEF MayBecome
<1> QED BY <1>1, <1>2, <1>4, <1>6, <1>7, LastChanged DEF o

\* CreateNewVersion supersedes the published version and publishes the next one.
LEMMA VersionCreated ==
    ASSUME RegistryInv, NEW s \in Snapshot, NEW raw \in SUBSET Field, NEW allow \in Allowlist,
           NEW strict \in BOOLEAN, NEW ctx \in P!GivenContext,
           P!CreateNewVersion(s, raw, allow, strict, ctx)
    PROVE  RegistryInv'
<1> DEFINE n == Len(registered[s])
           o == registered[s][n]
           payload == P!RedactPayload(raw, allow)
           r == P!Superseded(o)
           p == [registered[s] EXCEPT ![n] = r]
           rec == [id |-> s, version |-> n + 1, status |-> "PUBLISHED", allowlist |-> allow,
                   payload |-> payload, payloadDigest |-> payload, reviewer |-> ctx,
                   signature |-> P!ComputeSignatureDigest(s, n + 1, payload, ctx.hash)]
           q == Append(p, rec)
<1>0. MaxVersion \in Nat
  BY RecordsAssumption DEF P!SnapshotRegistryAssumption
<1>1. /\ n > 0 /\ n < MaxVersion /\ o.status = "PUBLISHED" /\ P!Acceptable(raw, allow, strict)
      /\ registered' = [registered EXCEPT ![s] = q]
      /\ activePub' = [activePub EXCEPT ![s] = n + 1] /\ UNCHANGED <<held, exports>>
  <2>1. /\ n > 0 /\ n < MaxVersion /\ o.status = "PUBLISHED" /\ P!Acceptable(raw, allow, strict)
        /\ activePub' = [activePub EXCEPT ![s] = n + 1] /\ UNCHANGED <<held, exports>>
    BY DEF P!CreateNewVersion, P!Latest, P!Ended
  <2>2. registered' = [registered EXCEPT ![s] = q]
    BY DEF P!CreateNewVersion, P!Latest, P!Ended
  <2> QED BY <2>1, <2>2
<1>2. /\ n \in 1 .. MaxVersion /\ n \in 1 .. Len(registered[s])
      /\ registered[s] \in Seq(P!PublicationSnapshot) /\ o \in P!PublicationSnapshot
      /\ o.id = s /\ o.version = n /\ o.payload \subseteq o.allowlist \ Prohibited
      /\ KeptVersions(s, registered[s], activePub[s])
  BY <1>1, LastVersion DEF RegistryInv
<1>3. payload \subseteq allow \ Prohibited /\ payload \in SUBSET Field
  BY <1>1, RedactedWithin
<1>4. rec.id = s /\ rec.version = n + 1 /\ rec.status = "PUBLISHED" /\ rec.allowlist = allow
      /\ rec.payload = payload
  OBVIOUS
<1>5. n + 1 \in 1 .. MaxVersion /\ n \in Nat
  BY <1>0, <1>1, <1>2
<1> HIDE DEF payload, o
<1>6. rec \in P!PublicationSnapshot
  BY <1>3, <1>5, ContextsGiven, VersionMade
<1>7. /\ r \in P!PublicationSnapshot /\ r.status = "SUPERSEDED" /\ r.id = o.id
      /\ r.version = o.version /\ r.payload = o.payload /\ r.allowlist = o.allowlist
      /\ r.signature = o.signature /\ r.reviewer = o.reviewer
  BY <1>2 DEF P!PublicationSnapshot, P!Superseded
<1> HIDE DEF rec, r
<1>8. /\ p \in Seq(P!PublicationSnapshot) /\ Len(p) = n
      /\ \A v \in 1 .. n : p[v] = IF v = n THEN r ELSE registered[s][v]
  BY <1>2, <1>7
<1> HIDE DEF p
<1>9. /\ q \in Seq(P!PublicationSnapshot) /\ Len(q) = n + 1 /\ q[n + 1] = rec
      /\ \A v \in 1 .. n : q[v] = p[v]
  BY <1>5, <1>6, <1>8
<1> HIDE DEF q
<1>10. ASSUME NEW v \in 1 .. n + 1
       PROVE  /\ q[v].id = s /\ q[v].version = v
              /\ q[v].status = "PUBLISHED" <=> n + 1 = v
              /\ q[v].status = "SUPERSEDED" <=> v < n + 1
              /\ q[v].payload \subseteq q[v].allowlist \ Prohibited
  <2>1. CASE v = n + 1
    BY <1>3, <1>4, <1>5, <1>9, <2>1
  <2>2. CASE v = n
    <3>1. q[v] = r /\ v < n + 1
      BY <1>2, <1>5, <1>8, <1>9, <2>2
    <3> QED BY <1>2, <1>7, <2>2, <3>1
  <2>3. CASE v \in 1 .. n /\ v # n
    <3>1. q[v] = registered[s][v] /\ v < n /\ v < n + 1 /\ v # n + 1
      BY <1>5, <1>8, <1>9, <2>3
    <3>2. /\ registered[s][v].id = s /\ registered[s][v].version = v
          /\ registered[s][v].status = "SUPERSEDED"
          /\ registered[s][v].payload \subseteq registered[s][v].allowlist \ Prohibited
      BY <1>2, <2>3, <3>1 DEF KeptVersions
    <3> QED BY <3>1, <3>2
  <2>4. v = n + 1 \/ v = n \/ (v \in 1 .. n /\ v # n)
    BY <1>5
  <2> QED BY <2>1, <2>2, <2>3, <2>4
<1>11. KeptVersions(s, q, n + 1)
  BY <1>5, <1>9, <1>10 DEF KeptVersions
<1>12. \A v \in 1 .. Len(registered[s]) : MayBecome(registered[s][v], q[v])
  <2> SUFFICES ASSUME NEW v \in 1 .. Len(registered[s])
               PROVE  MayBecome(registered[s][v], q[v])
    OBVIOUS
  <2>1. CASE v = n
    <3>1. q[v] = r /\ registered[s][v] = o
      BY <1>8, <1>9, <2>1 DEF o
    <3> QED BY <1>1, <1>7, <3>1 DEF MayBecome
  <2>2. CASE v # n
    <3>1. q[v] = registered[s][v] /\ v < n
      BY <1>5, <1>8, <1>9, <2>2
    <3>2. registered[s][v].status = "SUPERSEDED"
      BY <1>2, <3>1 DEF KeptVersions
    <3> QED BY <3>1, <3>2 DEF MayBecome
  <2> QED BY <2>1, <2>2
<1>13. Len(registered[s]) <= Len(q)
  BY <1>5, <1>9
<1> QED BY <1>1, <1>9, <1>11, <1>12, <1>13, VersionsStep

\* GetSnapshot hands out a version as it is; published, it is the published one.
LEMMA SnapshotGot ==
    ASSUME RegistryInv, NEW s \in Snapshot, P!GetSnapshot(s)
    PROVE  RegistryInv'
<1>0. P!TypeOK /\ KeptVersions(s, registered[s], activePub[s]) /\ Len(registered[s]) > 0
  BY DEF RegistryInv, P!GetSnapshot, P!Latest
<1>1. registered[s] \in Seq(P!PublicationSnapshot) /\ Len(registered[s]) \in Nat
  BY <1>0 DEF P!TypeOK
<1>2. PICK v \in 1 .. Len(registered[s]) : held' = registered[s][v]
  BY <1>0, <1>1 DEF P!GetSnapshot, P!Latest, KeptVersions
<1>3. held' \in P!PublicationSnapshot
  BY <1>1, <1>2
<1>4. UNCHANGED <<registered, activePub, exports>>
  BY DEF P!GetSnapshot
<1>5. P!TypeOK'
  BY <1>0, <1>3, <1>4 DEF P!TypeOK
<1>6. held'.id = s /\ held'.version = v
  BY <1>0, <1>2 DEF KeptVersions
<1>7. held'.status = "PUBLISHED" => ShownIn(held', registered')
  BY <1>2, <1>4, <1>6 DEF ShownIn
<1> QED BY <1>4, <1>5, <1>7 DEF RegistryInv

\* NewExportPackage takes the copy only while it says PUBLISHED.
LEMMA PackageExported ==
    ASSUME RegistryInv, P!NewExportPackage
    PROVE  RegistryInv'
<1>0. /\ P!TypeOK /\ held # None /\ held.status = "PUBLISHED"
      /\ exports' = Append(exports, held) /\ UNCHANGED <<registered, activePub, held>>
  BY DEF RegistryInv, P!NewExportPackage, P!Exportable
<1>1. held \in P!PublicationSnapshot /\ ShownIn(held, registered)
      /\ exports \in Seq(P!PublicationSnapshot)
  BY <1>0 DEF P!TypeOK, RegistryInv
<1>2. P!TypeOK'
  BY <1>0, <1>1 DEF P!TypeOK
<1>3. \A i \in 1 .. Len(exports') : ShownIn(exports'[i], registered)
  <2> SUFFICES ASSUME NEW i \in 1 .. Len(exports') PROVE ShownIn(exports'[i], registered)
    OBVIOUS
  <2>1. CASE i = Len(exports) + 1
    BY <1>0, <1>1, <2>1
  <2>2. CASE i # Len(exports) + 1
    <3>1. i \in 1 .. Len(exports) /\ exports'[i] = exports[i]
      BY <1>0, <1>1, <2>2
    <3> QED BY <3>1 DEF RegistryInv
  <2> QED BY <2>1, <2>2
<1> QED BY <1>0, <1>2, <1>3 DEF RegistryInv

\* Every method of the registry, and every export, keeps the invariant.
LEMMA RegistryStep == RegistryInv /\ [P!Next]_(P!vars) => RegistryInv'
<1> SUFFICES ASSUME RegistryInv, [P!Next]_(P!vars) PROVE RegistryInv'
  OBVIOUS
<1>1. CASE UNCHANGED P!vars
  BY <1>1 DEF P!vars, RegistryInv, P!TypeOK
<1> QED BY <1>1, DraftRegistered, VersionCreated, SnapshotPublished, SnapshotWithdrawn,
           SnapshotGot, PackageExported DEF P!Next

\* What the run checks follows.
LEMMA RegistryInvExports == RegistryInv => P!OnePublished /\ P!ExportedWasPublished
<1> SUFFICES ASSUME RegistryInv PROVE P!OnePublished /\ P!ExportedWasPublished
  OBVIOUS
<1>0. P!TypeOK /\ \A s \in Snapshot : KeptVersions(s, registered[s], activePub[s])
  BY DEF RegistryInv
<1>1. \A s \in Snapshot : registered[s] \in Seq(P!PublicationSnapshot)
                          /\ DOMAIN registered[s] = 1 .. Len(registered[s])
  BY <1>0 DEF P!TypeOK
<1>2. P!OnePublished
  BY <1>0, <1>1 DEF P!OnePublished, P!Latest, KeptVersions
<1>3. ASSUME NEW i \in DOMAIN exports
      PROVE  LET e == exports[i]
                 v == registered[e.id][e.version]
             IN  /\ e.version <= P!Latest(e.id)
                 /\ e.payload = v.payload /\ e.signature = v.signature
                 /\ v.status # "DRAFT" /\ (v.status # "WITHDRAWN" => e.reviewer = v.reviewer)
  <2>1. i \in 1 .. Len(exports)
    BY <1>0 DEF P!TypeOK
  <2>2. ShownIn(exports[i], registered)
    BY <2>1 DEF RegistryInv
  <2>3. exports[i].version <= Len(registered[exports[i].id])
    BY <1>1, <2>2 DEF ShownIn
  <2> QED BY <2>2, <2>3 DEF ShownIn, P!Latest
<1> QED BY <1>2, <1>3 DEF P!ExportedWasPublished

\* For all snapshots, fields, allowlists and reviewers: one version at most is published,
\* and what was exported was published in that form.
THEOREM ExportsAsPublished == P!Spec => [](P!OnePublished /\ P!ExportedWasPublished)
<1>1. P!Spec => []RegistryInv
  BY RegistryInitially, RegistryStep, PTL DEF P!Spec
<1> QED BY <1>1, RegistryInvExports, PTL

\* The property of the run records about NewExportPackage.
THEOREM ExportedWasPublishedHolds == Spec => []ExportedWasPublished
<1> DEFINE Inv == focus = "registry" => RegistryInv
<1>1. Init => Inv
  BY RegistryInitially DEF Init
<1>2. Inv /\ [Next]_vars => Inv'
  <2> SUFFICES ASSUME Inv, [Next]_vars, focus' = "registry" PROVE RegistryInv'
    OBVIOUS
  <2>1. focus = "registry" /\ [P!Next]_(P!vars)
    BY DEF Next, vars, Records, Integrity, Custody, Templates, Registry, Lifecycle, Store,
       pOnly, P!vars
  <2> QED BY <2>1, RegistryStep
<1>3. Inv => ExportedWasPublished
  BY RegistryInvExports DEF ExportedWasPublished
<1> QED BY <1>1, <1>2, <1>3, PTL DEF Spec

-----------------------------------------------------------------------------
\* RecordStore.  An active hold is in the index of its record, and a backup is as good as
\* the store it was made of: restored over whatever happened since, it brings back records,
\* snapshots and journal that account for one another.

\* Record rec of r is accounted for, and its newest snapshot is of its version.
RecordOK(log, r, rec, s) ==
    /\ R!Accounts(log, r, rec, s)
    /\ rec.state # None => Len(s) > 0 /\ s[Len(s)].version = rec.version

RecordsOK(log, recs, copies) == \A r \in Record : RecordOK(log, r, recs[r], copies[r])

StoreInv ==
    /\ R!TypeOK
    /\ RecordsOK(auditLog, records, snapshots)
    /\ archive # None => RecordsOK(archive.auditLog, archive.records, archive.snapshots)
    /\ \A h \in Hold, r \in Record :
          legalHolds[h].record = r /\ legalHolds[h].active => h \in recordHolds[r]

\* The fields of what is kept.
LEMMA BackupFields ==
    ASSUME NEW a, NEW b, NEW c, NEW d, NEW e
    PROVE  [records |-> a, snapshots |-> b, auditLog |-> c, policy |-> d, legalHolds |-> e]
              \in R!BackupArchive
           <=> /\ a \in [Record -> R!DeclaredRecord \cup {R!NoRecord}]
               /\ b \in [Record -> Seq(R!RecordSnapshot)] /\ c \in Seq(R!AuditEntry)
               /\ d \in Period \cup {None} /\ e \in [Hold -> R!LegalHold \cup {R!NoHold}]
  BY DEF R!BackupArchive

\* What TypeOK says of each variable.
LEMMA StoreTypes ==
    R!TypeOK <=>
       /\ records \in [Record -> R!DeclaredRecord \cup {R!NoRecord}]
       /\ snapshots \in [Record -> Seq(R!RecordSnapshot)] /\ auditLog \in Seq(R!AuditEntry)
       /\ policy \in Period \cup {None} /\ legalHolds \in [Hold -> R!LegalHold \cup {R!NoHold}]
       /\ archive \in R!BackupArchive \cup {None}
       /\ recordHolds \in [Record -> SUBSET Hold]
       /\ seqCounter \in Nat /\ now \in 1 .. MaxTime
  BY BackupFields DEF R!TypeOK, R!Kept

\* Counting the versions in the journal.
LEMMA VersionsCounted ==
    ASSUME NEW log, NEW r, NEW i \in Nat
    PROVE  /\ IsFiniteSet(R!Versions(log, r, i))
           /\ R!Cardinality(R!Versions(log, r, i)) = Cardinality(R!Versions(log, r, i))
           /\ R!Cardinality(R!Versions(log, r, i)) \in Nat
           /\ R!Cardinality(R!Versions(log, r, i)) = 0 <=> R!Versions(log, r, i) = {}
<1>1. IsFiniteSet(1 .. i) /\ R!Versions(log, r, i) \subseteq 1 .. i
  BY FS_Interval DEF R!Versions, R!Trail
<1>2. IsFiniteSet(R!Versions(log, r, i))
  BY <1>1, FS_Subset
<1>3. \A X : R!Cardinality(X) = Cardinality(X)
  BY DEF R!Cardinality, Cardinality
<1> QED BY <1>2, <1>3, FS_CardinalityType, FS_EmptySet

\* What an entry adds to a record's trail and to its versions.
LEMMA EntryBehind ==
    ASSUME NEW log \in Seq(R!AuditEntry), NEW e \in R!AuditEntry, NEW r
    PROVE  LET n == Len(log)
               longer == Append(log, e)
           IN  /\ longer \in Seq(R!AuditEntry) /\ n \in Nat /\ Len(longer) = n + 1
               /\ longer[n + 1] = e /\ \A i \in 1 .. n : longer[i] = log[i]
               /\ \A i \in 1 .. n : R!Versions(longer, r, i) = R!Versions(log, r, i)
               /\ R!Trail(log, r, n) \subseteq 1 .. n
               /\ R!Versions(log, r, n) \subseteq R!Trail(log, r, n)
               /\ R!Trail(longer, r, n + 1) = R!Trail(log, r, n) \cup
                     (IF e.record = r /\ e.event # "ACCESS_DENIED" THEN {n + 1} ELSE {})
               /\ R!Versions(longer, r, n + 1) = R!Versions(log, r, n) \cup
                     (IF e.record = r /\ e.event \notin {"ACCESS_DENIED", "STATE_CHANGED"}
                      THEN {n + 1} ELSE {})
<1> DEFINE n == Len(log)
           longer == Append(log, e)
<1>1. /\ longer \in Seq(R!AuditEntry) /\ n \in Nat /\ Len(longer) = n + 1
      /\ longer[n + 1] = e /\ \A i \in 1 .. n : longer[i] = log[i]
  OBVIOUS
<1> HIDE DEF longer
<1>2. \A i \in 1 .. n : R!Trail(longer, r, i) = R!Trail(log, r, i)
  BY <1>1 DEF R!Trail
<1>3. \A i \in 1 .. n : R!Versions(longer, r, i) = R!Versions(log, r, i)
  BY <1>1 DEF R!Versions, R!Trail
<1>4. R!Trail(longer, r, n + 1) = R!Trail(log, r, n) \cup
         (IF e.record = r /\ e.event # "ACCESS_DENIED" THEN {n + 1} ELSE {})
  BY <1>1 DEF R!Trail
<1>5. R!Versions(longer, r, n + 1) = R!Versions(log, r, n) \cup
         (IF e.record = r /\ e.event \notin {"ACCESS_DENIED", "STATE_CHANGED"}
          THEN {n + 1} ELSE {})
  BY <1>1 DEF R!Versions, R!Trail
<1>6. R!Trail(log, r, n) \subseteq 1 .. n /\ R!Versions(log, r, n) \subseteq R!Trail(log, r, n)
  BY DEF R!Versions, R!Trail
<1> QED BY <1>1, <1>3, <1>4, <1>5, <1>6 DEF longer

\* An entry that is not in the record's trail leaves its account as it is.
LEMMA OtherEntry ==
    ASSUME NEW log \in Seq(R!AuditEntry), NEW e \in R!AuditEntry, NEW r, NEW rec, NEW s,
           e.record # r \/ e.event = "ACCESS_DENIED", RecordOK(log, r, rec, s)
    PROVE  RecordOK(Append(log, e), r, rec, s)
<1> DEFINE n == Len(log)
           longer == Append(log, e)
<1>1. /\ n \in Nat /\ Len(longer) = n + 1 /\ \A i \in 1 .. n : longer[i] = log[i]
      /\ \A i \in 1 .. n : R!Versions(longer, r, i) = R!Versions(log, r, i)
      /\ R!Trail(log, r, n) \subseteq 1 .. n
      /\ R!Versions(log, r, n) \subseteq R!Trail(log, r, n)
      /\ R!Trail(longer, r, n + 1) = R!Trail(log, r, n)
      /\ R!Versions(longer, r, n + 1) = R!Versions(log, r, n)
  <2>1. ~(e.record = r /\ e.event # "ACCESS_DENIED")
        /\ ~(e.record = r /\ e.event \notin {"ACCESS_DENIED", "STATE_CHANGED"})
    OBVIOUS
  <2>2. R!Trail(longer, r, n + 1) = R!Trail(log, r, n) \cup {}
        /\ R!Versions(longer, r, n + 1) = R!Versions(log, r, n) \cup {}
    BY <2>1, EntryBehind
  <2> QED BY <2>2, EntryBehind
<1> HIDE DEF longer
<1>2. R!Accounts(log, r, rec, s)
  BY DEF RecordOK
<1>3. R!Accounts(longer, r, rec, s)
  BY <1>1, <1>2 DEF R!Accounts
<1> QED BY <1>3 DEF RecordOK, longer

\* A record is declared with its first entry and its first snapshot.
LEMMA DeclaredEntry ==
    ASSUME NEW log \in Seq(R!AuditEntry), NEW e \in R!AuditEntry, NEW r, NEW rec, NEW s,
           RecordOK(log, r, rec, s), rec.state = None, NEW new, NEW x \in R!RecordSnapshot,
           e.record = r, e.event = "RECORD_DECLARED", new.state = e.current,
           new.version = e.version, x.version = e.version, new.state # None
    PROVE  RecordOK(Append(log, e), r, new, <<x>>)
<1> DEFINE n == Len(log)
           longer == Append(log, e)
           t == <<x>>
<1>1. R!Trail(log, r, n) = {}
  BY DEF RecordOK, R!Accounts
<1>2. /\ n \in Nat /\ Len(longer) = n + 1 /\ longer[n + 1] = e
      /\ R!Versions(log, r, n) \subseteq R!Trail(log, r, n)
      /\ R!Trail(longer, r, n + 1) = R!Trail(log, r, n) \cup {n + 1}
      /\ R!Versions(longer, r, n + 1) = R!Versions(log, r, n) \cup {n + 1}
  BY EntryBehind
<1>3. Len(t) = 1 /\ t[1] = x
  OBVIOUS
<1> HIDE DEF longer, t
<1>4. R!Trail(longer, r, n + 1) = {n + 1} /\ R!Versions(longer, r, n + 1) = {n + 1}
  BY <1>1, <1>2
<1>5. R!Cardinality(R!Versions(longer, r, n + 1)) = 1
  <2>0. n + 1 \in Nat
    BY <1>2
  <2>1. n + 1 \in Nat /\ Cardinality({n + 1}) = 1
    BY <2>0, FS_Singleton, Zenon
  <2>2. R!Cardinality(R!Versions(longer, r, n + 1)) = Cardinality(R!Versions(longer, r, n + 1))
    BY <2>1, VersionsCounted
  <2> QED BY <1>4, <2>1, <2>2
<1>6. R!Accounts(longer, r, new, t)
  BY <1>2, <1>3, <1>4, <1>5 DEF R!Accounts
<1> QED BY <1>3, <1>6 DEF RecordOK, longer, t

\* A later entry ends the trail where it leads.
LEMMA TrailEnds ==
    ASSUME NEW log \in Seq(R!AuditEntry), NEW e \in R!AuditEntry, NEW r, NEW rec, NEW s,
           R!Accounts(log, r, rec, s), rec.state # None, NEW new,
           e.record = r, e.event # "ACCESS_DENIED", new.state = e.current,
           new.version = e.version
    PROVE  LET n == Len(log)
               longer == Append(log, e)
               trail == R!Trail(longer, r, n + 1)
           IN  /\ \E first \in trail : longer[first].event = "RECORD_DECLARED"
                                       /\ \A i \in trail : first <= i
               /\ \E last \in trail : /\ longer[last].current = new.state
                                      /\ longer[last].version = new.version
                                      /\ \A i \in trail : i <= last
<1> DEFINE n == Len(log)
           longer == Append(log, e)
           trail == R!Trail(longer, r, n + 1)
           old == R!Trail(log, r, n)
<1>1. /\ n \in Nat /\ longer[n + 1] = e /\ \A i \in 1 .. n : longer[i] = log[i]
      /\ old \subseteq 1 .. n /\ trail = old \cup {n + 1}
  BY EntryBehind
<1>2. PICK first \in old : log[first].event = "RECORD_DECLARED" /\ \A i \in old : first <= i
  BY DEF R!Accounts
<1> HIDE DEF longer, trail, old
<1>3. first \in trail /\ longer[first].event = "RECORD_DECLARED" /\ \A i \in trail : first <= i
  <2>1. first \in 1 .. n /\ first <= n + 1
    BY <1>1
  <2> QED BY <1>1, <1>2, <2>1
<1>4. n + 1 \in trail /\ \A i \in trail : i <= n + 1
  <2>1. \A i \in 1 .. n : i <= n + 1
    BY <1>1
  <2> QED BY <1>1, <2>1
<1>5. /\ \E f \in trail : longer[f].event = "RECORD_DECLARED" /\ \A i \in trail : f <= i
      /\ \E last \in trail : /\ longer[last].current = new.state
                             /\ longer[last].version = new.version
                             /\ \A i \in trail : i <= last
  BY <1>1, <1>3, <1>4
<1> QED BY <1>5 DEF longer, trail

\* A new version comes with its entry and its snapshot, both last.
LEMMA VersionedEntry ==
    ASSUME NEW log \in Seq(R!AuditEntry), NEW e \in R!AuditEntry, NEW r, NEW rec,
           NEW s \in Seq(R!RecordSnapshot),
           RecordOK(log, r, rec, s), rec.state # None, NEW new, NEW x \in R!RecordSnapshot,
           e.record = r, e.event = "RECORD_VERSIONED", new.state = e.current,
           new.version = e.version, x.version = e.version, new.state # None,
           \A i \in 1 .. Len(s) : s[i].version # x.version
    PROVE  RecordOK(Append(log, e), r, new, Append(s, x))
<1> DEFINE n == Len(log)
           m == Len(s)
           longer == Append(log, e)
           t == Append(s, x)
<1>0. R!Accounts(log, r, rec, s)
  BY DEF RecordOK
<1>1. /\ n \in Nat /\ Len(longer) = n + 1 /\ longer[n + 1] = e
      /\ \A i \in 1 .. n : longer[i] = log[i]
      /\ \A i \in 1 .. n : R!Versions(longer, r, i) = R!Versions(log, r, i)
      /\ R!Trail(log, r, n) \subseteq 1 .. n
      /\ R!Versions(log, r, n) \subseteq R!Trail(log, r, n)
      /\ R!Versions(longer, r, n + 1) = R!Versions(log, r, n) \cup {n + 1}
  BY EntryBehind
<1>2. m \in Nat /\ Len(t) = m + 1 /\ t[m + 1] = x /\ \A i \in 1 .. m : t[i] = s[i]
  OBVIOUS
<1>3. LET trail == R!Trail(longer, r, n + 1) IN
      /\ \E first \in trail : longer[first].event = "RECORD_DECLARED"
                              /\ \A i \in trail : first <= i
      /\ \E last \in trail : /\ longer[last].current = new.state
                             /\ longer[last].version = new.version
                             /\ \A i \in trail : i <= last
  BY <1>0, TrailEnds
<1> HIDE DEF longer, t
<1>4. R!Cardinality(R!Versions(log, r, n)) = m
  BY <1>0 DEF R!Accounts
<1>5. n + 1 \notin R!Versions(log, r, n)
  BY <1>1
<1>6. Cardinality(R!Versions(longer, r, n + 1)) = Cardinality(R!Versions(log, r, n)) + 1
  BY <1>1, <1>5, VersionsCounted, FS_AddElement
<1>7. R!Cardinality(R!Versions(longer, r, n + 1)) = m + 1
  BY <1>1, <1>4, <1>6, VersionsCounted
<1>8. ASSUME NEW i \in R!Versions(longer, r, n + 1)
      PROVE  longer[i].version = t[R!Cardinality(R!Versions(longer, r, i))].version
  <2>1. CASE i = n + 1
    BY <1>1, <1>2, <1>7, <2>1
  <2>2. CASE i # n + 1
    <3>1. i \in R!Versions(log, r, n) /\ i \in 1 .. n
      BY <1>1, <2>2
    <3>2. i \in R!Versions(log, r, i) /\ R!Versions(log, r, i) \subseteq R!Versions(log, r, n)
      BY <1>1, <3>1 DEF R!Versions, R!Trail
    <3>3. Cardinality(R!Versions(log, r, i)) <= Cardinality(R!Versions(log, r, n))
      BY <1>1, <3>2, VersionsCounted, FS_Subset
    <3>4. R!Cardinality(R!Versions(log, r, i)) \in 1 .. m
      <4>1. i \in Nat
        BY <3>1
      <4> QED BY <1>1, <1>4, <3>2, <3>3, <4>1, VersionsCounted
    <3>5. log[i].version = s[R!Cardinality(R!Versions(log, r, i))].version
      BY <1>0, <3>1 DEF R!Accounts
    <3> QED BY <1>1, <1>2, <3>1, <3>4, <3>5
  <2> QED BY <2>1, <2>2
<1>9. \A i, j \in 1 .. Len(t) : t[i].version = t[j].version => i = j
  <2>1. \A i, j \in 1 .. m : s[i].version = s[j].version => i = j
    BY <1>0 DEF R!Accounts
  <2>2. \A i \in 1 .. m + 1 : i = m + 1 \/ i \in 1 .. m
    BY <1>2
  <2>3. \A i \in 1 .. m : t[i].version # t[m + 1].version
    BY <1>2
  <2> SUFFICES ASSUME NEW i \in 1 .. m + 1, NEW j \in 1 .. m + 1, t[i].version = t[j].version
               PROVE  i = j
    BY <1>2
  <2>4. CASE i \in 1 .. m /\ j \in 1 .. m
    BY <1>2, <2>1, <2>4
  <2>5. CASE i = m + 1
    BY <2>2, <2>3, <2>5
  <2>6. CASE j = m + 1
    BY <2>2, <2>3, <2>6
  <2> QED BY <2>2, <2>4, <2>5, <2>6
<1>10. R!Accounts(longer, r, new, t)
  BY <1>1, <1>2, <1>3, <1>7, <1>8, <1>9 DEF R!Accounts
<1> QED BY <1>2, <1>10 DEF RecordOK, longer, t

\* A change of state brings no version.
LEMMA StateEntry ==
    ASSUME NEW log \in Seq(R!AuditEntry), NEW e \in R!AuditEntry, NEW r, NEW rec, NEW s,
           RecordOK(log, r, rec, s), rec.state # None, NEW new,
           e.record = r, e.event = "STATE_CHANGED", new.state = e.current, new.state # None,
           new.version = e.version, e.version = rec.version
    PROVE  RecordOK(Append(log, e), r, new, s)
<1> DEFINE n == Len(log)
           longer == Append(log, e)
<1>0. R!Accounts(log, r, rec, s)
  BY DEF RecordOK
<1>1. /\ n \in Nat /\ Len(longer) = n + 1 /\ \A i \in 1 .. n : longer[i] = log[i]
      /\ \A i \in 1 .. n : R!Versions(longer, r, i) = R!Versions(log, r, i)
      /\ R!Trail(log, r, n) \subseteq 1 .. n
      /\ R!Versions(log, r, n) \subseteq R!Trail(log, r, n)
      /\ R!Versions(longer, r, n + 1) = R!Versions(log, r, n)
  <2>1. ~(e.record = r /\ e.event \notin {"ACCESS_DENIED", "STATE_CHANGED"})
    OBVIOUS
  <2>2. R!Versions(longer, r, n + 1) = R!Versions(log, r, n) \cup {}
    BY <2>1, EntryBehind
  <2> QED BY <2>2, EntryBehind
<1>2. LET trail == R!Trail(longer, r, n + 1) IN
      /\ \E first \in trail : longer[first].event = "RECORD_DECLARED"
                              /\ \A i \in trail : first <= i
      /\ \E last \in trail : /\ longer[last].current = new.state
                             /\ longer[last].version = new.version
                             /\ \A i \in trail : i <= last
  BY <1>0, TrailEnds
<1> HIDE DEF longer
<1>3. /\ R!Cardinality(R!Versions(log, r, n)) = Len(s)
      /\ \A i \in R!Versions(log, r, n) :
            log[i].version = s[R!Cardinality(R!Versions(log, r, i))].version
      /\ \A i, j \in 1 .. Len(s) : s[i].version = s[j].version => i = j
  BY <1>0 DEF R!Accounts
<1>4. ASSUME NEW i \in R!Versions(longer, r, n + 1)
      PROVE  longer[i].version = s[R!Cardinality(R!Versions(longer, r, i))].version
  <2>1. i \in 1 .. n /\ i \in R!Versions(log, r, n)
    BY <1>1
  <2> QED BY <1>1, <1>3, <2>1
<1>5. R!Accounts(longer, r, new, s)
  BY <1>1, <1>2, <1>3, <1>4 DEF R!Accounts
<1> QED BY <1>5 DEF RecordOK, longer

\* An empty store and an empty manager.
LEMMA RecordsInitially == R!Init => StoreInv
<1> SUFFICES ASSUME R!Init PROVE StoreInv
  OBVIOUS
<1>1. /\ records = [r \in Record |-> R!NoRecord] /\ snapshots = [r \in Record |-> <<>>]
      /\ auditLog = <<>> /\ policy = None /\ legalHolds = [h \in Hold |-> R!NoHold]
      /\ recordHolds = [r \in Record |-> {}] /\ archive = None /\ now = 1 /\ seqCounter = 0
  BY DEF R!Init, R!Empty
<1>2. 1 \in 1 .. MaxTime
  BY RecordsAssumption DEF R!RecordStoreAssumption
<1>3. R!TypeOK
  BY <1>1, <1>2, StoreTypes
<1>4. ASSUME NEW r \in Record PROVE RecordOK(auditLog, r, records[r], snapshots[r])
  BY <1>1 DEF RecordOK, R!Accounts, R!Trail, R!NoRecord
<1>5. \A h \in Hold : ~legalHolds[h].active
  BY <1>1 DEF R!NoHold
<1> QED BY <1>1, <1>3, <1>4, <1>5 DEF StoreInv, RecordsOK

\* A method of RecordStore that enters e for record r and leaves r accounted for.
LEMMA EntryStep ==
    ASSUME StoreInv, NEW r \in Record, NEW e \in R!AuditEntry, e.record = r,
           NEW rec \in R!DeclaredRecord \cup {R!NoRecord}, NEW s \in Seq(R!RecordSnapshot),
           RecordOK(Append(auditLog, e), r, rec, s),
           records' = [records EXCEPT ![r] = rec], snapshots' = [snapshots EXCEPT ![r] = s],
           auditLog' = Append(auditLog, e), seqCounter' = seqCounter + 1, R!StoreOnly
    PROVE  StoreInv'
<1>0. /\ records \in [Record -> R!DeclaredRecord \cup {R!NoRecord}]
      /\ snapshots \in [Record -> Seq(R!RecordSnapshot)] /\ auditLog \in Seq(R!AuditEntry)
      /\ policy \in Period \cup {None} /\ legalHolds \in [Hold -> R!LegalHold \cup {R!NoHold}]
      /\ archive \in R!BackupArchive \cup {None}
      /\ recordHolds \in [Record -> SUBSET Hold]
      /\ seqCounter \in Nat /\ now \in 1 .. MaxTime
  BY StoreTypes DEF StoreInv
<1>1. UNCHANGED <<policy, legalHolds, recordHolds, archive, now>>
  BY DEF R!StoreOnly
<1>2. /\ records' \in [Record -> R!DeclaredRecord \cup {R!NoRecord}]
      /\ snapshots' \in [Record -> Seq(R!RecordSnapshot)] /\ auditLog' \in Seq(R!AuditEntry)
      /\ seqCounter' \in Nat
  BY <1>0
<1>3. R!TypeOK'
  BY <1>0, <1>1, <1>2, BackupFields DEF R!TypeOK, R!Kept
<1>4. ASSUME NEW t \in Record PROVE RecordOK(auditLog', t, records'[t], snapshots'[t])
  <2>1. CASE t = r
    <3>1. records'[t] = rec /\ snapshots'[t] = s
      BY <1>0, <2>1
    <3> QED BY <2>1, <3>1
  <2>2. CASE t # r
    <3>1. records'[t] = records[t] /\ snapshots'[t] = snapshots[t]
      BY <1>0, <2>2
    <3>2. RecordOK(auditLog, t, records[t], snapshots[t])
      BY DEF StoreInv, RecordsOK
    <3> QED BY <1>0, <2>2, <3>1, <3>2, OtherEntry
  <2> QED BY <2>1, <2>2
<1>5. RecordsOK(auditLog', records', snapshots')
  BY <1>4 DEF RecordsOK
<1> QED BY <1>1, <1>3, <1>5 DEF StoreInv

\* The entry Log makes.
LEMMA LoggedEntry ==
    ASSUME StoreInv, NEW r \in Record,
           NEW event \in {"RECORD_DECLARED", "RECORD_VERSIONED", "STATE_CHANGED", "ACCESS_DENIED"},
           NEW prior \in R!States \cup {None}, NEW current \in R!States \cup {None},
           NEW v \in Version \cup {None}, R!Log(r, event, prior, current, v)
    PROVE  \E e \in R!AuditEntry :
              /\ e.record = r /\ e.event = event /\ e.current = current /\ e.version = v
              /\ auditLog' = Append(auditLog, e) /\ seqCounter' = seqCounter + 1
<1> DEFINE e == [seq |-> seqCounter + 1, record |-> r, event |-> event,
                 prior |-> prior, current |-> current, version |-> v]
<1>1. seqCounter + 1 \in Nat
  BY StoreTypes DEF StoreInv
<1>2. e \in R!AuditEntry
  BY <1>1 DEF R!AuditEntry
<1>3. e.record = r /\ e.event = event /\ e.current = current /\ e.version = v
  OBVIOUS
<1>4. auditLog' = Append(auditLog, e) /\ seqCounter' = seqCounter + 1
  BY DEF R!Log
<1> HIDE DEF e
<1> QED BY <1>2, <1>3, <1>4

\* A record that has a state is declared, with a state and a version.
LEMMA DeclaredFields ==
    ASSUME StoreInv, NEW r \in Record, records[r].state # None
    PROVE  /\ records[r] \in R!DeclaredRecord /\ records[r].state \in R!States
           /\ records[r].version \in Version
<1>1. records[r] \in R!DeclaredRecord \cup {R!NoRecord}
  BY StoreTypes DEF StoreInv
<1>2. records[r] # R!NoRecord
  BY DEF R!NoRecord
<1> QED BY <1>1, <1>2 DEF R!DeclaredRecord

\* DeclareRecord: of a record that has neither snapshots nor a trail.
LEMMA DeclareStep ==
    ASSUME StoreInv, NEW r \in Record, NEW v \in Version, NEW d \in Digest,
           R!DeclareRecord(r, v, d)
    PROVE  StoreInv'
<1> DEFINE rec == [state |-> "ACCEPTED", version |-> v, createdAt |-> now]
           x == [version |-> v, digest |-> d, state |-> "ACCEPTED"]
<1>1. /\ records[r].state = None /\ records' = [records EXCEPT ![r] = rec]
      /\ snapshots' = [snapshots EXCEPT ![r] = <<x>>]
      /\ R!Log(r, "RECORD_DECLARED", None, "ACCEPTED", v) /\ R!StoreOnly
  BY DEF R!DeclareRecord, R!Declared
<1>2. "ACCEPTED" # None /\ "ACCEPTED" \in R!States
  BY RecordsAssumption DEF R!RecordStoreAssumption, R!States
<1>3. PICK e \in R!AuditEntry :
         /\ e.record = r /\ e.event = "RECORD_DECLARED" /\ e.current = "ACCEPTED" /\ e.version = v
         /\ auditLog' = Append(auditLog, e) /\ seqCounter' = seqCounter + 1
  BY <1>1, <1>2, LoggedEntry
<1>4. rec \in R!DeclaredRecord /\ rec.state = "ACCEPTED" /\ rec.version = v
  BY <1>2, StoreTypes DEF R!DeclaredRecord, StoreInv
<1>5. x \in R!RecordSnapshot /\ x.version = v
  BY <1>2 DEF R!RecordSnapshot
<1> HIDE DEF rec, x
<1>6. RecordOK(auditLog, r, records[r], snapshots[r]) /\ auditLog \in Seq(R!AuditEntry)
  BY StoreTypes DEF StoreInv, RecordsOK
<1>7. RecordOK(Append(auditLog, e), r, rec, <<x>>)
  BY <1>1, <1>2, <1>3, <1>4, <1>5, <1>6, DeclaredEntry
<1>8. <<x>> \in Seq(R!RecordSnapshot)
  BY <1>5
<1> DEFINE t == <<x>>
<1>9. t \in Seq(R!RecordSnapshot) /\ RecordOK(Append(auditLog, e), r, rec, t)
      /\ snapshots' = [snapshots EXCEPT ![r] = t]
  BY <1>1, <1>7, <1>8
<1> HIDE DEF t
<1> QED BY <1>1, <1>3, <1>4, <1>9, EntryStep

\* CreateNewVersion: of a version no snapshot has.
LEMMA NewVersionStep ==
    ASSUME StoreInv, NEW r \in Record, NEW v \in Version, NEW d \in Digest,
           R!CreateNewVersion(r, v, d)
    PROVE  StoreInv'
<1> DEFINE st == records[r].state
           rec == [records[r] EXCEPT !.version = v]
           x == [version |-> v, digest |-> d, state |-> st]
           t == Append(snapshots[r], x)
<1>1. /\ st # None /\ records' = [records EXCEPT ![r] = rec]
      /\ snapshots' = [snapshots EXCEPT ![r] = t]
      /\ R!Log(r, "RECORD_VERSIONED", st, st, v) /\ R!StoreOnly /\ R!NewVersion(r, v)
  BY DEF R!CreateNewVersion, R!Declared, R!Current
<1>2. records[r] \in R!DeclaredRecord /\ st \in R!States
  BY <1>1, DeclaredFields
<1>3. PICK e \in R!AuditEntry :
         /\ e.record = r /\ e.event = "RECORD_VERSIONED" /\ e.current = st /\ e.version = v
         /\ auditLog' = Append(auditLog, e) /\ seqCounter' = seqCounter + 1
  BY <1>1, <1>2, LoggedEntry
<1>4. rec \in R!DeclaredRecord /\ rec.state = st /\ rec.version = v
  BY <1>2 DEF R!DeclaredRecord
<1>5. x \in R!RecordSnapshot /\ x.version = v
  BY <1>2 DEF R!RecordSnapshot
<1>6. /\ RecordOK(auditLog, r, records[r], snapshots[r]) /\ auditLog \in Seq(R!AuditEntry)
      /\ snapshots[r] \in Seq(R!RecordSnapshot)
  BY StoreTypes DEF StoreInv, RecordsOK
<1>7. \A i \in 1 .. Len(snapshots[r]) : snapshots[r][i].version # v
  BY <1>1, <1>6 DEF R!NewVersion
<1> HIDE DEF rec, x
<1>8. RecordOK(Append(auditLog, e), r, rec, t)
  BY <1>1, <1>3, <1>4, <1>5, <1>6, <1>7, VersionedEntry
<1>9. t \in Seq(R!RecordSnapshot)
  BY <1>5, <1>6
<1> HIDE DEF t
<1> QED BY <1>1, <1>3, <1>4, <1>8, <1>9, EntryStep

\* TransitionRecordState archives a record and keeps its version.
LEMMA TransitionStep ==
    ASSUME StoreInv, NEW r \in Record, R!TransitionRecordState(r)
    PROVE  StoreInv'
<1> DEFINE rec == [records[r] EXCEPT !.state = "ARCHIVED"]
<1>0. None \notin R!States /\ {"ACCEPTED", "ARCHIVED"} \subseteq R!States
  BY RecordsAssumption DEF R!RecordStoreAssumption, R!States
<1>1. /\ records[r].state = "ACCEPTED" /\ records' = [records EXCEPT ![r] = rec]
      /\ snapshots' = snapshots
      /\ R!Log(r, "STATE_CHANGED", "ACCEPTED", "ARCHIVED", records[r].version) /\ R!StoreOnly
  BY DEF R!TransitionRecordState
<1>2. records[r] \in R!DeclaredRecord /\ records[r].version \in Version
  BY <1>0, <1>1, DeclaredFields
<1>3. PICK e \in R!AuditEntry :
         /\ e.record = r /\ e.event = "STATE_CHANGED" /\ e.current = "ARCHIVED"
         /\ e.version = records[r].version
         /\ auditLog' = Append(auditLog, e) /\ seqCounter' = seqCounter + 1
  BY <1>0, <1>1, <1>2, LoggedEntry
<1>4. rec \in R!DeclaredRecord /\ rec.state = "ARCHIVED" /\ rec.version = records[r].version
  BY <1>0, <1>2 DEF R!DeclaredRecord
<1>5. /\ RecordOK(auditLog, r, records[r], snapshots[r]) /\ auditLog \in Seq(R!AuditEntry)
      /\ snapshots \in [Record -> Seq(R!RecordSnapshot)]
  BY StoreTypes DEF StoreInv, RecordsOK
<1> HIDE DEF rec
<1>6. RecordOK(Append(auditLog, e), r, rec, snapshots[r])
  BY <1>0, <1>1, <1>3, <1>4, <1>5, StateEntry
<1>7. snapshots' = [snapshots EXCEPT ![r] = snapshots[r]] /\ snapshots[r] \in Seq(R!RecordSnapshot)
  BY <1>1, <1>5
<1> DEFINE t == snapshots[r]
<1>8. t \in Seq(R!RecordSnapshot) /\ RecordOK(Append(auditLog, e), r, rec, t)
      /\ snapshots' = [snapshots EXCEPT ![r] = t]
  BY <1>6, <1>7
<1> HIDE DEF t
<1> QED BY <1>1, <1>3, <1>4, <1>8, EntryStep

\* RecordAccessDenied enters the journal and no trail.
LEMMA DeniedStep ==
    ASSUME StoreInv, NEW r \in Record, R!RecordAccessDenied(r)
    PROVE  StoreInv'
<1>1. PICK e \in R!AuditEntry :
         /\ e.record = r /\ e.event = "ACCESS_DENIED"
         /\ auditLog' = Append(auditLog, e) /\ seqCounter' = seqCounter + 1
  BY LoggedEntry DEF R!RecordAccessDenied
<1>2. /\ RecordOK(auditLog, r, records[r], snapshots[r]) /\ auditLog \in Seq(R!AuditEntry)
      /\ snapshots \in [Record -> Seq(R!RecordSnapshot)]
      /\ records \in [Record -> R!DeclaredRecord \cup {R!NoRecord}]
  BY StoreTypes DEF StoreInv, RecordsOK
<1>3. RecordOK(Append(auditLog, e), r, records[r], snapshots[r])
  BY <1>1, <1>2, OtherEntry
<1>4. /\ records' = [records EXCEPT ![r] = records[r]]
      /\ snapshots' = [snapshots EXCEPT ![r] = snapshots[r]] /\ R!StoreOnly
  BY <1>2 DEF R!RecordAccessDenied
<1> DEFINE t == snapshots[r]
           rec == records[r]
<1>5. /\ t \in Seq(R!RecordSnapshot) /\ rec \in R!DeclaredRecord \cup {R!NoRecord}
      /\ RecordOK(Append(auditLog, e), r, rec, t)
      /\ records' = [records EXCEPT ![r] = rec] /\ snapshots' = [snapshots EXCEPT ![r] = t]
  BY <1>2, <1>3, <1>4
<1> HIDE DEF t, rec
<1> QED BY <1>1, <1>4, <1>5, EntryStep

\* The manager's methods: policies and holds, the store left alone.
LEMMA ManagerStep ==
    ASSUME StoreInv, R!ManagerOnly,
           policy' \in Period \cup {None}, legalHolds' \in [Hold -> R!LegalHold \cup {R!NoHold}],
           recordHolds' \in [Record -> SUBSET Hold],
           \A h \in Hold, r \in Record :
              legalHolds'[h].record = r /\ legalHolds'[h].active => h \in recordHolds'[r]
    PROVE  StoreInv'
<1>1. /\ records \in [Record -> R!DeclaredRecord \cup {R!NoRecord}]
      /\ snapshots \in [Record -> Seq(R!RecordSnapshot)] /\ auditLog \in Seq(R!AuditEntry)
      /\ archive \in R!BackupArchive \cup {None} /\ seqCounter \in Nat /\ now \in 1 .. MaxTime
  BY StoreTypes DEF StoreInv
<1>2. UNCHANGED <<records, snapshots, auditLog, seqCounter, archive, now>>
  BY DEF R!ManagerOnly
<1>3. R!TypeOK'
  BY <1>1, <1>2, BackupFields DEF R!TypeOK, R!Kept
<1> QED BY <1>2, <1>3 DEF StoreInv

\* RegisterRetentionPolicy.
LEMMA PolicyStep ==
    ASSUME StoreInv, NEW period \in Period, R!RegisterRetentionPolicy(period)
    PROVE  StoreInv'
<1>1. /\ policy' = period /\ UNCHANGED <<legalHolds, recordHolds>> /\ R!ManagerOnly
  BY DEF R!RegisterRetentionPolicy
<1>2. /\ legalHolds \in [Hold -> R!LegalHold \cup {R!NoHold}]
      /\ recordHolds \in [Record -> SUBSET Hold]
      /\ \A h \in Hold, r \in Record :
            legalHolds[h].record = r /\ legalHolds[h].active => h \in recordHolds[r]
  BY StoreTypes DEF StoreInv
<1> QED BY <1>1, <1>2, ManagerStep

\* PlaceLegalHold puts the hold in the index of its record.
LEMMA PlaceHoldStep ==
    ASSUME StoreInv, NEW h \in Hold, NEW r \in Record, R!PlaceLegalHold(h, r)
    PROVE  StoreInv'
<1> DEFINE hold == [record |-> r, active |-> TRUE]
<1>1. /\ legalHolds' = [legalHolds EXCEPT ![h] = hold]
      /\ recordHolds' = [recordHolds EXCEPT ![r] = recordHolds[r] \cup {h}]
      /\ policy' = policy /\ R!ManagerOnly
  BY DEF R!PlaceLegalHold
<1>2. /\ legalHolds \in [Hold -> R!LegalHold \cup {R!NoHold}]
      /\ recordHolds \in [Record -> SUBSET Hold] /\ policy \in Period \cup {None}
      /\ \A g \in Hold, t \in Record :
            legalHolds[g].record = t /\ legalHolds[g].active => g \in recordHolds[t]
  BY StoreTypes DEF StoreInv
<1>3. hold \in R!LegalHold /\ hold.record = r
  BY DEF R!LegalHold
<1> HIDE DEF hold
<1>4. /\ legalHolds' \in [Hold -> R!LegalHold \cup {R!NoHold}]
      /\ recordHolds' \in [Record -> SUBSET Hold]
  BY <1>1, <1>2, <1>3
<1>5. ASSUME NEW g \in Hold, NEW t \in Record, legalHolds'[g].record = t, legalHolds'[g].active
      PROVE  g \in recordHolds'[t]
  <2>1. CASE g = h
    BY <1>1, <1>2, <1>3, <1>5, <2>1
  <2>2. CASE g # h
    BY <1>1, <1>2, <1>5, <2>2
  <2> QED BY <2>1, <2>2
<1> QED BY <1>1, <1>2, <1>4, <1>5, ManagerStep

\* ReleaseLegalHold leaves the index, and the hold is active no more.
LEMMA ReleaseHoldStep ==
    ASSUME StoreInv, NEW h \in Hold, R!ReleaseLegalHold(h)
    PROVE  StoreInv'
<1> DEFINE hold == [legalHolds[h] EXCEPT !.active = FALSE]
<1>1. /\ legalHolds[h] # R!NoHold /\ UNCHANGED <<policy, recordHolds>> /\ R!ManagerOnly
      /\ legalHolds' = [legalHolds EXCEPT ![h] = hold]
  BY DEF R!ReleaseLegalHold
<1>2. /\ legalHolds \in [Hold -> R!LegalHold \cup {R!NoHold}]
      /\ recordHolds \in [Record -> SUBSET Hold] /\ policy \in Period \cup {None}
      /\ \A g \in Hold, t \in Record :
            legalHolds[g].record = t /\ legalHolds[g].active => g \in recordHolds[t]
  BY StoreTypes DEF StoreInv
<1>3. legalHolds[h] \in R!LegalHold
  BY <1>1, <1>2
<1>4. hold \in R!LegalHold /\ hold.active = FALSE
  BY <1>3 DEF R!LegalHold
<1> HIDE DEF hold
<1>5. legalHolds' \in [Hold -> R!LegalHold \cup {R!NoHold}]
  BY <1>1, <1>2, <1>4
<1>6. ASSUME NEW g \in Hold, NEW t \in Record, legalHolds'[g].record = t, legalHolds'[g].active
      PROVE  g \in recordHolds'[t]
  <2>1. g # h /\ legalHolds'[g] = legalHolds[g]
    BY <1>1, <1>2, <1>4, <1>6
  <2> QED BY <1>1, <1>2, <1>6, <2>1
<1> QED BY <1>1, <1>2, <1>5, <1>6, ManagerStep

\* What is adopted is accounted for, and its active holds are indexed.
LEMMA AdoptStep ==
    ASSUME StoreInv, NEW a \in R!BackupArchive, RecordsOK(a.auditLog, a.records, a.snapshots),
           R!Adopt(a), UNCHANGED <<archive, now>>, seqCounter' \in Nat
    PROVE  StoreInv'
<1>1. /\ records' = a.records /\ snapshots' = a.snapshots /\ auditLog' = a.auditLog
      /\ policy' = a.policy /\ legalHolds' = a.legalHolds
      /\ recordHolds' = [r \in Record |-> {h \in Hold : a.legalHolds[h].record = r
                                                         /\ a.legalHolds[h].active}]
  BY DEF R!Adopt, R!Indexed
<1>2. /\ a.records \in [Record -> R!DeclaredRecord \cup {R!NoRecord}]
      /\ a.snapshots \in [Record -> Seq(R!RecordSnapshot)] /\ a.auditLog \in Seq(R!AuditEntry)
      /\ a.policy \in Period \cup {None} /\ a.legalHolds \in [Hold -> R!LegalHold \cup {R!NoHold}]
  BY DEF R!BackupArchive
<1>3. recordHolds' \in [Record -> SUBSET Hold]
  BY <1>1
<1>4. archive \in R!BackupArchive \cup {None} /\ now \in 1 .. MaxTime
  BY StoreTypes DEF StoreInv
<1>5. R!TypeOK'
  BY <1>1, <1>2, <1>3, <1>4, BackupFields DEF R!TypeOK, R!Kept
<1>6. RecordsOK(auditLog', records', snapshots')
  BY <1>1
<1>7. \A h \in Hold, r \in Record :
         legalHolds'[h].record = r /\ legalHolds'[h].active => h \in recordHolds'[r]
  BY <1>1
<1> QED BY <1>5, <1>6, <1>7 DEF StoreInv

\* CreateSyntheticBackup keeps the store as it is; RestoreSyntheticBackup and a new
\* process adopt what was kept, or nothing.
LEMMA BackupStep ==
    ASSUME StoreInv, R!CreateSyntheticBackup \/ R!RestoreSyntheticBackup \/ R!Restart
    PROVE  StoreInv'
<1>1. CASE R!CreateSyntheticBackup
  <2>1. /\ archive' = R!Kept
        /\ UNCHANGED <<records, snapshots, auditLog, seqCounter, policy, legalHolds, recordHolds, now>>
    BY <1>1 DEF R!CreateSyntheticBackup, R!live
  <2>2. /\ R!Kept \in R!BackupArchive /\ R!Kept.records = records
        /\ R!Kept.snapshots = snapshots /\ R!Kept.auditLog = auditLog
    BY DEF StoreInv, R!TypeOK, R!Kept
  <2>3. R!TypeOK'
    BY <2>1, <2>2, StoreTypes, BackupFields DEF StoreInv, R!TypeOK, R!Kept
  <2>4. RecordsOK(archive'.auditLog, archive'.records, archive'.snapshots)
    BY <2>1, <2>2 DEF StoreInv
  <2> QED BY <2>1, <2>3, <2>4 DEF StoreInv
<1>2. CASE R!RestoreSyntheticBackup
  <2>1. /\ archive # None /\ R!Adopt(archive) /\ UNCHANGED <<seqCounter, archive, now>>
    BY <1>2 DEF R!RestoreSyntheticBackup
  <2>2. archive \in R!BackupArchive /\ seqCounter \in Nat
    BY <2>1, StoreTypes DEF StoreInv
  <2>3. RecordsOK(archive.auditLog, archive.records, archive.snapshots)
    BY <2>1 DEF StoreInv
  <2> QED BY <2>1, <2>2, <2>3, AdoptStep
<1>3. CASE R!Restart
  <2>1. R!Adopt(R!Empty) /\ seqCounter' = 0 /\ UNCHANGED <<archive, now>>
    BY <1>3 DEF R!Restart
  <2>2. /\ [r \in Record |-> R!NoRecord] \in [Record -> R!DeclaredRecord \cup {R!NoRecord}]
        /\ [r \in Record |-> <<>>] \in [Record -> Seq(R!RecordSnapshot)]
        /\ <<>> \in Seq(R!AuditEntry)
        /\ [h \in Hold |-> R!NoHold] \in [Hold -> R!LegalHold \cup {R!NoHold}]
    OBVIOUS
  <2>3. R!Empty \in R!BackupArchive
    BY <2>2, BackupFields DEF R!Empty
  <2>4. /\ R!Empty.records = [r \in Record |-> R!NoRecord]
        /\ R!Empty.snapshots = [r \in Record |-> <<>>] /\ R!Empty.auditLog = <<>>
    BY DEF R!Empty
  <2>5. ASSUME NEW r \in Record
        PROVE  RecordOK(R!Empty.auditLog, r, R!Empty.records[r], R!Empty.snapshots[r])
    BY <2>4 DEF RecordOK, R!Accounts, R!Trail, R!NoRecord
  <2> QED BY <2>1, <2>3, <2>5, AdoptStep DEF RecordsOK
<1> QED BY <1>1, <1>2, <1>3

\* Every method, the clock and a crash keep the invariant.
LEMMA StoreInvStep == StoreInv /\ [R!Next]_(R!vars) => StoreInv'
<1> SUFFICES ASSUME StoreInv, [R!Next]_(R!vars) PROVE StoreInv'
  OBVIOUS
<1>1. CASE UNCHANGED R!vars
  BY <1>1 DEF R!vars, R!live, StoreInv, R!TypeOK, R!Kept
<1>2. CASE R!Tick
  <2>1. /\ UNCHANGED <<records, snapshots, auditLog, seqCounter, policy, legalHolds, recordHolds,
                       archive>>
        /\ now' = now + 1 /\ now < MaxTime
    BY <1>2 DEF R!Tick, R!live
  <2>2. now' \in 1 .. MaxTime
    BY <2>1, StoreTypes, RecordsAssumption DEF StoreInv, R!RecordStoreAssumption
  <2>3. R!TypeOK'
    BY <2>1, <2>2 DEF StoreInv, R!TypeOK, R!Kept
  <2> QED BY <2>1, <2>3 DEF StoreInv
<1> QED BY <1>1, <1>2, DeclareStep, NewVersionStep, TransitionStep, DeniedStep, PolicyStep,
           PlaceHoldStep, ReleaseHoldStep, BackupStep DEF R!Next

\* Deletion is refused through the index, and exports name the newest snapshot.
LEMMA StoreInvBinds == StoreInv => R!HoldsBind /\ R!RecordsAccounted
<1> SUFFICES ASSUME StoreInv PROVE R!HoldsBind /\ R!RecordsAccounted
  OBVIOUS
<1>0. /\ records \in [Record -> R!DeclaredRecord \cup {R!NoRecord}] /\ now \in 1 .. MaxTime
      /\ policy \in Period \cup {None} /\ snapshots \in [Record -> Seq(R!RecordSnapshot)]
  BY StoreTypes DEF StoreInv
<1>1. ASSUME NEW h \in Hold, NEW r \in Record, legalHolds[h].record = r, legalHolds[h].active
      PROVE  ~R!CanDelete(r, now)
  BY <1>1 DEF StoreInv, R!CanDelete
<1>2. ASSUME NEW r \in Record, policy # None, now < records[r].createdAt + policy
      PROVE  ~R!CanDelete(r, now)
  <2>1. records[r].createdAt \in Nat
    <3>1. CASE records[r] = R!NoRecord
      BY <3>1 DEF R!NoRecord
    <3>2. CASE records[r] \in R!DeclaredRecord
      BY <3>2 DEF R!DeclaredRecord
    <3> QED BY <1>0, <3>1, <3>2
  <2>2. policy \in Nat /\ now \in Nat
    <3>1. Period \subseteq Nat
      BY RecordsAssumption DEF R!RecordStoreAssumption
    <3> QED BY <1>0, <1>2, <3>1
  <2> QED BY <1>2, <2>1, <2>2 DEF R!CanDelete
<1>3. R!HoldsBind
  BY <1>1, <1>2 DEF R!HoldsBind
<1>4. ASSUME NEW r \in Record
      PROVE  /\ R!Accounts(auditLog, r, records[r], snapshots[r])
             /\ R!Declared(r) => \E i \in DOMAIN snapshots[r] :
                                   /\ snapshots[r][i].version = R!ExportItem(r).version
                                   /\ snapshots[r][i].digest = R!ExportItem(r).digest
  <2>1. RecordOK(auditLog, r, records[r], snapshots[r])
    BY DEF StoreInv, RecordsOK
  <2>2. snapshots[r] \in Seq(R!RecordSnapshot) /\ Len(snapshots[r]) \in Nat
        /\ DOMAIN snapshots[r] = 1 .. Len(snapshots[r])
    BY <1>0
  <2>3. R!ExportItem(r).version = records[r].version
        /\ R!ExportItem(r).digest = snapshots[r][Len(snapshots[r])].digest
    BY DEF R!ExportItem
  <2>4. ASSUME records[r].state # None
        PROVE  \E i \in DOMAIN snapshots[r] :
                  /\ snapshots[r][i].version = records[r].version
                  /\ snapshots[r][i].digest = snapshots[r][Len(snapshots[r])].digest
    <3>1. Len(snapshots[r]) \in DOMAIN snapshots[r]
          /\ snapshots[r][Len(snapshots[r])].version = records[r].version
      BY <2>1, <2>2, <2>4 DEF RecordOK
    <3> QED BY <3>1
  <2> QED BY <2>1, <2>3, <2>4 DEF RecordOK, R!Declared
<1>5. R!RecordsAccounted
  BY <1>4 DEF StoreInv, R!RecordsAccounted
<1> QED BY <1>3, <1>5

\* For all records, versions, holds and periods, however often the process crashes and a
\* backup is restored: active holds and retention block deletion, and every record is
\* accounted for.
THEOREM HoldsSurviveRestore == R!Spec => [](R!HoldsBind /\ R!RecordsAccounted)
<1>1. R!Spec => []StoreInv
  BY RecordsInitially, StoreInvStep, PTL DEF R!Spec
<1> QED BY <1>1, StoreInvBinds, PTL

\* The property of the run records about CanDelete and the audit journal.
THEOREM HoldsBindHolds == Spec => []HoldsBind
<1> DEFINE Inv == focus = "records" => StoreInv
<1>1. Init => Inv
  BY RecordsInitially DEF Init
<1>2. Inv /\ [Next]_vars => Inv'
  <2> SUFFICES ASSUME Inv, [Next]_vars, focus' = "records" PROVE StoreInv'
    OBVIOUS
  <2>1. focus = "records" /\ [R!Next]_(R!vars)
    BY DEF Next, vars, Records, Integrity, Custody, Templates, Registry, Lifecycle, Store,
       rOnly, R!vars, R!live
  <2> QED BY <2>1, StoreInvStep
<1>3. Inv => HoldsBind
  BY StoreInvBinds DEF HoldsBind
<1> QED BY <1>1, <1>2, <1>3, PTL DEF Spec

-----------------------------------------------------------------------------
\* EvidenceChain.  The chain of an object only grows; what each batch of events adds to
\* its story depends on whether it moves the upload, and nothing moves it once committed.

Moves == {"TRANSFER_INTERRUPTED", "TRANSFER_RESUMED", "INTEGRITY_VERIFIED"}
Transfers == {"TRANSFER_INTERRUPTED", "TRANSFER_RESUMED"}

\* The story of a record, and that a committed one is complete.
StoryOK(chain, rec) == E!Story(chain, rec) /\ (rec.committed => rec.state = "COMPLETED")

\* Derived artifacts hang off committed originals.
DerivedOK(recs) ==
    \A e \in Evidence : recs[e] # None /\ recs[e].objectType = "DERIVED" =>
        /\ recs[e].parent \in Evidence /\ recs[recs[e].parent] # None
        /\ recs[recs[e].parent].committed /\ recs[recs[e].parent].objectType = "ORIGINAL"

\* What a manifest lists is committed, under its own digest.
ManifestOK(m, recs) ==
    m # None => \A i \in DOMAIN m :
        /\ m[i].evidence \in Evidence /\ recs[m[i].evidence] # None
        /\ recs[m[i].evidence].committed /\ recs[m[i].evidence].digest = m[i].digest

CustodyInv ==
    /\ E!TypeOK
    /\ \A e \in Evidence : IF evidence[e] # None THEN StoryOK(custodyChain[e], evidence[e])
                           ELSE custodyChain[e] = <<>>
    /\ DerivedOK(evidence)
    /\ ManifestOK(manifest, evidence)

\* Nothing registered.
LEMMA CustodyInitially == E!Init => CustodyInv
  BY DEF E!Init, CustodyInv, E!TypeOK, DerivedOK, ManifestOK

\* What a record keeps when it changes.
Continues(o, n) ==
    /\ n.objectType = o.objectType /\ n.parent = o.parent /\ n.digest = o.digest
    /\ o.committed => n.committed

\* A record that is registered, or continues the one before, under a chain that tells its
\* story.
LEMMA RecordChanged ==
    ASSUME CustodyInv, NEW e \in Evidence, NEW rec \in E!EvidenceRecord,
           NEW c \in Seq(E!CustodyEvent), StoryOK(c, rec),
           \/ evidence[e] # None /\ Continues(evidence[e], rec)
           \/ /\ evidence[e] = None
              /\ rec.objectType = "DERIVED" =>
                    /\ rec.parent \in Evidence /\ evidence[rec.parent] # None
                    /\ evidence[rec.parent].committed
                    /\ evidence[rec.parent].objectType = "ORIGINAL",
           evidence' = [evidence EXCEPT ![e] = rec],
           custodyChain' = [custodyChain EXCEPT ![e] = c], manifest' = manifest
    PROVE  CustodyInv'
<1>0. E!TypeOK /\ DerivedOK(evidence) /\ ManifestOK(manifest, evidence) /\ rec # None
  BY RecordsAssumption DEF CustodyInv, E!EvidenceChainAssumption
<1>1. E!TypeOK'
  BY <1>0 DEF E!TypeOK
<1>2. /\ \A d \in Evidence : evidence'[d] = IF d = e THEN rec ELSE evidence[d]
      /\ \A d \in Evidence : custodyChain'[d] = IF d = e THEN c ELSE custodyChain[d]
  BY <1>0 DEF E!TypeOK
<1>3. \A d \in Evidence : IF evidence'[d] # None THEN StoryOK(custodyChain'[d], evidence'[d])
                          ELSE custodyChain'[d] = <<>>
  BY <1>0, <1>2 DEF CustodyInv
<1>4. ASSUME NEW d \in Evidence, evidence[d] # None
      PROVE  /\ evidence'[d] # None /\ evidence'[d].objectType = evidence[d].objectType
             /\ evidence'[d].parent = evidence[d].parent
             /\ evidence'[d].digest = evidence[d].digest
             /\ evidence[d].committed => evidence'[d].committed
  BY <1>0, <1>2, <1>4 DEF Continues
<1>5. DerivedOK(evidence')
  <2> SUFFICES ASSUME NEW d \in Evidence, evidence'[d] # None,
                      evidence'[d].objectType = "DERIVED"
               PROVE  /\ evidence'[d].parent \in Evidence
                      /\ evidence'[evidence'[d].parent] # None
                      /\ evidence'[evidence'[d].parent].committed
                      /\ evidence'[evidence'[d].parent].objectType = "ORIGINAL"
    BY DEF DerivedOK
  <2>1. PICK p \in Evidence : /\ evidence'[d].parent = p /\ evidence[p] # None
                              /\ evidence[p].committed /\ evidence[p].objectType = "ORIGINAL"
    <3>1. CASE evidence[d] # None
      BY <1>0, <1>4, <3>1 DEF DerivedOK
    <3>2. CASE evidence[d] = None
      BY <1>0, <1>2, <3>2
    <3> QED BY <3>1, <3>2
  <2> QED BY <1>4, <2>1
<1>6. ManifestOK(manifest', evidence')
  <2> SUFFICES ASSUME manifest # None, NEW i \in DOMAIN manifest
               PROVE  /\ manifest[i].evidence \in Evidence
                      /\ evidence'[manifest[i].evidence] # None
                      /\ evidence'[manifest[i].evidence].committed
                      /\ evidence'[manifest[i].evidence].digest = manifest[i].digest
    BY DEF ManifestOK
  <2>1. /\ manifest[i].evidence \in Evidence /\ evidence[manifest[i].evidence] # None
        /\ evidence[manifest[i].evidence].committed
        /\ evidence[manifest[i].evidence].digest = manifest[i].digest
    BY <1>0 DEF ManifestOK
  <2> QED BY <1>4, <2>1
<1> QED BY <1>1, <1>3, <1>5, <1>6 DEF CustodyInv

\* Where a longer chain has the events of given types.
LEMMA AtOn ==
    ASSUME NEW chain \in Seq(E!CustodyEvent), NEW t \in Seq(E!CustodyEvent), NEW kinds
    PROVE  LET n == Len(chain)
               c == chain \o t
           IN  /\ c \in Seq(E!CustodyEvent) /\ n \in Nat /\ Len(c) = n + Len(t)
               /\ \A i \in 1 .. n : c[i] = chain[i]
               /\ \A k \in 1 .. Len(t) : n + k \in 1 .. Len(c) /\ c[n + k] = t[k]
               /\ \A i \in 1 .. Len(c) : i \in 1 .. n \/ \E k \in 1 .. Len(t) : i = n + k
               /\ E!At(c, kinds) = E!At(chain, kinds) \cup {n + k : k \in E!At(t, kinds)}
               /\ E!At(chain, kinds) \subseteq 1 .. n
<1> DEFINE n == Len(chain)
           c == chain \o t
<1>1. /\ c \in Seq(E!CustodyEvent) /\ n \in Nat /\ Len(c) = n + Len(t) /\ Len(t) \in Nat
      /\ \A i \in 1 .. n + Len(t) : c[i] = IF i <= n THEN chain[i] ELSE t[i - n]
  BY ConcatProperties
<1> HIDE DEF c
<1>2. \A i \in 1 .. n : c[i] = chain[i]
  BY <1>1
<1>3. ASSUME NEW k \in 1 .. Len(t) PROVE n + k \in 1 .. Len(c) /\ c[n + k] = t[k]
  <2>1. n + k \in 1 .. n + Len(t) /\ ~(n + k <= n) /\ (n + k) - n = k
    BY <1>1
  <2> QED BY <1>1, <2>1
<1>4. ASSUME NEW i \in 1 .. Len(c) PROVE i \in 1 .. n \/ \E k \in 1 .. Len(t) : i = n + k
  <2>1. CASE i <= n
    BY <1>1, <2>1
  <2>2. CASE ~(i <= n)
    <3>1. i - n \in 1 .. Len(t) /\ i = n + (i - n)
      BY <1>1, <2>2
    <3> QED BY <3>1
  <2> QED BY <2>1, <2>2
<1>5. E!At(c, kinds) = E!At(chain, kinds) \cup {n + k : k \in E!At(t, kinds)}
  <2>1. ASSUME NEW i \in E!At(c, kinds) PROVE i \in E!At(chain, kinds) \cup {n + k : k \in E!At(t, kinds)}
    <3>1. i \in 1 .. Len(c) /\ c[i].type \in kinds
      BY DEF E!At
    <3>2. CASE i \in 1 .. n
      BY <1>2, <3>1, <3>2 DEF E!At
    <3>3. ASSUME NEW k \in 1 .. Len(t), i = n + k PROVE i \in {n + j : j \in E!At(t, kinds)}
      BY <1>3, <3>1, <3>3 DEF E!At
    <3> QED BY <1>4, <3>1, <3>2, <3>3
  <2>2. ASSUME NEW i \in E!At(chain, kinds) PROVE i \in E!At(c, kinds)
    <3>1. i \in 1 .. n /\ i \in 1 .. Len(c)
      BY <1>1 DEF E!At
    <3> QED BY <1>2, <3>1 DEF E!At
  <2>3. ASSUME NEW k \in E!At(t, kinds) PROVE n + k \in E!At(c, kinds)
    BY <1>3 DEF E!At
  <2> QED BY <2>1, <2>2, <2>3
<1>6. E!At(chain, kinds) \subseteq 1 .. n
  BY DEF E!At
<1> QED BY <1>1, <1>2, <1>3, <1>4, <1>5, <1>6 DEF c

\* The parts of a story.
LEMMA StoryParts ==
    ASSUME NEW chain, NEW rec
    PROVE  E!Story(chain, rec) <=>
              /\ Len(chain) > 0
              /\ chain[1].type = IF rec.objectType = "ORIGINAL" THEN "CAPTURE_LOCAL"
                                 ELSE "DERIVED_GENERATED"
              /\ E!Tells(chain, rec.state)
              /\ rec.committed <=> E!At(chain, {"INTEGRITY_VERIFIED"}) # {}
              /\ \A i \in E!At(chain, {"EXPORT_PACKAGED"}) :
                    \E j \in E!At(chain, {"INTEGRITY_VERIFIED"}) : j < i
              /\ \A i \in E!At(chain, Transfers), j \in E!At(chain, {"INTEGRITY_VERIFIED"}) : i < j
              /\ \A i \in 1 .. Len(chain) :
                    chain[i].digest = rec.digest <=> chain[i].type # "TAMPER_DETECTED"
  BY DEF E!Story, Transfers

\* What every batch of events keeps of a story.
LEMMA StoryOpens ==
    ASSUME NEW chain \in Seq(E!CustodyEvent), NEW t \in Seq(E!CustodyEvent), NEW rec, NEW new,
           E!Story(chain, rec), new.objectType = rec.objectType, new.digest = rec.digest,
           \A k \in 1 .. Len(t) : t[k].digest = rec.digest <=> t[k].type # "TAMPER_DETECTED"
    PROVE  LET c == chain \o t IN
           /\ Len(c) > 0
           /\ c[1].type = IF new.objectType = "ORIGINAL" THEN "CAPTURE_LOCAL"
                          ELSE "DERIVED_GENERATED"
           /\ \A i \in 1 .. Len(c) :
                 c[i].digest = new.digest <=> c[i].type # "TAMPER_DETECTED"
<1> DEFINE n == Len(chain)
           c == chain \o t
<1>1. /\ n \in Nat /\ Len(c) = n + Len(t) /\ Len(t) \in Nat
      /\ \A i \in 1 .. n : c[i] = chain[i]
      /\ \A k \in 1 .. Len(t) : c[n + k] = t[k]
      /\ \A i \in 1 .. Len(c) : i \in 1 .. n \/ \E k \in 1 .. Len(t) : i = n + k
  BY AtOn
<1>2. /\ n > 0
      /\ chain[1].type = IF rec.objectType = "ORIGINAL" THEN "CAPTURE_LOCAL"
                         ELSE "DERIVED_GENERATED"
      /\ \A i \in 1 .. n : chain[i].digest = rec.digest <=> chain[i].type # "TAMPER_DETECTED"
  BY StoryParts
<1> HIDE DEF c
<1>3. Len(c) > 0 /\ 1 \in 1 .. n
  BY <1>1, <1>2
<1>4. ASSUME NEW i \in 1 .. Len(c)
      PROVE  c[i].digest = new.digest <=> c[i].type # "TAMPER_DETECTED"
  <2>1. CASE i \in 1 .. n
    BY <1>1, <1>2, <2>1
  <2>2. ASSUME NEW k \in 1 .. Len(t), i = n + k
        PROVE  c[i].digest = new.digest <=> c[i].type # "TAMPER_DETECTED"
    <3>1. c[i] = t[k]
      BY <1>1, <2>2
    <3> QED BY <3>1
  <2> QED BY <1>1, <2>1, <2>2
<1>5. c[1].type = IF new.objectType = "ORIGINAL" THEN "CAPTURE_LOCAL" ELSE "DERIVED_GENERATED"
  BY <1>1, <1>2, <1>3
<1> QED BY <1>3, <1>4, <1>5 DEF c

\* Events that do not move the upload; packaging is of what is committed.
LEMMA StoryStays ==
    ASSUME NEW chain \in Seq(E!CustodyEvent), NEW t \in Seq(E!CustodyEvent), NEW rec,
           StoryOK(chain, rec),
           \A k \in 1 .. Len(t) : /\ t[k].type \notin Moves
                                  /\ t[k].type = "EXPORT_PACKAGED" => rec.committed
                                  /\ t[k].digest = rec.digest <=> t[k].type # "TAMPER_DETECTED"
    PROVE  StoryOK(chain \o t, rec)
<1> DEFINE n == Len(chain)
           c == chain \o t
<1>0. E!Story(chain, rec) /\ (rec.committed => rec.state = "COMPLETED")
  BY DEF StoryOK
<1>1. /\ Len(c) > 0
      /\ c[1].type = IF rec.objectType = "ORIGINAL" THEN "CAPTURE_LOCAL" ELSE "DERIVED_GENERATED"
      /\ \A i \in 1 .. Len(c) : c[i].digest = rec.digest <=> c[i].type # "TAMPER_DETECTED"
  BY <1>0, StoryOpens
<1>2. ASSUME NEW kinds, kinds \subseteq Moves PROVE E!At(c, kinds) = E!At(chain, kinds)
  <2>1. E!At(t, kinds) = {}
    BY <1>2 DEF E!At
  <2>2. E!At(c, kinds) = E!At(chain, kinds) \cup {n + k : k \in E!At(t, kinds)}
    BY AtOn
  <2> QED BY <2>1, <2>2
<1>3. /\ E!At(c, Moves) = E!At(chain, Moves) /\ E!At(c, Transfers) = E!At(chain, Transfers)
      /\ E!At(c, {"INTEGRITY_VERIFIED"}) = E!At(chain, {"INTEGRITY_VERIFIED"})
  <2>1. Moves \subseteq Moves /\ Transfers \subseteq Moves /\ {"INTEGRITY_VERIFIED"} \subseteq Moves
    BY DEF Moves, Transfers
  <2> QED BY <1>2, <2>1
<1>4. /\ n \in Nat /\ \A i \in 1 .. n : c[i] = chain[i]
      /\ E!At(c, {"EXPORT_PACKAGED"}) = E!At(chain, {"EXPORT_PACKAGED"})
            \cup {n + k : k \in E!At(t, {"EXPORT_PACKAGED"})}
  BY AtOn
<1>5. E!At(chain, Moves) \subseteq 1 .. n /\ E!At(chain, {"INTEGRITY_VERIFIED"}) \subseteq 1 .. n
  BY DEF E!At
<1> HIDE DEF c
<1>6. E!Tells(c, rec.state)
  <2>1. E!Tells(chain, rec.state)
    BY <1>0, StoryParts
  <2> QED BY <1>3, <1>4, <1>5, <2>1 DEF E!Tells, Moves
<1>7. ASSUME NEW i \in E!At(c, {"EXPORT_PACKAGED"})
      PROVE  \E j \in E!At(chain, {"INTEGRITY_VERIFIED"}) : j < i
  <2>1. CASE i \in E!At(chain, {"EXPORT_PACKAGED"})
    BY <1>0, <2>1, StoryParts
  <2>2. ASSUME NEW k \in E!At(t, {"EXPORT_PACKAGED"}), i = n + k
        PROVE  \E j \in E!At(chain, {"INTEGRITY_VERIFIED"}) : j < i
    <3>1. k \in 1 .. Len(t) /\ rec.committed
      BY DEF E!At
    <3>2. PICK j \in E!At(chain, {"INTEGRITY_VERIFIED"}) : TRUE
      BY <1>0, <3>1, StoryParts
    <3>3. j \in 1 .. n /\ j < n + k
      BY <1>4, <1>5, <3>1
    <3> QED BY <2>2, <3>3
  <2> QED BY <1>4, <2>1, <2>2
<1>8. E!Story(c, rec)
  BY <1>0, <1>1, <1>3, <1>6, <1>7, StoryParts
<1> QED BY <1>0, <1>8 DEF StoryOK, c

\* One transfer event, of an upload that is not committed.
LEMMA StoryMoves ==
    ASSUME NEW chain \in Seq(E!CustodyEvent), NEW t \in Seq(E!CustodyEvent), NEW rec, NEW new,
           StoryOK(chain, rec), ~rec.committed, ~new.committed,
           Len(t) = 1, t[1].type \in Transfers, t[1].digest = rec.digest,
           new.objectType = rec.objectType, new.digest = rec.digest,
           new.state = E!After(t[1].type)
    PROVE  StoryOK(chain \o t, new)
<1> DEFINE n == Len(chain)
           c == chain \o t
<1>0. E!Story(chain, rec)
  BY DEF StoryOK
<1>1. /\ Len(c) > 0
      /\ c[1].type = IF new.objectType = "ORIGINAL" THEN "CAPTURE_LOCAL" ELSE "DERIVED_GENERATED"
      /\ \A i \in 1 .. Len(c) : c[i].digest = new.digest <=> c[i].type # "TAMPER_DETECTED"
  <2>1. 1 .. Len(t) = {1}
    OBVIOUS
  <2>2. \A k \in 1 .. Len(t) : t[k].digest = rec.digest <=> t[k].type # "TAMPER_DETECTED"
    BY <2>1 DEF Transfers
  <2> QED BY <1>0, <2>2, StoryOpens
<1>2. E!At(t, Moves) = {1} /\ E!At(t, {"INTEGRITY_VERIFIED"}) = {}
      /\ E!At(t, {"EXPORT_PACKAGED"}) = {}
  <2>1. 1 .. Len(t) = {1}
    OBVIOUS
  <2> QED BY <2>1 DEF E!At, Moves, Transfers
<1>3. /\ n \in Nat /\ c[n + 1] = t[1]
      /\ E!At(c, Moves) = E!At(chain, Moves) \cup {n + k : k \in E!At(t, Moves)}
      /\ E!At(chain, Moves) \subseteq 1 .. n
  <2>1. 1 \in 1 .. Len(t)
    OBVIOUS
  <2> QED BY <2>1, AtOn
<1>4. /\ E!At(c, {"INTEGRITY_VERIFIED"}) = E!At(chain, {"INTEGRITY_VERIFIED"})
            \cup {n + k : k \in E!At(t, {"INTEGRITY_VERIFIED"})}
      /\ E!At(c, {"EXPORT_PACKAGED"}) = E!At(chain, {"EXPORT_PACKAGED"})
            \cup {n + k : k \in E!At(t, {"EXPORT_PACKAGED"})}
  BY AtOn
<1>5. E!At(chain, {"INTEGRITY_VERIFIED"}) = {} /\ E!At(chain, {"EXPORT_PACKAGED"}) = {}
  BY <1>0, StoryParts
<1> HIDE DEF c
<1>6. /\ E!At(c, {"INTEGRITY_VERIFIED"}) = {} /\ E!At(c, {"EXPORT_PACKAGED"}) = {}
      /\ E!At(c, Moves) = E!At(chain, Moves) \cup {n + 1}
  BY <1>2, <1>3, <1>5, <1>4
<1>7. E!Tells(c, new.state)
  <2>1. n + 1 \in E!At(c, Moves) /\ \A i \in E!At(c, Moves) : i <= n + 1
    <3>1. \A i \in 1 .. n : i <= n + 1
      BY <1>3
    <3>2. n + 1 \in E!At(c, Moves)
      BY <1>6, Zenon
    <3>3. \A i \in E!At(c, Moves) : i \in 1 .. n \/ i = n + 1
      BY <1>3, <1>6, Zenon
    <3>4. n + 1 <= n + 1
      BY <1>3
    <3> QED BY <3>1, <3>2, <3>3, <3>4, Zenon
  <2>2. new.state = E!After(c[n + 1].type)
    BY <1>3
  <2> QED BY <2>1, <2>2 DEF E!Tells, Moves
<1>8. E!Story(c, new)
  BY <1>1, <1>6, <1>7, StoryParts
<1> QED BY <1>8 DEF StoryOK, c

\* A verification, with nothing behind it but the note of a commit.
LEMMA StoryVerified ==
    ASSUME NEW chain \in Seq(E!CustodyEvent), NEW t \in Seq(E!CustodyEvent), NEW rec, NEW new,
           StoryOK(chain, rec), new.committed, new.state = "COMPLETED",
           Len(t) > 0, t[1].type = "INTEGRITY_VERIFIED",
           \A k \in 1 .. Len(t) : /\ k # 1 => t[k].type = "ORIGINAL_COMMITTED"
                                  /\ t[k].digest = rec.digest,
           new.objectType = rec.objectType, new.digest = rec.digest
    PROVE  StoryOK(chain \o t, new)
<1> DEFINE n == Len(chain)
           c == chain \o t
           V == {"INTEGRITY_VERIFIED"}
           X == {"EXPORT_PACKAGED"}
<1>0. E!Story(chain, rec)
  BY DEF StoryOK
<1>1. /\ Len(c) > 0
      /\ c[1].type = IF new.objectType = "ORIGINAL" THEN "CAPTURE_LOCAL" ELSE "DERIVED_GENERATED"
      /\ \A i \in 1 .. Len(c) : c[i].digest = new.digest <=> c[i].type # "TAMPER_DETECTED"
  <2>1. \A k \in 1 .. Len(t) : t[k].digest = rec.digest <=> t[k].type # "TAMPER_DETECTED"
    OBVIOUS
  <2> QED BY <1>0, <2>1, StoryOpens
<1>2. /\ E!At(t, Moves) = {1} /\ E!At(t, V) = {1} /\ E!At(t, X) = {} /\ E!At(t, Transfers) = {}
  <2>1. 1 \in 1 .. Len(t)
    OBVIOUS
  <2> QED BY <2>1 DEF E!At, Moves, Transfers
<1>3. /\ n \in Nat /\ 1 \in 1 .. Len(t) /\ c[n + 1] = t[1]
      /\ E!At(c, Moves) = E!At(chain, Moves) \cup {n + k : k \in E!At(t, Moves)}
      /\ E!At(chain, Moves) \subseteq 1 .. n
  <2>1. 1 \in 1 .. Len(t)
    OBVIOUS
  <2> QED BY <2>1, AtOn
<1>4. /\ E!At(c, V) = E!At(chain, V) \cup {n + k : k \in E!At(t, V)}
      /\ E!At(c, X) = E!At(chain, X) \cup {n + k : k \in E!At(t, X)}
      /\ E!At(c, Transfers) = E!At(chain, Transfers) \cup {n + k : k \in E!At(t, Transfers)}
      /\ E!At(chain, Transfers) \subseteq 1 .. n
  BY AtOn
<1> HIDE DEF c
<1>5. /\ E!At(c, Moves) = E!At(chain, Moves) \cup {n + 1}
      /\ E!At(c, V) = E!At(chain, V) \cup {n + 1}
      /\ E!At(c, X) = E!At(chain, X) /\ E!At(c, Transfers) = E!At(chain, Transfers)
  BY <1>2, <1>3, <1>4
<1>6. E!Tells(c, new.state)
  <2>1. n + 1 \in E!At(c, Moves) /\ \A i \in E!At(c, Moves) : i <= n + 1
    BY <1>3, <1>5
  <2>2. new.state = E!After(c[n + 1].type)
    BY <1>3 DEF E!After
  <2> QED BY <2>1, <2>2 DEF E!Tells, Moves
<1>7. \A i \in E!At(c, X) : \E j \in E!At(c, V) : j < i
  BY <1>0, <1>5, StoryParts
<1>8. \A i \in E!At(c, Transfers), j \in E!At(c, V) : i < j
  <2>1. \A i \in E!At(chain, Transfers) : i < n + 1
    BY <1>3, <1>4
  <2>2. \A i \in E!At(chain, Transfers), j \in E!At(chain, V) : i < j
    BY <1>0, StoryParts
  <2> QED BY <1>5, <2>1, <2>2
<1>9. E!Story(c, new)
  BY <1>1, <1>5, <1>6, <1>7, <1>8, StoryParts
<1> QED BY <1>9 DEF StoryOK, c

EventTypes == {"CAPTURE_LOCAL", "DERIVED_GENERATED", "TRANSFER_INTERRUPTED", "TRANSFER_RESUMED",
               "INTEGRITY_VERIFIED", "ORIGINAL_COMMITTED", "EXPORT_PACKAGED", "TAMPER_DETECTED"}

\* The events that Log appends.
Batch(types, p) == [i \in DOMAIN types |-> [type |-> types[i], digest |-> p]]

LEMMA BatchParts ==
    ASSUME NEW types \in Seq(EventTypes), NEW p \in Payload
    PROVE  /\ Batch(types, p) \in Seq(E!CustodyEvent) /\ Len(Batch(types, p)) = Len(types)
           /\ \A k \in 1 .. Len(types) : /\ Batch(types, p)[k].type = types[k]
                                         /\ Batch(types, p)[k].digest = p
<1>1. DOMAIN types = 1 .. Len(types) /\ Len(types) \in Nat
  OBVIOUS
<1>2. \A k \in 1 .. Len(types) : [type |-> types[k], digest |-> p] \in E!CustodyEvent
  BY DEF E!CustodyEvent, EventTypes
<1>3. Batch(types, p) = [k \in 1 .. Len(types) |-> [type |-> types[k], digest |-> p]]
  BY <1>1 DEF Batch
<1> QED BY <1>1, <1>2, <1>3

LEMMA SingleEvent ==
    ASSUME NEW ev \in EventTypes, NEW p \in Payload
    PROVE  /\ Batch(<<ev>>, p) \in Seq(E!CustodyEvent) /\ Len(Batch(<<ev>>, p)) = 1
           /\ Batch(<<ev>>, p)[1].type = ev /\ Batch(<<ev>>, p)[1].digest = p
<1> DEFINE types == <<ev>>
<1>1. types \in Seq(EventTypes) /\ Len(types) = 1 /\ types[1] = ev /\ 1 \in 1 .. 1
  OBVIOUS
<1> HIDE DEF types
<1>2. /\ Batch(types, p) \in Seq(E!CustodyEvent) /\ Len(Batch(types, p)) = Len(types)
      /\ \A k \in 1 .. Len(types) : /\ Batch(types, p)[k].type = types[k]
                                    /\ Batch(types, p)[k].digest = p
  BY <1>1, BatchParts
<1>3. /\ Batch(types, p) \in Seq(E!CustodyEvent) /\ Len(Batch(types, p)) = 1
      /\ Batch(types, p)[1].type = ev /\ Batch(types, p)[1].digest = p
  BY <1>1, <1>2
<1> QED BY <1>3 DEF types

\* Registration: the chain of the new record is the one event.
LEMMA RegisterStep ==
    ASSUME CustodyInv, NEW e \in Evidence, NEW parent \in Evidence \cup {None},
           NEW p \in Payload, NEW n \in E!Sizes,
           \/ E!Register(e, "ORIGINAL", None, p, n) /\ E!Log(e, <<"CAPTURE_LOCAL">>, p)
           \/ /\ E!ParentOK(parent) /\ parent \in Evidence
              /\ E!Register(e, "DERIVED", parent, p, n) /\ E!Log(e, <<"DERIVED_GENERATED">>, p)
    PROVE  CustodyInv'
<1>1. PICK ty \in {"ORIGINAL", "DERIVED"}, par \in Evidence \cup {None},
           ev \in {"CAPTURE_LOCAL", "DERIVED_GENERATED"} :
         /\ ev = (IF ty = "ORIGINAL" THEN "CAPTURE_LOCAL" ELSE "DERIVED_GENERATED")
         /\ ty = "DERIVED" => E!ParentOK(par) /\ par \in Evidence
         /\ E!Register(e, ty, par, p, n) /\ E!Log(e, <<ev>>, p)
  BY Zenon
<1> DEFINE rec == [objectType |-> ty, parent |-> par, sizeBytes |-> n, digest |-> p,
                   state |-> "INITIALIZED", committed |-> FALSE]
           t == Batch(<<ev>>, p)
<1>2. /\ rec \in E!EvidenceRecord /\ rec.objectType = ty /\ rec.parent = par /\ rec.digest = p
      /\ rec.state = "INITIALIZED" /\ rec.committed = FALSE
  BY DEF E!EvidenceRecord, E!UploadLifecycleState
<1>3. t \in Seq(E!CustodyEvent) /\ Len(t) = 1 /\ t[1].type = ev /\ t[1].digest = p
  BY <1>1, SingleEvent DEF EventTypes
<1>4. /\ E!TypeOK /\ evidence[e] = None /\ custodyChain[e] = <<>> /\ manifest' = manifest
      /\ evidence' = [evidence EXCEPT ![e] = rec]
      /\ custodyChain' = [custodyChain EXCEPT ![e] = custodyChain[e] \o t]
  BY <1>1 DEF CustodyInv, E!Register, E!Registered, E!Log, Batch
<1> HIDE DEF rec, t
<1>5. <<>> \o t = t
  BY <1>3, ConcatEmptySeq
<1>6. StoryOK(t, rec)
  <2>1. 1 .. Len(t) = {1}
    BY <1>3
  <2>2. /\ E!At(t, Moves) = {} /\ E!At(t, {"INTEGRITY_VERIFIED"}) = {}
        /\ E!At(t, {"EXPORT_PACKAGED"}) = {}
    BY <1>3, <2>1 DEF E!At, Moves
  <2>3. E!Tells(t, rec.state)
    BY <1>2, <2>2 DEF E!Tells, Moves
  <2>4. \A i \in 1 .. Len(t) : t[i].digest = rec.digest <=> t[i].type # "TAMPER_DETECTED"
    BY <1>2, <1>3, <2>1
  <2>5. t[1].type = IF rec.objectType = "ORIGINAL" THEN "CAPTURE_LOCAL" ELSE "DERIVED_GENERATED"
    BY <1>1, <1>2, <1>3
  <2>6. E!Story(t, rec)
    BY <1>2, <1>3, <2>2, <2>3, <2>4, <2>5, StoryParts
  <2> QED BY <1>2, <2>6 DEF StoryOK
<1>7. rec.objectType = "DERIVED" =>
         /\ rec.parent \in Evidence /\ evidence[rec.parent] # None
         /\ evidence[rec.parent].committed /\ evidence[rec.parent].objectType = "ORIGINAL"
  BY <1>1, <1>2 DEF E!ParentOK, E!Committed, E!Registered
<1> QED BY <1>2, <1>3, <1>4, <1>5, <1>6, <1>7, RecordChanged

\* A record after one of its fields has changed.
LEMMA RecordFields ==
    ASSUME CustodyInv, NEW e \in Evidence, evidence[e] # None
    PROVE  /\ evidence \in [Evidence -> E!EvidenceRecord \cup {None}]
           /\ evidence[e] \in E!EvidenceRecord /\ custodyChain[e] \in Seq(E!CustodyEvent)
           /\ evidence[e].digest \in Payload /\ evidence[e].committed \in BOOLEAN
           /\ StoryOK(custodyChain[e], evidence[e])
<1>1. /\ evidence \in [Evidence -> E!EvidenceRecord \cup {None}]
      /\ custodyChain[e] \in Seq(E!CustodyEvent) /\ StoryOK(custodyChain[e], evidence[e])
  BY DEF CustodyInv, E!TypeOK
<1>2. evidence[e] \in E!EvidenceRecord
  BY <1>1
<1> QED BY <1>1, <1>2 DEF E!EvidenceRecord

\* An event that leaves the record as it is.
LEMMA NotedStep ==
    ASSUME CustodyInv, NEW e \in Evidence, evidence[e] # None, NEW p \in Payload,
           NEW ev \in {"TAMPER_DETECTED", "INTEGRITY_VERIFIED"},
           ev = "TAMPER_DETECTED" => p # evidence[e].digest,
           ev = "INTEGRITY_VERIFIED" => p = evidence[e].digest /\ evidence[e].committed,
           E!Log(e, <<ev>>, p), UNCHANGED <<evidence, manifest>>
    PROVE  CustodyInv'
<1> DEFINE t == Batch(<<ev>>, p)
<1>1. /\ evidence \in [Evidence -> E!EvidenceRecord \cup {None}]
      /\ evidence[e] \in E!EvidenceRecord /\ custodyChain[e] \in Seq(E!CustodyEvent)
      /\ StoryOK(custodyChain[e], evidence[e])
  BY RecordFields
<1>2. t \in Seq(E!CustodyEvent) /\ Len(t) = 1 /\ t[1].type = ev /\ t[1].digest = p
  BY SingleEvent DEF EventTypes
<1>3. custodyChain' = [custodyChain EXCEPT ![e] = custodyChain[e] \o t]
  BY DEF E!Log, Batch
<1> HIDE DEF t
<1>4. custodyChain[e] \o t \in Seq(E!CustodyEvent)
  BY <1>1, <1>2, ConcatProperties
<1>5. 1 .. Len(t) = {1}
  BY <1>2
<1>6. StoryOK(custodyChain[e] \o t, evidence[e])
  <2>1. CASE ev = "TAMPER_DETECTED"
    <3>1. \A k \in 1 .. Len(t) :
             /\ t[k].type \notin Moves
             /\ t[k].type = "EXPORT_PACKAGED" => evidence[e].committed
             /\ t[k].digest = evidence[e].digest <=> t[k].type # "TAMPER_DETECTED"
      BY <1>2, <1>5, <2>1 DEF Moves
    <3> QED BY <1>1, <1>2, <3>1, StoryStays
  <2>2. CASE ev = "INTEGRITY_VERIFIED"
    <3>1. evidence[e].committed /\ evidence[e].state = "COMPLETED"
      BY <1>1, <2>2 DEF StoryOK
    <3>2. \A k \in 1 .. Len(t) : /\ k # 1 => t[k].type = "ORIGINAL_COMMITTED"
                                 /\ t[k].digest = evidence[e].digest
      BY <1>2, <1>5, <2>2
    <3>3. Len(t) > 0 /\ t[1].type = "INTEGRITY_VERIFIED"
      BY <1>2, <2>2
    <3> QED BY <1>1, <1>2, <3>1, <3>2, <3>3, StoryVerified
  <2> QED BY <2>1, <2>2
<1>7. evidence' = [evidence EXCEPT ![e] = evidence[e]] /\ Continues(evidence[e], evidence[e])
  BY <1>1 DEF Continues
<1> QED BY <1>1, <1>3, <1>4, <1>6, <1>7, RecordChanged

\* The transfer methods, of an upload that is not committed.
LEMMA MoveToStep ==
    ASSUME CustodyInv, NEW e \in Evidence,
           E!RecordTransferInterrupted(e) \/ E!RecordTransferResumed(e)
    PROVE  CustodyInv'
<1>1. PICK state \in {"FAILED", "TRANSFERRING"}, ev \in Transfers :
         state = E!After(ev) /\ E!MoveTo(e, state, ev)
  <2>1. CASE E!RecordTransferInterrupted(e)
    <3>1. "FAILED" = E!After("TRANSFER_INTERRUPTED") /\ "TRANSFER_INTERRUPTED" \in Transfers
      BY DEF E!After, Transfers
    <3> QED BY <2>1, <3>1, Zenon DEF E!RecordTransferInterrupted
  <2>2. CASE E!RecordTransferResumed(e)
    <3>1. "TRANSFERRING" = E!After("TRANSFER_RESUMED") /\ "TRANSFER_RESUMED" \in Transfers
      BY DEF E!After, Transfers
    <3> QED BY <2>2, <3>1, Zenon DEF E!RecordTransferResumed
  <2> QED BY <2>1, <2>2
<1> DEFINE old == evidence[e]
           rec == [old EXCEPT !.state = state]
           t == Batch(<<ev>>, old.digest)
<1>2. evidence[e] # None /\ ~evidence[e].committed
  BY <1>1 DEF E!MoveTo, E!Open, E!Registered
<1>3. /\ evidence \in [Evidence -> E!EvidenceRecord \cup {None}]
      /\ evidence[e] \in E!EvidenceRecord /\ custodyChain[e] \in Seq(E!CustodyEvent)
      /\ evidence[e].digest \in Payload /\ StoryOK(custodyChain[e], evidence[e])
  BY <1>2, RecordFields
<1>4. /\ rec \in E!EvidenceRecord /\ rec.objectType = old.objectType /\ rec.parent = old.parent
      /\ rec.digest = old.digest /\ rec.state = state /\ rec.committed = old.committed
  BY <1>3 DEF E!EvidenceRecord, E!UploadLifecycleState
<1>5. t \in Seq(E!CustodyEvent) /\ Len(t) = 1 /\ t[1].type = ev /\ t[1].digest = old.digest
  BY <1>3, SingleEvent DEF EventTypes, Transfers
<1>6. /\ custodyChain' = [custodyChain EXCEPT ![e] = custodyChain[e] \o t]
      /\ evidence' = [evidence EXCEPT ![e] = rec] /\ manifest' = manifest
  BY <1>1 DEF E!MoveTo, E!Log, Batch
<1> HIDE DEF rec, t
<1>7. custodyChain[e] \o t \in Seq(E!CustodyEvent)
  BY <1>3, <1>5, ConcatProperties
<1>8. StoryOK(custodyChain[e] \o t, rec)
  <2>1. ~rec.committed /\ rec.state = E!After(t[1].type) /\ t[1].type \in Transfers
    BY <1>1, <1>2, <1>4, <1>5
  <2> QED BY <1>2, <1>3, <1>4, <1>5, <2>1, StoryMoves
<1>9. Continues(evidence[e], rec)
  BY <1>4 DEF Continues
<1> QED BY <1>2, <1>4, <1>6, <1>7, <1>8, <1>9, RecordChanged

\* CommitOriginal and CommitDerived: a verification, and for an original the note of it.
LEMMA CommitStep ==
    ASSUME CustodyInv, NEW e \in Evidence, NEW p \in Payload,
           E!CommitOriginal(e, p) \/ E!CommitDerived(e, p)
    PROVE  CustodyInv'
<1>1. PICK types \in {<<"INTEGRITY_VERIFIED">>, <<"INTEGRITY_VERIFIED", "ORIGINAL_COMMITTED">>} :
         E!Complete(e) /\ E!Log(e, types, p) /\ E!Open(e) /\ p = evidence[e].digest
  BY Zenon DEF E!CommitOriginal, E!CommitDerived
<1>2. /\ types \in Seq(EventTypes) /\ Len(types) > 0 /\ types[1] = "INTEGRITY_VERIFIED"
      /\ \A k \in 1 .. Len(types) : k # 1 => types[k] = "ORIGINAL_COMMITTED"
  <2>1. CASE types = <<"INTEGRITY_VERIFIED">>
    BY <2>1 DEF EventTypes
  <2>2. CASE types = <<"INTEGRITY_VERIFIED", "ORIGINAL_COMMITTED">>
    <3>1. /\ Len(types) = 2 /\ types[1] = "INTEGRITY_VERIFIED"
          /\ types[2] = "ORIGINAL_COMMITTED" /\ types \in Seq(EventTypes)
      BY <2>2 DEF EventTypes
    <3>2. \A k \in 1 .. 2 : k # 1 => k = 2
      OBVIOUS
    <3> QED BY <3>1, <3>2
  <2> QED BY <2>1, <2>2
<1> DEFINE old == evidence[e]
           mid == [old EXCEPT !.state = "COMPLETED"]
           rec == [mid EXCEPT !.committed = TRUE]
           t == Batch(types, p)
<1>3. evidence[e] # None
  BY <1>1 DEF E!Open, E!Registered
<1>4. /\ evidence \in [Evidence -> E!EvidenceRecord \cup {None}]
      /\ evidence[e] \in E!EvidenceRecord /\ custodyChain[e] \in Seq(E!CustodyEvent)
      /\ StoryOK(custodyChain[e], evidence[e])
  BY <1>3, RecordFields
<1>5. /\ mid \in E!EvidenceRecord /\ mid.objectType = old.objectType /\ mid.parent = old.parent
      /\ mid.digest = old.digest /\ mid.state = "COMPLETED"
  BY <1>4 DEF E!EvidenceRecord, E!UploadLifecycleState
<1>6. evidence' = [evidence EXCEPT ![e] = rec] /\ manifest' = manifest
  BY <1>1, <1>4 DEF E!Complete
<1> HIDE DEF mid
<1>7. /\ rec \in E!EvidenceRecord /\ rec.objectType = mid.objectType /\ rec.parent = mid.parent
      /\ rec.digest = mid.digest /\ rec.state = mid.state /\ rec.committed
  BY <1>5 DEF E!EvidenceRecord, E!UploadLifecycleState
<1>8. custodyChain' = [custodyChain EXCEPT ![e] = custodyChain[e] \o t]
  BY <1>1 DEF E!Log, Batch
<1>9. /\ t \in Seq(E!CustodyEvent) /\ Len(t) = Len(types)
      /\ \A k \in 1 .. Len(types) : t[k].type = types[k] /\ t[k].digest = p
  BY <1>2, BatchParts
<1> HIDE DEF rec, t
<1>10. custodyChain[e] \o t \in Seq(E!CustodyEvent)
  BY <1>4, <1>9, ConcatProperties
<1>11. StoryOK(custodyChain[e] \o t, rec)
  <2>1. Len(t) > 0 /\ t[1].type = "INTEGRITY_VERIFIED"
    <3>1. 1 \in 1 .. Len(types)
      BY <1>2
    <3> QED BY <1>2, <1>9, <3>1
  <2>2. \A k \in 1 .. Len(t) : /\ k # 1 => t[k].type = "ORIGINAL_COMMITTED"
                               /\ t[k].digest = old.digest
    BY <1>1, <1>2, <1>9
  <2>3. /\ rec.committed /\ rec.state = "COMPLETED" /\ rec.objectType = old.objectType
        /\ rec.digest = old.digest
    BY <1>5, <1>7
  <2> QED BY <1>4, <1>9, <2>1, <2>2, <2>3, StoryVerified
<1>12. Continues(evidence[e], rec)
  BY <1>5, <1>7 DEF Continues
<1> QED BY <1>3, <1>6, <1>7, <1>8, <1>10, <1>11, <1>12, RecordChanged

\* GenerateExportManifest: what it takes, and with it what it packages, is committed; when
\* everything is, the manifest lists it.
LEMMA ManifestStep ==
    ASSUME CustodyInv, NEW ids \in E!Requests, E!GenerateExportManifest(ids)
    PROVE  CustodyInv'
<1> DEFINE bad == {i \in DOMAIN ids : ~E!Committed(ids[i])}
           taken(e) == {i \in DOMAIN ids : ids[i] = e /\ \A j \in bad : i < j}
           t(e) == [k \in 1 .. Cardinality(taken(e)) |->
                      [type |-> "EXPORT_PACKAGED", digest |-> evidence[e].digest]]
<1>1. DOMAIN ids \subseteq 1 .. 2 /\ \A i \in DOMAIN ids : ids[i] \in Evidence
  BY DEF E!Requests
<1>2. /\ custodyChain' = [e \in Evidence |-> custodyChain[e] \o t(e)]
      /\ manifest' = IF bad # {} THEN manifest
                     ELSE [i \in DOMAIN ids |-> E!ExportManifestItem(ids[i])]
      /\ evidence' = evidence
  BY DEF E!GenerateExportManifest, E!Cardinality, Cardinality
<1>3. E!TypeOK /\ DerivedOK(evidence) /\ ManifestOK(manifest, evidence)
  BY DEF CustodyInv
<1>4. ASSUME NEW e \in Evidence
      PROVE  /\ IsFiniteSet(taken(e)) /\ Cardinality(taken(e)) \in Nat
             /\ Cardinality(taken(e)) = 0 <=> taken(e) = {}
  <2>1. IsFiniteSet(1 .. 2)
    BY FS_Interval, 1 \in Int, 2 \in Int
  <2>2. taken(e) \subseteq 1 .. 2
    BY <1>1
  <2>3. IsFiniteSet(taken(e))
    BY <2>1, <2>2, FS_Subset
  <2> QED BY <2>3, FS_CardinalityType, FS_EmptySet
<1>5. ASSUME NEW e \in Evidence, taken(e) # {} PROVE evidence[e] # None /\ evidence[e].committed
  <2>1. PICK i \in taken(e) : TRUE
    BY <1>5
  <2>2. i \in DOMAIN ids /\ ids[i] = e /\ i \notin bad
    <3>1. ~(i < i)
      BY <1>1, <2>1
    <3> QED BY <2>1, <3>1
  <2> QED BY <2>2 DEF E!Committed, E!Registered
<1> HIDE DEF taken
<1>6. ASSUME NEW e \in Evidence
      PROVE  /\ custodyChain'[e] \in Seq(E!CustodyEvent)
             /\ IF evidence[e] # None THEN StoryOK(custodyChain'[e], evidence[e])
                ELSE custodyChain'[e] = <<>>
  <2> DEFINE n == Cardinality(taken(e))
  <2>0. custodyChain'[e] = custodyChain[e] \o t(e) /\ custodyChain[e] \in Seq(E!CustodyEvent)
    BY <1>2, <1>3 DEF E!TypeOK
  <2>1. CASE taken(e) = {}
    <3>1. n = 0
      BY <1>4, <2>1
    <3> HIDE DEF n
    <3>2. t(e) = <<>>
      BY <3>1 DEF n
    <3>3. custodyChain'[e] = custodyChain[e]
      BY <2>0, <3>2, ConcatEmptySeq
    <3> QED BY <2>0, <3>3 DEF CustodyInv
  <2>2. CASE taken(e) # {}
    <3>1. evidence[e] # None /\ evidence[e].committed
      BY <1>5, <2>2
    <3>2. evidence[e].digest \in Payload /\ StoryOK(custodyChain[e], evidence[e])
      BY <3>1, RecordFields
    <3>3. n \in Nat
      BY <1>4
    <3>4. [type |-> "EXPORT_PACKAGED", digest |-> evidence[e].digest] \in E!CustodyEvent
      BY <3>2 DEF E!CustodyEvent
    <3>5. /\ t(e) \in Seq(E!CustodyEvent) /\ Len(t(e)) = n
          /\ \A k \in 1 .. n : /\ t(e)[k].type = "EXPORT_PACKAGED"
                               /\ t(e)[k].digest = evidence[e].digest
      <4> DEFINE ev == [type |-> "EXPORT_PACKAGED", digest |-> evidence[e].digest]
                 s == t(e)
      <4>1. ev.type = "EXPORT_PACKAGED" /\ ev.digest = evidence[e].digest
        OBVIOUS
      <4>2. s = [k \in 1 .. n |-> ev]
        OBVIOUS
      <4> HIDE DEF n, s, ev
      <4>3. ev \in E!CustodyEvent
        BY <3>4 DEF ev
      <4>4. s \in Seq(E!CustodyEvent) /\ Len(s) = n /\ \A k \in 1 .. n : s[k] = ev
        BY <3>3, <4>2, <4>3
      <4> QED BY <4>1, <4>4 DEF s
    <3> HIDE DEF t, n
    <3>6. \A k \in 1 .. Len(t(e)) :
             /\ t(e)[k].type \notin Moves
             /\ t(e)[k].type = "EXPORT_PACKAGED" => evidence[e].committed
             /\ t(e)[k].digest = evidence[e].digest <=> t(e)[k].type # "TAMPER_DETECTED"
      BY <3>1, <3>5 DEF Moves
    <3>7. StoryOK(custodyChain[e] \o t(e), evidence[e])
      BY <2>0, <3>2, <3>5, <3>6, StoryStays
    <3>8. custodyChain[e] \o t(e) \in Seq(E!CustodyEvent)
      BY <2>0, <3>5, ConcatProperties
    <3> QED BY <2>0, <3>1, <3>7, <3>8
  <2> QED BY <2>1, <2>2
<1>7. E!TypeOK'
  <2>1. DOMAIN custodyChain' = Evidence /\ custodyChain' = [e \in Evidence |-> custodyChain'[e]]
    BY <1>2
  <2> QED BY <1>2, <1>3, <1>6, <2>1 DEF E!TypeOK
<1>8. ManifestOK(manifest', evidence')
  <2>1. CASE bad # {}
    BY <1>2, <1>3, <2>1
  <2>2. CASE bad = {}
    <3>1. manifest' = [i \in DOMAIN ids |-> E!ExportManifestItem(ids[i])]
      BY <1>2, <2>2
    <3>2. \A i \in DOMAIN ids : E!Committed(ids[i])
      BY <2>2
    <3>3. \A i \in DOMAIN ids : /\ manifest'[i].evidence = ids[i]
                                /\ manifest'[i].digest = evidence[ids[i]].digest
      BY <3>1 DEF E!ExportManifestItem
    <3>4. DOMAIN manifest' = DOMAIN ids
      BY <3>1
    <3> QED BY <1>1, <1>2, <3>2, <3>3, <3>4 DEF ManifestOK, E!Committed, E!Registered
  <2> QED BY <2>1, <2>2
<1> QED BY <1>2, <1>3, <1>6, <1>7, <1>8 DEF CustodyInv

\* Every operation of EvidenceIntegrityManager.
LEMMA CustodyStep == CustodyInv /\ [E!Next]_(E!vars) => CustodyInv'
<1> SUFFICES ASSUME CustodyInv, [E!Next]_(E!vars) PROVE CustodyInv'
  OBVIOUS
<1>1. CASE UNCHANGED E!vars
  BY <1>1 DEF E!vars, CustodyInv, E!TypeOK, DerivedOK, ManifestOK
<1>2. ASSUME NEW e \in Evidence, NEW p \in Payload, NEW n \in E!Sizes,
             E!RegisterOriginal(e, p, n) \/ \E parent \in Evidence : E!RegisterDerived(e, parent, p, n)
      PROVE  CustodyInv'
  <2>1. CASE E!RegisterOriginal(e, p, n)
    <3>1. None \in Evidence \cup {None}
      OBVIOUS
    <3> QED BY <2>1, <3>1, RegisterStep DEF E!RegisterOriginal
  <2>2. ASSUME NEW parent \in Evidence, E!RegisterDerived(e, parent, p, n) PROVE CustodyInv'
    <3>1. parent \in Evidence \cup {None}
      OBVIOUS
    <3> QED BY <2>2, <3>1, RegisterStep DEF E!RegisterDerived
  <2> QED BY <1>2, <2>1, <2>2
<1>3. ASSUME NEW e \in Evidence, NEW p \in Payload,
             \/ E!CommitTampered(e, p) \/ E!CommitOriginal(e, p) \/ E!CommitDerived(e, p)
             \/ E!VerifyTamper(e, p)
      PROVE  CustodyInv'
  <2>1. CASE E!CommitTampered(e, p) \/ E!VerifyTamper(e, p)
    <3>1. /\ evidence[e] # None /\ p # evidence[e].digest /\ E!Log(e, <<"TAMPER_DETECTED">>, p)
          /\ UNCHANGED <<evidence, manifest>>
      BY <2>1 DEF E!CommitTampered, E!VerifyTamper, E!Open, E!Registered
    <3> QED BY <3>1, NotedStep
  <2>2. CASE E!CommitOriginal(e, p) \/ E!CommitDerived(e, p)
    BY <2>2, CommitStep
  <2> QED BY <1>3, <2>1, <2>2
<1>4. ASSUME NEW e \in Evidence,
             \/ E!RecordTransferInterrupted(e) \/ E!RecordTransferResumed(e)
             \/ E!HandleDuplicateUpload(e)
      PROVE  CustodyInv'
  <2>1. CASE E!HandleDuplicateUpload(e)
    <3>1. /\ evidence[e] # None /\ evidence[e].committed
          /\ E!Log(e, <<"INTEGRITY_VERIFIED">>, evidence[e].digest)
          /\ UNCHANGED <<evidence, manifest>>
      BY <2>1 DEF E!HandleDuplicateUpload, E!Committed, E!Registered
    <3>2. evidence[e].digest \in Payload
      BY <3>1, RecordFields
    <3> QED BY <3>1, <3>2, NotedStep
  <2> QED BY <1>4, <2>1, MoveToStep
<1> QED BY <1>1, <1>2, <1>3, <1>4, ManifestStep DEF E!Next

\* The invariant gives the two properties of the chain.
LEMMA CustodyInvReplays == CustodyInv => E!CustodyReplays /\ E!DerivedFromCommitted
<1> SUFFICES ASSUME CustodyInv PROVE E!CustodyReplays /\ E!DerivedFromCommitted
  OBVIOUS
<1>1. E!CustodyReplays
  BY DEF CustodyInv, E!CustodyReplays, StoryOK, E!Registered
<1>2. DerivedOK(evidence) /\ ManifestOK(manifest, evidence)
  BY DEF CustodyInv
<1>3. E!DerivedFromCommitted
  BY <1>2 DEF E!DerivedFromCommitted, DerivedOK, ManifestOK, E!Committed, E!Registered
<1> QED BY <1>1, <1>3

\* For any number of evidence objects and payloads, every chain of custody tells its
\* record's story, and derived artifacts and manifests rest on committed evidence.
THEOREM ChainsTellStories == E!Spec => [](E!CustodyReplays /\ E!DerivedFromCommitted)
<1>1. E!Spec => []CustodyInv
  BY CustodyInitially, CustodyStep, PTL DEF E!Spec
<1> QED BY <1>1, CustodyInvReplays, PTL

\* The property of the run records about EvidenceIntegrityManager.
THEOREM CustodyReplaysHolds == Spec => []CustodyReplays
<1> DEFINE Inv == focus = "evidence" => CustodyInv
<1>1. Init => Inv
  BY CustodyInitially DEF Init
<1>2. Inv /\ [Next]_vars => Inv'
  <2> SUFFICES ASSUME Inv, [Next]_vars, focus' = "evidence" PROVE CustodyInv'
    OBVIOUS
  <2>1. focus = "evidence" /\ [E!Next]_(E!vars)
    BY DEF Next, vars, Records, Integrity, Custody, Templates, Registry, Lifecycle, Store,
       eOnly, E!vars
  <2> QED BY <2>1, CustodyStep
<1>3. Inv => CustodyReplays
  BY CustodyInvReplays DEF CustodyReplays
<1> QED BY <1>1, <1>2, <1>3, PTL DEF Spec
=============================================================================
