--------------------------- MODULE PlatformProofs ---------------------------
(***************************************************************************)
(* Proofs about the components of MCPlatform, for every value of their     *)
(* constants.  For each component: the inductive invariant, one step per   *)
(* action, the component's own theorem, and the property the run platform  *)
(* checks, which follows because only the part in focus moves.             *)
(***************************************************************************)
EXTENDS MCPlatform, FiniteSetTheorems, TLAPS

-----------------------------------------------------------------------------
\* Identifiers: an answer is what the key's record says, and a record is never replaced.

IdentifiersInv == I!TypeOK /\ I!AnswersRecorded /\ I!RefsInvert

\* No key answered, no reference registered.
LEMMA IdentifiersInitially == I!Init => IdentifiersInv
<1> SUFFICES ASSUME I!Init PROVE IdentifiersInv
  OBVIOUS
<1>1. I!TypeOK
  BY DEF I!Init, I!TypeOK
<1>2. I!AnswersRecorded
  BY DEF I!Init, I!AnswersRecorded
<1>3. I!RefsInvert
  BY PlatformAssumption DEF I!Init, I!RefsInvert, I!IdentifiersAssumption
<1> QED BY <1>1, <1>2, <1>3 DEF IdentifiersInv

\* EvaluateOrCreate answers from the record, or makes the record it answers with.
LEMMA EvaluateStep ==
    ASSUME IdentifiersInv, NEW k \in I!Scoped, NEW d \in Digest, I!EvaluateOrCreate(k, d),
           UNCHANGED <<I!refVars, I!packageVars>>
    PROVE  IdentifiersInv'
<1>0. I!TypeOK /\ I!AnswersRecorded /\ I!RefsInvert
  BY DEF IdentifiersInv
<1>1. I!RefsInvert'
  BY <1>0 DEF I!RefsInvert, I!refVars, I!packageVars
<1>2. CASE records[k] # None /\ records[k].digest = d
            /\ answered' = answered \cup {<<k, d, records[k].resource>>}
            /\ UNCHANGED <<records, made>>
  <2>1. records[k] \in I!IdempotencyRecord
    BY <1>0, <1>2 DEF I!TypeOK
  <2>2. <<k, d, records[k].resource>> \in I!Scoped \X Digest \X Resource
    BY <2>1 DEF I!IdempotencyRecord
  <2>3. I!TypeOK'
    BY <1>0, <1>2, <2>2 DEF I!TypeOK, I!refVars, I!packageVars
  <2>4. I!AnswersRecorded'
    BY <1>0, <1>2 DEF I!AnswersRecorded
  <2> QED BY <1>1, <2>3, <2>4 DEF IdentifiersInv
<1>3. CASE records[k] = None
            /\ \E r \in {x \in Resource : made[x] = None} :
                  /\ made' = [made EXCEPT ![r] = k]
                  /\ records' = I!Kept(k, d, r)
                  /\ answered' = answered \cup {<<k, d, r>>}
  <2>1. PICK r \in Resource : /\ made' = [made EXCEPT ![r] = k]
                              /\ records' = [records EXCEPT ![k] =
                                                [digest |-> d, resource |-> r]]
                              /\ answered' = answered \cup {<<k, d, r>>}
    BY <1>3 DEF I!Kept
  <2> DEFINE new == [digest |-> d, resource |-> r]
  <2>2. new \in I!IdempotencyRecord /\ new.digest = d /\ new.resource = r /\ new # None
    BY PlatformAssumption DEF I!IdempotencyRecord, I!IdentifiersAssumption
  <2>3. records' = [records EXCEPT ![k] = new]
    BY <2>1
  <2> HIDE DEF new
  <2>4. I!TypeOK'
    BY <1>0, <2>1, <2>2, <2>3 DEF I!TypeOK, I!refVars, I!packageVars
  <2>5. records'[k] = new
    BY <1>0, <2>3 DEF I!TypeOK
  <2>6. ASSUME NEW a \in answered
        PROVE  records'[a[1]] # None /\ a[2] = records'[a[1]].digest
               /\ a[3] = records'[a[1]].resource
    <3>1. records[a[1]] # None /\ a[1] \in I!Scoped
      BY <1>0 DEF I!AnswersRecorded, I!TypeOK
    <3>2. records'[a[1]] = records[a[1]]
      BY <1>0, <1>3, <2>3, <3>1 DEF I!TypeOK
    <3> QED BY <1>0, <3>2 DEF I!AnswersRecorded
  <2>7. I!AnswersRecorded'
    BY <2>1, <2>2, <2>5, <2>6 DEF I!AnswersRecorded
  <2> QED BY <1>1, <2>4, <2>7 DEF IdentifiersInv
<1> QED BY <1>2, <1>3 DEF I!EvaluateOrCreate

\* A createFn that fails after its effect leaves no record.
LEMMA CreateFailsStep ==
    ASSUME IdentifiersInv, NEW k \in I!Scoped, I!CreateFails(k),
           UNCHANGED <<I!refVars, I!packageVars>>
    PROVE  IdentifiersInv'
  BY DEF IdentifiersInv, I!TypeOK, I!AnswersRecorded, I!RefsInvert, I!CreateFails, I!refVars,
         I!packageVars

\* RegisterExternalRef binds an external and an internal ID neither of which was bound:
\* a reverse entry that names x already would, by RefsInvert, be matched by a forward one.
LEMMA RegisterExternalStep ==
    ASSUME IdentifiersInv, NEW t \in Tenant, NEW x \in ExternalID, NEW i \in InternalID,
           I!RegisterExternalRef(t, x, i), UNCHANGED <<I!storeVars, I!packageVars>>
    PROVE  IdentifiersInv'
<1>0. I!TypeOK /\ I!AnswersRecorded /\ I!RefsInvert
  BY DEF IdentifiersInv
<1>1. I!TypeOK'
  BY <1>0 DEF I!TypeOK, I!RegisterExternalRef, I!storeVars, I!packageVars
<1>2. I!AnswersRecorded'
  BY <1>0 DEF I!AnswersRecorded, I!storeVars
<1>3. forwardMap[<<t, x>>] = None /\ reverseMap[<<t, i>>] = None
  BY <1>0, PlatformAssumption DEF I!RegisterExternalRef, I!Unbound, I!RefsInvert,
     I!IdentifiersAssumption
<1>4. ASSUME NEW u \in Tenant, NEW y \in ExternalID, NEW j \in InternalID
      PROVE  forwardMap'[<<u, y>>] = j <=> reverseMap'[<<u, j>>] = y
  <2>1. forwardMap'[<<u, y>>] = IF u = t /\ y = x THEN i ELSE forwardMap[<<u, y>>]
    BY <1>0 DEF I!TypeOK, I!RegisterExternalRef
  <2>2. reverseMap'[<<u, j>>] = IF u = t /\ j = i THEN x ELSE reverseMap[<<u, j>>]
    BY <1>0 DEF I!TypeOK, I!RegisterExternalRef
  <2>3. forwardMap[<<u, y>>] = j <=> reverseMap[<<u, j>>] = y
    BY <1>0 DEF I!RefsInvert
  <2> QED BY <1>3, <2>1, <2>2, <2>3, PlatformAssumption DEF I!IdentifiersAssumption
<1>5. I!RefsInvert'
  BY <1>0, <1>4 DEF I!RefsInvert, I!packageVars
<1> QED BY <1>1, <1>2, <1>5 DEF IdentifiersInv

\* Register of packages/identifiers draws a token that no tenant uses.
LEMMA RegisterOpaqueStep ==
    ASSUME IdentifiersInv, NEW t \in Tenant, NEW x \in ExternalID, NEW i \in InternalID,
           I!RegisterOpaque(t, x, i), UNCHANGED <<I!storeVars, I!refVars>>
    PROVE  IdentifiersInv'
<1>0. I!TypeOK /\ I!AnswersRecorded /\ I!RefsInvert
  BY DEF IdentifiersInv
<1>1. PICK token \in LookupToken :
         /\ \A u \in Tenant : byLookupToken[<<u, token>>] = None
         /\ byExtKey' = [byExtKey EXCEPT ![<<t, x>>] = [internal |-> i, token |-> token]]
         /\ byLookupToken' =
               [byLookupToken EXCEPT ![<<t, token>>] = [external |-> x, internal |-> i]]
  BY DEF I!RegisterOpaque
<1> DEFINE ref == [internal |-> i, token |-> token]
           entry == [external |-> x, internal |-> i]
<1>2. /\ ref \in I!Reference /\ ref # None /\ ref.token = token
      /\ entry \in I!Entry /\ entry # None /\ entry.external = x
  BY PlatformAssumption DEF I!Reference, I!Entry, I!IdentifiersAssumption
<1>3. /\ byExtKey' = [byExtKey EXCEPT ![<<t, x>>] = ref]
      /\ byLookupToken' = [byLookupToken EXCEPT ![<<t, token>>] = entry]
      /\ byExtKey[<<t, x>>] = None
  BY <1>1 DEF I!RegisterOpaque
<1> HIDE DEF ref, entry
<1>4. I!TypeOK'
  BY <1>0, <1>2, <1>3 DEF I!TypeOK, I!RegisterOpaque, I!storeVars, I!refVars
<1>5. I!AnswersRecorded'
  BY <1>0 DEF I!AnswersRecorded, I!storeVars
<1>6. ASSUME NEW u \in Tenant, NEW y \in ExternalID, NEW s \in LookupToken
      PROVE  byExtKey'[<<u, y>>] # None /\ byExtKey'[<<u, y>>].token = s
               <=> byLookupToken'[<<u, s>>] # None /\ byLookupToken'[<<u, s>>].external = y
  <2>1. byExtKey'[<<u, y>>] = IF u = t /\ y = x THEN ref ELSE byExtKey[<<u, y>>]
    BY <1>0, <1>3 DEF I!TypeOK
  <2>2. byLookupToken'[<<u, s>>] = IF u = t /\ s = token THEN entry
                                   ELSE byLookupToken[<<u, s>>]
    BY <1>0, <1>3 DEF I!TypeOK
  <2>3. byExtKey[<<u, y>>] # None /\ byExtKey[<<u, y>>].token = s
          <=> byLookupToken[<<u, s>>] # None /\ byLookupToken[<<u, s>>].external = y
    BY <1>0 DEF I!RefsInvert
  <2> QED BY <1>1, <1>2, <1>3, <2>1, <2>2, <2>3
<1>7. I!RefsInvert'
  BY <1>0, <1>6 DEF I!RefsInvert, I!refVars
<1> QED BY <1>4, <1>5, <1>7 DEF IdentifiersInv

\* Each step of either idempotency store or either registry keeps the invariant.
LEMMA IdentifiersStep == IdentifiersInv /\ [I!Next]_(I!vars) => IdentifiersInv'
<1> SUFFICES ASSUME IdentifiersInv, [I!Next]_(I!vars) PROVE IdentifiersInv'
  OBVIOUS
<1>1. ASSUME NEW k \in IdemKey, NEW d \in Digest, I!CheckOrRecord(k, d),
             UNCHANGED <<I!storeVars, I!refVars>>
      PROVE  IdentifiersInv'
  BY <1>1 DEF IdentifiersInv, I!TypeOK, I!AnswersRecorded, I!RefsInvert, I!CheckOrRecord,
     I!storeVars, I!refVars
<1>2. CASE UNCHANGED I!vars
  BY <1>2 DEF IdentifiersInv, I!TypeOK, I!AnswersRecorded, I!RefsInvert, I!vars, I!storeVars,
     I!refVars, I!packageVars
<1> QED BY <1>1, <1>2, EvaluateStep, CreateFailsStep, RegisterExternalStep,
           RegisterOpaqueStep DEF I!Next

\* Answers that match the record of their key match one another.
LEMMA RecordedAnswersAgree == IdentifiersInv => I!OneAnswerPerKey
  BY DEF IdentifiersInv, I!TypeOK, I!AnswersRecorded, I!OneAnswerPerKey

\* For all tenants, keys, payloads and IDs: every retry of a request gets the answer of
\* the first one, and references can be followed both ways.
THEOREM IdempotentAnswers == I!Spec => [](I!OneAnswerPerKey /\ I!RefsInvert)
<1>1. I!Spec => []IdentifiersInv
  BY IdentifiersInitially, IdentifiersStep, PTL DEF I!Spec
<1>2. IdentifiersInv => I!OneAnswerPerKey /\ I!RefsInvert
  BY RecordedAnswersAgree DEF IdentifiersInv
<1> QED BY <1>1, <1>2, PTL

\* The property of the run platform about EvaluateOrCreate and the reference registries.
THEOREM OneAnswerPerKeyHolds == Spec => []OneAnswerPerKey
<1> DEFINE Inv == focus = "identifiers" => IdentifiersInv
<1>1. Init => Inv
  BY IdentifiersInitially DEF Init
<1>2. Inv /\ [Next]_vars => Inv'
  <2> SUFFICES ASSUME Inv, [Next]_vars, focus' = "identifiers" PROVE IdentifiersInv'
    OBVIOUS
  <2>1. focus = "identifiers" /\ [I!Next]_(I!vars)
    BY DEF Next, vars, Api, Hierarchy, Parties, Names, Contracts, Flags, nameVars, I!vars,
       I!storeVars, I!refVars, I!packageVars
  <2> QED BY <2>1, IdentifiersStep
<1>3. Inv => OneAnswerPerKey
  BY RecordedAnswersAgree DEF OneAnswerPerKey, IdentifiersInv
<1> QED BY <1>1, <1>2, <1>3, PTL DEF Spec

-----------------------------------------------------------------------------
\* Parties: whatever copy a function was applied to, its record leads on from it.

\* The registered value stays among the copies, and only a participation on the lowest
\* level of nesting has no parent; without a registration there is nothing else.
KeyInv(k) ==
    IF participations[k] = None
    THEN /\ partRecords[k] = <<>> /\ sponsorRecords[k] = <<>> /\ copies[k] = {}
         /\ k \notin cascaded
    ELSE /\ P!SponsorsAttributed(k)
         /\ P!RecordsLawful(k)
         /\ k \notin branched => P!SponsorsReplay(k)
         /\ k \notin unrecorded => P!StatesAttributed(k)
         /\ k \notin branched \cup unrecorded =>
               P!StatesReplay(k) /\ (k \in cascaded => current[k].state # "ACTIVE")
         /\ [state |-> "ACTIVE", sponsor |-> participations[k].sponsor] \in copies[k]
         /\ participations[k].depth = 0 => participations[k].parent = Blank

PartyInv ==
    /\ P!TypeOK
    /\ P!NestedWithinParent
    /\ \A k \in P!Key : KeyInv(k)

\* Nothing is registered or recorded.
LEMMA PartiesInitially == P!Init => PartyInv
<1> SUFFICES ASSUME P!Init PROVE PartyInv
  OBVIOUS
<1>1. P!TypeOK
  BY PlatformAssumption DEF P!Init, P!TypeOK, P!PartyAssumption, P!LifecycleState
<1>2. P!NestedWithinParent
  BY DEF P!Init, P!NestedWithinParent
<1>3. \A k \in P!Key : KeyInv(k)
  BY DEF P!Init, KeyInv
<1> QED BY <1>1, <1>2, <1>3 DEF PartyInv

\* A participation that nothing touches keeps its history; its project, once closed or
\* archived, is not active again.
LEMMA KeyUntouched ==
    ASSUME NEW k \in P!Key, KeyInv(k),
           participations'[k] = participations[k], copies'[k] = copies[k],
           current'[k] = current[k], partRecords'[k] = partRecords[k],
           sponsorRecords'[k] = sponsorRecords[k], k \in cascaded' <=> k \in cascaded,
           k \in branched' <=> k \in branched, k \in unrecorded' <=> k \in unrecorded,
           participations[k] # None =>
              LET project == <<k[1], participations[k].project>>
              IN  projects[project] # "ACTIVE" => projects'[project] # "ACTIVE"
    PROVE  KeyInv(k)'
<1>1. CASE participations[k] = None
  BY <1>1 DEF KeyInv
<1>2. CASE participations[k] # None
  <2>1. P!SponsorsAttributed(k)' /\ P!RecordsLawful(k)'
    BY <1>2 DEF KeyInv, P!SponsorsAttributed, P!RecordsLawful
  <2>2. /\ (k \notin branched => P!SponsorsReplay(k))'
        /\ (k \notin unrecorded => P!StatesAttributed(k))'
    BY <1>2 DEF KeyInv, P!SponsorsReplay, P!StatesAttributed
  <2>3. (k \notin branched \cup unrecorded =>
            P!StatesReplay(k) /\ (k \in cascaded => current[k].state # "ACTIVE"))'
    BY <1>2 DEF KeyInv, P!StatesReplay
  <2> QED BY <1>2, <2>1, <2>2, <2>3 DEF KeyInv
<1> QED BY <1>1, <1>2

\* What the registry holds does not change, so the nesting does not.
LEMMA NestingUntouched ==
    ASSUME P!NestedWithinParent, UNCHANGED participations
    PROVE  P!NestedWithinParent'
  BY DEF P!NestedWithinParent

\* A value made from a copy in another state: the sponsors stay accounted for.
LEMMA StateChanged ==
    ASSUME PartyInv, NEW k \in P!Key, participations[k] # None, NEW copy \in copies[k],
           NEW new, new = [copy EXCEPT !.state = new.state], new.state \in P!LifecycleState,
           copies'[k] = copies[k] \cup {new}, current'[k] = new,
           k \notin branched' => k \notin branched /\ copy = current[k],
           participations'[k] = participations[k], sponsorRecords'[k] = sponsorRecords[k]
    PROVE  /\ new \in P!Holding /\ new.sponsor = copy.sponsor
           /\ P!SponsorsAttributed(k)'
           /\ (k \notin branched => P!SponsorsReplay(k))'
           /\ [state |-> "ACTIVE", sponsor |-> participations'[k].sponsor] \in copies'[k]
           /\ participations'[k].depth = 0 => participations'[k].parent = Blank
<1>1. KeyInv(k) /\ copy \in P!Holding
  BY DEF PartyInv, P!TypeOK
<1>2. new \in P!Holding /\ new.sponsor = copy.sponsor
  BY <1>1 DEF P!Holding
<1>3. P!SponsorsAttributed(k)'
  BY <1>1, <1>2 DEF KeyInv, P!SponsorsAttributed
<1>4. (k \notin branched => P!SponsorsReplay(k))'
  BY <1>1, <1>2 DEF KeyInv, P!SponsorsReplay
<1> QED BY <1>1, <1>2, <1>3, <1>4 DEF KeyInv

\* A recorded change of a copy in a state other than ARCHIVED extends the history.
LEMMA HistoryExtended ==
    ASSUME PartyInv, NEW k \in P!Key, participations[k] # None, NEW copy \in copies[k],
           NEW state \in {"CLOSED", "ARCHIVED"}, copy.state # "ARCHIVED", NEW cascade \in BOOLEAN,
           cascade => projects[<<k[1], participations[k].project>>] # "ACTIVE",
           copies'[k] = copies[k] \cup {[copy EXCEPT !.state = state]},
           current'[k] = [copy EXCEPT !.state = state],
           k \notin branched' => k \notin branched /\ copy = current[k],
           k \in unrecorded' <=> k \in unrecorded, projects' = projects,
           partRecords'[k] = P!Recorded(k, copy, state, cascade),
           participations'[k] = participations[k], sponsorRecords'[k] = sponsorRecords[k]
    PROVE  /\ KeyInv(k)'
           /\ [copy EXCEPT !.state = state] \in P!Holding
           /\ P!Recorded(k, copy, state, cascade) \in Seq(P!PartRecord)
<1> DEFINE e == [previous |-> copy.state, new |-> state, cascade |-> cascade]
           new == [copy EXCEPT !.state = state]
           n == Len(partRecords[k])
<1>1. /\ partRecords[k] \in Seq(P!PartRecord) /\ copy \in P!Holding /\ KeyInv(k)
      /\ state \in P!LifecycleState
  BY DEF PartyInv, P!TypeOK, P!LifecycleState
<1>2. e \in P!PartRecord /\ e.previous = copy.state /\ e.new = state /\ e.cascade = cascade
  BY <1>1 DEF P!PartRecord, P!Holding
<1>3. partRecords'[k] = Append(partRecords[k], e)
  BY DEF P!Recorded
<1>4. new.state = state
  BY <1>1 DEF P!Holding
<1>5. /\ copies'[k] = copies[k] \cup {new} /\ current'[k] = new
      /\ new = [copy EXCEPT !.state = new.state]
  BY <1>4
<1> HIDE DEF e, new
<1>6. /\ partRecords'[k] \in Seq(P!PartRecord) /\ Len(partRecords'[k]) = n + 1 /\ n \in Nat
      /\ partRecords'[k][n + 1] = e /\ \A i \in 1 .. n : partRecords'[k][i] = partRecords[k][i]
  BY <1>1, <1>2, <1>3
<1>7. partRecords'[k] # <<>> /\ (partRecords[k] = <<>> <=> n = 0)
  BY <1>1, <1>6
<1>8. /\ new \in P!Holding /\ new.sponsor = copy.sponsor
      /\ P!SponsorsAttributed(k)' /\ (k \notin branched => P!SponsorsReplay(k))'
      /\ [state |-> "ACTIVE", sponsor |-> participations'[k].sponsor] \in copies'[k]
      /\ participations'[k].depth = 0 => participations'[k].parent = Blank
  BY <1>1, <1>4, <1>5, StateChanged
<1>9. P!RecordsLawful(k)'
  <2>1. P!RecordsLawful(k)
    BY <1>1 DEF KeyInv
  <2>2. ASSUME NEW i \in 1 .. n + 1
        PROVE  /\ partRecords'[k][i].previous # "ARCHIVED" /\ partRecords'[k][i].new # "ACTIVE"
               /\ partRecords'[k][i].cascade =>
                     projects[<<k[1], participations[k].project>>] # "ACTIVE"
    <3>1. CASE i \in 1 .. n
      BY <1>6, <2>1, <3>1 DEF P!RecordsLawful
    <3>2. CASE i = n + 1
      BY <1>2, <1>6, <3>2
    <3> QED BY <1>6, <3>1, <3>2
  <2> QED BY <1>6, <2>2 DEF P!RecordsLawful
<1>10. (k \notin unrecorded => P!StatesAttributed(k))'
  <2> SUFFICES ASSUME k \notin unrecorded', NEW held \in copies'[k], held.state # "ACTIVE"
               PROVE  \E i \in 1 .. n + 1 : partRecords'[k][i].new = held.state
    BY <1>6 DEF P!StatesAttributed
  <2>1. CASE held = new
    BY <1>2, <1>4, <1>6, <2>1
  <2>2. CASE held \in copies[k]
    <3>1. PICK i \in 1 .. n : partRecords[k][i].new = held.state
      BY <1>1, <2>2 DEF KeyInv, P!StatesAttributed
    <3>2. i \in 1 .. n + 1
      BY <1>6, <3>1
    <3> QED BY <1>6, <3>1, <3>2
  <2> QED BY <1>5, <2>1, <2>2
<1>11. ASSUME k \notin branched' \cup unrecorded'
       PROVE  P!StatesReplay(k)'
  <2>1. P!StatesReplay(k) /\ copy = current[k]
    BY <1>1, <1>11 DEF KeyInv
  <2>2. ASSUME NEW i \in 1 .. n + 1
        PROVE  partRecords'[k][i].previous =
                  IF i = 1 THEN "ACTIVE" ELSE partRecords'[k][i - 1].new
    <3>1. CASE i \in 1 .. n
      <4>1. i # 1 => i - 1 \in 1 .. n
        BY <1>6, <3>1
      <4>2. /\ partRecords'[k][i] = partRecords[k][i]
            /\ i # 1 => partRecords'[k][i - 1] = partRecords[k][i - 1]
        BY <1>6, <3>1, <4>1
      <4>3. partRecords[k][i].previous = IF i = 1 THEN "ACTIVE" ELSE partRecords[k][i - 1].new
        BY <2>1, <3>1 DEF P!StatesReplay
      <4> QED BY <4>2, <4>3
    <3>2. CASE i = n + 1
      <4>1. e.previous = IF n = 0 THEN "ACTIVE" ELSE partRecords[k][n].new
        BY <1>2, <1>7, <2>1 DEF P!StatesReplay
      <4> QED BY <1>6, <3>2, <4>1
    <3> QED BY <1>6, <3>1, <3>2
  <2> QED BY <1>2, <1>4, <1>5, <1>6, <1>7, <2>2 DEF P!StatesReplay
<1>12. (k \notin branched \cup unrecorded =>
           P!StatesReplay(k) /\ (k \in cascaded => current[k].state # "ACTIVE"))'
  BY <1>4, <1>5, <1>11
<1>13. KeyInv(k)'
  BY <1>8, <1>9, <1>10, <1>12 DEF KeyInv
<1> QED BY <1>3, <1>6, <1>8, <1>13 DEF new

\* A value made from a copy is typed with the copies it joins.
LEMMA MadeTyped ==
    ASSUME PartyInv, NEW k \in P!Key, NEW copy \in copies[k], NEW new \in P!Holding,
           P!Made(k, copy, new), UNCHANGED participations
    PROVE  /\ copies' \in [P!Key -> SUBSET P!Holding]
           /\ DOMAIN current' = P!Key
           /\ \A x \in P!Key : participations'[x] # None => current'[x] \in copies'[x]
           /\ branched' \subseteq P!Key
           /\ copies'[k] = copies[k] \cup {new} /\ current'[k] = new
           /\ k \notin branched' => k \notin branched /\ copy = current[k]
           /\ \A x \in P!Key : x # k => /\ copies'[x] = copies[x] /\ current'[x] = current[x]
                                        /\ x \in branched' <=> x \in branched
<1>1. /\ copies \in [P!Key -> SUBSET P!Holding] /\ DOMAIN current = P!Key /\ branched \subseteq P!Key
      /\ \A x \in P!Key : participations[x] # None => current[x] \in copies[x]
  BY DEF PartyInv, P!TypeOK
<1>2. /\ copies' = [copies EXCEPT ![k] = @ \cup {new}]
      /\ current' = [current EXCEPT ![k] = new]
      /\ branched' = IF copy = current[k] THEN branched ELSE branched \cup {k}
  BY DEF P!Made
<1>3. /\ copies'[k] = copies[k] \cup {new} /\ current'[k] = new /\ DOMAIN current' = P!Key
      /\ \A x \in P!Key : x # k => copies'[x] = copies[x] /\ current'[x] = current[x]
  BY <1>1, <1>2
<1> QED BY <1>1, <1>2, <1>3

\* Copies are of a registered participation.
LEMMA CopyRegistered ==
    ASSUME PartyInv, NEW k \in P!Key, NEW copy \in copies[k]
    PROVE  copy \in P!Holding /\ participations[k] # None
  BY DEF PartyInv, P!TypeOK, KeyInv

\* DeactivateParticipation and CloseParticipation, of any copy.
LEMMA TransitionStep ==
    ASSUME PartyInv, NEW k \in P!Key, NEW copy \in copies[k],
           NEW state \in {"CLOSED", "ARCHIVED"}, copy.state # "ARCHIVED",
           P!Transition(k, copy, state)
    PROVE  PartyInv'
<1> DEFINE new == [copy EXCEPT !.state = state]
           trail == P!Recorded(k, copy, state, FALSE)
<1>0. /\ P!TypeOK /\ P!NestedWithinParent /\ \A x \in P!Key : KeyInv(x)
      /\ copy \in P!Holding /\ participations[k] # None
  BY CopyRegistered DEF PartyInv
<1>1. /\ P!Made(k, copy, new)
      /\ partRecords' = [partRecords EXCEPT ![k] = trail]
      /\ UNCHANGED <<parties, participations, standing, projects, sponsorRecords, cascaded,
                     unrecorded, now>>
  BY DEF P!Transition
<1>2. new \in P!Holding
  BY <1>0 DEF P!Holding, P!LifecycleState
<1>3. partRecords'[k] = trail /\ \A x \in P!Key : x # k => partRecords'[x] = partRecords[x]
  BY <1>0, <1>1 DEF P!TypeOK
<1> HIDE DEF new
<1>4. /\ copies' \in [P!Key -> SUBSET P!Holding]
      /\ DOMAIN current' = P!Key
      /\ \A x \in P!Key : participations'[x] # None => current'[x] \in copies'[x]
      /\ branched' \subseteq P!Key
      /\ copies'[k] = copies[k] \cup {new} /\ current'[k] = new
      /\ k \notin branched' => k \notin branched /\ copy = current[k]
      /\ \A x \in P!Key : x # k => /\ copies'[x] = copies[x] /\ current'[x] = current[x]
                                   /\ x \in branched' <=> x \in branched
  BY <1>1, <1>2, MadeTyped
<1>5. KeyInv(k)' /\ trail \in Seq(P!PartRecord)
  BY <1>0, <1>1, <1>3, <1>4, HistoryExtended DEF new
<1>6. \A x \in P!Key : KeyInv(x)'
  <2> SUFFICES ASSUME NEW x \in P!Key PROVE KeyInv(x)'
    OBVIOUS
  <2> QED BY <1>0, <1>1, <1>3, <1>4, <1>5, KeyUntouched
<1> HIDE DEF trail
<1>7. P!TypeOK'
  BY <1>0, <1>1, <1>4, <1>5 DEF P!TypeOK
<1> QED BY <1>0, <1>1, <1>6, <1>7, NestingUntouched DEF PartyInv

\* SimulateReversibleParticipationState, after which the states are not accounted for.
LEMMA SimulateStep ==
    ASSUME PartyInv, NEW k \in P!Key, NEW copy \in copies[k], NEW state \in P!LifecycleState,
           P!SimulateReversibleParticipationState(k, copy, state)
    PROVE  PartyInv'
<1> DEFINE new == [copy EXCEPT !.state = state]
<1>0. /\ P!TypeOK /\ P!NestedWithinParent /\ \A x \in P!Key : KeyInv(x)
      /\ copy \in P!Holding /\ participations[k] # None
  BY CopyRegistered DEF PartyInv
<1>1. /\ P!Made(k, copy, new) /\ unrecorded' = unrecorded \cup {k}
      /\ UNCHANGED <<parties, participations, standing, projects, partRecords, sponsorRecords,
                     cascaded, now>>
  BY DEF P!SimulateReversibleParticipationState, P!ledgerVars
<1>2. new \in P!Holding /\ new.state = state /\ new = [copy EXCEPT !.state = new.state]
  BY <1>0 DEF P!Holding
<1> HIDE DEF new
<1>3. /\ copies' \in [P!Key -> SUBSET P!Holding]
      /\ DOMAIN current' = P!Key
      /\ \A x \in P!Key : participations'[x] # None => current'[x] \in copies'[x]
      /\ branched' \subseteq P!Key
      /\ copies'[k] = copies[k] \cup {new} /\ current'[k] = new
      /\ k \notin branched' => k \notin branched /\ copy = current[k]
      /\ \A x \in P!Key : x # k => /\ copies'[x] = copies[x] /\ current'[x] = current[x]
                                   /\ x \in branched' <=> x \in branched
  BY <1>1, <1>2, MadeTyped
<1>4. /\ P!SponsorsAttributed(k)' /\ (k \notin branched => P!SponsorsReplay(k))'
      /\ [state |-> "ACTIVE", sponsor |-> participations'[k].sponsor] \in copies'[k]
      /\ participations'[k].depth = 0 => participations'[k].parent = Blank
  BY <1>0, <1>1, <1>2, <1>3, StateChanged
<1>5. P!RecordsLawful(k)'
  BY <1>0, <1>1 DEF KeyInv, P!RecordsLawful
<1>6. KeyInv(k)'
  BY <1>0, <1>1, <1>4, <1>5 DEF KeyInv
<1>7. \A x \in P!Key : KeyInv(x)'
  <2> SUFFICES ASSUME NEW x \in P!Key PROVE KeyInv(x)'
    OBVIOUS
  <2> QED BY <1>0, <1>1, <1>3, <1>6, KeyUntouched
<1>8. P!TypeOK'
  BY <1>0, <1>1, <1>3 DEF P!TypeOK
<1> QED BY <1>0, <1>1, <1>7, <1>8, NestingUntouched DEF PartyInv

\* CascadeProjectClosure closes what is active in the list and in the project, in one go.
LEMMA CascadeStep ==
    ASSUME PartyInv, NEW list \in P!Lists, NEW t \in Tenant, NEW p \in Works,
           P!CascadeProjectClosure(list, t, p)
    PROVE  PartyInv'
<1> DEFINE closing == {k \in P!Key : P!Cascades(k, list, t, p)}
           reached == {k \in P!Key : P!InProject(k, t, p)}
           closed == [k \in P!Key |-> [list[k] EXCEPT !.state = "CLOSED"]]
<1>0. P!TypeOK /\ P!NestedWithinParent /\ \A x \in P!Key : KeyInv(x)
  BY DEF PartyInv
<1>1. /\ projects[<<t, p>>] = "CLOSED"
      /\ copies' = [k \in P!Key |-> IF k \in closing THEN copies[k] \cup {closed[k]}
                                    ELSE copies[k]]
      /\ current' = [k \in P!Key |-> IF k \in closing THEN closed[k] ELSE current[k]]
      /\ partRecords' = [k \in P!Key |-> IF k \in closing
                                         THEN P!Recorded(k, list[k], "CLOSED", TRUE)
                                         ELSE partRecords[k]]
      /\ branched' = branched \cup {k \in closing : list[k] # current[k]}
      /\ cascaded' = cascaded \cup reached
      /\ UNCHANGED <<parties, participations, standing, projects, sponsorRecords, unrecorded, now>>
  BY DEF P!CascadeProjectClosure
<1>2. ASSUME NEW k \in P!Key, participations[k] # None
      PROVE  /\ list[k] \in copies[k]
             /\ list[k].state # "ACTIVE" => current[k].state # "ACTIVE"
  <2>1. CASE list = current
    BY <1>0, <1>2, <2>1 DEF P!TypeOK
  <2>2. CASE list # current
    <3>1. list[k] = [state |-> "ACTIVE", sponsor |-> participations[k].sponsor]
      BY <1>2, <2>2 DEF P!Lists
    <3> QED BY <1>0, <1>2, <3>1 DEF KeyInv
  <2> QED BY <2>1, <2>2
<1>3. ASSUME NEW k \in P!Key
      PROVE  /\ KeyInv(k)'
             /\ copies'[k] \in SUBSET P!Holding
             /\ participations[k] # None => current'[k] \in copies'[k]
             /\ partRecords'[k] \in Seq(P!PartRecord)
  <2>1. CASE k \in closing
    <3>1. /\ participations[k] # None /\ k[1] = t /\ participations[k].project = p
          /\ list[k].state = "ACTIVE" /\ list[k] \in copies[k]
      BY <1>2, <2>1 DEF P!Cascades, P!InProject
    <3>2. /\ copies'[k] = copies[k] \cup {[list[k] EXCEPT !.state = "CLOSED"]}
          /\ current'[k] = [list[k] EXCEPT !.state = "CLOSED"]
          /\ partRecords'[k] = P!Recorded(k, list[k], "CLOSED", TRUE)
          /\ participations'[k] = participations[k] /\ sponsorRecords'[k] = sponsorRecords[k]
          /\ k \notin branched' => k \notin branched /\ list[k] = current[k]
          /\ k \in unrecorded' <=> k \in unrecorded
      BY <1>1, <2>1
    <3>3. projects[<<k[1], participations[k].project>>] # "ACTIVE" /\ projects' = projects
      BY <1>1, <3>1
    <3>4. /\ KeyInv(k)'
          /\ [list[k] EXCEPT !.state = "CLOSED"] \in P!Holding
          /\ P!Recorded(k, list[k], "CLOSED", TRUE) \in Seq(P!PartRecord)
      BY <3>1, <3>2, <3>3, HistoryExtended
    <3> QED BY <1>0, <3>2, <3>4 DEF P!TypeOK
  <2>2. CASE k \notin closing
    <3>1. /\ current'[k] = current[k] /\ partRecords'[k] = partRecords[k]
          /\ copies'[k] = copies[k]
          /\ participations'[k] = participations[k] /\ sponsorRecords'[k] = sponsorRecords[k]
          /\ k \in branched' <=> k \in branched
          /\ k \in unrecorded' <=> k \in unrecorded
      BY <1>1, <2>2
    <3>2. projects' = projects
      BY <1>1
    <3>3. /\ copies'[k] \in SUBSET P!Holding /\ partRecords'[k] \in Seq(P!PartRecord)
          /\ participations[k] # None => current'[k] \in copies'[k]
      BY <1>0, <3>1 DEF P!TypeOK
    <3>4. CASE k \notin reached
      <4>1. k \in cascaded' <=> k \in cascaded
        BY <1>1, <3>4
      <4> QED BY <1>0, <3>1, <3>3, <3>2, <4>1, KeyUntouched
    <3>5. CASE k \in reached
      <4>1. participations[k] # None /\ current[k].state # "ACTIVE"
        BY <1>2, <2>2, <3>5 DEF P!Cascades, P!InProject
      <4>2. KeyInv(k)
        BY <1>0
      <4>3. P!SponsorsAttributed(k)' /\ P!RecordsLawful(k)'
        <5>1. P!SponsorsAttributed(k) /\ P!RecordsLawful(k)
          BY <4>1, <4>2 DEF KeyInv
        <5>2. P!SponsorsAttributed(k)'
          BY <3>1, <5>1 DEF P!SponsorsAttributed
        <5> QED BY <3>1, <3>2, <5>1, <5>2 DEF P!RecordsLawful
      <4>4. /\ (k \notin branched => P!SponsorsReplay(k))'
            /\ (k \notin unrecorded => P!StatesAttributed(k))'
        <5>1. (k \notin branched => P!SponsorsReplay(k))'
          BY <3>1, <4>1, <4>2 DEF KeyInv, P!SponsorsReplay
        <5>2. (k \notin unrecorded => P!StatesAttributed(k))'
          BY <3>1, <4>1, <4>2 DEF KeyInv, P!StatesAttributed
        <5> QED BY <5>1, <5>2
      <4>5. (k \notin branched \cup unrecorded =>
                P!StatesReplay(k) /\ (k \in cascaded => current[k].state # "ACTIVE"))'
        BY <3>1, <4>1, <4>2 DEF KeyInv, P!StatesReplay
      <4>6. KeyInv(k)'
        BY <3>1, <4>1, <4>2, <4>3, <4>4, <4>5 DEF KeyInv
      <4> QED BY <3>3, <4>6
    <3> QED BY <3>4, <3>5
  <2> QED BY <2>1, <2>2
<1>4. P!TypeOK'
  <2>1. DOMAIN current' = P!Key /\ DOMAIN copies' = P!Key /\ DOMAIN partRecords' = P!Key
    BY <1>1
  <2>2. /\ copies' \in [P!Key -> SUBSET P!Holding]
        /\ partRecords' \in [P!Key -> Seq(P!PartRecord)]
    BY <1>1, <1>3
  <2>3. cascaded' \subseteq P!Key /\ branched' \subseteq P!Key
    BY <1>0, <1>1 DEF P!TypeOK
  <2>4. \A k \in P!Key : participations'[k] # None => current'[k] \in copies'[k]
    BY <1>1, <1>3
  <2> HIDE DEF closing, reached, closed
  <2> QED BY <1>0, <1>1, <2>1, <2>2, <2>3, <2>4 DEF P!TypeOK
<1> QED BY <1>0, <1>1, <1>3, <1>4, NestingUntouched DEF PartyInv

\* ReassignSponsor of any copy leads on from the sponsor that copy names.
LEMMA ReassignStep ==
    ASSUME PartyInv, NEW k \in P!Key, NEW copy \in copies[k], NEW sponsor \in Sponsor,
           P!ReassignSponsor(k, copy, sponsor)
    PROVE  PartyInv'
<1> DEFINE e == [prior |-> copy.sponsor, new |-> sponsor]
           new == [copy EXCEPT !.sponsor = sponsor]
           n == Len(sponsorRecords[k])
<1>0. /\ P!TypeOK /\ P!NestedWithinParent /\ \A x \in P!Key : KeyInv(x)
      /\ copy \in P!Holding /\ participations[k] # None
  BY CopyRegistered DEF PartyInv
<1>1. /\ P!Made(k, copy, new) /\ copy.state = "ACTIVE"
      /\ sponsorRecords' = [sponsorRecords EXCEPT ![k] = Append(@, e)]
      /\ UNCHANGED <<parties, participations, standing, projects, partRecords, cascaded,
                     unrecorded, now>>
  BY DEF P!ReassignSponsor, P!IsValidAt
<1>2. /\ new \in P!Holding /\ new.sponsor = sponsor /\ new.state = "ACTIVE"
      /\ sponsorRecords[k] \in Seq(P!SponsorRecord) /\ KeyInv(k)
  BY <1>0, <1>1 DEF P!TypeOK, P!Holding
<1>3. e \in P!SponsorRecord /\ e.prior = copy.sponsor /\ e.new = sponsor
  BY <1>0 DEF P!SponsorRecord, P!Holding
<1> HIDE DEF e, new
<1>4. /\ sponsorRecords'[k] = Append(sponsorRecords[k], e)
      /\ \A x \in P!Key : x # k => sponsorRecords'[x] = sponsorRecords[x]
  BY <1>0, <1>1 DEF P!TypeOK
<1>5. /\ copies' \in [P!Key -> SUBSET P!Holding]
      /\ DOMAIN current' = P!Key
      /\ \A x \in P!Key : participations'[x] # None => current'[x] \in copies'[x]
      /\ branched' \subseteq P!Key
      /\ copies'[k] = copies[k] \cup {new} /\ current'[k] = new
      /\ k \notin branched' => k \notin branched /\ copy = current[k]
      /\ \A x \in P!Key : x # k => /\ copies'[x] = copies[x] /\ current'[x] = current[x]
                                   /\ x \in branched' <=> x \in branched
  BY <1>1, <1>2, MadeTyped
<1>6. /\ sponsorRecords'[k] \in Seq(P!SponsorRecord) /\ Len(sponsorRecords'[k]) = n + 1
      /\ n \in Nat /\ sponsorRecords'[k][n + 1] = e
      /\ \A i \in 1 .. n : sponsorRecords'[k][i] = sponsorRecords[k][i]
  BY <1>2, <1>3, <1>4
<1>7. sponsorRecords'[k] # <<>> /\ (sponsorRecords[k] = <<>> <=> n = 0)
  BY <1>2, <1>6
<1> DEFINE Named(s, m) == \/ s = participations[k].sponsor
                          \/ \E i \in 1 .. m : sponsorRecords[k][i].new = s
           NamedNow(s, m) == \/ s = participations[k].sponsor
                             \/ \E i \in 1 .. m : sponsorRecords'[k][i].new = s
<1>8. \A s : \A m \in 0 .. n : Named(s, m) => NamedNow(s, m) /\ NamedNow(s, n + 1)
  BY <1>6
<1>9. /\ \A i \in 1 .. n : Named(sponsorRecords[k][i].prior, i - 1)
      /\ \A held \in copies[k] : Named(held.sponsor, n)
  BY <1>0, <1>2 DEF KeyInv, P!SponsorsAttributed
<1>10. P!SponsorsAttributed(k)'
  <2>1. ASSUME NEW i \in 1 .. n + 1 PROVE NamedNow(sponsorRecords'[k][i].prior, i - 1)
    <3>1. CASE i \in 1 .. n
      <4>1. i - 1 \in 0 .. n /\ sponsorRecords'[k][i] = sponsorRecords[k][i]
        BY <1>6, <3>1
      <4>2. Named(sponsorRecords[k][i].prior, i - 1)
        BY <1>9, <3>1
      <4> HIDE DEF Named, NamedNow
      <4> QED BY <1>8, <4>1, <4>2
    <3>2. CASE i = n + 1
      <4>1. n \in 0 .. n /\ i - 1 = n /\ sponsorRecords'[k][i].prior = copy.sponsor
        BY <1>3, <1>6, <3>2
      <4>2. Named(copy.sponsor, n)
        BY <1>9
      <4> HIDE DEF Named, NamedNow
      <4> QED BY <1>8, <4>1, <4>2
    <3> QED BY <1>6, <3>1, <3>2
  <2>2. ASSUME NEW held \in copies'[k] PROVE NamedNow(held.sponsor, n + 1)
    <3>1. CASE held = new
      BY <1>2, <1>3, <1>6, <3>1
    <3>2. CASE held \in copies[k]
      <4>1. Named(held.sponsor, n) /\ n \in 0 .. n
        BY <1>6, <1>9, <3>2
      <4> HIDE DEF Named, NamedNow
      <4> QED BY <1>8, <4>1
    <3> QED BY <1>5, <3>1, <3>2
  <2> QED BY <1>1, <1>6, <2>1, <2>2 DEF P!SponsorsAttributed
<1>11. ASSUME k \notin branched' PROVE P!SponsorsReplay(k)'
  <2>1. P!SponsorsReplay(k) /\ copy = current[k]
    BY <1>0, <1>2, <1>5, <1>11 DEF KeyInv
  <2>2. ASSUME NEW i \in 1 .. n + 1
        PROVE  sponsorRecords'[k][i].prior =
                  IF i = 1 THEN participations[k].sponsor ELSE sponsorRecords'[k][i - 1].new
    <3>1. CASE i \in 1 .. n
      <4>1. /\ sponsorRecords'[k][i] = sponsorRecords[k][i]
            /\ i # 1 => sponsorRecords'[k][i - 1] = sponsorRecords[k][i - 1]
        BY <1>6, <3>1
      <4>2. sponsorRecords[k][i].prior =
               IF i = 1 THEN participations[k].sponsor ELSE sponsorRecords[k][i - 1].new
        BY <2>1, <3>1 DEF P!SponsorsReplay
      <4> QED BY <4>1, <4>2
    <3>2. CASE i = n + 1
      <4>1. e.prior = IF n = 0 THEN participations[k].sponsor ELSE sponsorRecords[k][n].new
        BY <1>3, <1>7, <2>1 DEF P!SponsorsReplay
      <4> QED BY <1>6, <3>2, <4>1
    <3> QED BY <1>6, <3>1, <3>2
  <2> QED BY <1>1, <1>2, <1>3, <1>5, <1>6, <1>7, <2>2 DEF P!SponsorsReplay
<1> HIDE DEF Named, NamedNow
<1>12. P!RecordsLawful(k)'
  BY <1>0, <1>1, <1>2 DEF KeyInv, P!RecordsLawful
<1>13. (k \notin unrecorded => P!StatesAttributed(k))'
  BY <1>0, <1>1, <1>2, <1>5 DEF KeyInv, P!StatesAttributed
<1>14. ASSUME k \notin branched' \cup unrecorded'
       PROVE  /\ P!StatesReplay(k)'
              /\ k \in cascaded' => current'[k].state # "ACTIVE"
  <2>1. /\ P!StatesReplay(k) /\ copy = current[k]
        /\ k \in cascaded => current[k].state # "ACTIVE"
    BY <1>0, <1>1, <1>2, <1>5, <1>14 DEF KeyInv
  <2> QED BY <1>1, <1>2, <1>5, <2>1 DEF P!StatesReplay
<1>15. KeyInv(k)'
  BY <1>0, <1>1, <1>2, <1>5, <1>10, <1>11, <1>12, <1>13, <1>14 DEF KeyInv
<1>16. \A x \in P!Key : KeyInv(x)'
  <2> SUFFICES ASSUME NEW x \in P!Key PROVE KeyInv(x)'
    OBVIOUS
  <2> QED BY <1>0, <1>1, <1>4, <1>5, <1>15, KeyUntouched
<1>17. P!TypeOK'
  <2>1. sponsorRecords' \in [P!Key -> Seq(P!SponsorRecord)]
    BY <1>0, <1>1, <1>4, <1>6 DEF P!TypeOK
  <2> QED BY <1>0, <1>1, <1>5, <2>1 DEF P!TypeOK
<1> QED BY <1>0, <1>1, <1>16, <1>17, NestingUntouched DEF PartyInv

\* A registration is of a key that had none, so it is nobody's parent yet.
LEMMA RegisterStep ==
    ASSUME PartyInv, NEW k \in P!Key, NEW new \in P!Participation, P!Register(k, new),
           new.depth = 0 => new.parent = Blank,
           new.parent # Blank =>
              LET up == participations[<<k[1], new.parent>>]
              IN  /\ <<k[1], new.parent>> \in P!Key
                  /\ up # None
                  /\ up.parent = Blank
                  /\ new.project = up.project
                  /\ up.from <= new.from /\ new.to <= up.to
                  /\ up.site # Blank => new.site = up.site
    PROVE  PartyInv'
<1> DEFINE holding == [state |-> "ACTIVE", sponsor |-> new.sponsor]
<1>0. P!TypeOK /\ P!NestedWithinParent /\ \A x \in P!Key : KeyInv(x)
  BY DEF PartyInv
<1>1. /\ participations[k] = None
      /\ participations' = [participations EXCEPT ![k] = new]
      /\ copies' = [copies EXCEPT ![k] = {holding}]
      /\ current' = [current EXCEPT ![k] = holding]
      /\ UNCHANGED <<parties, standing, branched, projects, partRecords, sponsorRecords,
                     cascaded, unrecorded, now>>
  BY DEF P!Register, P!ledgerVars
<1>2. /\ holding \in P!Holding
      /\ holding.state = "ACTIVE" /\ holding.sponsor = new.sponsor
      /\ holding = [state |-> "ACTIVE", sponsor |-> new.sponsor]
  BY DEF P!Participation, P!LifecycleState, P!Holding
<1> HIDE DEF holding
<1>3. /\ \A x \in P!Key : /\ participations'[x] = IF x = k THEN new ELSE participations[x]
                          /\ copies'[x] = IF x = k THEN {holding} ELSE copies[x]
                          /\ current'[x] = IF x = k THEN holding ELSE current[x]
      /\ DOMAIN current' = P!Key
  BY <1>0, <1>1 DEF P!TypeOK
<1>4. P!TypeOK'
  BY <1>0, <1>1, <1>2, <1>3 DEF P!TypeOK
<1>5. KeyInv(k)'
  <2>1. partRecords'[k] = <<>> /\ sponsorRecords'[k] = <<>> /\ k \notin cascaded'
    BY <1>0, <1>1 DEF KeyInv
  <2>2. /\ participations'[k] = new /\ copies'[k] = {holding} /\ current'[k] = holding
        /\ new # None
    BY <1>3, PlatformAssumption DEF P!PartyAssumption
  <2>3. Len(<<>>) = 0 /\ 1 .. 0 = {}
    OBVIOUS
  <2>4. P!SponsorsAttributed(k)' /\ P!RecordsLawful(k)'
    BY <1>2, <2>1, <2>2, <2>3 DEF P!SponsorsAttributed, P!RecordsLawful
  <2>5. P!SponsorsReplay(k)' /\ P!StatesReplay(k)' /\ P!StatesAttributed(k)'
    BY <1>2, <2>1, <2>2, <2>3 DEF P!SponsorsReplay, P!StatesReplay, P!StatesAttributed
  <2> QED BY <1>2, <2>1, <2>2, <2>4, <2>5 DEF KeyInv
<1>6. \A x \in P!Key : KeyInv(x)'
  <2> SUFFICES ASSUME NEW x \in P!Key PROVE KeyInv(x)'
    OBVIOUS
  <2> QED BY <1>0, <1>1, <1>3, <1>5, KeyUntouched
<1>7. ASSUME NEW x \in P!Key, participations'[x] # None, participations'[x].parent # Blank
      PROVE  LET sub == participations'[x]
                 up == participations'[<<x[1], sub.parent>>]
             IN  /\ up # None
                 /\ up.parent = Blank
                 /\ sub.project = up.project
                 /\ up.from <= sub.from /\ sub.to <= up.to
                 /\ up.site # Blank => sub.site = up.site
  <2>1. CASE x = k
    <3>1. participations'[x] = new /\ <<k[1], new.parent>> # k
      BY <1>1, <1>3, <1>7, <2>1
    <3>2. participations'[<<k[1], new.parent>>] = participations[<<k[1], new.parent>>]
      BY <1>3, <1>7, <2>1, <3>1
    <3> QED BY <1>7, <2>1, <3>1, <3>2
  <2>2. CASE x # k
    <3>1. participations'[x] = participations[x] /\ participations[x] \in P!Participation
      BY <1>0, <1>3, <1>7, <2>2 DEF P!TypeOK
    <3>2. x \in Tenant \X ParticipationID /\ participations[x].parent \in ParticipationID
      BY <1>7, <3>1 DEF P!Key, P!Participation
    <3>3. <<x[1], participations[x].parent>> \in P!Key
      BY <3>2 DEF P!Key
    <3>4. LET sub == participations[x]
              up == participations[<<x[1], sub.parent>>]
          IN  /\ up # None
              /\ up.parent = Blank
              /\ sub.project = up.project
              /\ up.from <= sub.from /\ sub.to <= up.to
              /\ up.site # Blank => sub.site = up.site
      BY <1>0, <1>7, <3>1 DEF P!NestedWithinParent
    <3>5. participations'[<<x[1], participations[x].parent>>] =
             participations[<<x[1], participations[x].parent>>]
      BY <1>1, <1>3, <3>3, <3>4
    <3> QED BY <3>1, <3>4, <3>5
  <2> QED BY <2>1, <2>2
<1>8. P!NestedWithinParent'
  BY <1>7 DEF P!NestedWithinParent
<1> QED BY <1>4, <1>6, <1>8 DEF PartyInv

\* NewNestedSubcontractorParticipation checks its window and its site against the parent,
\* whose depth of 0 says that it is nobody's subcontractor.
LEMMA NestedStep ==
    ASSUME PartyInv, NEW k \in P!Key, NEW parent \in ParticipationID, NEW party \in PartyID,
           NEW site \in Place \cup {Blank}, NEW sponsor \in Sponsor, NEW w \in Window,
           P!NewNestedSubcontractorParticipation(k, parent, party, site, sponsor, w)
    PROVE  PartyInv'
<1> DEFINE up == participations[<<k[1], parent>>]
           new == [party |-> party, project |-> up.project,
                   site |-> IF site = Blank THEN up.site ELSE site,
                   sponsor |-> sponsor, from |-> w[1], to |-> w[2],
                   parent |-> parent, depth |-> up.depth + 1]
<1>0. P!TypeOK /\ \A x \in P!Key : KeyInv(x)
  BY DEF PartyInv
<1>1. <<k[1], parent>> \in P!Key
  BY DEF P!Key
<1>2. up \in P!Participation /\ up # None /\ up.depth < 1
  BY <1>0, <1>1 DEF P!NewNestedSubcontractorParticipation, P!TypeOK,
     P!MaxContractorNestingDepth
<1>3. up.depth = 0 /\ up.parent = Blank
  <2>1. up.depth = 0
    BY <1>2 DEF P!Participation
  <2> QED BY <1>0, <1>1, <1>2, <2>1 DEF KeyInv
<1>4. /\ P!Register(k, new)
      /\ w[1] >= up.from /\ w[2] <= up.to
      /\ Blank \in {up.site, site} \/ site = up.site
  BY DEF P!NewNestedSubcontractorParticipation
<1>5. w[1] \in Nat /\ w[2] \in Nat
  BY PlatformAssumption DEF P!PartyAssumption
<1>6. /\ new \in P!Participation /\ new.depth = 1 /\ new.parent = parent
      /\ new.project = up.project /\ new.from = w[1] /\ new.to = w[2]
      /\ new.site = IF site = Blank THEN up.site ELSE site
  <2>1. /\ up.project \in Works /\ up.site \in Place \cup {Blank} /\ up.depth + 1 \in Nat
        /\ up.from \in Nat /\ up.to \in Nat
    BY <1>2, <1>3 DEF P!Participation
  <2> QED BY <1>3, <1>5, <2>1 DEF P!Participation
<1>7. up.from <= new.from /\ new.to <= up.to /\ (up.site # Blank => new.site = up.site)
  BY <1>2, <1>4, <1>5, <1>6 DEF P!Participation
<1> HIDE DEF new
<1> QED BY <1>1, <1>2, <1>3, <1>4, <1>6, <1>7, RegisterStep

\* Each step of the registry, the lifecycle functions or the caller keeps the invariant.
LEMMA PartyStep == PartyInv /\ [P!Next]_(P!vars) => PartyInv'
<1> SUFFICES ASSUME PartyInv, [P!Next]_(P!vars) PROVE PartyInv'
  OBVIOUS
<1>0. P!TypeOK /\ P!NestedWithinParent /\ \A k \in P!Key : KeyInv(k)
  BY DEF PartyInv
<1>1. ASSUME UNCHANGED <<participations, copies, current, branched, partRecords,
                         sponsorRecords, cascaded, unrecorded>>,
             \A x \in Tenant \X Works : projects[x] # "ACTIVE" => projects'[x] # "ACTIVE",
             P!TypeOK'
      PROVE  PartyInv'
  <2>1. ASSUME NEW k \in P!Key, participations[k] # None
        PROVE  <<k[1], participations[k].project>> \in Tenant \X Works
    <3>1. k \in Tenant \X ParticipationID /\ participations[k] \in P!Participation
      BY <1>0, <2>1 DEF P!Key, P!TypeOK
    <3> QED BY <3>1 DEF P!Participation
  <2>2. \A k \in P!Key : KeyInv(k)'
    <3> SUFFICES ASSUME NEW k \in P!Key PROVE KeyInv(k)'
      OBVIOUS
    <3>1. participations[k] # None =>
             LET project == <<k[1], participations[k].project>>
             IN  projects[project] # "ACTIVE" => projects'[project] # "ACTIVE"
      BY <1>1, <2>1
    <3> QED BY <1>0, <1>1, <3>1, KeyUntouched
  <2> QED BY <1>0, <1>1, <2>2, NestingUntouched DEF PartyInv
<1>2. ASSUME NEW t \in Tenant, NEW p \in PartyID, P!RegisterParty(t, p)
      PROVE  PartyInv'
  BY <1>0, <1>1, <1>2 DEF P!RegisterParty, P!TypeOK, P!heldVars, P!ledgerVars
<1>3. ASSUME NEW t \in Tenant, NEW p \in PartyID, NEW state \in P!LifecycleState,
             P!Stands(t, p, state)
      PROVE  PartyInv'
  <2>1. P!TypeOK'
    BY <1>0, <1>3 DEF P!Stands, P!TypeOK, P!heldVars, P!ledgerVars
  <2> QED BY <1>1, <1>3, <2>1 DEF P!Stands, P!heldVars, P!ledgerVars
<1>4. ASSUME NEW t \in Tenant, NEW p \in Works, NEW state \in {"CLOSED", "ARCHIVED"},
             P!EndProject(t, p, state)
      PROVE  PartyInv'
  <2>1. P!TypeOK'
    BY <1>0, <1>4 DEF P!EndProject, P!TypeOK, P!heldVars, P!ledgerVars, P!LifecycleState
  <2>2. \A x \in Tenant \X Works : projects'[x] # projects[x] => projects'[x] = state
    BY <1>0, <1>4 DEF P!EndProject, P!TypeOK
  <2> QED BY <1>1, <1>4, <2>1, <2>2 DEF P!EndProject, P!heldVars, P!ledgerVars
<1>5. CASE P!Tick
  <2>1. P!TypeOK'
    BY <1>0, <1>5 DEF P!Tick, P!TypeOK, P!heldVars, P!ledgerVars
  <2> QED BY <1>1, <1>5, <2>1 DEF P!Tick, P!heldVars, P!ledgerVars
<1>6. ASSUME NEW k \in P!Key, NEW copy \in copies[k],
             P!DeactivateParticipation(k, copy) \/ P!CloseParticipation(k, copy)
      PROVE  PartyInv'
  BY <1>6, TransitionStep DEF P!DeactivateParticipation, P!CloseParticipation
<1>7. ASSUME NEW k \in P!Key, NEW party \in PartyID, NEW project \in Works,
             NEW site \in Place \cup {Blank}, NEW sponsor \in Sponsor, NEW w \in Window,
             P!NewProjectParticipation(k, party, project, site, sponsor, w)
      PROVE  PartyInv'
  <2> DEFINE new == [party |-> party, project |-> project, site |-> site, sponsor |-> sponsor,
                     from |-> w[1], to |-> w[2], parent |-> Blank, depth |-> 0]
  <2>1. w[1] \in Nat /\ w[2] \in Nat
    BY PlatformAssumption DEF P!PartyAssumption
  <2>2. new \in P!Participation /\ new.parent = Blank
    BY <2>1 DEF P!Participation
  <2>3. P!Register(k, new)
    BY <1>7 DEF P!NewProjectParticipation
  <2> HIDE DEF new
  <2> QED BY <2>2, <2>3, RegisterStep
<1>8. CASE UNCHANGED P!vars
  <2>1. P!TypeOK'
    BY <1>0, <1>8 DEF P!vars, P!TypeOK, P!heldVars, P!ledgerVars
  <2> QED BY <1>1, <1>8, <2>1 DEF P!vars, P!heldVars, P!ledgerVars
<1>9. \A t \in Tenant, p \in PartyID : P!DeactivateParty(t, p) => PartyInv'
  BY <1>3 DEF P!DeactivateParty, P!LifecycleState
<1>10. \A t \in Tenant, p \in PartyID, state \in P!LifecycleState :
          P!SimulateReversiblePartyState(t, p, state) => PartyInv'
  BY <1>3 DEF P!SimulateReversiblePartyState
<1> QED BY <1>2, <1>4, <1>5, <1>6, <1>7, <1>8, <1>9, <1>10, NestedStep, SimulateStep,
           ReassignStep, CascadeStep
        DEF P!Next

\* Where the ledger replays, an active participation has no record: none leads to ACTIVE.
LEMMA PartyInvReplays == PartyInv => P!LifecycleReplays
<1> SUFFICES ASSUME PartyInv, NEW k \in P!Key, participations[k] # None
             PROVE  /\ P!SponsorsAttributed(k)
                    /\ P!RecordsLawful(k)
                    /\ k \notin branched => P!SponsorsReplay(k)
                    /\ k \notin unrecorded => P!StatesAttributed(k)
                    /\ k \notin branched \cup unrecorded =>
                          /\ P!StatesReplay(k)
                          /\ k \in cascaded => current[k].state # "ACTIVE"
                          /\ P!ValidateParticipationAgainstProject(k) => partRecords[k] = <<>>
  BY DEF P!LifecycleReplays
<1>1. KeyInv(k) /\ partRecords[k] \in Seq(P!PartRecord)
  BY DEF PartyInv, P!TypeOK
<1>2. ASSUME P!StatesReplay(k), current[k].state = "ACTIVE", partRecords[k] # <<>> PROVE FALSE
  <2>1. Len(partRecords[k]) \in 1 .. Len(partRecords[k])
    BY <1>1, <1>2
  <2> QED BY <1>1, <1>2, <2>1 DEF KeyInv, P!StatesReplay, P!RecordsLawful
<1> QED BY <1>1, <1>2 DEF KeyInv, P!ValidateParticipationAgainstProject, P!IsValidAt

\* For all tenants, parties, projects and windows, and whichever copies the callers of the
\* lifecycle functions and CascadeProjectClosure pass: the ledger accounts for what every
\* copy shows, replays where each change was recorded and made to the newest value, and a
\* subcontractor stays within its contractor.
THEOREM PartyLedgerReplays == P!Spec => [](P!LifecycleReplays /\ P!NestedWithinParent)
<1>1. P!Spec => []PartyInv
  BY PartiesInitially, PartyStep, PTL DEF P!Spec
<1>2. PartyInv => P!LifecycleReplays /\ P!NestedWithinParent
  BY PartyInvReplays DEF PartyInv
<1> QED BY <1>1, <1>2, PTL

\* The property of the run platform about the party registry and its ledger.
THEOREM LifecycleReplaysHolds == Spec => []LifecycleReplays
<1> DEFINE Inv == focus = "parties" => PartyInv
<1>1. Init => Inv
  BY PartiesInitially DEF Init
<1>2. Inv /\ [Next]_vars => Inv'
  <2> SUFFICES ASSUME Inv, [Next]_vars, focus' = "parties" PROVE PartyInv'
    OBVIOUS
  <2>1. focus = "parties" /\ [P!Next]_(P!vars)
    BY DEF Next, vars, Api, Hierarchy, Parties, Names, Contracts, Flags, partyVars, P!vars,
       P!heldVars, P!ledgerVars
  <2> QED BY <2>1, PartyStep
<1>3. Inv => LifecycleReplays
  BY PartyInvReplays DEF LifecycleReplays, PartyInv
<1> QED BY <1>1, <1>2, <1>3, PTL DEF Spec

-----------------------------------------------------------------------------
\* The hierarchy: what is above an entity keeps its place, so a copy of it stays right.

\* v, as the entity e, agrees with what is above it; an area's site was once where the
\* area is.
Fits(e, v) ==
    /\ e \in BusinessUnitID \cup ProjectID =>
          /\ v.company \in CompanyID
          /\ entities[v.company] # None
          /\ entities[v.company].tenant = v.tenant
    /\ e \in ProjectID /\ v.unit # Blank =>
          /\ v.unit \in BusinessUnitID
          /\ entities[v.unit] # None
          /\ entities[v.unit].company = v.company
    /\ e \in SiteID \cup AreaID =>
          /\ v.project \in ProjectID
          /\ entities[v.project] # None
          /\ entities[v.project].tenant = v.tenant
          /\ entities[v.project].company = v.company
          /\ entities[v.project].unit = v.unit
    /\ e \in AreaID =>
          /\ v.site \in SiteID
          /\ \E s \in H!Recorded(v.site) : s.project = v.project

\* Besides: an entity is where its history ends.
HierarchyInv ==
    /\ H!TypeOK
    /\ \A e \in H!ID : entities[e] # None => Fits(e, entities[e]) /\ entities[e] \in H!Recorded(e)
    /\ \A i \in 1 .. Len(history) :
          /\ entities[history[i].id] # None
          /\ H!Follows(history[i].entity, entities[history[i].id])
    /\ H!EndsForGood

\* Nothing was made and nothing captured.
LEMMA HierarchyInitially == H!Init => HierarchyInv
  BY DEF H!Init, HierarchyInv, H!TypeOK, H!EndsForGood

\* Following is transitive, also through what was closed and then archived.
LEMMA FollowsOn ==
    ASSUME NEW a \in H!Entity, NEW b \in H!Entity, NEW c \in H!Entity,
           H!Follows(a, b), H!Follows(b, c)
    PROVE  H!Follows(a, c)
<1>1. [a EXCEPT !.state = "ARCHIVED"].state = "ARCHIVED"
  BY DEF H!Entity
<1> QED BY <1>1 DEF H!Follows

\* Keep: a company, unit or project only changes its state, a new entity fits below what
\* is there, and what follows the entity before follows all its history.
LEMMA KeepStep ==
    ASSUME HierarchyInv, NEW e \in H!ID, NEW v \in H!Entity, H!Keep(e, v), Fits(e, v),
           entities[e] # None => H!Follows(entities[e], v),
           e \in H!Upper /\ entities[e] # None =>
              /\ v.tenant = entities[e].tenant
              /\ v.company = entities[e].company
              /\ v.unit = entities[e].unit
    PROVE  HierarchyInv'
<1> DEFINE r == [id |-> e, entity |-> v]
           n == Len(history)
<1>0. /\ H!TypeOK /\ H!EndsForGood
      /\ \A x \in H!ID : entities[x] # None => Fits(x, entities[x]) /\ entities[x] \in H!Recorded(x)
      /\ \A i \in 1 .. n : /\ entities[history[i].id] # None
                           /\ H!Follows(history[i].entity, entities[history[i].id])
  BY DEF HierarchyInv
<1>1. entities' = [entities EXCEPT ![e] = v] /\ history' = Append(history, r)
  BY DEF H!Keep
<1>2. r \in H!HistoricalScopeRecord /\ r.id = e /\ r.entity = v
  BY DEF H!HistoricalScopeRecord
<1>3. v # None
  BY PlatformAssumption DEF H!HierarchyAssumption
<1> HIDE DEF r
<1>4. H!TypeOK'
  BY <1>0, <1>1, <1>2 DEF H!TypeOK
<1>5. \A x \in H!ID : entities'[x] = IF x = e THEN v ELSE entities[x]
  BY <1>0, <1>1 DEF H!TypeOK
<1>6. /\ n \in Nat /\ Len(history') = n + 1 /\ history'[n + 1] = r
      /\ \A i \in 1 .. n : history'[i] = history[i] /\ history[i].id \in H!ID
                           /\ history[i].entity \in H!Entity
  <2>1. history \in Seq(H!HistoricalScopeRecord)
    BY <1>0 DEF H!TypeOK
  <2>2. \A i \in 1 .. n : history[i] \in H!HistoricalScopeRecord
    BY <2>1
  <2>3. \A i \in 1 .. n : history[i].id \in H!ID /\ history[i].entity \in H!Entity
    BY <2>2 DEF H!HistoricalScopeRecord
  <2> QED BY <1>1, <1>2, <2>1, <2>3
<1>7. ASSUME NEW x \in H!ID
      PROVE  H!Recorded(x)' = H!Recorded(x) \cup (IF x = e THEN {v} ELSE {})
  BY <1>2, <1>6 DEF H!Recorded
<1>8. \A x \in H!Upper : entities[x] # None =>
         /\ entities'[x] # None
         /\ entities'[x].tenant = entities[x].tenant
         /\ entities'[x].company = entities[x].company
         /\ entities'[x].unit = entities[x].unit
  BY <1>3, <1>5 DEF H!Upper, H!ID
<1>9. ASSUME NEW x, NEW y, Fits(x, y)
      PROVE  Fits(x, y)'
  <2>1. CompanyID \cup BusinessUnitID \cup ProjectID \subseteq H!Upper /\ SiteID \subseteq H!ID
    BY DEF H!Upper, H!ID
  <2>2. y.site \in SiteID => H!Recorded(y.site) \subseteq H!Recorded(y.site)'
    BY <1>7, <2>1
  <2> QED BY <1>8, <1>9, <2>1, <2>2 DEF Fits
<1>10. ASSUME NEW x \in H!ID, entities'[x] # None
       PROVE  Fits(x, entities[x])' /\ entities'[x] \in H!Recorded(x)'
  <2>1. PICK y : y = entities'[x]
    OBVIOUS
  <2>2. Fits(x, y)
    BY <1>0, <1>5, <1>10, <2>1
  <2>3. Fits(x, y)'
    BY <1>9, <2>2
  <2>4. Fits(x, entities[x])'
    BY <2>1, <2>3 DEF Fits
  <2> QED BY <1>0, <1>5, <1>7, <1>10, <2>4
<1>11. \A i \in 1 .. n : history[i].id = e => H!Follows(history[i].entity, v)
  <2> SUFFICES ASSUME NEW i \in 1 .. n, history[i].id = e
               PROVE  H!Follows(history[i].entity, v)
    OBVIOUS
  <2>1. entities[e] # None /\ H!Follows(history[i].entity, entities[e])
    BY <1>0
  <2>2. entities[e] \in H!Entity
    BY <1>0, <2>1 DEF H!TypeOK
  <2> QED BY <1>6, <2>1, <2>2, FollowsOn
<1>12. H!Follows(v, v)
  BY DEF H!Follows
<1>13. ASSUME NEW i \in 1 .. n + 1
       PROVE  /\ entities'[history'[i].id] # None
              /\ H!Follows(history'[i].entity, entities'[history'[i].id])
  <2>1. CASE i = n + 1
    BY <1>2, <1>3, <1>5, <1>6, <1>12, <2>1
  <2>2. CASE i \in 1 .. n
    BY <1>0, <1>3, <1>5, <1>6, <1>11, <2>2
  <2> QED BY <1>6, <2>1, <2>2
<1>14. H!EndsForGood'
  <2> SUFFICES ASSUME NEW i \in 1 .. n + 1, NEW j \in 1 .. n + 1, i < j,
                      history'[i].id = history'[j].id
               PROVE  H!Follows(history'[i].entity, history'[j].entity)
    BY <1>6 DEF H!EndsForGood, H!Follows
  <2>1. i \in 1 .. n /\ history'[i] = history[i]
    BY <1>6
  <2>2. CASE j \in 1 .. n
    BY <1>0, <1>6, <2>1, <2>2 DEF H!EndsForGood
  <2>3. CASE j = n + 1
    BY <1>2, <1>6, <1>11, <2>1, <2>3
  <2> QED BY <1>6, <2>2, <2>3
<1>15. \A i \in 1 .. Len(history') :
          /\ entities'[history'[i].id] # None
          /\ H!Follows(history[i].entity, entities[history[i].id])'
  BY <1>6, <1>13 DEF H!Follows
<1> QED BY <1>4, <1>10, <1>14, <1>15 DEF HierarchyInv

\* What each kind is asked to fit.
LEMMA KindsApart ==
    /\ \A c \in CompanyID : c \in H!ID /\ c \in H!Upper /\ \A v : Fits(c, v)
    /\ \A u \in BusinessUnitID : u \in H!ID /\ u \in H!Upper /\ u # Blank
          /\ u \notin ProjectID \cup SiteID \cup AreaID
    /\ \A p \in ProjectID : p \in H!ID /\ p \in H!Upper /\ p \notin SiteID \cup AreaID
    /\ \A s \in SiteID : s \in H!ID /\ s \notin H!Upper \cup AreaID
    /\ \A a \in AreaID : a \in H!ID /\ a \notin H!Upper
    /\ \A e \in SponsoredID : e \in H!ID /\ e \notin H!Upper /\ \A v : Fits(e, v)
  BY PlatformAssumption DEF H!HierarchyAssumption, H!Upper, H!ID, Fits

\* Two fields of an entity are replaced.
LEMMA EntityFields ==
    ASSUME NEW x \in H!Entity, NEW s \in SiteID \cup {Blank}, NEW state \in H!LifecycleState
    PROVE  LET y == [x EXCEPT !.site = s, !.state = state]
           IN  /\ y \in H!Entity /\ y.tenant = x.tenant /\ y.company = x.company
               /\ y.unit = x.unit /\ y.project = x.project /\ y.site = s
<1> DEFINE y == [x EXCEPT !.site = s, !.state = state]
           y1 == [x EXCEPT !.site = s]
<1>1. y1 \in H!Entity
  BY DEF H!Entity
<1>2. y = [y1 EXCEPT !.state = state]
  BY DEF H!Entity
<1> HIDE DEF y1
<1>3. y \in H!Entity
  BY <1>1, <1>2 DEF H!Entity
<1>4. /\ y.tenant = x.tenant /\ y.company = x.company /\ y.unit = x.unit
      /\ y.project = x.project /\ y.site = s
  BY DEF H!Entity
<1> QED BY <1>3, <1>4

\* An entity that is there and what Archive or Close makes of it.
LEMMA EndStep ==
    ASSUME HierarchyInv, NEW e \in H!ID, H!Archive(e) \/ H!Close(e)
    PROVE  HierarchyInv'
<1>1. PICK state \in {"ARCHIVED", "CLOSED"} :
         /\ H!Keep(e, [entities[e] EXCEPT !.state = state])
         /\ state = "CLOSED" => entities[e].state # "ARCHIVED"
  BY DEF H!Archive, H!Close
<1>2. entities[e] # None /\ entities[e] \in H!Entity /\ Fits(e, entities[e])
  BY DEF H!Archive, H!Close, HierarchyInv, H!TypeOK
<1> DEFINE v == [entities[e] EXCEPT !.state = state]
<1>3. /\ v \in H!Entity /\ v.tenant = entities[e].tenant /\ v.company = entities[e].company
      /\ v.unit = entities[e].unit /\ v.project = entities[e].project
      /\ v.site = entities[e].site /\ v.state = state
  BY <1>2 DEF H!Entity, H!LifecycleState
<1>4. Fits(e, v)
  BY <1>2, <1>3 DEF Fits
<1>5. entities[e].state = state => v = entities[e]
  BY <1>2 DEF H!Entity
<1>6. H!Follows(entities[e], v)
  BY <1>1, <1>5 DEF H!Follows
<1> HIDE DEF v
<1>7. H!Keep(e, v)
  BY <1>1 DEF v
<1> QED BY <1>3, <1>4, <1>6, <1>7, KeepStep

\* An active entity may become anything.
LEMMA ActiveFollows == \A e, v : H!IsActive(e) => H!Follows(entities[e], v)
  BY DEF H!IsActive, H!Follows

\* NewCompany, and NewBusinessUnit and NewProject directly below a company.
LEMMA BelowCompanyStep ==
    ASSUME HierarchyInv, NEW e \in BusinessUnitID \cup ProjectID, NEW c \in CompanyID,
           H!IsActive(c), H!Fresh(e, H!ScopeOfCompany(c))
    PROVE  HierarchyInv'
<1> DEFINE v == H!ScopeOfCompany(c)
<1>0. c \in H!ID /\ e \in H!ID
  BY KindsApart
<1>1. entities[c] # None /\ entities[c] \in H!Entity /\ entities[e] = None
  BY <1>0 DEF HierarchyInv, H!TypeOK, H!IsActive, H!Fresh
<1>2. /\ v \in H!Entity /\ v.tenant = entities[c].tenant /\ v.company = c /\ v.unit = Blank
  BY <1>1 DEF H!Entity, H!ScopeOfCompany, H!LifecycleState
<1>3. H!Keep(e, v)
  BY DEF H!Fresh
<1> HIDE DEF v
<1>4. Fits(e, v)
  BY <1>1, <1>2, KindsApart DEF Fits
<1> QED BY <1>0, <1>1, <1>2, <1>3, <1>4, KeepStep

LEMMA BelowUnitStep ==
    ASSUME HierarchyInv, NEW p \in ProjectID, NEW u \in BusinessUnitID,
           H!NewProjectUnderBusinessUnit(p, u)
    PROVE  HierarchyInv'
<1> DEFINE v == H!ScopeOfUnit(u)
           c == entities[u].company
<1>0. u \in H!ID /\ p \in H!ID /\ CompanyID \subseteq H!ID
  BY KindsApart
<1>1. /\ entities[u] # None /\ entities[u] \in H!Entity /\ Fits(u, entities[u])
      /\ entities[p] = None /\ H!Keep(p, v)
  BY <1>0 DEF HierarchyInv, H!TypeOK, H!IsActive, H!Fresh, H!NewProjectUnderBusinessUnit
<1>2. c \in CompanyID /\ entities[c] # None /\ entities[c].tenant = entities[u].tenant
  BY <1>1 DEF Fits
<1>3. entities[c] \in H!Entity
  BY <1>0, <1>2 DEF HierarchyInv, H!TypeOK
<1> DEFINE w == H!ScopeOfCompany(c)
<1>4. w \in H!Entity /\ w.tenant = entities[c].tenant /\ w.company = c
  BY <1>2, <1>3 DEF H!Entity, H!ScopeOfCompany, H!LifecycleState
<1>5. v = [w EXCEPT !.unit = u]
  BY DEF H!ScopeOfUnit
<1> HIDE DEF w, v, c
<1>6. v \in H!Entity /\ v.tenant = w.tenant /\ v.company = c /\ v.unit = u
  BY <1>4, <1>5 DEF H!Entity
<1>7. Fits(p, v)
  BY <1>1, <1>2, <1>4, <1>6, KindsApart DEF Fits, c
<1> QED BY <1>0, <1>1, <1>6, <1>7, KeepStep

\* A site below a project, made there or moved there.
LEMMA BelowProjectFits ==
    ASSUME HierarchyInv, NEW s \in SiteID, NEW p \in ProjectID, entities[p] # None,
           NEW state \in H!LifecycleState
    PROVE  LET v == [H!ScopeOfProject(p) EXCEPT !.state = state]
           IN  v \in H!Entity /\ Fits(s, v)
<1> DEFINE v == [H!ScopeOfProject(p) EXCEPT !.state = state]
           w == H!ScopeOfProject(p)
<1>1. entities[p] \in H!Entity
  BY KindsApart DEF HierarchyInv, H!TypeOK
<1>2. /\ w \in H!Entity /\ w.tenant = entities[p].tenant /\ w.company = entities[p].company
      /\ w.unit = entities[p].unit /\ w.project = p
  BY <1>1 DEF H!Entity, H!ScopeOfProject, H!LifecycleState
<1> HIDE DEF w
<1>3. v = [w EXCEPT !.state = state]
  BY DEF w
<1>4. /\ v \in H!Entity /\ v.tenant = w.tenant /\ v.company = w.company
      /\ v.unit = w.unit /\ v.project = w.project
  BY <1>2, <1>3 DEF H!Entity
<1> HIDE DEF v
<1>5. Fits(s, v)
  BY <1>2, <1>4, KindsApart DEF Fits
<1> QED BY <1>4, <1>5 DEF v

LEMMA SiteStep ==
    ASSUME HierarchyInv, NEW s \in SiteID, NEW p \in ProjectID,
           H!NewSite(s, p) \/ H!MoveSiteToProject(s, p)
    PROVE  HierarchyInv'
<1>0. s \in H!ID /\ p \in H!ID /\ s \notin H!Upper
  BY KindsApart
<1>1. CASE H!NewSite(s, p)
  <2>1. entities[p] # None /\ entities[s] = None /\ H!Keep(s, H!ScopeOfProject(p))
    BY <1>1 DEF H!NewSite, H!IsActive, H!Fresh
  <2>2. [H!ScopeOfProject(p) EXCEPT !.state = "ACTIVE"] = H!ScopeOfProject(p)
    BY DEF H!ScopeOfProject
  <2>3. H!ScopeOfProject(p) \in H!Entity /\ Fits(s, H!ScopeOfProject(p))
    BY <2>1, <2>2, BelowProjectFits DEF H!LifecycleState
  <2> QED BY <1>0, <2>1, <2>3, KeepStep
<1>2. CASE H!MoveSiteToProject(s, p)
  <2> DEFINE v == [H!ScopeOfProject(p) EXCEPT !.state = entities[s].state]
  <2>1. /\ entities[p] # None /\ entities[s] # None /\ H!IsActive(s) /\ H!Keep(s, v)
    BY <1>2 DEF H!MoveSiteToProject, H!Movable
  <2>2. entities[s].state \in H!LifecycleState
    BY <1>0, <2>1 DEF HierarchyInv, H!TypeOK, H!Entity
  <2>3. v \in H!Entity /\ Fits(s, v)
    BY <2>1, <2>2, BelowProjectFits
  <2> HIDE DEF v
  <2> QED BY <1>0, <2>1, <2>3, ActiveFollows, KeepStep
<1> QED BY <1>1, <1>2

\* An area below a site: the site's history says where the site was then.
LEMMA AreaStep ==
    ASSUME HierarchyInv, NEW a \in AreaID, NEW s \in SiteID,
           H!NewArea(a, s) \/ H!MoveAreaToSite(a, s)
    PROVE  HierarchyInv'
<1>0. s \in H!ID /\ a \in H!ID /\ a \notin H!Upper /\ a \in SiteID \cup AreaID
  BY KindsApart
<1>1. entities[s] # None /\ entities[s] \in H!Entity /\ Fits(s, entities[s])
      /\ entities[s] \in H!Recorded(s)
  BY <1>0 DEF HierarchyInv, H!TypeOK, H!NewArea, H!MoveAreaToSite, H!IsActive
<1> DEFINE w == H!ScopeOfSite(s)
<1>2. /\ w \in H!Entity /\ w.tenant = entities[s].tenant /\ w.company = entities[s].company
      /\ w.unit = entities[s].unit /\ w.project = entities[s].project /\ w.site = s
  BY <1>1, EntityFields DEF H!ScopeOfSite, H!LifecycleState
<1> HIDE DEF w
<1>3. ASSUME NEW v \in H!Entity, v.tenant = w.tenant, v.company = w.company, v.unit = w.unit,
             v.project = w.project, v.site = w.site
      PROVE  Fits(a, v)
  BY <1>0, <1>1, <1>2, <1>3, KindsApart DEF Fits
<1>4. CASE H!NewArea(a, s)
  <2>1. entities[a] = None /\ H!Keep(a, w)
    BY <1>4 DEF H!NewArea, H!Fresh, w
  <2> QED BY <1>0, <1>2, <1>3, <2>1, KeepStep
<1>5. CASE H!MoveAreaToSite(a, s)
  <2> DEFINE v == [w EXCEPT !.state = entities[a].state]
  <2>1. entities[a] # None /\ H!IsActive(a) /\ H!Keep(a, v)
    BY <1>5 DEF H!MoveAreaToSite, H!Movable, w
  <2>2. entities[a].state \in H!LifecycleState
    BY <1>0, <2>1 DEF HierarchyInv, H!TypeOK, H!Entity
  <2>3. /\ v \in H!Entity /\ v.tenant = w.tenant /\ v.company = w.company /\ v.unit = w.unit
        /\ v.project = w.project /\ v.site = w.site
    BY <1>2, <2>2 DEF H!Entity
  <2> HIDE DEF v
  <2> QED BY <1>0, <1>3, <2>1, <2>3, ActiveFollows, KeepStep
<1> QED BY <1>4, <1>5

LEMMA SponsoredStep ==
    ASSUME HierarchyInv, NEW e \in SponsoredID, NEW s \in SiteID, H!NewSponsoredParty(e, s)
    PROVE  HierarchyInv'
<1> DEFINE w == H!ScopeOfSite(s)
           w1 == [w EXCEPT !.company = Blank]
           v == [w EXCEPT !.company = Blank, !.unit = Blank]
<1>0. s \in H!ID /\ e \in H!ID /\ \A x : Fits(e, x)
  BY KindsApart
<1>1. entities[s] # None /\ entities[s] \in H!Entity /\ entities[e] = None /\ H!Keep(e, v)
  BY <1>0 DEF HierarchyInv, H!TypeOK, H!NewSponsoredParty, H!IsActive, H!Fresh
<1>2. w \in H!Entity
  BY <1>1, EntityFields DEF H!ScopeOfSite, H!LifecycleState
<1> HIDE DEF w
<1>3. w1 \in H!Entity
  BY <1>2 DEF H!Entity
<1>4. v = [w1 EXCEPT !.unit = Blank]
  BY <1>2 DEF H!Entity
<1> HIDE DEF w1
<1>5. v \in H!Entity
  BY <1>3, <1>4 DEF H!Entity
<1> HIDE DEF v
<1> QED BY <1>0, <1>1, <1>5, KeepStep

\* Each constructor, ending or move keeps the invariant.
LEMMA HierarchyStep == HierarchyInv /\ [H!Next]_(H!vars) => HierarchyInv'
<1> SUFFICES ASSUME HierarchyInv, [H!Next]_(H!vars) PROVE HierarchyInv'
  OBVIOUS
<1>1. ASSUME NEW c \in CompanyID, NEW t \in Tenant, H!NewCompany(c, t)
      PROVE  HierarchyInv'
  <2> DEFINE v == [tenant |-> t, company |-> Blank, unit |-> Blank, project |-> Blank,
                   site |-> Blank, state |-> "ACTIVE"]
  <2>1. v \in H!Entity
    BY DEF H!Entity, H!LifecycleState
  <2>2. entities[c] = None /\ H!Keep(c, v)
    BY <1>1 DEF H!NewCompany, H!Fresh
  <2> HIDE DEF v
  <2> QED BY <2>1, <2>2, KindsApart, KeepStep
<1>2. ASSUME NEW u \in BusinessUnitID, NEW c \in CompanyID, H!NewBusinessUnit(u, c)
      PROVE  HierarchyInv'
  BY <1>2, BelowCompanyStep DEF H!NewBusinessUnit
<1>3. ASSUME NEW p \in ProjectID, NEW c \in CompanyID, H!NewProject(p, c)
      PROVE  HierarchyInv'
  BY <1>3, BelowCompanyStep DEF H!NewProject
<1>4. CASE UNCHANGED H!vars
  <2>1. /\ UNCHANGED <<entities, history>>
        /\ \A e \in H!ID : (Fits(e, entities[e]) <=> Fits(e, entities[e])')
                           /\ H!Recorded(e)' = H!Recorded(e)
    BY <1>4 DEF H!vars, Fits, H!Recorded
  <2> QED BY <2>1 DEF HierarchyInv, H!TypeOK, H!EndsForGood, H!Follows
<1> QED BY <1>1, <1>2, <1>3, <1>4, BelowUnitStep, SiteStep, AreaStep, SponsoredStep, EndStep
        DEF H!Next

\* A site or area fits its project, and the project fits what is above it.
LEMMA HierarchyInvLineage == HierarchyInv => H!LineageConsistent
<1> SUFFICES ASSUME HierarchyInv, NEW e \in SiteID \cup AreaID, entities[e] # None,
                    NEW x, x = entities[e]
             PROVE  /\ entities[x.project] # None
                    /\ entities[x.project].tenant = x.tenant
                    /\ entities[x.project].company = x.company
                    /\ entities[x.project].unit = x.unit
                    /\ entities[x.company].tenant = x.tenant
                    /\ x.unit # Blank => entities[x.unit].company = x.company
                    /\ e \in AreaID => \E s \in H!Recorded(x.site) : s.project = x.project
  BY DEF H!LineageConsistent
<1>1. Fits(e, x)
  BY KindsApart DEF HierarchyInv
<1>2. x.project \in ProjectID /\ entities[x.project] # None
  BY <1>1 DEF Fits
<1>3. Fits(x.project, entities[x.project])
  BY <1>2, KindsApart DEF HierarchyInv
<1> QED BY <1>1, <1>2, <1>3 DEF Fits

\* For all tenants and IDs: the copies of the scope above that sites and areas carry stay
\* consistent under moves, and what was archived or closed ends for good.
THEOREM HierarchyConsistent == H!Spec => [](H!LineageConsistent /\ H!EndsForGood)
<1>1. H!Spec => []HierarchyInv
  BY HierarchyInitially, HierarchyStep, PTL DEF H!Spec
<1>2. HierarchyInv => H!LineageConsistent /\ H!EndsForGood
  BY HierarchyInvLineage DEF HierarchyInv
<1> QED BY <1>1, <1>2, PTL

\* The property of the run platform about the organization hierarchy.
THEOREM LineageConsistentHolds == Spec => []LineageConsistent
<1> DEFINE Inv == focus = "hierarchy" => HierarchyInv
<1>1. Init => Inv
  BY HierarchyInitially DEF Init
<1>2. Inv /\ [Next]_vars => Inv'
  <2> SUFFICES ASSUME Inv, [Next]_vars, focus' = "hierarchy" PROVE HierarchyInv'
    OBVIOUS
  <2>1. focus = "hierarchy" /\ [H!Next]_(H!vars)
    BY DEF Next, vars, Api, Hierarchy, Parties, Names, Contracts, Flags, treeVars, H!vars
  <2> QED BY <2>1, HierarchyStep
<1>3. Inv => LineageConsistent
  BY HierarchyInvLineage DEF LineageConsistent, HierarchyInv
<1> QED BY <1>1, <1>2, <1>3, PTL DEF Spec

-----------------------------------------------------------------------------
\* Feature flags: a rollout is a threshold on the cohort.

FlagInv == L!TypeOK /\ \A id \in FlagID : defs[id] # None => ~defs[id].defaultEnabled

\* No flag is registered.
LEMMA FlagsInitially == L!Init => FlagInv
  BY DEF L!Init, FlagInv, L!TypeOK

\* Registering and setting keep the percentage in range, and no default is on.
LEMMA FlagStep == FlagInv /\ [L!Next]_(L!vars) => FlagInv'
<1> SUFFICES ASSUME FlagInv, [L!Next]_(L!vars) PROVE FlagInv'
  OBVIOUS
<1>0. L!TypeOK /\ \A id \in FlagID : defs[id] # None => ~defs[id].defaultEnabled
  BY DEF FlagInv
<1>1. ASSUME NEW id \in FlagID,
             NEW f \in [enabled : BOOLEAN, percentage : Percentage, from : {Blank} \cup Moment,
                        to : {Blank} \cup Moment, tenants : SUBSET Audience,
                        roles : SUBSET Role],
             L!RegisterFlag(id, f)
      PROVE  FlagInv'
  <2>1. f \in L!Rollout
    BY <1>1 DEF L!RegisterFlag, L!Rollout
  <2> QED BY <1>0, <1>1, <2>1 DEF L!RegisterFlag, FlagInv, L!TypeOK
<1>2. ASSUME NEW id \in FlagID, NEW enabled \in BOOLEAN, L!SetFlagState(id, enabled)
      PROVE  FlagInv'
  <2>1. flags[id] \in L!Rollout
    BY <1>0, <1>2 DEF L!SetFlagState, L!TypeOK
  <2>2. [flags[id] EXCEPT !.enabled = enabled] \in L!Rollout
    BY <2>1 DEF L!Rollout
  <2>3. flags' = [flags EXCEPT ![id] = [flags[id] EXCEPT !.enabled = enabled]]
    BY <1>0, <1>2 DEF L!SetFlagState, L!TypeOK
  <2> QED BY <1>0, <1>2, <2>2, <2>3 DEF L!SetFlagState, FlagInv, L!TypeOK
<1>3. ASSUME NEW id \in FlagID, NEW p \in Percentage, L!SetRolloutPercentage(id, p)
      PROVE  FlagInv'
  <2>1. flags[id] \in L!Rollout /\ p \in 0 .. 100
    BY <1>0, <1>3 DEF L!SetRolloutPercentage, L!TypeOK
  <2>2. [flags[id] EXCEPT !.percentage = p] \in L!Rollout
    BY <2>1 DEF L!Rollout
  <2>3. flags' = [flags EXCEPT ![id] = [flags[id] EXCEPT !.percentage = p]]
    BY <1>0, <1>3 DEF L!SetRolloutPercentage, L!TypeOK
  <2> QED BY <1>0, <1>3, <2>2, <2>3 DEF L!SetRolloutPercentage, FlagInv, L!TypeOK
<1>4. ASSUME NEW id \in FlagID, NEW d \in L!Definition, L!Register(id, d)
      PROVE  FlagInv'
  <2>1. /\ defs' = [defs EXCEPT ![id] = d] /\ ~d.defaultEnabled /\ UNCHANGED flags
    BY <1>4 DEF L!Register
  <2>2. \A x \in FlagID : defs'[x] = IF x = id THEN d ELSE defs[x]
    BY <1>0, <2>1 DEF L!TypeOK
  <2> QED BY <1>0, <2>1, <2>2 DEF FlagInv, L!TypeOK
<1>5. CASE UNCHANGED L!vars
  BY <1>0, <1>5 DEF L!vars, FlagInv, L!TypeOK
<1> QED BY <1>1, <1>2, <1>3, <1>4, <1>5 DEF L!Next

\* The cohorts below a percentage are as many as it says.
LEMMA CohortsReached ==
    ASSUME NEW p \in 0 .. 100
    PROVE  L!Cardinality({b \in L!Bucket : L!Reached(b, p)}) = p
<1>1. {b \in L!Bucket : L!Reached(b, p)} = 0 .. p - 1
  BY PlatformAssumption DEF L!Bucket, L!Reached, L!FlagAssumption
<1>2. Cardinality(0 .. p - 1) = p
  BY FS_Interval
<1>3. \A T : L!Cardinality(T) = Cardinality(T)
  BY DEF L!Cardinality, Cardinality
<1> QED BY <1>1, <1>2, <1>3

\* A larger percentage exposes the flag to whoever saw it.
LEMMA RolloutGrows ==
    ASSUME NEW f \in L!Rollout, NEW ctx \in L!Context, NEW q \in f.percentage .. 100,
           L!Exposed(f, ctx)
    PROVE  L!Exposed([f EXCEPT !.percentage = q], ctx)
<1> DEFINE g == [f EXCEPT !.percentage = q]
<1>1. /\ g.enabled = f.enabled /\ g.percentage = q /\ g.from = f.from /\ g.to = f.to
      /\ g.tenants = f.tenants /\ g.roles = f.roles
  BY DEF L!Rollout
<1> HIDE DEF g
<1>2. f.percentage \in 0 .. 100 /\ ctx.subject \in L!Bucket \cup {Blank}
  BY DEF L!Rollout, L!Context
<1>3. L!Reached(ctx.subject, q)
  <2>1. L!Reached(ctx.subject, f.percentage)
    BY DEF L!Exposed
  <2> QED BY <1>2, <2>1 DEF L!Reached, L!Bucket
<1>4. L!Exposed(g, ctx)
  BY <1>1, <1>3 DEF L!Exposed
<1> QED BY <1>4 DEF g

\* A flag as registered has its cohorts, and no static definition is ever on.
LEMMA FlagInvExact == FlagInv => L!RolloutExact /\ L!StaticFlagsOff
<1> SUFFICES ASSUME FlagInv PROVE L!RolloutExact /\ L!StaticFlagsOff
  OBVIOUS
<1>1. ASSUME NEW id \in FlagID, flags[id] # None
      PROVE  flags[id] \in L!Rollout /\ flags[id].percentage \in 0 .. 100
  BY <1>1 DEF FlagInv, L!TypeOK, L!Rollout
<1>2. L!RolloutExact
  BY <1>1, CohortsReached, RolloutGrows DEF L!RolloutExact
<1>3. L!StaticFlagsOff
  BY DEF L!StaticFlagsOff, L!StaticallyExposed, FlagInv
<1> QED BY <1>2, <1>3

\* The property of the run platform about both flag registries.
THEOREM RolloutExactHolds == Spec => []RolloutExact
<1> DEFINE Inv == focus = "flags" => FlagInv
<1>1. Init => Inv
  BY FlagsInitially DEF Init
<1>2. Inv /\ [Next]_vars => Inv'
  <2> SUFFICES ASSUME Inv, [Next]_vars, focus' = "flags" PROVE FlagInv'
    OBVIOUS
  <2>1. focus = "flags" /\ [L!Next]_(L!vars)
    BY DEF Next, vars, Api, Hierarchy, Parties, Names, Contracts, Flags, flagVars, L!vars
  <2> QED BY <2>1, FlagStep
<1>3. Inv => RolloutExact
  BY FlagInvExact DEF RolloutExact, FlagInv
<1> QED BY <1>1, <1>2, <1>3, PTL DEF Spec

-----------------------------------------------------------------------------
\* Contract governance: versions only rise, and dependencies only point back.

\* SemVer.Compare is a strict order that agrees with the major numbers.
LEMMA BeforeIsOrder ==
    ASSUME NEW u \in SemanticVersion, NEW v \in SemanticVersion, NEW w \in SemanticVersion
    PROVE  /\ G!Before(u, v) /\ G!Before(v, w) => G!Before(u, w)
           /\ G!Before(u, v) => ~G!Before(v, u) /\ u # v /\ u[1] <= v[1]
           /\ u[1] \in Nat
<1>1. \A x \in {u, v, w} : x[1] \in Nat /\ x[2] \in Nat /\ x[3] \in Nat
  BY PlatformAssumption DEF G!ContractAssumption
<1> QED BY <1>1 DEF G!Before

\* EvaluateEvolution from an earlier to a later entry.
LEMMA EvolutionForward ==
    ASSUME NEW old \in G!Entry, NEW new \in G!Entry, G!Before(old.version, new.version)
    PROVE  /\ G!EvaluateEvolution(old, new) = "COMPATIBLE" <=>
                 old.owner = new.owner /\ ~G!MustMigrate(old, new)
           /\ old.owner = new.owner /\ (G!MustMigrate(old, new) => new.from = old.version) =>
                 G!EvaluateEvolution(old, new) # "INCOMPATIBLE"
<1>1. old.version \in SemanticVersion /\ new.version \in SemanticVersion
  BY DEF G!Entry
<1>2. ~G!Before(new.version, old.version) /\ old.version # new.version
  BY <1>1, BeforeIsOrder
<1> DEFINE breaking == new.version[1] > old.version[1] \/ new.direction \in {"BREAKING", "FORWARD"}
<1>3. G!MustMigrate(old, new) <=> breaking
  BY DEF G!MustMigrate
<1>4. old.owner # new.owner => G!EvaluateEvolution(old, new) = "INCOMPATIBLE"
  BY <1>2 DEF G!EvaluateEvolution
<1>5. old.owner = new.owner =>
         G!EvaluateEvolution(old, new) =
            IF ~breaking THEN "COMPATIBLE"
            ELSE IF new.from = old.version THEN "MIGRATION_REQUIRED" ELSE "INCOMPATIBLE"
  BY <1>2 DEF G!EvaluateEvolution
<1> HIDE DEF breaking
<1> QED BY <1>3, <1>4, <1>5

\* EvaluateCompatibility from an earlier to a later record.
LEMMA CompatibilityForward ==
    ASSUME NEW old \in G!Record, NEW new \in G!Record, G!Before(old.version, new.version)
    PROVE  G!EvaluateCompatibility(old, new) = "COMPATIBLE" <=>
              old.owner = new.owner /\ new.version[1] = old.version[1] /\ new.backward
<1>1. old.version \in SemanticVersion /\ new.version \in SemanticVersion
  BY DEF G!Record
<1>2. ~G!Before(new.version, old.version) /\ old.version # new.version
  BY <1>1, BeforeIsOrder
<1> QED BY <1>2 DEF G!EvaluateCompatibility

Rising(h) == \A i, j \in 1 .. Len(h) : i < j => G!Before(h[i].version, h[j].version)

\* A history of CompatibilityRegistry: rising, of one owner, each step accepted.
EvolvesSoundly(h) ==
    /\ Rising(h)
    /\ \A i, j \in 1 .. Len(h) : h[i].owner = h[j].owner
    /\ \A i \in 1 .. Len(h) : i < Len(h) => G!EvaluateEvolution(h[i], h[i + 1]) # "INCOMPATIBLE"
    /\ \A i, j \in 1 .. Len(h) :
          i < j /\ (\A k \in i .. j - 1 : G!EvaluateEvolution(h[k], h[k + 1]) = "COMPATIBLE")
             => G!EvaluateEvolution(h[i], h[j]) = "COMPATIBLE"

\* A history of ContractRegistry, whose owners may differ.
RecordedSoundly(h) ==
    /\ Rising(h)
    /\ \A i, j \in 1 .. Len(h) :
          i < j /\ (\A k \in i .. j - 1 : G!EvaluateCompatibility(h[k], h[k + 1]) = "COMPATIBLE")
             => G!EvaluateCompatibility(h[i], h[j]) = "COMPATIBLE"

\* What comes after the latest version comes after all of them.
LEMMA RisesOn ==
    ASSUME NEW S, NEW h \in Seq(S), NEW e \in S, \A x \in S : x.version \in SemanticVersion,
           Rising(h), h # <<>> => G!Before(G!Latest(h).version, e.version)
    PROVE  /\ Rising(Append(h, e))
           /\ \A i \in 1 .. Len(h) : G!Before(h[i].version, e.version)
<1>1. ASSUME NEW i \in 1 .. Len(h) PROVE G!Before(h[i].version, e.version)
  <2>1. h # <<>> /\ Len(h) \in 1 .. Len(h) /\ h[i] \in S /\ h[Len(h)] \in S
    BY <1>1
  <2>2. i # Len(h) => G!Before(h[i].version, h[Len(h)].version)
    BY <2>1 DEF Rising
  <2>3. G!Before(h[Len(h)].version, e.version)
    BY <2>1 DEF G!Latest
  <2> QED BY <2>1, <2>2, <2>3, BeforeIsOrder
<1>2. /\ Len(Append(h, e)) = Len(h) + 1 /\ Append(h, e)[Len(h) + 1] = e /\ Len(h) \in Nat
      /\ \A i \in 1 .. Len(h) : Append(h, e)[i] = h[i]
  OBVIOUS
<1>3. ASSUME NEW i \in 1 .. Len(h) + 1, NEW j \in 1 .. Len(h) + 1, i < j
      PROVE  G!Before(Append(h, e)[i].version, Append(h, e)[j].version)
  <2>1. CASE j \in 1 .. Len(h)
    <3>1. i \in 1 .. Len(h)
      BY <1>2, <1>3, <2>1
    <3> QED BY <1>2, <1>3, <2>1, <3>1 DEF Rising
  <2>2. CASE j = Len(h) + 1
    <3>1. i \in 1 .. Len(h)
      BY <1>2, <1>3, <2>2
    <3> QED BY <1>1, <1>2, <2>2, <3>1
  <2> QED BY <1>2, <2>1, <2>2
<1> QED BY <1>1, <1>2, <1>3 DEF Rising

\* An entry that Register accepts extends the history.
LEMMA EvolvesOn ==
    ASSUME NEW h \in Seq(G!Entry), NEW e \in G!Entry, EvolvesSoundly(h),
           h # <<>> => /\ G!Latest(h).owner = e.owner
                       /\ G!Before(G!Latest(h).version, e.version)
                       /\ G!MustMigrate(G!Latest(h), e) => e.from = G!Latest(h).version
    PROVE  EvolvesSoundly(Append(h, e))
<1> DEFINE n == Len(h)
           g == Append(h, e)
<1>1. \A x \in G!Entry : x.version \in SemanticVersion
  BY DEF G!Entry
<1>2. Rising(g) /\ \A i \in 1 .. n : G!Before(h[i].version, e.version)
  BY <1>1, RisesOn DEF EvolvesSoundly
<1>3. /\ n \in Nat /\ g \in Seq(G!Entry) /\ Len(g) = n + 1 /\ g[n + 1] = e
      /\ \A i \in 1 .. n : g[i] = h[i] /\ h[i] \in G!Entry
  OBVIOUS
<1> HIDE DEF g
<1>4. ASSUME NEW i \in 1 .. n PROVE h[i].owner = e.owner
  <2>1. h # <<>> /\ n \in 1 .. n
    BY <1>3
  <2> QED BY <2>1 DEF EvolvesSoundly, G!Latest
<1>5. \A i, j \in 1 .. n + 1 : g[i].owner = g[j].owner
  <2>1. \A i \in 1 .. n + 1 : g[i].owner = e.owner
    BY <1>3, <1>4
  <2> QED BY <2>1
<1>6. ASSUME NEW i \in 1 .. n + 1, i < n + 1
      PROVE  G!EvaluateEvolution(g[i], g[i + 1]) # "INCOMPATIBLE"
  <2>1. CASE i < n
    <3>1. i \in 1 .. n /\ i + 1 \in 1 .. n
      BY <1>3, <2>1
    <3> QED BY <1>3, <2>1, <3>1 DEF EvolvesSoundly
  <2>2. CASE i = n
    <3>1. h # <<>> /\ h[n] \in G!Entry /\ n \in 1 .. n
      BY <1>3, <2>2
    <3>2. G!EvaluateEvolution(h[n], e) # "INCOMPATIBLE"
      BY <1>2, <3>1, EvolutionForward DEF G!Latest
    <3> QED BY <1>3, <2>2, <3>1, <3>2
  <2> QED BY <1>3, <1>6, <2>1, <2>2
<1>7. ASSUME NEW i \in 1 .. n + 1, NEW j \in 1 .. n + 1, i < j,
             \A k \in i .. j - 1 : G!EvaluateEvolution(g[k], g[k + 1]) = "COMPATIBLE"
      PROVE  G!EvaluateEvolution(g[i], g[j]) = "COMPATIBLE"
  <2>1. i \in 1 .. n
    BY <1>3, <1>7
  <2>2. ASSUME NEW k \in i .. j - 1, k < n
        PROVE  G!EvaluateEvolution(h[k], h[k + 1]) = "COMPATIBLE"
    <3>1. k \in 1 .. n /\ k + 1 \in 1 .. n
      BY <1>3, <1>7, <2>1, <2>2
    <3> QED BY <1>3, <1>7, <3>1
  <2>3. CASE j \in 1 .. n
    <3>1. \A k \in i .. j - 1 : k < n
      BY <1>3, <2>3
    <3> QED BY <1>3, <1>7, <2>1, <2>2, <2>3, <3>1 DEF EvolvesSoundly
  <2>4. CASE j = n + 1
    <3>1. n \in i .. j - 1 /\ n \in 1 .. n /\ h[n] \in G!Entry /\ h[i] \in G!Entry
      BY <1>3, <2>1, <2>4
    <3>2. G!EvaluateEvolution(h[n], e) = "COMPATIBLE"
      BY <1>3, <1>7, <3>1
    <3>3. ~G!MustMigrate(h[n], e)
      BY <1>2, <3>1, <3>2, EvolutionForward
    <3>4. CASE i = n
      BY <1>3, <2>4, <3>1, <3>2, <3>4
    <3>5. CASE i < n
      <4>1. i .. n - 1 \subseteq i .. j - 1 /\ \A k \in i .. n - 1 : k < n
        BY <1>3, <2>1, <2>4
      <4>2. G!EvaluateEvolution(h[i], h[n]) = "COMPATIBLE"
        BY <2>1, <2>2, <3>1, <3>5, <4>1 DEF EvolvesSoundly
      <4>3. G!Before(h[i].version, h[n].version) /\ G!Before(h[i].version, e.version)
        BY <1>2, <2>1, <3>1, <3>5 DEF EvolvesSoundly, Rising
      <4>4. ~G!MustMigrate(h[i], h[n])
        BY <3>1, <4>2, <4>3, EvolutionForward
      <4>5. h[i].version[1] \in Nat /\ h[n].version[1] \in Nat /\ e.version[1] \in Nat
        BY <1>1, <3>1, BeforeIsOrder
      <4>6. ~G!MustMigrate(h[i], e)
        BY <3>3, <4>4, <4>5 DEF G!MustMigrate
      <4>7. G!EvaluateEvolution(h[i], e) = "COMPATIBLE"
        BY <1>4, <2>1, <3>1, <4>3, <4>6, EvolutionForward
      <4> QED BY <1>3, <2>1, <2>4, <4>7
    <3> QED BY <1>3, <2>1, <3>4, <3>5
  <2> QED BY <1>3, <2>3, <2>4
<1> QED BY <1>2, <1>3, <1>5, <1>6, <1>7 DEF EvolvesSoundly, g

\* A record that ContractRegistry.Register accepts extends the history.
LEMMA RecordedOn ==
    ASSUME NEW h \in Seq(G!Record), NEW e \in G!Record, RecordedSoundly(h),
           h # <<>> => G!Before(G!Latest(h).version, e.version)
    PROVE  RecordedSoundly(Append(h, e))
<1> DEFINE n == Len(h)
           g == Append(h, e)
<1>1. \A x \in G!Record : x.version \in SemanticVersion
  BY DEF G!Record
<1>2. Rising(g) /\ \A i \in 1 .. n : G!Before(h[i].version, e.version)
  BY <1>1, RisesOn DEF RecordedSoundly
<1>3. /\ n \in Nat /\ g \in Seq(G!Record) /\ Len(g) = n + 1 /\ g[n + 1] = e
      /\ \A i \in 1 .. n : g[i] = h[i] /\ h[i] \in G!Record
  OBVIOUS
<1> HIDE DEF g
<1>4. ASSUME NEW i \in 1 .. n + 1, NEW j \in 1 .. n + 1, i < j,
             \A k \in i .. j - 1 : G!EvaluateCompatibility(g[k], g[k + 1]) = "COMPATIBLE"
      PROVE  G!EvaluateCompatibility(g[i], g[j]) = "COMPATIBLE"
  <2>1. i \in 1 .. n
    BY <1>3, <1>4
  <2>2. ASSUME NEW k \in i .. j - 1, k < n
        PROVE  G!EvaluateCompatibility(h[k], h[k + 1]) = "COMPATIBLE"
    <3>1. k \in 1 .. n /\ k + 1 \in 1 .. n
      BY <1>3, <1>4, <2>1, <2>2
    <3> QED BY <1>3, <1>4, <3>1
  <2>3. CASE j \in 1 .. n
    <3>1. \A k \in i .. j - 1 : k < n
      BY <1>3, <2>3
    <3> QED BY <1>3, <1>4, <2>1, <2>2, <2>3, <3>1 DEF RecordedSoundly
  <2>4. CASE j = n + 1
    <3>1. n \in i .. j - 1 /\ n \in 1 .. n /\ h[n] \in G!Record /\ h[i] \in G!Record
      BY <1>3, <2>1, <2>4
    <3>2. G!EvaluateCompatibility(h[n], e) = "COMPATIBLE"
      BY <1>3, <1>4, <3>1
    <3>3. h[n].owner = e.owner /\ e.version[1] = h[n].version[1] /\ e.backward
      BY <1>2, <3>1, <3>2, CompatibilityForward
    <3>4. CASE i = n
      BY <1>3, <2>4, <3>1, <3>2, <3>4
    <3>5. CASE i < n
      <4>1. i .. n - 1 \subseteq i .. j - 1 /\ \A k \in i .. n - 1 : k < n
        BY <1>3, <2>1, <2>4
      <4>2. G!EvaluateCompatibility(h[i], h[n]) = "COMPATIBLE"
        BY <2>1, <2>2, <3>1, <3>5, <4>1 DEF RecordedSoundly
      <4>3. G!Before(h[i].version, h[n].version) /\ G!Before(h[i].version, e.version)
        BY <1>2, <2>1, <3>1, <3>5 DEF RecordedSoundly, Rising
      <4>4. h[i].owner = h[n].owner /\ h[n].version[1] = h[i].version[1]
        BY <3>1, <4>2, <4>3, CompatibilityForward
      <4>5. G!EvaluateCompatibility(h[i], e) = "COMPATIBLE"
        BY <3>1, <3>3, <4>3, <4>4, CompatibilityForward
      <4> QED BY <1>3, <2>1, <2>4, <4>5
    <3> QED BY <1>3, <2>1, <3>4, <3>5
  <2> QED BY <1>3, <2>3, <2>4
<1> QED BY <1>2, <1>3, <1>4 DEF RecordedSoundly, g

\* Every version's dependencies are there, and of any versions one needs none of them.
DependenciesMet ==
    \A c \in Contract : \A i \in 1 .. Len(entries[c]) :
        \A ref \in entries[c][i].needs : G!Registered(ref)
Grounded ==
    \A group \in SUBSET G!Nodes : group # {} =>
        \E x \in group : \A y \in group : ~G!DependsOn(x, y)

ContractInv ==
    /\ G!TypeOK
    /\ \A c \in Contract :
          /\ EvolvesSoundly(entries[c])
          /\ \A i \in 1 .. Len(entries[c]) : entries[c][i].owner = contractOwners[c]
          /\ RecordedSoundly(contractRecords[c])
    /\ DependenciesMet
    /\ Grounded

\* Both registries start empty.
LEMMA ContractsInitially == G!Init => ContractInv
<1> SUFFICES ASSUME G!Init PROVE ContractInv
  OBVIOUS
<1>1. \A c \in Contract : entries[c] = <<>> /\ contractRecords[c] = <<>>
  BY DEF G!Init
<1>2. EvolvesSoundly(<<>>) /\ RecordedSoundly(<<>>)
  BY DEF EvolvesSoundly, RecordedSoundly, Rising
<1>3. G!TypeOK
  BY DEF G!Init, G!TypeOK
<1>4. G!Nodes = {}
  BY <1>1 DEF G!Nodes, G!Versions
<1> QED BY <1>1, <1>2, <1>3, <1>4 DEF ContractInv, DependenciesMet, Grounded

\* Register: the new version is needed by none of the others.
LEMMA RegisterEntryStep ==
    ASSUME ContractInv, NEW c \in Contract, NEW e \in G!Offered, G!Register(c, e)
    PROVE  ContractInv'
<1> DEFINE new == <<c, e.version>>
           n == Len(entries[c])
<1>0. G!TypeOK /\ DependenciesMet /\ Grounded
  BY DEF ContractInv
<1>1. e \in G!Entry /\ e.version \in SemanticVersion
  <2>1. e.needs \subseteq G!Reference
    BY DEF G!Offered
  <2> QED BY <2>1 DEF G!Offered, G!Entry
<1>2. /\ contractOwners' = [contractOwners EXCEPT ![c] = e.owner]
      /\ entries' = [entries EXCEPT ![c] = Append(entries[c], e)]
      /\ UNCHANGED contractRecords
      /\ \A ref \in e.needs : G!Registered(ref)
  BY DEF G!Register
<1>3. entries[c] \in Seq(G!Entry) /\ EvolvesSoundly(entries[c])
  BY DEF ContractInv, G!TypeOK
<1>4. G!TypeOK'
  <2>1. e.owner \in User
    BY <1>1 DEF G!Entry
  <2> QED BY <1>0, <1>1, <1>2, <1>3, <2>1 DEF G!TypeOK
<1>5. \A d \in Contract : /\ entries'[d] = IF d = c THEN Append(entries[c], e) ELSE entries[d]
                          /\ contractOwners'[d] = IF d = c THEN e.owner ELSE contractOwners[d]
  BY <1>0, <1>2 DEF G!TypeOK
<1>6. /\ n \in Nat /\ Len(entries'[c]) = n + 1 /\ entries'[c][n + 1] = e
      /\ \A i \in 1 .. n : entries'[c][i] = entries[c][i]
  <2>1. entries'[c] = Append(entries[c], e)
    BY <1>5
  <2> QED BY <1>1, <1>3, <2>1
<1>7. entries[c] # <<>> => n \in 1 .. n /\ G!Latest(entries[c]).owner = e.owner
  <2> SUFFICES ASSUME entries[c] # <<>>
               PROVE  n \in 1 .. n /\ G!Latest(entries[c]).owner = e.owner
    OBVIOUS
  <2>1. n \in 1 .. n /\ entries[c][n] \in G!Entry
    BY <1>3
  <2>2. entries[c][n].owner = contractOwners[c] /\ entries[c][n].owner \in User
    BY <2>1 DEF ContractInv, G!Entry
  <2>3. contractOwners[c] \in {None, e.owner}
    BY DEF G!Register
  <2> QED BY <2>1, <2>2, <2>3, PlatformAssumption DEF G!ContractAssumption, G!Latest
<1>8. EvolvesSoundly(Append(entries[c], e))
  BY <1>1, <1>3, <1>7, EvolvesOn DEF G!Register
<1>9. \A i \in 1 .. n : entries[c][i].owner = e.owner
  <2>1. n # 0 => entries[c] # <<>>
    BY <1>3
  <2> QED BY <1>3, <1>6, <1>7, <2>1 DEF EvolvesSoundly, G!Latest
<1>10. ASSUME NEW d \in Contract
       PROVE  /\ EvolvesSoundly(entries'[d])
              /\ \A i \in 1 .. Len(entries'[d]) : entries'[d][i].owner = contractOwners'[d]
              /\ RecordedSoundly(contractRecords'[d])
  <2>1. CASE d = c
    BY <1>2, <1>5, <1>6, <1>8, <1>9, <2>1 DEF ContractInv
  <2>2. CASE d # c
    BY <1>2, <1>5, <2>2 DEF ContractInv
  <2> QED BY <2>1, <2>2
<1>11. ASSUME NEW d \in Contract
       PROVE  G!Versions(entries'[d]) =
                 G!Versions(entries[d]) \cup (IF d = c THEN {e.version} ELSE {})
  <2>1. CASE d = c
    BY <1>5, <1>6, <2>1 DEF G!Versions
  <2>2. CASE d # c
    <3>1. entries'[d] = entries[d]
      BY <1>5, <2>2
    <3> QED BY <2>2, <3>1 DEF G!Versions
  <2> QED BY <2>1, <2>2
<1>12. ASSUME NEW ref \in G!Reference, G!Registered(ref)
       PROVE  G!Registered(ref)'
  <2>1. ref.contract \in Contract
    BY DEF G!Reference
  <2>2. ref.version \in G!Versions(entries'[ref.contract])
    BY <1>11, <1>12, <2>1 DEF G!Registered
  <2> QED BY <2>2 DEF G!Registered, G!Versions
<1>13. ASSUME NEW d \in Contract, NEW i \in 1 .. Len(entries'[d])
       PROVE  \/ i \in 1 .. Len(entries[d]) /\ entries'[d][i] = entries[d][i]
              \/ d = c /\ i = n + 1 /\ entries'[d][i] = e
  <2>1. CASE d = c
    BY <1>6, <1>13, <2>1
  <2>2. CASE d # c
    BY <1>5, <1>13, <2>2
  <2> QED BY <2>1, <2>2
<1>14. \A d \in Contract : \A i \in 1 .. Len(entries[d]) :
          entries[d][i] \in G!Entry /\ entries[d][i].needs \subseteq G!Reference
  <2>1. \A d \in Contract : \A i \in 1 .. Len(entries[d]) : entries[d][i] \in G!Entry
    BY <1>0 DEF G!TypeOK
  <2> QED BY <2>1 DEF G!Entry
<1>15. DependenciesMet'
  <2> SUFFICES ASSUME NEW d \in Contract, NEW i \in 1 .. Len(entries'[d]),
                      NEW ref \in entries'[d][i].needs
               PROVE  G!Registered(ref)'
    BY DEF DependenciesMet
  <2>1. G!Registered(ref) /\ ref \in G!Reference
    BY <1>0, <1>1, <1>2, <1>13, <1>14 DEF DependenciesMet, G!Entry
  <2> QED BY <1>12, <2>1
<1>16. G!Nodes' = G!Nodes \cup {new}
  <2>1. G!Nodes' = UNION {{<<d, v>> : v \in G!Versions(entries'[d])} : d \in Contract}
    BY DEF G!Nodes, G!Versions
  <2> QED BY <1>11, <2>1 DEF G!Nodes
<1>17. e.version \notin G!Versions(entries[c])
  <2>1. \A i \in 1 .. n : G!Before(entries[c][i].version, e.version)
    <3>1. \A x \in G!Entry : x.version \in SemanticVersion
      BY DEF G!Entry
    <3> QED BY <1>1, <1>3, <3>1, RisesOn DEF G!Register, EvolvesSoundly
  <2>2. \A i \in 1 .. n : entries[c][i].version \in SemanticVersion
    BY <1>14 DEF G!Entry
  <2> QED BY <1>1, <2>1, <2>2, BeforeIsOrder DEF G!Versions
<1>18. ASSUME NEW x \in G!Nodes'
       PROVE  ~G!DependsOn(x, new)'
  <2> SUFFICES ASSUME NEW i \in 1 .. Len(entries'[x[1]]),
                      [contract |-> c, version |-> e.version] \in entries'[x[1]][i].needs
               PROVE  FALSE
    BY DEF G!DependsOn
  <2> DEFINE ref == [contract |-> c, version |-> e.version]
  <2>1. x[1] \in Contract
    BY <1>16 DEF G!Nodes
  <2>2. ref \in e.needs \/ \E j \in 1 .. Len(entries[x[1]]) : ref \in entries[x[1]][j].needs
    BY <1>13, <2>1
  <2>3. G!Registered(ref)
    BY <1>0, <1>2, <2>1, <2>2 DEF DependenciesMet
  <2> QED BY <1>17, <2>3 DEF G!Registered
<1>19. ASSUME NEW x \in G!Nodes, NEW y, ~G!DependsOn(x, y)
       PROVE  ~G!DependsOn(x, y)'
  <2>1. x[1] \in Contract /\ x # new
    BY <1>17 DEF G!Nodes
  <2>2. x[1] = c => x[2] # e.version
    BY <2>1 DEF G!Nodes
  <2>3. ASSUME NEW i \in 1 .. Len(entries'[x[1]]), entries'[x[1]][i].version = x[2],
               [contract |-> y[1], version |-> y[2]] \in entries'[x[1]][i].needs
        PROVE  FALSE
    <3>1. i \in 1 .. Len(entries[x[1]]) /\ entries'[x[1]][i] = entries[x[1]][i]
      BY <1>13, <2>1, <2>2, <2>3
    <3> QED BY <1>19, <2>3, <3>1 DEF G!DependsOn
  <2> QED BY <2>3 DEF G!DependsOn
<1>20. ASSUME NEW group \in SUBSET (G!Nodes'), group # {}
       PROVE  \E x \in group : \A y \in group : ~G!DependsOn(x, y)'
  <2>1. CASE group = {new}
    BY <1>16, <1>18, <2>1
  <2>2. CASE group # {new}
    <3>1. group \ {new} # {} /\ group \ {new} \in SUBSET G!Nodes
      BY <1>16, <1>20, <2>2
    <3>2. PICK x \in group \ {new} : \A y \in group \ {new} : ~G!DependsOn(x, y)
      BY <1>0, <3>1 DEF Grounded
    <3> QED BY <1>16, <1>18, <1>19, <3>1, <3>2
  <2> QED BY <2>1, <2>2
<1>21. Grounded'
  BY <1>20 DEF Grounded
<1> QED BY <1>4, <1>10, <1>15, <1>21 DEF ContractInv

\* The same entries have the same dependencies.
LEMMA DependenciesUntouched ==
    ASSUME DependenciesMet, Grounded, UNCHANGED entries
    PROVE  DependenciesMet' /\ Grounded'
<1>1. \A ref : G!Registered(ref)' <=> G!Registered(ref)
  BY DEF G!Registered, G!Versions
<1>2. G!Nodes' = G!Nodes
  BY DEF G!Nodes, G!Versions
<1>3. \A x, y : G!DependsOn(x, y)' <=> G!DependsOn(x, y)
  BY DEF G!DependsOn
<1>4. DependenciesMet'
  BY <1>1 DEF DependenciesMet
<1>5. Grounded'
  BY <1>2, <1>3 DEF Grounded
<1> QED BY <1>4, <1>5

\* ContractRegistry.Register leaves the compatibility registry alone.
LEMMA RegisterRecordStep ==
    ASSUME ContractInv, NEW c \in Contract, NEW r \in G!Record, G!RegisterRecord(c, r)
    PROVE  ContractInv'
<1>1. /\ contractRecords' = [contractRecords EXCEPT ![c] = Append(contractRecords[c], r)]
      /\ UNCHANGED <<contractOwners, entries>>
  BY DEF G!RegisterRecord, G!compatibility
<1>2. contractRecords[c] \in Seq(G!Record) /\ RecordedSoundly(contractRecords[c])
  BY DEF ContractInv, G!TypeOK
<1>3. RecordedSoundly(Append(contractRecords[c], r))
  BY <1>2, RecordedOn DEF G!RegisterRecord
<1>4. \A d \in Contract :
         contractRecords'[d] = IF d = c THEN Append(contractRecords[c], r) ELSE contractRecords[d]
  BY <1>1 DEF ContractInv, G!TypeOK
<1>5. G!TypeOK'
  BY <1>1, <1>2 DEF ContractInv, G!TypeOK
<1>6. DependenciesMet' /\ Grounded'
  BY <1>1, DependenciesUntouched DEF ContractInv
<1> QED BY <1>1, <1>3, <1>4, <1>5, <1>6 DEF ContractInv

\* Each registration keeps the invariant.
LEMMA ContractStep == ContractInv /\ [G!Next]_(G!vars) => ContractInv'
<1> SUFFICES ASSUME ContractInv, [G!Next]_(G!vars) PROVE ContractInv'
  OBVIOUS
<1>1. CASE UNCHANGED G!vars
  <2>1. UNCHANGED <<contractOwners, entries, contractRecords>>
    BY <1>1 DEF G!vars, G!compatibility
  <2>2. DependenciesMet' /\ Grounded'
    BY <2>1, DependenciesUntouched DEF ContractInv
  <2> QED BY <2>1, <2>2 DEF ContractInv, G!TypeOK
<1> QED BY <1>1, RegisterEntryStep, RegisterRecordStep DEF G!Next

\* The histories say what the property says of each contract.
LEMMA ContractInvSound == ContractInv => G!EvolutionSound /\ G!CompatibleStepsCompose
<1> SUFFICES ASSUME ContractInv PROVE G!EvolutionSound /\ G!CompatibleStepsCompose
  OBVIOUS
<1>1. ASSUME NEW c \in Contract, NEW i \in 1 .. MaxEntries, i < Len(entries[c])
      PROVE  G!EvaluateEvolution(entries[c][i], entries[c][i + 1]) # "INCOMPATIBLE"
  <2>1. entries[c] \in Seq(G!Entry) /\ EvolvesSoundly(entries[c])
    BY DEF ContractInv, G!TypeOK
  <2>2. i \in 1 .. Len(entries[c])
    BY <1>1, <2>1
  <2> QED BY <1>1, <2>1, <2>2 DEF EvolvesSoundly
<1>2. G!EvolutionSound
  BY <1>1 DEF ContractInv, DependenciesMet, Grounded, G!EvolutionSound
<1>3. G!CompatibleStepsCompose
  BY DEF ContractInv, EvolvesSoundly, RecordedSoundly, G!CompatibleStepsCompose
<1> QED BY <1>2, <1>3

\* For all contracts, modules and versions: what either registry lets in is a history its
\* own evaluation accepts, without circular or missing dependencies.
THEOREM ContractsSound == G!Spec => [](G!EvolutionSound /\ G!CompatibleStepsCompose)
<1>1. G!Spec => []ContractInv
  BY ContractsInitially, ContractStep, PTL DEF G!Spec
<1> QED BY <1>1, ContractInvSound, PTL

\* The property of the run platform about contract governance.
THEOREM EvolutionSoundHolds == Spec => []EvolutionSound
<1> DEFINE Inv == focus = "contracts" => ContractInv
<1>1. Init => Inv
  BY ContractsInitially DEF Init
<1>2. Inv /\ [Next]_vars => Inv'
  <2> SUFFICES ASSUME Inv, [Next]_vars, focus' = "contracts" PROVE ContractInv'
    OBVIOUS
  <2>1. focus = "contracts" /\ [G!Next]_(G!vars)
    BY DEF Next, vars, Api, Hierarchy, Parties, Names, Contracts, Flags, contractVars, G!vars,
       G!compatibility
  <2> QED BY <2>1, ContractStep
<1>3. Inv => EvolutionSound
  BY ContractInvSound DEF EvolutionSound, ContractInv
<1> QED BY <1>1, <1>2, <1>3, PTL DEF Spec

-----------------------------------------------------------------------------
\* The API: exports race for the log, but only with logs that hold the same writes.

\* Counting the writes of a log.
LEMMA WritesCounted ==
    ASSUME NEW log, NEW i \in Nat
    PROVE  /\ IsFiniteSet(A!Writes(log, i))
           /\ A!Cardinality(A!Writes(log, i)) = Cardinality(A!Writes(log, i))
           /\ A!Cardinality(A!Writes(log, i)) \in Nat
           /\ A!Cardinality(A!Writes(log, i)) = 0 <=> A!Writes(log, i) = {}
<1>1. IsFiniteSet(1 .. i) /\ A!Writes(log, i) \subseteq 1 .. i
  BY FS_Interval DEF A!Writes
<1>2. IsFiniteSet(A!Writes(log, i))
  BY <1>1, FS_Subset
<1>3. \A T : A!Cardinality(T) = Cardinality(T)
  BY DEF A!Cardinality, Cardinality
<1> QED BY <1>2, <1>3, FS_CardinalityType, FS_EmptySet

\* What is appended to a log is behind everything in it.
LEMMA AppendedBehind ==
    ASSUME NEW log \in Seq(A!AuditEventData), NEW e \in A!AuditEventData
    PROVE  LET n == Len(log)
               longer == Append(log, e)
           IN  /\ longer \in Seq(A!AuditEventData) /\ n \in Nat /\ Len(longer) = n + 1
               /\ longer[n + 1] = e /\ \A i \in 1 .. n : longer[i] = log[i]
               /\ \A i \in 1 .. n : A!Writes(longer, i) = A!Writes(log, i)
               /\ A!Writes(longer, n + 1) =
                     A!Writes(log, n) \cup (IF A!IsExport(e) THEN {} ELSE {n + 1})
<1> DEFINE n == Len(log)
           longer == Append(log, e)
<1>1. /\ longer \in Seq(A!AuditEventData) /\ n \in Nat /\ Len(longer) = n + 1
      /\ longer[n + 1] = e /\ \A i \in 1 .. n : longer[i] = log[i]
  OBVIOUS
<1> HIDE DEF longer
<1>2. \A i \in 1 .. n : A!Writes(longer, i) = A!Writes(log, i)
  BY <1>1 DEF A!Writes
<1>3. A!Writes(longer, n + 1) = A!Writes(log, n) \cup (IF A!IsExport(e) THEN {} ELSE {n + 1})
  BY <1>1 DEF A!Writes
<1> QED BY <1>1, <1>2, <1>3 DEF longer

\* An export's event changes nothing about the writes.
LEMMA ListsExport ==
    ASSUME NEW log \in Seq(A!AuditEventData), NEW e \in A!AuditEventData, A!IsExport(e),
           NEW writes, A!Lists(log, writes)
    PROVE  A!Lists(Append(log, e), writes)
<1> DEFINE n == Len(log)
           longer == Append(log, e)
<1>1. /\ n \in Nat /\ Len(longer) = n + 1 /\ \A i \in 1 .. n : longer[i] = log[i]
      /\ \A i \in 1 .. n : A!Writes(longer, i) = A!Writes(log, i)
      /\ A!Writes(longer, n + 1) = A!Writes(log, n)
  BY AppendedBehind
<1> HIDE DEF longer
<1>2. A!Writes(log, n) \subseteq 1 .. n
  BY DEF A!Writes
<1>3. A!Lists(longer, writes)
  BY <1>1, <1>2 DEF A!Lists
<1> QED BY <1>3 DEF longer

\* The event of a write comes last on both sides.
LEMMA ListsWrite ==
    ASSUME NEW log \in Seq(A!AuditEventData), NEW e \in A!AuditEventData, ~A!IsExport(e),
           NEW writes \in Seq(A!AuditEventData), A!Lists(log, writes)
    PROVE  A!Lists(Append(log, e), Append(writes, e))
<1> DEFINE n == Len(log)
           m == Len(writes)
           longer == Append(log, e)
           more == Append(writes, e)
<1>1. /\ n \in Nat /\ Len(longer) = n + 1 /\ longer[n + 1] = e
      /\ \A i \in 1 .. n : longer[i] = log[i]
      /\ \A i \in 1 .. n : A!Writes(longer, i) = A!Writes(log, i)
      /\ A!Writes(longer, n + 1) = A!Writes(log, n) \cup {n + 1}
  BY AppendedBehind
<1>2. m \in Nat /\ Len(more) = m + 1 /\ more[m + 1] = e /\ \A i \in 1 .. m : more[i] = writes[i]
  OBVIOUS
<1> HIDE DEF longer, more
<1>3. A!Writes(log, n) \subseteq 1 .. n /\ n + 1 \notin A!Writes(log, n)
  BY <1>1 DEF A!Writes
<1>4. Cardinality(A!Writes(longer, n + 1)) = Cardinality(A!Writes(log, n)) + 1
  BY <1>1, <1>3, WritesCounted, FS_AddElement
<1>5. A!Cardinality(A!Writes(longer, n + 1)) = m + 1
  <2>1. A!Cardinality(A!Writes(log, n)) = m
    BY DEF A!Lists
  <2> QED BY <1>1, <1>4, <2>1, WritesCounted
<1>6. ASSUME NEW i \in A!Writes(log, n)
      PROVE  longer[i] = more[A!Cardinality(A!Writes(longer, i))]
  <2>1. i \in 1 .. n /\ i \in A!Writes(log, i) /\ A!Writes(log, i) \subseteq A!Writes(log, n)
    BY <1>1, <1>3 DEF A!Writes
  <2>2. Cardinality(A!Writes(log, i)) <= Cardinality(A!Writes(log, n))
    BY <1>1, <2>1, WritesCounted, FS_Subset
  <2>3. i \in Nat /\ A!Cardinality(A!Writes(log, n)) = m
    BY <1>1, <2>1 DEF A!Lists
  <2>4. A!Cardinality(A!Writes(log, i)) \in 1 .. m
    BY <1>1, <2>1, <2>2, <2>3, WritesCounted
  <2>5. log[i] = writes[A!Cardinality(A!Writes(log, i))]
    BY <1>6 DEF A!Lists
  <2> QED BY <1>1, <1>2, <2>1, <2>4, <2>5
<1>7. A!Lists(longer, more)
  BY <1>1, <1>2, <1>5, <1>6 DEF A!Lists
<1> QED BY <1>7 DEF longer, more

\* An event that is not of the action leaves its story as it is.
LEMMA TellsOther ==
    ASSUME NEW log \in Seq(A!AuditEventData), NEW e \in A!AuditEventData,
           NEW t, NEW id, NEW act, A!Tells(log, t, id, act),
           e.type \in {"ACTION_CREATED", "ACTION_CLOSED"} => e.tenant # t \/ e.entity # id
    PROVE  A!Tells(Append(log, e), t, id, act)
<1> DEFINE n == Len(log)
           longer == Append(log, e)
<1>1. /\ n \in Nat /\ Len(longer) = n + 1 /\ longer[n + 1] = e
      /\ \A i \in 1 .. n : longer[i] = log[i]
  BY AppendedBehind
<1> HIDE DEF longer
<1>2. A!EventsOf(longer, t, id) = A!EventsOf(log, t, id)
  BY <1>1 DEF A!EventsOf
<1>3. \A i \in A!EventsOf(log, t, id) : longer[i] = log[i]
  BY <1>1 DEF A!EventsOf
<1>4. A!Tells(longer, t, id, act)
  BY <1>2, <1>3 DEF A!Tells
<1> QED BY <1>4 DEF longer

\* An event of the action is the last of its events.
LEMMA EventOfAction ==
    ASSUME NEW log \in Seq(A!AuditEventData), NEW e \in A!AuditEventData,
           e.type \in {"ACTION_CREATED", "ACTION_CLOSED"}
    PROVE  LET longer == Append(log, e)
               n == Len(log) + 1
           IN  /\ longer[n] = e
               /\ A!EventsOf(longer, e.tenant, e.entity) =
                     A!EventsOf(log, e.tenant, e.entity) \cup {n}
               /\ \A i \in A!EventsOf(log, e.tenant, e.entity) : longer[i] = log[i] /\ i < n
<1> DEFINE n == Len(log)
           longer == Append(log, e)
<1>1. /\ n \in Nat /\ Len(longer) = n + 1 /\ longer[n + 1] = e
      /\ \A i \in 1 .. n : longer[i] = log[i]
  BY AppendedBehind
<1> HIDE DEF longer
<1>2. A!EventsOf(longer, e.tenant, e.entity) = A!EventsOf(log, e.tenant, e.entity) \cup {n + 1}
  BY <1>1 DEF A!EventsOf
<1>3. \A i \in A!EventsOf(log, e.tenant, e.entity) : longer[i] = log[i] /\ i < n + 1
  BY <1>1 DEF A!EventsOf
<1> QED BY <1>1, <1>2, <1>3 DEF longer

\* The log, and the one each export is about to store, hold all writes and tell the
\* story of every action; an action's reviewer is not its owner.
GoodLog(log) ==
    /\ log \in Seq(A!AuditEventData)
    /\ A!Lists(log, written)
    /\ \A t \in Tenant, id \in ActionID : A!Tells(log, t, id, actions[<<t, id>>])

ApiInv ==
    /\ A!TypeOK
    /\ GoodLog(auditEvents)
    /\ \A r \in Export : exports[r].at = "appending" => GoodLog(exports[r].log)
    /\ \A k \in Tenant \X ActionID :
          actions[k] # None => actions[k].owner # actions[k].reviewer

\* An empty store and an empty log.
LEMMA ApiInitially == A!Init => ApiInv
<1> SUFFICES ASSUME A!Init PROVE ApiInv
  OBVIOUS
<1>1. A!TypeOK
  BY DEF A!Init, A!TypeOK
<1>2. \A r \in Export : exports[r].at = "idle"
  BY DEF A!Init, A!Idle
<1>3. A!Writes(<<>>, 0) = {} /\ A!Lists(<<>>, <<>>)
  <2>1. A!Writes(<<>>, 0) = {}
    BY DEF A!Writes
  <2> QED BY <2>1, WritesCounted DEF A!Lists
<1>4. \A t \in Tenant, id \in ActionID : actions[<<t, id>>] = None
  BY DEF A!Init
<1>5. \A t, id : A!EventsOf(<<>>, t, id) = {}
  BY DEF A!EventsOf
<1>6. auditEvents = <<>> /\ written = <<>>
  BY DEF A!Init
<1>7. GoodLog(auditEvents)
  BY <1>3, <1>4, <1>5, <1>6 DEF GoodLog, A!Tells
<1>8. \A k \in Tenant \X ActionID : actions[k] = None
  BY DEF A!Init
<1> QED BY <1>1, <1>2, <1>7, <1>8 DEF ApiInv

\* A caller whom a handler sees.
LEMMA CallerKnown == \A c \in A!Caller : c.tenant \in Tenant /\ c.subject \in User
  BY DEF A!Caller, A!Claims

\* What the progress of an export says about its fields.
LEMMA ExportKinds ==
    ASSUME A!TypeOK, NEW r \in Export
    PROVE  /\ exports[r].at \in {"read", "counted"} => exports[r] \in A!Started
           /\ exports[r].at \in {"loaded", "numbered"} => exports[r] \in A!Counting
           /\ exports[r].at = "appending" => exports[r] \in A!Appending
  BY DEF A!TypeOK, A!Idle, A!Done, A!Started, A!Counting, A!Appending

\* A handler under the write lock, given that the longer log tells of its actions.
LEMMA AuditStep ==
    ASSUME ApiInv, NEW c \in A!Caller, NEW type \in A!Kind, type # "EXPORT_GENERATED",
           NEW entity \in A!ID, A!appendAudit(c, type, entity),
           templates' \in [Tenant \X TemplateID -> Version \cup {None}],
           instances' \in [Tenant \X InstanceID -> A!ChecklistInstanceData \cup {None}],
           evidence' \in [Tenant \X EvidenceID -> InstanceID \cup {None}],
           actions' \in [Tenant \X ActionID -> A!ActionData \cup {None}],
           NEW e \in A!AuditEventData,
           e = [sequence |-> seqCounter + 1, tenant |-> c.tenant, type |-> type,
                entity |-> entity, actor |-> c.subject],
           \A t \in Tenant, id \in ActionID :
              A!Tells(Append(auditEvents, e), t, id, actions'[<<t, id>>]),
           \A k \in Tenant \X ActionID :
              actions'[k] # None => actions'[k].owner # actions'[k].reviewer
    PROVE  ApiInv'
<1>0. A!TypeOK /\ GoodLog(auditEvents)
  BY DEF ApiInv
<1>1. /\ A!WriteLocked /\ seqCounter' = seqCounter + 1 /\ UNCHANGED exports
      /\ auditEvents' = Append(auditEvents, e) /\ written' = Append(written, e)
  BY DEF A!appendAudit
<1>2. ~A!IsExport(e)
  BY DEF A!IsExport
<1>3. /\ auditEvents \in Seq(A!AuditEventData) /\ written \in Seq(A!AuditEventData)
      /\ A!Lists(auditEvents, written)
  BY <1>0 DEF A!TypeOK, GoodLog
<1>4. A!Lists(auditEvents', written')
  BY <1>1, <1>2, <1>3, ListsWrite
<1>5. auditEvents' \in Seq(A!AuditEventData) /\ written' \in Seq(A!AuditEventData)
  BY <1>1, <1>3
<1>6. A!TypeOK'
  BY <1>0, <1>1, <1>5 DEF A!TypeOK
<1>7. GoodLog(auditEvents)'
  <2>1. A!Lists(auditEvents, written)'
    BY <1>4 DEF A!Lists, A!Writes, A!IsExport
  <2>2. \A t \in Tenant, id \in ActionID : A!Tells(auditEvents, t, id, actions[<<t, id>>])'
    BY <1>1
  <2> QED BY <1>5, <2>1, <2>2 DEF GoodLog
<1>8. \A r \in Export : exports'[r].at # "appending"
  BY <1>1 DEF A!WriteLocked, A!Reading
<1> QED BY <1>6, <1>7, <1>8 DEF ApiInv

\* The event a handler appends.
LEMMA EventKnown ==
    ASSUME A!TypeOK, NEW c \in A!Caller, NEW type \in A!Kind, NEW entity \in A!ID
    PROVE  [sequence |-> seqCounter + 1, tenant |-> c.tenant, type |-> type,
            entity |-> entity, actor |-> c.subject] \in A!AuditEventData
<1>1. c.tenant \in Tenant /\ c.subject \in User /\ seqCounter + 1 \in Nat
  BY CallerKnown DEF A!TypeOK
<1> QED BY <1>1 DEF A!AuditEventData

\* A handler that leaves the actions alone.
LEMMA OtherWriteStep ==
    ASSUME ApiInv, NEW c \in A!Caller,
           NEW type \in A!Kind \ {"EXPORT_GENERATED", "ACTION_CREATED", "ACTION_CLOSED"},
           NEW entity \in A!ID, A!appendAudit(c, type, entity), UNCHANGED actions,
           templates' \in [Tenant \X TemplateID -> Version \cup {None}],
           instances' \in [Tenant \X InstanceID -> A!ChecklistInstanceData \cup {None}],
           evidence' \in [Tenant \X EvidenceID -> InstanceID \cup {None}]
    PROVE  ApiInv'
<1> DEFINE e == [sequence |-> seqCounter + 1, tenant |-> c.tenant, type |-> type,
                 entity |-> entity, actor |-> c.subject]
<1>0. A!TypeOK /\ GoodLog(auditEvents)
  BY DEF ApiInv
<1>1. e \in A!AuditEventData
  BY <1>0, EventKnown
<1>2. e.type = type
  OBVIOUS
<1>3. actions' \in [Tenant \X ActionID -> A!ActionData \cup {None}]
  BY <1>0 DEF A!TypeOK
<1>4. \A t \in Tenant, id \in ActionID : A!Tells(auditEvents, t, id, actions'[<<t, id>>])
  BY <1>0 DEF GoodLog
<1>5. PICK f \in A!AuditEventData : f = e
  BY <1>1
<1>6. \A t \in Tenant, id \in ActionID :
         A!Tells(Append(auditEvents, f), t, id, actions'[<<t, id>>])
  BY <1>0, <1>2, <1>4, <1>5, TellsOther DEF GoodLog
<1>7. \A k \in Tenant \X ActionID : actions'[k] # None => actions'[k].owner # actions'[k].reviewer
  BY DEF ApiInv
<1> QED BY <1>3, <1>5, <1>6, <1>7, AuditStep

\* handleCreateAction: an action that was not there and had no events.
LEMMA CreateActionStep ==
    ASSUME ApiInv, NEW c \in A!Caller, NEW id \in ActionID, NEW asked \in InstanceID \cup {Blank},
           NEW owner \in User, NEW reviewer \in User, NEW evs \in SUBSET EvidenceID,
           A!handleCreateAction(c, id, asked, owner, reviewer, evs)
    PROVE  ApiInv'
<1> DEFINE of == {evidence[<<c.tenant, x>>] : x \in evs}
           instance == IF asked = Blank /\ of # {} THEN CHOOSE i \in of : TRUE ELSE asked
           new == [instance |-> instance, owner |-> owner, reviewer |-> reviewer,
                   evidence |-> evs, state |-> "IN_REVIEW", closedBy |-> None]
           k == <<c.tenant, id>>
           e == [sequence |-> seqCounter + 1, tenant |-> c.tenant, type |-> "ACTION_CREATED",
                 entity |-> id, actor |-> c.subject]
<1>0. A!TypeOK /\ GoodLog(auditEvents) /\ c.tenant \in Tenant /\ id \in A!ID
  BY CallerKnown DEF ApiInv, A!ID
<1>1. /\ owner # reviewer /\ actions[k] = None /\ None \notin of
      /\ actions' = [actions EXCEPT ![k] = new]
      /\ A!appendAudit(c, "ACTION_CREATED", id)
      /\ UNCHANGED <<templates, instances, evidence>>
  BY DEF A!handleCreateAction
<1>2. of \subseteq InstanceID
  BY <1>0, <1>1 DEF A!TypeOK
<1>3. instance \in InstanceID \cup {Blank}
  BY <1>2
<1> HIDE DEF of, instance
<1>4. new \in A!ActionData /\ new.owner = owner /\ new.reviewer = reviewer
      /\ new.state = "IN_REVIEW" /\ new # None
  BY <1>3, PlatformAssumption DEF A!ActionData, A!ApiAssumption
<1> HIDE DEF new
<1>5. e \in A!AuditEventData
  BY <1>0, EventKnown DEF A!Kind
<1>6. e.type = "ACTION_CREATED" /\ e.tenant = c.tenant /\ e.entity = id
  OBVIOUS
<1>7. PICK f \in A!AuditEventData : f = e
  BY <1>5
<1> HIDE DEF e
<1>8. \A x \in Tenant \X ActionID : actions'[x] = IF x = k THEN new ELSE actions[x]
  BY <1>0, <1>1 DEF A!TypeOK
<1>9. actions' \in [Tenant \X ActionID -> A!ActionData \cup {None}]
  BY <1>0, <1>1, <1>4 DEF A!TypeOK
<1>10. ASSUME NEW t \in Tenant, NEW x \in ActionID
       PROVE  A!Tells(Append(auditEvents, f), t, x, actions'[<<t, x>>])
  <2>0. A!Tells(auditEvents, t, x, actions[<<t, x>>]) /\ auditEvents \in Seq(A!AuditEventData)
    BY <1>0 DEF GoodLog
  <2>1. CASE t = c.tenant /\ x = id
    <3>1. A!EventsOf(auditEvents, t, x) = {}
      BY <1>1, <2>0, <2>1 DEF A!Tells
    <3>2. /\ A!EventsOf(Append(auditEvents, f), t, x) = {Len(auditEvents) + 1}
          /\ Append(auditEvents, f)[Len(auditEvents) + 1] = f
      BY <1>6, <1>7, <2>0, <2>1, <3>1, EventOfAction
    <3>3. actions'[<<t, x>>] = new
      BY <1>0, <1>8, <2>1
    <3> QED BY <1>4, <1>6, <1>7, <3>2, <3>3 DEF A!Tells
  <2>2. CASE ~(t = c.tenant /\ x = id)
    <3>1. actions'[<<t, x>>] = actions[<<t, x>>]
      BY <1>8, <2>2
    <3> QED BY <1>6, <1>7, <2>0, <2>2, <3>1, TellsOther
  <2> QED BY <2>1, <2>2
<1>11. \A x \in Tenant \X ActionID :
          actions'[x] # None => actions'[x].owner # actions'[x].reviewer
  BY <1>1, <1>4, <1>8 DEF ApiInv
<1>12. /\ templates' \in [Tenant \X TemplateID -> Version \cup {None}]
       /\ instances' \in [Tenant \X InstanceID -> A!ChecklistInstanceData \cup {None}]
       /\ evidence' \in [Tenant \X EvidenceID -> InstanceID \cup {None}]
  BY <1>0, <1>1 DEF A!TypeOK
<1>13. /\ "ACTION_CREATED" \in A!Kind
       /\ f = [sequence |-> seqCounter + 1, tenant |-> c.tenant, type |-> "ACTION_CREATED",
               entity |-> id, actor |-> c.subject]
  BY <1>7 DEF A!Kind, e
<1>14. A!appendAudit(c, "ACTION_CREATED", id) /\ id \in A!ID
  BY <1>0, <1>1
<1> QED BY <1>9, <1>10, <1>11, <1>12, <1>13, <1>14, AuditStep

\* handleCloseAction: an action in review has one event, and its reviewer makes the other.
LEMMA CloseActionStep ==
    ASSUME ApiInv, NEW c \in A!Caller, NEW id \in ActionID, A!handleCloseAction(c, id)
    PROVE  ApiInv'
<1> DEFINE k == <<c.tenant, id>>
           act == actions[k]
           r1 == [act EXCEPT !.state = "CLOSED"]
           new == [r1 EXCEPT !.closedBy = c.subject]
           e == [sequence |-> seqCounter + 1, tenant |-> c.tenant, type |-> "ACTION_CLOSED",
                 entity |-> id, actor |-> c.subject]
<1>0. /\ A!TypeOK /\ GoodLog(auditEvents) /\ c.tenant \in Tenant /\ c.subject \in User
      /\ id \in A!ID /\ k \in Tenant \X ActionID
  BY CallerKnown DEF ApiInv, A!ID
<1>1. /\ act # None /\ act.state = "IN_REVIEW" /\ act.reviewer = c.subject
      /\ A!appendAudit(c, "ACTION_CLOSED", id) /\ UNCHANGED <<templates, instances, evidence>>
  BY DEF A!handleCloseAction, A!MayClose
<1>2. act \in A!ActionData /\ act.owner # act.reviewer
  BY <1>0, <1>1 DEF A!TypeOK, ApiInv
<1>3. actions' = [actions EXCEPT ![k] = new]
  <2>1. actions' = [actions EXCEPT ![k].state = "CLOSED", ![k].closedBy = c.subject]
    BY DEF A!handleCloseAction
  <2> QED BY <1>0, <2>1 DEF A!TypeOK
<1> HIDE DEF act
<1>4. r1 \in A!ActionData /\ r1.owner = act.owner /\ r1.reviewer = act.reviewer
      /\ r1.state = "CLOSED"
  BY <1>2 DEF A!ActionData
<1> HIDE DEF r1
<1>5. new \in A!ActionData /\ new.owner = act.owner /\ new.reviewer = act.reviewer
      /\ new.state = "CLOSED"
  BY <1>0, <1>4 DEF A!ActionData
<1>6. new # None
  BY <1>5, PlatformAssumption DEF A!ApiAssumption
<1> HIDE DEF new
<1>7. e \in A!AuditEventData
  BY <1>0, EventKnown DEF A!Kind
<1>8. /\ e.type = "ACTION_CLOSED" /\ e.tenant = c.tenant /\ e.entity = id
      /\ e.actor = act.reviewer
  BY <1>1 DEF act
<1>9. PICK f \in A!AuditEventData : f = e
  BY <1>7
<1> HIDE DEF e
<1>10. \A x \in Tenant \X ActionID : actions'[x] = IF x = k THEN new ELSE actions[x]
  BY <1>0, <1>3 DEF A!TypeOK
<1>11. actions' \in [Tenant \X ActionID -> A!ActionData \cup {None}]
  BY <1>0, <1>3, <1>5 DEF A!TypeOK
<1>12. ASSUME NEW t \in Tenant, NEW x \in ActionID
       PROVE  A!Tells(Append(auditEvents, f), t, x, actions'[<<t, x>>])
  <2>0. A!Tells(auditEvents, t, x, actions[<<t, x>>]) /\ auditEvents \in Seq(A!AuditEventData)
    BY <1>0 DEF GoodLog
  <2>1. CASE t = c.tenant /\ x = id
    <3> DEFINE n == Len(auditEvents) + 1
               longer == Append(auditEvents, f)
    <3>1. PICK i \in A!EventsOf(auditEvents, t, x) :
             /\ auditEvents[i].type = "ACTION_CREATED"
             /\ A!EventsOf(auditEvents, t, x) = {i}
      BY <1>1, <2>0, <2>1 DEF A!Tells, act
    <3>2. /\ A!EventsOf(longer, t, x) = {i, n}
          /\ longer[n] = f /\ longer[i] = auditEvents[i] /\ i < n
      <4>1. f.tenant = t /\ f.entity = x /\ f.type \in {"ACTION_CREATED", "ACTION_CLOSED"}
        BY <1>8, <1>9, <2>1
      <4>2. /\ longer[n] = f
            /\ A!EventsOf(longer, t, x) = A!EventsOf(auditEvents, t, x) \cup {n}
            /\ \A j \in A!EventsOf(auditEvents, t, x) : longer[j] = auditEvents[j] /\ j < n
        BY <2>0, <4>1, EventOfAction
      <4> HIDE DEF n, longer
      <4> QED BY <3>1, <4>2
    <3>3. actions'[<<t, x>>] = new
      BY <1>0, <1>10, <2>1
    <3> HIDE DEF n, longer
    <3>4. A!Tells(longer, t, x, new)
      BY <1>2, <1>5, <1>6, <1>8, <1>9, <3>1, <3>2 DEF A!Tells
    <3> QED BY <3>3, <3>4 DEF longer
  <2>2. CASE ~(t = c.tenant /\ x = id)
    <3>1. actions'[<<t, x>>] = actions[<<t, x>>]
      BY <1>10, <2>2
    <3> QED BY <1>8, <1>9, <2>0, <2>2, <3>1, TellsOther
  <2> QED BY <2>1, <2>2
<1>13. \A x \in Tenant \X ActionID :
          actions'[x] # None => actions'[x].owner # actions'[x].reviewer
  BY <1>2, <1>5, <1>10 DEF ApiInv
<1>14. /\ templates' \in [Tenant \X TemplateID -> Version \cup {None}]
       /\ instances' \in [Tenant \X InstanceID -> A!ChecklistInstanceData \cup {None}]
       /\ evidence' \in [Tenant \X EvidenceID -> InstanceID \cup {None}]
  BY <1>0, <1>1 DEF A!TypeOK
<1>15. /\ "ACTION_CLOSED" \in A!Kind
       /\ f = [sequence |-> seqCounter + 1, tenant |-> c.tenant, type |-> "ACTION_CLOSED",
               entity |-> id, actor |-> c.subject]
  BY <1>9 DEF A!Kind, e
<1> QED BY <1>0, <1>1, <1>11, <1>12, <1>13, <1>14, <1>15, AuditStep

\* An export that moves on while the log, the writes and the actions stay.
LEMMA ExportMoves ==
    ASSUME ApiInv, NEW r \in Export, NEW progress,
           progress \in {A!Idle, A!Done} \cup A!Started \cup A!Counting \cup A!Appending,
           progress.at = "appending" => GoodLog(progress.log),
           exports' = [exports EXCEPT ![r] = progress], seqCounter' \in Nat,
           UNCHANGED <<templates, instances, evidence, actions, written>>,
           GoodLog(auditEvents')
    PROVE  ApiInv'
<1>0. A!TypeOK
  BY DEF ApiInv
<1>1. \A x \in Export : exports'[x] = IF x = r THEN progress ELSE exports[x]
  BY <1>0 DEF A!TypeOK
<1>2. A!TypeOK'
  <2>1. auditEvents' \in Seq(A!AuditEventData)
    BY DEF GoodLog
  <2>2. exports' \in [Export -> {A!Idle, A!Done} \cup A!Started \cup A!Counting \cup A!Appending]
    BY <1>0 DEF A!TypeOK
  <2> QED BY <1>0, <2>1, <2>2 DEF A!TypeOK
<1>3. ASSUME NEW log, GoodLog(log)
      PROVE  GoodLog(log)'
  BY <1>3 DEF GoodLog
<1>4. GoodLog(auditEvents)'
  <2>1. PICK log : log = auditEvents'
    OBVIOUS
  <2>2. GoodLog(log)'
    BY <1>3, <2>1
  <2> QED BY <2>1, <2>2 DEF GoodLog
<1>5. ASSUME NEW x \in Export, exports'[x].at = "appending"
      PROVE  GoodLog(exports[x].log)'
  <2>1. PICK log : log = exports'[x].log
    OBVIOUS
  <2>2. GoodLog(log)
    BY <1>1, <1>5, <2>1 DEF ApiInv
  <2>3. GoodLog(log)'
    BY <1>3, <2>2
  <2> QED BY <2>1, <2>3 DEF GoodLog
<1>6. \A k \in Tenant \X ActionID : actions'[k] # None => actions'[k].owner # actions'[k].reviewer
  BY DEF ApiInv
<1> QED BY <1>2, <1>4, <1>5, <1>6 DEF ApiInv

\* The six steps of handleGetExportRecords.
LEMMA ExportStep ==
    ASSUME ApiInv, NEW r \in Export,
           \/ \E c \in A!Caller : A!ReadStore(r, c)
           \/ A!LoadCounter(r) \/ A!StoreCounter(r)
           \/ A!NumberEntry(r) \/ A!LoadLog(r) \/ A!StoreLog(r)
    PROVE  ApiInv'
<1>0. A!TypeOK /\ GoodLog(auditEvents) /\ seqCounter \in Nat
  BY DEF ApiInv, A!TypeOK
<1>1. ASSUME NEW c \in A!Caller, A!ReadStore(r, c) PROVE ApiInv'
  <2> DEFINE progress == [at |-> "read", caller |-> c]
  <2>1. progress \in A!Started /\ progress.at = "read"
    BY DEF A!Started
  <2>2. /\ exports' = [exports EXCEPT ![r] = progress]
        /\ UNCHANGED <<templates, instances, evidence, actions, written, seqCounter, auditEvents>>
    BY <1>1 DEF A!ReadStore, A!Step, A!storeVars
  <2> HIDE DEF progress
  <2> QED BY <1>0, <2>1, <2>2, ExportMoves
<1>2. CASE A!LoadCounter(r)
  <2> DEFINE progress == [at |-> "loaded", caller |-> exports[r].caller, counter |-> seqCounter]
  <2>1. exports[r] \in A!Started
    BY <1>0, <1>2, ExportKinds DEF A!LoadCounter, A!Step
  <2>2. progress \in A!Counting /\ progress.at = "loaded"
    BY <1>0, <2>1 DEF A!Started, A!Counting
  <2>3. /\ exports' = [exports EXCEPT ![r] = progress]
        /\ UNCHANGED <<templates, instances, evidence, actions, written, seqCounter, auditEvents>>
    BY <1>2 DEF A!LoadCounter, A!Step, A!storeVars
  <2> HIDE DEF progress
  <2> QED BY <1>0, <2>2, <2>3, ExportMoves
<1>3. CASE A!StoreCounter(r)
  <2> DEFINE progress == [at |-> "counted", caller |-> exports[r].caller]
  <2>1. exports[r] \in A!Counting
    BY <1>0, <1>3, ExportKinds DEF A!StoreCounter, A!Step
  <2>2. progress \in A!Started /\ progress.at = "counted" /\ exports[r].counter + 1 \in Nat
    BY <2>1 DEF A!Started, A!Counting
  <2>3. /\ exports' = [exports EXCEPT ![r] = progress] /\ seqCounter' = exports[r].counter + 1
        /\ UNCHANGED <<templates, instances, evidence, actions, written, auditEvents>>
    BY <1>3 DEF A!StoreCounter, A!Step, A!storeVars
  <2> HIDE DEF progress
  <2> QED BY <1>0, <2>2, <2>3, ExportMoves
<1>4. CASE A!LoadLog(r)
  <2> DEFINE c == exports[r].caller
             e == [sequence |-> exports[r].counter, tenant |-> c.tenant,
                   type |-> "EXPORT_GENERATED", entity |-> r, actor |-> c.subject]
             progress == [at |-> "appending", log |-> Append(auditEvents, e)]
  <2>1. exports[r] \in A!Counting
    BY <1>0, <1>4, ExportKinds DEF A!LoadLog, A!Step
  <2>2. c.tenant \in Tenant /\ c.subject \in User /\ exports[r].counter \in Nat
    BY <2>1, CallerKnown DEF A!Counting
  <2>3. e \in A!AuditEventData /\ e.type = "EXPORT_GENERATED"
    BY <1>0, <2>2 DEF A!AuditEventData, A!Kind, A!ID
  <2>4. /\ exports' = [exports EXCEPT ![r] = progress]
        /\ UNCHANGED <<templates, instances, evidence, actions, written, seqCounter, auditEvents>>
    BY <1>4 DEF A!LoadLog, A!Step, A!storeVars
  <2> HIDE DEF e
  <2>5. PICK f \in A!AuditEventData : f = e
    BY <2>3
  <2>6. /\ auditEvents \in Seq(A!AuditEventData) /\ A!Lists(auditEvents, written)
        /\ \A t \in Tenant, id \in ActionID : A!Tells(auditEvents, t, id, actions[<<t, id>>])
    BY <1>0 DEF GoodLog
  <2>7. A!IsExport(f)
    BY <2>3, <2>5 DEF A!IsExport
  <2>8. A!Lists(Append(auditEvents, f), written)
    BY <2>6, <2>7, ListsExport
  <2>9. \A t \in Tenant, id \in ActionID :
           A!Tells(Append(auditEvents, f), t, id, actions[<<t, id>>])
    BY <2>3, <2>5, <2>6, TellsOther
  <2>10. GoodLog(Append(auditEvents, e))
    BY <2>5, <2>6, <2>8, <2>9 DEF GoodLog
  <2>11. progress \in A!Appending /\ progress.log = Append(auditEvents, e)
    BY <2>10 DEF A!Appending, GoodLog
  <2> HIDE DEF progress
  <2> QED BY <1>0, <2>4, <2>10, <2>11, ExportMoves
<1>5. CASE A!NumberEntry(r)
  <2> DEFINE progress == [at |-> "numbered", caller |-> exports[r].caller, counter |-> seqCounter]
  <2>1. exports[r] \in A!Started
    BY <1>0, <1>5, ExportKinds DEF A!NumberEntry, A!Step
  <2>2. progress \in A!Counting /\ progress.at = "numbered"
    BY <1>0, <2>1 DEF A!Started, A!Counting
  <2>3. /\ exports' = [exports EXCEPT ![r] = progress]
        /\ UNCHANGED <<templates, instances, evidence, actions, written, seqCounter, auditEvents>>
    BY <1>5 DEF A!NumberEntry, A!Step, A!storeVars
  <2> HIDE DEF progress
  <2> QED BY <1>0, <2>2, <2>3, ExportMoves
<1>6. CASE A!StoreLog(r)
  <2>1. /\ exports' = [exports EXCEPT ![r] = A!Done] /\ auditEvents' = exports[r].log
        /\ exports[r].at = "appending"
        /\ UNCHANGED <<templates, instances, evidence, actions, written, seqCounter>>
    BY <1>6 DEF A!StoreLog, A!Step, A!storeVars
  <2>2. GoodLog(auditEvents')
    BY <2>1 DEF ApiInv
  <2>3. A!Done.at # "appending"
    BY DEF A!Done
  <2> QED BY <1>0, <2>1, <2>2, <2>3, ExportMoves
<1> QED BY <1>1, <1>2, <1>3, <1>4, <1>6, <1>5

\* Each request, and each step of an export, keeps the invariant.
LEMMA ApiStep == ApiInv /\ [A!Next]_(A!vars) => ApiInv'
<1> SUFFICES ASSUME ApiInv, [A!Next]_(A!vars) PROVE ApiInv'
  OBVIOUS
<1>0. /\ A!TypeOK /\ \A c \in A!Caller : c.tenant \in Tenant /\ c.subject \in User
      /\ {"TEMPLATE_PUBLISHED", "CHECKLIST_INSTANTIATED", "CHECKLIST_COMPLETED",
          "EVIDENCE_UPLOADED"}
           \subseteq A!Kind \ {"EXPORT_GENERATED", "ACTION_CREATED", "ACTION_CLOSED"}
      /\ TemplateID \cup InstanceID \cup EvidenceID \subseteq A!ID
  BY CallerKnown DEF ApiInv, A!Kind, A!ID
<1>1. ASSUME NEW c \in A!Caller, NEW id \in TemplateID, NEW v \in Version,
             A!handlePublishTemplate(c, id, v)
      PROVE  ApiInv'
  <2>1. /\ templates' \in [Tenant \X TemplateID -> Version \cup {None}]
        /\ instances' \in [Tenant \X InstanceID -> A!ChecklistInstanceData \cup {None}]
        /\ evidence' \in [Tenant \X EvidenceID -> InstanceID \cup {None}]
        /\ UNCHANGED actions /\ A!appendAudit(c, "TEMPLATE_PUBLISHED", id)
    BY <1>0, <1>1 DEF A!handlePublishTemplate, A!TypeOK
  <2> QED BY <1>0, <2>1, OtherWriteStep
<1>2. ASSUME NEW c \in A!Caller, NEW id \in InstanceID, NEW t \in TemplateID,
             A!handleInstantiateChecklist(c, id, t)
      PROVE  ApiInv'
  <2> DEFINE new == [template |-> t, version |-> templates[<<c.tenant, t>>],
                     inspector |-> c.subject, state |-> "IN_PROGRESS"]
  <2>1. templates[<<c.tenant, t>>] \in Version
    BY <1>0, <1>2 DEF A!handleInstantiateChecklist, A!TypeOK
  <2>2. new \in A!ChecklistInstanceData
    BY <1>0, <2>1 DEF A!ChecklistInstanceData
  <2>3. /\ instances' = [instances EXCEPT ![<<c.tenant, id>>] = new]
        /\ UNCHANGED <<templates, evidence, actions>>
        /\ A!appendAudit(c, "CHECKLIST_INSTANTIATED", id)
    BY <1>2 DEF A!handleInstantiateChecklist
  <2> HIDE DEF new
  <2>4. /\ templates' \in [Tenant \X TemplateID -> Version \cup {None}]
        /\ instances' \in [Tenant \X InstanceID -> A!ChecklistInstanceData \cup {None}]
        /\ evidence' \in [Tenant \X EvidenceID -> InstanceID \cup {None}]
    BY <1>0, <2>2, <2>3 DEF A!TypeOK
  <2> QED BY <1>0, <2>3, <2>4, OtherWriteStep
<1>3. ASSUME NEW c \in A!Caller, NEW id \in InstanceID, A!handleCompleteChecklist(c, id)
      PROVE  ApiInv'
  <2> DEFINE old == instances[<<c.tenant, id>>]
             new == [old EXCEPT !.state = "COMPLETED"]
  <2>1. old \in A!ChecklistInstanceData
    BY <1>0, <1>3 DEF A!handleCompleteChecklist, A!TypeOK
  <2>2. /\ instances' = [instances EXCEPT ![<<c.tenant, id>>] = new]
        /\ UNCHANGED <<templates, evidence, actions>>
        /\ A!appendAudit(c, "CHECKLIST_COMPLETED", id)
    BY <1>0, <1>3 DEF A!handleCompleteChecklist, A!TypeOK
  <2> HIDE DEF old
  <2>3. new \in A!ChecklistInstanceData
    BY <2>1 DEF A!ChecklistInstanceData
  <2> HIDE DEF new
  <2>4. /\ templates' \in [Tenant \X TemplateID -> Version \cup {None}]
        /\ instances' \in [Tenant \X InstanceID -> A!ChecklistInstanceData \cup {None}]
        /\ evidence' \in [Tenant \X EvidenceID -> InstanceID \cup {None}]
    BY <1>0, <2>2, <2>3 DEF A!TypeOK
  <2> QED BY <1>0, <2>2, <2>4, OtherWriteStep
<1>4. ASSUME NEW c \in A!Caller, NEW id \in EvidenceID, NEW i \in InstanceID,
             A!handleUploadEvidence(c, id, i)
      PROVE  ApiInv'
  <2>1. /\ templates' \in [Tenant \X TemplateID -> Version \cup {None}]
        /\ instances' \in [Tenant \X InstanceID -> A!ChecklistInstanceData \cup {None}]
        /\ evidence' \in [Tenant \X EvidenceID -> InstanceID \cup {None}]
        /\ UNCHANGED actions /\ A!appendAudit(c, "EVIDENCE_UPLOADED", id)
    BY <1>0, <1>4 DEF A!handleUploadEvidence, A!TypeOK
  <2> QED BY <1>0, <2>1, OtherWriteStep
<1>5. CASE UNCHANGED A!vars
  <2>1. UNCHANGED <<templates, instances, evidence, actions, auditEvents, seqCounter, exports,
                    written>>
    BY <1>5 DEF A!vars, A!storeVars
  <2>2. \A log : GoodLog(log)' <=> GoodLog(log)
    BY <2>1 DEF GoodLog
  <2>3. GoodLog(auditEvents)'
    BY <2>1 DEF ApiInv, GoodLog
  <2>4. \A r \in Export : exports'[r].at = "appending" => GoodLog(exports[r].log)'
    BY <2>1 DEF ApiInv, GoodLog
  <2> QED BY <2>1, <2>3, <2>4 DEF ApiInv, A!TypeOK
<1>6. \A r \in Export : (\E c \in A!Caller : A!ReadStore(r, c)) => ApiInv'
  BY ExportStep
<1>7. \A r \in Export : \/ A!LoadCounter(r) \/ A!StoreCounter(r)
                        \/ A!NumberEntry(r) \/ A!LoadLog(r) \/ A!StoreLog(r)
                        => ApiInv'
  BY ExportStep
<1> QED BY <1>1, <1>2, <1>3, <1>4, <1>5, <1>6, <1>7, CreateActionStep, CloseActionStep
        DEF A!Next

\* For all tenants, users and IDs: however exports race, every write of the API is in the
\* log and the log tells what became of every action.
THEOREM ApiAudited == A!Spec => [](A!WritesAudited /\ A!ActionsReplay)
<1>1. A!Spec => []ApiInv
  BY ApiInitially, ApiStep, PTL DEF A!Spec
<1>2. ApiInv => A!WritesAudited /\ A!ActionsReplay
  BY DEF ApiInv, GoodLog, A!WritesAudited, A!ActionsReplay
<1> QED BY <1>1, <1>2, PTL

\* The property of the run platform about the API service.
THEOREM WritesAuditedHolds == Spec => []WritesAudited
<1> DEFINE Inv == focus = "api" => ApiInv
<1>1. Init => Inv
  BY ApiInitially DEF Init
<1>2. Inv /\ [Next]_vars => Inv'
  <2> SUFFICES ASSUME Inv, [Next]_vars, focus' = "api" PROVE ApiInv'
    OBVIOUS
  <2>1. focus = "api" /\ [A!Next]_(A!vars)
    BY DEF Next, vars, Api, Hierarchy, Parties, Names, Contracts, Flags, apiVars, A!vars,
       A!storeVars
  <2> QED BY <2>1, ApiStep
<1>3. Inv => WritesAudited
  BY DEF WritesAudited, ApiInv, GoodLog, A!WritesAudited, A!ActionsReplay
<1> QED BY <1>1, <1>2, <1>3, PTL DEF Spec
=============================================================================
