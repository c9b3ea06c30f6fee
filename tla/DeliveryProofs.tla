---------------------------- MODULE DeliveryProofs ----------------------------
(***************************************************************************)
(* Proofs about the delivery services composed in MCDelivery: Dispatcher,  *)
(* JobScheduler and NotificationSink, for every set of consumers, events,  *)
(* tenants, jobs and requests and every bound.                             *)
(***************************************************************************)
EXTENDS MCDelivery, SequenceTheorems, TLAPS

-----------------------------------------------------------------------------
\* Dispatcher: what a record says of the handler runs behind it.

\* A run counts an acceptance only where the record did not say DELIVERED, so an
\* accepted event is delivered on record or its record was discarded; a copy outside
\* the process says DELIVERED only of what was accepted.
AcceptedOnRecord ==
    \A k \in D!Key :
        /\ records[k].status = "DELIVERED" => accepted[k] > 0
        /\ exported[k].status = "DELIVERED" => accepted[k] > 0
        /\ accepted[k] > 0 => records[k].status = "DELIVERED" \/ k \in lost
        /\ accepted[k] > 1 => k \in lost

\* The attempt budget of one record, whose handler panicked p times.
Within(r, p) ==
    /\ r.status \in {"PENDING", "RETRYING"} =>
          r.attempts < r.max + r.replayed + p /\ r.replayed = 0
    /\ r.status = "QUARANTINED" =>
          r.attempts \in (r.max + r.replayed) .. (r.max + r.replayed + p)
    /\ r.status = "DELIVERED" =>
          /\ r.attempts \in 1 .. (r.max + r.replayed + p)
          /\ r.replayed > 0 => r.attempts >= r.max + r.replayed

DispatchInv ==
    /\ D!TypeOK /\ AcceptedOnRecord
    /\ \A k \in D!Key : Within(records[k], panics[k]) /\ Within(exported[k], panics[k])

\* The budget of the property is that of every record.
LEMMA BudgetOfEach ==
    ASSUME NEW rs
    PROVE  D!AttemptBudget(rs) <=> \A k \in D!Key : Within(rs[k], panics[k])
  BY DEF D!AttemptBudget, Within

\* A dispatcher without records owes nothing.
LEMMA DispatchInitially == D!Init => DispatchInv
<1> SUFFICES ASSUME D!Init PROVE DispatchInv
  OBVIOUS
<1>1. D!NoRecord \in D!Record /\ D!NoRecord.status = "ABSENT"
  BY DEF D!NoRecord, D!Record
<1>2. D!TypeOK
  BY <1>1 DEF D!Init, D!TypeOK
<1> QED BY <1>1, <1>2 DEF D!Init, DispatchInv, AcceptedOnRecord, Within

\* A handler run that is booked on a record not delivered before, within its budget.
LEMMA HandlerRun ==
    ASSUME DispatchInv,
           NEW k \in D!Key, NEW outcome \in D!Outcomes, NEW new \in D!Record,
           D!Invoke(k, outcome),
           records[k].status # "DELIVERED",
           new.status = "DELIVERED" <=> outcome = "ok",
           Within(new, panics'[k]),
           records' = [records EXCEPT ![k] = new],
           UNCHANGED <<handlers, consumerTenants, maxAttempts, exported, lost, crashes>>
    PROVE  DispatchInv'
<1>0. D!TypeOK /\ AcceptedOnRecord
  BY DEF DispatchInv
<1>1. \A x \in D!Key : records'[x] = IF x = k THEN new ELSE records[x]
  BY <1>0 DEF D!TypeOK
<1>2. /\ accepted' \in [D!Key -> Nat] /\ panics' \in [D!Key -> Nat] /\ calls' \in Nat
      /\ \A x \in D!Key \ {k} : accepted'[x] = accepted[x] /\ panics'[x] = panics[x]
      /\ accepted'[k] = accepted[k] + (IF outcome = "ok" THEN 1 ELSE 0)
      /\ panics'[k] >= panics[k]
  BY <1>0 DEF D!TypeOK, D!Invoke
<1>3. D!TypeOK'
  BY <1>0, <1>2 DEF D!TypeOK
<1>4. AcceptedOnRecord'
  <2> SUFFICES ASSUME NEW x \in D!Key
               PROVE  /\ records'[x].status = "DELIVERED" => accepted'[x] > 0
                      /\ exported[x].status = "DELIVERED" => accepted'[x] > 0
                      /\ accepted'[x] > 0 => records'[x].status = "DELIVERED" \/ x \in lost
                      /\ accepted'[x] > 1 => x \in lost
    BY DEF AcceptedOnRecord
  <2>0. accepted[x] \in Nat
    BY <1>0 DEF D!TypeOK
  <2>1. CASE x # k
    BY <1>0, <1>1, <1>2, <2>1 DEF AcceptedOnRecord
  <2>2. CASE x = k /\ outcome = "ok"
    BY <1>0, <1>1, <1>2, <2>0, <2>2 DEF AcceptedOnRecord
  <2>3. CASE x = k /\ outcome # "ok"
    BY <1>0, <1>1, <1>2, <2>0, <2>3 DEF AcceptedOnRecord
  <2> QED BY <2>1, <2>2, <2>3
<1>5. ASSUME NEW x \in D!Key
      PROVE  Within(records'[x], panics'[x]) /\ Within(exported[x], panics'[x])
  <2>1. Within(records[x], panics[x]) /\ Within(exported[x], panics[x])
    BY DEF DispatchInv
  <2>2. /\ panics[x] \in Nat /\ panics'[x] \in Nat /\ panics'[x] >= panics[x]
        /\ exported[x] \in D!Record
    BY <1>0, <1>2 DEF D!TypeOK
  <2>3. exported[x].attempts \in Nat /\ exported[x].max \in Nat /\ exported[x].replayed \in Nat
    BY <2>2 DEF D!Record
  <2>4. Within(exported[x], panics'[x])
    BY <2>1, <2>2, <2>3 DEF Within
  <2> QED BY <1>1, <1>2, <2>1, <2>4
<1> QED BY <1>3, <1>4, <1>5 DEF DispatchInv

\* Dispatch: below the limit before the run, so at the limit at most after it.
LEMMA DispatchStep ==
    ASSUME DispatchInv, NEW c \in Consumer, NEW e \in Event, NEW outcome \in D!Outcomes,
           D!Dispatch(c, e, outcome)
    PROVE  DispatchInv'
<1> DEFINE k == <<c, e>>
           fresh == [D!NoRecord EXCEPT !.status = "PENDING", !.max = maxAttempts,
                                       !.tenant = EventTenant[e]]
           r == IF records[k].status = "ABSENT" THEN fresh ELSE records[k]
           tried == [r EXCEPT !.attempts = @ + 1]
           new == CASE outcome = "ok"    -> D!AfterSuccess(tried)
                    [] outcome = "fail"  -> D!AfterFailure(tried)
                    [] outcome = "panic" -> tried
<1>0. D!TypeOK /\ k \in D!Key /\ records[k] \in D!Record /\ panics[k] \in Nat
  BY DEF DispatchInv, D!TypeOK, D!Key
<1>1. /\ D!Dispatchable(r) /\ D!Invoke(k, outcome) /\ records' = [records EXCEPT ![k] = new]
      /\ UNCHANGED <<handlers, consumerTenants, maxAttempts, exported, lost, crashes>>
  BY DEF D!Dispatch
<1>2. maxAttempts \in Nat /\ maxAttempts > 0 /\ EventTenant[e] \in Tenant
  BY <1>0, DeliveryAssumption DEF D!TypeOK, D!DispatcherAssumption
<1>3. /\ fresh \in D!Record /\ fresh.status = "PENDING" /\ fresh.attempts = 0
      /\ fresh.max = maxAttempts /\ fresh.replayed = 0
  BY <1>2 DEF D!NoRecord, D!Record
<1>4. /\ r \in D!Record /\ r.attempts \in Nat /\ r.max \in Nat /\ r.replayed = 0
      /\ r.status \in {"PENDING", "RETRYING"} /\ r.attempts < r.max + panics[k]
      /\ records[k].status # "DELIVERED"
  <2> HIDE DEF fresh, k
  <2>1. CASE records[k].status = "ABSENT"
    <3>1. r = fresh
      BY <2>1
    <3> HIDE DEF r
    <3> QED BY <1>0, <1>2, <1>3, <2>1, <3>1
  <2>2. CASE records[k].status # "ABSENT"
    <3>1. r = records[k]
      BY <2>2
    <3> HIDE DEF r
    <3>2. /\ r.attempts \in Nat /\ r.max \in Nat /\ r.replayed \in Nat
          /\ r.status \in {"PENDING", "RETRYING"} /\ r.status # "DELIVERED"
      BY <1>0, <1>1, <2>2, <3>1 DEF D!Record, D!Dispatchable
    <3>3. Within(r, panics[k])
      BY <1>0, <3>1 DEF DispatchInv
    <3> QED BY <1>0, <3>1, <3>2, <3>3 DEF Within
  <2> QED BY <2>1, <2>2
<1> HIDE DEF r, fresh
<1>5. /\ tried \in D!Record /\ tried.attempts = r.attempts + 1 /\ tried.max = r.max
      /\ tried.replayed = 0 /\ tried.status = r.status
  BY <1>4 DEF D!Record
<1>6. panics'[k] = panics[k] + (IF outcome = "panic" THEN 1 ELSE 0)
  BY <1>0, <1>1 DEF D!Invoke, D!TypeOK
<1> HIDE DEF tried
<1>7. /\ new \in D!Record /\ Within(new, panics'[k])
      /\ new.status = "DELIVERED" <=> outcome = "ok"
  <2> HIDE DEF k
  <2>1. CASE outcome = "ok"
    <3>1. new = [tried EXCEPT !.status = "DELIVERED"]
      BY <2>1 DEF D!AfterSuccess
    <3> HIDE DEF new
    <3>2. /\ new \in D!Record /\ new.status = "DELIVERED" /\ new.attempts = tried.attempts
          /\ new.max = tried.max /\ new.replayed = 0
      BY <1>5, <3>1 DEF D!Record
    <3> QED BY <1>0, <1>4, <1>5, <1>6, <2>1, <3>2 DEF Within
  <2>2. CASE outcome = "fail" /\ tried.attempts >= tried.max
    <3>1. new = [tried EXCEPT !.status = "QUARANTINED", !.quarantinedAt = TRUE]
      BY <2>2 DEF D!AfterFailure, D!Exhausted
    <3> HIDE DEF new
    <3>2. /\ new \in D!Record /\ new.status = "QUARANTINED" /\ new.attempts = tried.attempts
          /\ new.max = tried.max /\ new.replayed = 0
      BY <1>5, <3>1 DEF D!Record
    <3> QED BY <1>0, <1>4, <1>5, <1>6, <2>2, <3>2 DEF Within
  <2>3. CASE outcome = "fail" /\ ~(tried.attempts >= tried.max)
    <3>1. new = [tried EXCEPT !.status = "RETRYING"]
      BY <2>3 DEF D!AfterFailure, D!Exhausted
    <3> HIDE DEF new
    <3>2. /\ new \in D!Record /\ new.status = "RETRYING" /\ new.attempts = tried.attempts
          /\ new.max = tried.max /\ new.replayed = 0
      BY <1>5, <3>1 DEF D!Record
    <3> QED BY <1>0, <1>4, <1>5, <1>6, <2>3, <3>2 DEF Within
  <2>4. CASE outcome = "panic"
    <3>1. new = tried
      BY <2>4
    <3> HIDE DEF new
    <3> QED BY <1>0, <1>4, <1>5, <1>6, <2>4, <3>1 DEF Within
  <2> QED BY <2>1, <2>2, <2>3, <2>4 DEF D!Outcomes
<1> HIDE DEF k, new
<1> QED BY <1>0, <1>1, <1>4, <1>7, HandlerRun

\* Replay: one attempt more for one replay more.
LEMMA ReplayStep ==
    ASSUME DispatchInv, NEW c \in Consumer, NEW e \in Event, NEW caller \in Tenant,
           NEW outcome \in D!Outcomes, D!Replay(c, e, caller, outcome)
    PROVE  DispatchInv'
<1> DEFINE k == <<c, e>>
           r == records[k]
           tried == D!Replayed(r)
           new == CASE outcome = "ok"    -> D!AfterSuccess(tried)
                    [] outcome = "fail"  -> [tried EXCEPT !.status = "QUARANTINED",
                                                          !.quarantinedAt = TRUE]
                    [] outcome = "panic" -> tried
<1>0. D!TypeOK /\ k \in D!Key /\ r \in D!Record /\ panics[k] \in Nat /\ Within(r, panics[k])
  BY DEF DispatchInv, D!TypeOK, D!Key
<1>1. /\ r.status = "QUARANTINED" /\ D!Invoke(k, outcome)
      /\ records' = [records EXCEPT ![k] = new]
      /\ UNCHANGED <<handlers, consumerTenants, maxAttempts, exported, lost, crashes>>
  BY DEF D!Replay, D!Replayable
<1>2. panics'[k] = panics[k] + (IF outcome = "panic" THEN 1 ELSE 0)
  BY <1>0, <1>1 DEF D!Invoke, D!TypeOK
<1>3. /\ r.attempts \in Nat /\ r.max \in Nat /\ r.replayed \in Nat
      /\ r.attempts \in (r.max + r.replayed) .. (r.max + r.replayed + panics[k])
  BY <1>0, <1>1 DEF D!Record, Within
<1> HIDE DEF k, r
<1>4. /\ tried \in D!Record /\ tried.attempts = r.attempts + 1 /\ tried.max = r.max
      /\ tried.replayed = r.replayed + 1 /\ tried.status = r.status
  <2> DEFINE half == [r EXCEPT !.replayed = @ + 1]
  <2>1. /\ half \in D!Record /\ half.attempts = r.attempts /\ half.max = r.max
        /\ half.replayed = r.replayed + 1 /\ half.status = r.status
    BY <1>0, <1>3 DEF D!Record
  <2>2. tried = [half EXCEPT !.attempts = @ + 1]
    BY <1>0 DEF D!Replayed, D!Record
  <2> HIDE DEF half, tried
  <2> QED BY <1>3, <2>1, <2>2 DEF D!Record
<1> HIDE DEF tried
<1>5. /\ new \in D!Record /\ Within(new, panics'[k])
      /\ new.status = "DELIVERED" <=> outcome = "ok"
  <2>1. CASE outcome = "ok"
    <3>1. new = [tried EXCEPT !.status = "DELIVERED"]
      BY <2>1 DEF D!AfterSuccess
    <3> HIDE DEF new
    <3>2. /\ new \in D!Record /\ new.status = "DELIVERED" /\ new.attempts = tried.attempts
          /\ new.max = tried.max /\ new.replayed = tried.replayed
      BY <1>4, <3>1 DEF D!Record
    <3> QED BY <1>0, <1>2, <1>3, <1>4, <2>1, <3>2 DEF Within
  <2>2. CASE outcome = "fail"
    <3>1. new = [tried EXCEPT !.status = "QUARANTINED", !.quarantinedAt = TRUE]
      BY <2>2
    <3> HIDE DEF new
    <3>2. /\ new \in D!Record /\ new.status = "QUARANTINED" /\ new.attempts = tried.attempts
          /\ new.max = tried.max /\ new.replayed = tried.replayed
      BY <1>4, <3>1 DEF D!Record
    <3> QED BY <1>0, <1>2, <1>3, <1>4, <2>2, <3>2 DEF Within
  <2>3. CASE outcome = "panic"
    <3>1. new = tried
      BY <2>3
    <3> HIDE DEF new
    <3> QED BY <1>0, <1>1, <1>2, <1>3, <1>4, <2>3, <3>1 DEF Within
  <2> QED BY <2>1, <2>2, <2>3 DEF D!Outcomes
<1>6. records[k].status # "DELIVERED"
  BY <1>1 DEF r
<1> HIDE DEF new
<1> QED BY <1>0, <1>1, <1>5, <1>6, HandlerRun

\* The records change to others that keep their budgets; what is no longer delivered is
\* noted as lost.
LEMMA RecordsReplaced ==
    ASSUME DispatchInv, NEW new \in [D!Key -> D!Record],
           \A k \in D!Key : /\ Within(new[k], panics[k])
                            /\ new[k].status = "DELIVERED" => accepted[k] > 0,
           records' = new, lost' = lost \cup D!Forgotten(new),
           UNCHANGED <<exported, calls, accepted, panics>>
    PROVE  /\ AcceptedOnRecord' /\ lost' \subseteq D!Key
           /\ \A k \in D!Key : Within(records'[k], panics'[k]) /\ Within(exported'[k], panics'[k])
<1>0. D!TypeOK /\ AcceptedOnRecord
  BY DEF DispatchInv
<1>1. lost' \subseteq D!Key
  BY <1>0 DEF D!TypeOK, D!Forgotten
<1>2. AcceptedOnRecord'
  BY <1>0 DEF AcceptedOnRecord, D!Forgotten
<1> QED BY <1>1, <1>2 DEF DispatchInv

\* Every step of the dispatcher keeps the inductive invariant.
LEMMA DispatcherStep == DispatchInv /\ [D!Next]_(D!vars) => DispatchInv'
<1> SUFFICES ASSUME DispatchInv, [D!Next]_(D!vars) PROVE DispatchInv'
  OBVIOUS
<1>0. D!TypeOK /\ AcceptedOnRecord
  BY DEF DispatchInv
<1>1. ASSUME NEW c \in Consumer, NEW tenant \in Tenant \cup {None},
             D!RegisterConsumer(c, tenant)
      PROVE  DispatchInv'
  BY <1>0, <1>1 DEF D!RegisterConsumer, D!observers, DispatchInv, AcceptedOnRecord, D!TypeOK
<1>2. CASE D!ExportState
  BY <1>0, <1>2 DEF D!ExportState, D!observers, DispatchInv, AcceptedOnRecord, D!TypeOK
<1>3. CASE D!RestoreState
  <2> DEFINE new == [k \in D!Key |-> IF exported[k].status = "ABSENT" THEN records[k]
                                     ELSE exported[k]]
  <2>1. /\ records' = new /\ lost' = lost \cup D!Forgotten(new)
        /\ UNCHANGED <<handlers, consumerTenants, maxAttempts, exported, calls, accepted,
                       panics, crashes>>
    BY <1>3 DEF D!RestoreState
  <2>2. new \in [D!Key -> D!Record]
    BY <1>0 DEF D!TypeOK
  <2>3. \A k \in D!Key : /\ Within(new[k], panics[k])
                         /\ new[k].status = "DELIVERED" => accepted[k] > 0
    BY <1>0 DEF DispatchInv, AcceptedOnRecord
  <2> HIDE DEF new
  <2>4. /\ AcceptedOnRecord' /\ lost' \subseteq D!Key
        /\ \A k \in D!Key : Within(records'[k], panics'[k]) /\ Within(exported'[k], panics'[k])
    BY <2>1, <2>2, <2>3, RecordsReplaced
  <2> QED BY <1>0, <2>1, <2>2, <2>4 DEF DispatchInv, D!TypeOK
<1>4. ASSUME NEW limit \in Limits, D!Crash(limit)
      PROVE  DispatchInv'
  <2> DEFINE new == [k \in D!Key |-> D!NoRecord]
  <2>1. /\ records' = new /\ lost' = lost \cup D!Forgotten(new)
        /\ UNCHANGED <<exported, calls, accepted, panics>>
        /\ handlers' = {} /\ consumerTenants' = [c \in Consumer |-> None]
        /\ maxAttempts' = limit /\ crashes' = crashes + 1
    BY <1>4 DEF D!Crash
  <2>2. D!NoRecord \in D!Record /\ D!NoRecord.status = "ABSENT"
    BY DEF D!NoRecord, D!Record
  <2>3. new \in [D!Key -> D!Record]
    BY <2>2
  <2>4. \A k \in D!Key : /\ Within(new[k], panics[k])
                         /\ new[k].status = "DELIVERED" => accepted[k] > 0
    BY <2>2 DEF Within
  <2> HIDE DEF new
  <2>5. /\ AcceptedOnRecord' /\ lost' \subseteq D!Key
        /\ \A k \in D!Key : Within(records'[k], panics'[k]) /\ Within(exported'[k], panics'[k])
    BY <2>1, <2>3, <2>4, RecordsReplaced
  <2> QED BY <1>0, <2>1, <2>3, <2>5 DEF DispatchInv, D!TypeOK
<1>5. CASE UNCHANGED D!vars
  BY <1>0, <1>5 DEF D!vars, DispatchInv, AcceptedOnRecord, D!TypeOK
<1> QED BY <1>1, <1>2, <1>3, <1>4, <1>5, DispatchStep, ReplayStep DEF D!Next

\* Steps of the composition, seen from each service.
LEMMA DispatcherSees == [Next]_vars => [D!Next]_(D!vars)
  BY DEF Next, vars, dVars, D!vars

LEMMA SchedulerSees == [Next]_vars => [J!Next]_(J!vars)
  BY DEF Next, vars, jVars, J!vars

LEMMA SinkSees == [Next]_vars => [N!Next]_(N!vars)
  BY DEF Next, vars, nVars, N!vars

\* The inductive invariant of the dispatcher holds whatever jobs and notifications do.
LEMMA DispatchInvariant == Spec => []DispatchInv
<1>1. Init => DispatchInv
  BY DispatchInitially DEF Init
<1>2. DispatchInv /\ [Next]_vars => DispatchInv'
  BY DispatcherSees, DispatcherStep
<1> QED BY <1>1, <1>2, PTL DEF Spec

\* The invariant gives what DeliveryAccounted and BudgetKept say.
LEMMA DispatchAccounts == DispatchInv => DeliveryAccounted
<1> SUFFICES ASSUME DispatchInv PROVE DeliveryAccounted
  OBVIOUS
<1>1. D!DeliveryAccounted
  BY DEF DispatchInv, AcceptedOnRecord, D!DeliveryAccounted
<1>2. D!AttemptBudget(records)
  BY BudgetOfEach DEF DispatchInv
<1>3. D!AttemptBudget(exported)
  BY BudgetOfEach DEF DispatchInv
<1> QED BY <1>1, <1>2, <1>3 DEF DeliveryAccounted, D!BudgetKept

\* Dispatcher alone, without the other services: records and attempts account for every
\* acceptance through retries, panics, replays, crashes and stale restores.
THEOREM DispatcherAccounts == D!Spec => []DeliveryAccounted
<1>1. D!Init => DispatchInv
  BY DispatchInitially
<1> QED BY <1>1, DispatcherStep, DispatchAccounts, PTL DEF D!Spec

\* The property of the run delivery about Dispatch, Replay and RestoreState: what is
\* delivered was accepted, once unless its record was lost, and every record keeps its
\* attempt budget.
THEOREM DeliveryAccountedHolds == Spec => []DeliveryAccounted
<1> QED BY DispatchAccounts, DispatchInvariant, PTL

\* The action property of the run delivery: only Replay, RestoreState and a crash change a
\* quarantined record; a replay counts itself and takes the record out of quarantine exactly
\* if the consumer accepted.
THEOREM QuarantineLeftByReplayHolds == Spec => QuarantineLeftByReplay
<1>1. DispatchInv /\ [Next]_vars
      => [\A k \in D!Key :
             records[k].status = "QUARANTINED" /\ records'[k] # records[k]
             => D!MayReplace(k)]_(D!vars)
  <2> SUFFICES ASSUME DispatchInv, [D!Next]_(D!vars), NEW k \in D!Key,
                      records[k].status = "QUARANTINED", records'[k] # records[k]
               PROVE  D!MayReplace(k)
    BY DispatcherSees
  <2>0. D!TypeOK /\ records[k] \in D!Record
    BY DEF DispatchInv, D!TypeOK
  <2>1. ASSUME NEW c \in Consumer, NEW e \in Event, NEW o \in D!Outcomes, D!Dispatch(c, e, o)
        PROVE  FALSE
    <3>1. k = <<c, e>>
      BY <2>0, <2>1 DEF D!Dispatch, D!TypeOK
    <3> QED BY <2>1, <3>1 DEF D!Dispatch, D!Dispatchable
  <2>2. ASSUME NEW c \in Consumer, NEW e \in Event, NEW t \in Tenant, NEW o \in D!Outcomes,
               D!Replay(c, e, t, o)
        PROVE  D!MayReplace(k)
    <3> DEFINE tried == D!Replayed(records[k])
    <3>1. k = <<c, e>>
      BY <2>0, <2>2 DEF D!Replay, D!TypeOK
    <3>2. tried.status = "QUARANTINED" /\ tried.replayed = records[k].replayed + 1
          /\ tried \in D!Record
      <4>1. records[k].attempts \in Nat /\ records[k].replayed \in Nat
        BY <2>0 DEF D!Record
      <4> DEFINE half == [records[k] EXCEPT !.replayed = @ + 1]
      <4>2. /\ half \in D!Record /\ half.attempts = records[k].attempts
            /\ half.replayed = records[k].replayed + 1 /\ half.status = "QUARANTINED"
        BY <2>0, <4>1 DEF D!Record
      <4>3. tried = [half EXCEPT !.attempts = @ + 1]
        BY <2>0 DEF D!Replayed, D!Record
      <4> HIDE DEF half, tried
      <4> QED BY <4>1, <4>2, <4>3 DEF D!Record
    <3>3. records'[k] = CASE o = "ok"    -> D!AfterSuccess(tried)
                          [] o = "fail"  -> [tried EXCEPT !.status = "QUARANTINED",
                                                          !.quarantinedAt = TRUE]
                          [] o = "panic" -> tried
      BY <2>0, <2>2, <3>1 DEF D!Replay, D!TypeOK
    <3> HIDE DEF tried
    <3>4. calls' = calls + 1
      BY <2>2 DEF D!Replay, D!Invoke
    <3>5. accepted[k] \in Nat /\ accepted'[k] = accepted[k] + (IF o = "ok" THEN 1 ELSE 0)
      BY <2>0, <2>2, <3>1 DEF D!Replay, D!Invoke, D!TypeOK
    <3>6. CASE o = "ok"
      <4>1. records'[k].status = "DELIVERED" /\ records'[k].replayed = tried.replayed
        BY <3>2, <3>3, <3>6 DEF D!AfterSuccess, D!Record
      <4>2. accepted'[k] # accepted[k]
        BY <3>5, <3>6
      <4> QED BY <3>2, <3>4, <4>1, <4>2 DEF D!MayReplace
    <3>7. CASE o \in {"fail", "panic"}
      <4>1. records'[k].status = "QUARANTINED" /\ records'[k].replayed = tried.replayed
        BY <3>2, <3>3, <3>7 DEF D!Record
      <4>2. accepted'[k] = accepted[k]
        BY <3>5, <3>7
      <4> QED BY <3>2, <3>4, <4>1, <4>2 DEF D!MayReplace
    <3> QED BY <3>6, <3>7 DEF D!Outcomes
  <2>3. CASE D!RestoreState
    <3>1. exported[k].status # "ABSENT" /\ records'[k] = exported[k]
      BY <2>3 DEF D!RestoreState
    <3> QED BY <2>3, <3>1 DEF D!RestoreState, D!MayReplace
  <2>4. ASSUME NEW limit \in Limits, D!Crash(limit)
        PROVE  D!MayReplace(k)
    BY <2>4 DEF D!Crash, D!MayReplace
  <2>5. CASE (\E c \in Consumer, t \in Tenant \cup {None} : D!RegisterConsumer(c, t))
             \/ D!ExportState \/ UNCHANGED D!vars
    BY <2>5 DEF D!RegisterConsumer, D!ExportState, D!vars, D!observers
  <2> QED BY <2>1, <2>2, <2>3, <2>4, <2>5 DEF D!Next
<1> QED BY <1>1, DispatchInvariant, PTL
      DEF Spec, QuarantineLeftByReplay, D!QuarantineLeftByReplay

-----------------------------------------------------------------------------
\* Jobs: a scheduled job was never run, which is what keeps the next scan from being
\* its second.

ScheduledIsUntouched ==
    \A j \in Job : jobs[j].state = "SCHEDULED" => jobs[j].attempts = 0 /\ jobs[j].executedAt = 0

JobInv == J!RunOnceWhenDue /\ ScheduledIsUntouched

\* The rules for one job at time t.
JobInOrder(r, t) ==
    /\ r \in J!JobRecord
    /\ r.attempts <= 1
    /\ r.attempts = 1 <=> r.executedAt # 0
    /\ r.executedAt # 0 => r.executedAt >= r.dueAt /\ r.executedAt <= t
    /\ r.state \in {"RUNNING", "COMPLETED"} => r.attempts = 1
    /\ r.state = "SCHEDULED" => r.attempts = 0 /\ r.executedAt = 0

\* The invariant is the rules for each job.
LEMMA JobByJob ==
    JobInv <=> /\ now \in 1 .. MaxTime /\ jobHandlers \subseteq JobType
               /\ jobs \in [Job -> J!JobRecord]
               /\ \A j \in Job : JobInOrder(jobs[j], now)
  BY DEF JobInv, J!RunOnceWhenDue, J!TypeOK, ScheduledIsUntouched, JobInOrder

\* No job at the start.
LEMMA JobsInitially == J!Init => JobInv
<1> SUFFICES ASSUME J!Init PROVE JobInv
  OBVIOUS
<1>1. MaxTime \in Nat \ {0}
  BY DeliveryAssumption DEF J!JobSchedulerAssumption
<1>2. now \in 1 .. MaxTime /\ J!NoJob \in J!JobRecord
  BY <1>1 DEF J!Init, J!NoJob, J!JobRecord, J!States
<1>3. JobInOrder(J!NoJob, now)
  BY <1>2 DEF JobInOrder, J!NoJob
<1> QED BY <1>2, <1>3, JobByJob DEF J!Init

\* A due job that is run, or that fails for want of a handler, stays in order.
LEMMA RanInOrder ==
    ASSUME JobInv, NEW j \in Job, J!Due(j),
           NEW result \in {"RUNNING", "COMPLETED", "FAILED"}
    PROVE  JobInOrder(J!Ran(j, result), now)
<1> DEFINE r == jobs[j]
           ran == J!Ran(j, result)
           count == [r EXCEPT !.state = result, !.attempts = @ + 1]
<1>0. /\ MaxTime \in Nat /\ now \in 1 .. MaxTime /\ JobInOrder(r, now)
      /\ r.state = "SCHEDULED" /\ now >= r.dueAt
  BY JobByJob, DeliveryAssumption DEF J!JobSchedulerAssumption, J!Due
<1>1. /\ r \in J!JobRecord /\ r.attempts = 0 /\ r.executedAt = 0 /\ r.dueAt \in 0 .. MaxTime
  BY <1>0 DEF JobInOrder, J!JobRecord
<1>2. CASE r.type \in jobHandlers
  <2>1. /\ count \in J!JobRecord /\ count.attempts = 1 /\ count.state = result
        /\ count.dueAt = r.dueAt
    <3> DEFINE half == [r EXCEPT !.state = result]
    <3> HIDE DEF r
    <3>1. /\ half \in J!JobRecord /\ half.attempts = 0 /\ half.state = result
          /\ half.dueAt = r.dueAt
      BY <1>1 DEF J!JobRecord, J!States
    <3>2. count = [half EXCEPT !.attempts = @ + 1]
      BY <1>1 DEF J!JobRecord
    <3> HIDE DEF half, count
    <3> QED BY <3>1, <3>2 DEF J!JobRecord
  <2>2. ran = [count EXCEPT !.executedAt = now]
    BY <1>1, <1>2 DEF J!Ran, J!JobRecord
  <2> HIDE DEF count, ran, r
  <2>3. /\ ran \in J!JobRecord /\ ran.attempts = 1 /\ ran.state = result
        /\ ran.dueAt = r.dueAt /\ ran.executedAt = now
    <3>1. now \in 0 .. MaxTime
      BY <1>0
    <3> QED BY <2>1, <2>2, <3>1 DEF J!JobRecord
  <2>4. JobInOrder(ran, now)
    BY <1>0, <1>1, <2>3 DEF JobInOrder
  <2> QED BY <2>4 DEF ran
<1>3. CASE r.type \notin jobHandlers
  <2>1. ran = [r EXCEPT !.state = "FAILED"]
    BY <1>3 DEF J!Ran
  <2> HIDE DEF ran, r
  <2>2. /\ ran \in J!JobRecord /\ ran.attempts = 0 /\ ran.state = "FAILED"
        /\ ran.executedAt = 0
    BY <1>1, <2>1 DEF J!JobRecord, J!States
  <2>3. JobInOrder(ran, now)
    BY <2>2 DEF JobInOrder
  <2> QED BY <2>3 DEF ran
<1> QED BY <1>2, <1>3

\* Registering, scheduling, a scan that ends or is cut short, the clock.
LEMMA SchedulerStep == JobInv /\ [J!Next]_(J!vars) => JobInv'
<1> SUFFICES ASSUME JobInv, [J!Next]_(J!vars) PROVE JobInv'
  OBVIOUS
<1>0. /\ now \in 1 .. MaxTime /\ jobHandlers \subseteq JobType /\ MaxTime \in Nat
      /\ jobs \in [Job -> J!JobRecord] /\ \A j \in Job : JobInOrder(jobs[j], now)
  BY JobByJob, DeliveryAssumption DEF J!JobSchedulerAssumption
<1>1. SUFFICES /\ now' \in 1 .. MaxTime /\ jobHandlers' \subseteq JobType
               /\ jobs' \in [Job -> J!JobRecord]
               /\ \A j \in Job : JobInOrder(jobs'[j], now')
  BY DEF JobInv, J!RunOnceWhenDue, J!TypeOK, ScheduledIsUntouched, JobInOrder
<1>2. ASSUME NEW type \in JobType, J!RegisterJobHandler(type)
      PROVE  /\ now' \in 1 .. MaxTime /\ jobHandlers' \subseteq JobType
             /\ jobs' \in [Job -> J!JobRecord]
             /\ \A j \in Job : JobInOrder(jobs'[j], now')
  BY <1>0, <1>2 DEF J!RegisterJobHandler
<1>3. ASSUME NEW j \in Job, NEW type \in JobType, NEW s \in CallerTimes, NEW d \in CallerTimes,
             J!ScheduleJob(j, type, s, d)
      PROVE  /\ now' \in 1 .. MaxTime /\ jobHandlers' \subseteq JobType
             /\ jobs' \in [Job -> J!JobRecord]
             /\ \A i \in Job : JobInOrder(jobs'[i], now')
  <2> DEFINE new == [J!NoJob EXCEPT !.state = "SCHEDULED", !.type = type,
                                    !.scheduledAt = J!OrNow(s), !.dueAt = J!OrNow(d)]
  <2>1. jobs' = [jobs EXCEPT ![j] = new] /\ UNCHANGED <<now, jobHandlers>>
    BY <1>3 DEF J!ScheduleJob
  <2>2. J!OrNow(s) \in 0 .. MaxTime /\ J!OrNow(d) \in 0 .. MaxTime
    BY <1>0, DeliveryAssumption DEF J!OrNow, J!JobSchedulerAssumption
  <2>3. /\ new \in J!JobRecord /\ new.state = "SCHEDULED" /\ new.attempts = 0
        /\ new.executedAt = 0
    <3> DEFINE a == [J!NoJob EXCEPT !.state = "SCHEDULED"]
               b == [a EXCEPT !.type = type]
               c == [b EXCEPT !.scheduledAt = J!OrNow(s)]
    <3>1. J!NoJob \in J!JobRecord /\ J!NoJob.attempts = 0 /\ J!NoJob.executedAt = 0
      BY <1>0 DEF J!NoJob, J!JobRecord, J!States
    <3>2. /\ a \in J!JobRecord /\ a.state = "SCHEDULED" /\ a.attempts = 0 /\ a.executedAt = 0
      BY <3>1 DEF J!JobRecord, J!States
    <3>3. new = [c EXCEPT !.dueAt = J!OrNow(d)]
      OBVIOUS
    <3> HIDE DEF a
    <3>4. /\ b \in J!JobRecord /\ b.state = "SCHEDULED" /\ b.attempts = 0 /\ b.executedAt = 0
      BY <3>2 DEF J!JobRecord
    <3> HIDE DEF b
    <3>5. /\ c \in J!JobRecord /\ c.state = "SCHEDULED" /\ c.attempts = 0 /\ c.executedAt = 0
      BY <2>2, <3>4 DEF J!JobRecord
    <3> HIDE DEF c, new
    <3> QED BY <2>2, <3>3, <3>5 DEF J!JobRecord
  <2> HIDE DEF new
  <2>4. JobInOrder(new, now)
    BY <2>3 DEF JobInOrder
  <2> QED BY <1>0, <2>1, <2>3, <2>4
<1>4. ASSUME \A i \in Job : \/ jobs'[i] = jobs[i]
                            \/ /\ J!Due(i)
                               /\ \E result \in {"RUNNING", "COMPLETED", "FAILED"} :
                                     jobs'[i] = J!Ran(i, result),
             UNCHANGED <<now, jobHandlers>>, jobs' = [i \in Job |-> jobs'[i]]
      PROVE  /\ now' \in 1 .. MaxTime /\ jobHandlers' \subseteq JobType
             /\ jobs' \in [Job -> J!JobRecord]
             /\ \A i \in Job : JobInOrder(jobs'[i], now')
  <2>1. \A i \in Job : JobInOrder(jobs'[i], now)
    BY <1>0, <1>4, RanInOrder
  <2>2. \A i \in Job : jobs'[i] \in J!JobRecord
    BY <2>1 DEF JobInOrder
  <2> QED BY <1>0, <1>4, <2>1, <2>2
<1>5. ASSUME NEW failing \in SUBSET Job, J!ExecuteDueJobs(failing)
      PROVE  /\ now' \in 1 .. MaxTime /\ jobHandlers' \subseteq JobType
             /\ jobs' \in [Job -> J!JobRecord]
             /\ \A i \in Job : JobInOrder(jobs'[i], now')
  <2>1. /\ UNCHANGED <<now, jobHandlers>>
        /\ jobs' = [i \in Job |->
                      IF i \notin {x \in Job : J!Due(x)} THEN jobs[i]
                      ELSE J!Ran(i, IF i \in failing THEN "FAILED" ELSE "COMPLETED")]
    BY <1>5 DEF J!ExecuteDueJobs
  <2>2. \A i \in Job : \/ jobs'[i] = jobs[i]
                      \/ /\ J!Due(i)
                         /\ \E result \in {"RUNNING", "COMPLETED", "FAILED"} :
                               jobs'[i] = J!Ran(i, result)
    BY <2>1
  <2>3. jobs' = [i \in Job |-> jobs'[i]]
    BY <2>1
  <2> QED BY <1>4, <2>1, <2>2, <2>3
<1>6. ASSUME NEW p \in Job, NEW before \in SUBSET Job, NEW failing \in SUBSET Job,
             J!ExecuteUntilPanic(p, before, failing)
      PROVE  /\ now' \in 1 .. MaxTime /\ jobHandlers' \subseteq JobType
             /\ jobs' \in [Job -> J!JobRecord]
             /\ \A i \in Job : JobInOrder(jobs'[i], now')
  <2>1. /\ UNCHANGED <<now, jobHandlers>> /\ J!Due(p) /\ \A i \in before : J!Due(i)
        /\ jobs' = [i \in Job |->
                      CASE i = p -> J!Ran(i, "RUNNING")
                        [] i \in before ->
                             J!Ran(i, IF i \in failing THEN "FAILED" ELSE "COMPLETED")
                        [] OTHER -> jobs[i]]
        /\ p \notin before
    BY <1>6 DEF J!ExecuteUntilPanic
  <2>2. ASSUME NEW i \in Job
        PROVE  \/ jobs'[i] = jobs[i]
               \/ /\ J!Due(i)
                  /\ \E result \in {"RUNNING", "COMPLETED", "FAILED"} : jobs'[i] = J!Ran(i, result)
    <3>1. CASE i = p
      BY <2>1, <3>1
    <3>2. CASE i \in before
      BY <2>1, <3>2
    <3>3. CASE i # p /\ i \notin before
      BY <2>1, <3>3
    <3> QED BY <3>1, <3>2, <3>3
  <2>3. jobs' = [i \in Job |-> jobs'[i]]
    BY <2>1
  <2> QED BY <1>4, <2>1, <2>2, <2>3
<1>7. CASE J!Tick
  <2>1. now' \in 1 .. MaxTime /\ now' >= now /\ UNCHANGED <<jobHandlers, jobs>>
    BY <1>0, <1>7 DEF J!Tick
  <2>2. ASSUME NEW j \in Job PROVE JobInOrder(jobs[j], now')
    <3>1. JobInOrder(jobs[j], now) /\ jobs[j].executedAt \in 0 .. MaxTime
      BY <1>0 DEF J!JobRecord
    <3> QED BY <1>0, <2>1, <3>1 DEF JobInOrder
  <2> QED BY <1>0, <2>1, <2>2
<1>8. CASE UNCHANGED J!vars
  BY <1>0, <1>8 DEF J!vars
<1> QED BY <1>2, <1>3, <1>5, <1>6, <1>7, <1>8 DEF J!Next, J!Scan

\* The invariant contains RunOnceWhenDue.
LEMMA JobsRunOnce == JobInv => RunOnceWhenDue
  BY DEF JobInv, RunOnceWhenDue

\* Scheduler.ExecuteDueJobs alone: one run per job, when it is due.
THEOREM SchedulerRunsOnce == J!Spec => []RunOnceWhenDue
<1>1. J!Init => JobInv
  BY JobsInitially
<1> QED BY <1>1, SchedulerStep, JobsRunOnce, PTL DEF J!Spec

\* The property of the run delivery about ExecuteDueJobs: one run per job, when it is due.
THEOREM RunOnceWhenDueHolds == Spec => []RunOnceWhenDue
<1>1. Init => JobInv
  BY JobsInitially DEF Init
<1>2. JobInv /\ [Next]_vars => JobInv'
  BY SchedulerSees, SchedulerStep
<1> QED BY <1>1, <1>2, JobsRunOnce, PTL DEF Spec

-----------------------------------------------------------------------------
\* Notifications: the sink and the records name one another.

\* What lies in the sink is on record as delivered, for that tenant; a request that may
\* still be sent was never replayed.
SinkInv ==
    /\ N!SinkMatchesRecords
    /\ \A i \in DOMAIN localSinkDeliveries :
          LET n == notifications[localSinkDeliveries[i][1]] IN
          n.status = "DELIVERED" /\ n.tenant = localSinkDeliveries[i][2]
    /\ \A q \in Request :
          LET n == notifications[q] IN
          /\ n.status # "ABSENT" => n.tenant \in Tenant
          /\ n.status = "ABSENT" => n.attempts = 0
          /\ n.status \in {"ABSENT", "RETRYING"} => replays[q] = 0

\* The counts of one record.
Counted(n, done) ==
    /\ n.status = "RETRYING" => n.attempts < MaxAttempts
    /\ n.status = "QUARANTINED" => n.attempts = MaxAttempts + done
    /\ n.attempts <= MaxAttempts + done
    /\ n.status # "ABSENT" => n.tenant \in Tenant
    /\ n.status = "ABSENT" => n.attempts = 0
    /\ n.status \in {"ABSENT", "RETRYING"} => done = 0

\* Nothing sent, nothing in the sink.
LEMMA SinkInitially == N!Init => SinkInv
<1> SUFFICES ASSUME N!Init PROVE SinkInv
  OBVIOUS
<1>1. MaxAttempts \in Nat
  BY DeliveryAssumption DEF N!NotificationSinkAssumption
<1>2. /\ N!NotSent \in N!Notification /\ N!NotSent.status = "ABSENT" /\ N!NotSent.attempts = 0
  BY DEF N!NotSent, N!Notification
<1>3. N!TypeOK
  <2>1. localSinkDeliveries = <<>> /\ <<>> \in Seq(Request \X Tenant)
    BY DEF N!Init
  <2>2. notifications \in [Request -> N!Notification]
    BY <1>2 DEF N!Init
  <2> QED BY <2>1, <2>2 DEF N!Init, N!TypeOK
<1> QED BY <1>1, <1>2, <1>3 DEF N!Init, SinkInv, N!SinkMatchesRecords

\* A record not delivered changes and the sink does not, or it is delivered and the sink
\* gains its entry.
LEMMA RecordStep ==
    ASSUME SinkInv, NEW q \in Request, NEW n \in N!Notification, NEW done \in Nat,
           notifications[q].status # "DELIVERED",
           notifications' = [notifications EXCEPT ![q] = n],
           replays' = [replays EXCEPT ![q] = done],
           Counted(n, done),
           \/ n.status # "DELIVERED" /\ UNCHANGED localSinkDeliveries
           \/ /\ n.status = "DELIVERED"
              /\ localSinkDeliveries' = Append(localSinkDeliveries, <<q, n.tenant>>),
           UNCHANGED simulatedSinkFailure
    PROVE  SinkInv'
<1> DEFINE sink == localSinkDeliveries
<1>0. N!TypeOK /\ N!SinkMatchesRecords
  BY DEF SinkInv, N!SinkMatchesRecords
<1>1. /\ \A x \in Request : notifications'[x] = IF x = q THEN n ELSE notifications[x]
      /\ \A x \in Request : replays'[x] = IF x = q THEN done ELSE replays[x]
  BY <1>0 DEF N!TypeOK
<1>2. sink \in Seq(Request \X Tenant) /\ \A i \in DOMAIN sink : sink[i] \in Request \X Tenant
  BY <1>0 DEF N!TypeOK
<1>3. \A i \in DOMAIN sink : /\ sink[i][1] # q
                             /\ notifications[sink[i][1]].status = "DELIVERED"
                             /\ notifications[sink[i][1]].tenant = sink[i][2]
  BY DEF SinkInv
<1>4. CASE n.status # "DELIVERED" /\ UNCHANGED sink
  <2>1. N!TypeOK'
    BY <1>0, <1>4 DEF N!TypeOK
  <2>2. \A x \in Request : notifications'[x].status = "DELIVERED"
                           <=> \E i \in DOMAIN sink' : sink'[i] = <<x, notifications'[x].tenant>>
    BY <1>0, <1>1, <1>2, <1>3, <1>4 DEF N!SinkMatchesRecords
  <2>3. \A i \in DOMAIN sink' : LET m == notifications'[sink'[i][1]] IN
                                m.status = "DELIVERED" /\ m.tenant = sink'[i][2]
    BY <1>1, <1>2, <1>3, <1>4
  <2> QED BY <1>0, <1>1, <1>4, <2>1, <2>2, <2>3 DEF SinkInv, N!SinkMatchesRecords, Counted
<1>5. CASE n.status = "DELIVERED" /\ sink' = Append(sink, <<q, n.tenant>>)
  <2> DEFINE e == <<q, n.tenant>>
  <2>1. e \in Request \X Tenant
    BY <1>5 DEF Counted
  <2>2. /\ sink' \in Seq(Request \X Tenant) /\ Len(sink) \in Nat
        /\ DOMAIN sink = 1 .. Len(sink) /\ DOMAIN sink' = 1 .. (Len(sink) + 1)
        /\ \A i \in DOMAIN sink : sink'[i] = sink[i]
        /\ sink'[Len(sink) + 1] = e
    BY <1>2, <1>5, <2>1
  <2>3. N!TypeOK'
    BY <1>0, <2>2 DEF N!TypeOK
  <2>4. \A i \in DOMAIN sink' : \/ i \in DOMAIN sink /\ sink'[i] = sink[i]
                                \/ i = Len(sink) + 1 /\ sink'[i] = e
    BY <2>2
  <2>5. \A i, j \in DOMAIN sink' : sink'[i][1] = sink'[j][1] => i = j
    BY <1>0, <1>3, <2>4 DEF N!SinkMatchesRecords
  <2>6. ASSUME NEW x \in Request
        PROVE  notifications'[x].status = "DELIVERED"
               <=> \E i \in DOMAIN sink' : sink'[i] = <<x, notifications'[x].tenant>>
    <3>1. CASE x = q
      <4>1. Len(sink) + 1 \in DOMAIN sink'
        BY <2>2
      <4> QED BY <1>1, <1>5, <2>2, <3>1, <4>1
    <3>2. CASE x # q
      <4>1. \A i \in DOMAIN sink : i \in DOMAIN sink'
        BY <2>2
      <4>2. notifications[x].status = "DELIVERED"
            <=> \E i \in DOMAIN sink : sink[i] = <<x, notifications[x].tenant>>
        BY <1>0 DEF N!SinkMatchesRecords
      <4>3. notifications'[x] = notifications[x]
        BY <1>1, <3>2
      <4>4. \A i \in DOMAIN sink' : sink'[i] = <<x, notifications[x].tenant>>
                                  => i \in DOMAIN sink /\ sink'[i] = sink[i]
        BY <2>4, <3>2
      <4> HIDE DEF sink
      <4> QED BY <2>2, <4>1, <4>2, <4>3, <4>4
    <3> QED BY <3>1, <3>2
  <2>7. \A i \in DOMAIN sink' : LET m == notifications'[sink'[i][1]] IN
                                m.status = "DELIVERED" /\ m.tenant = sink'[i][2]
    BY <1>1, <1>2, <1>3, <1>5, <2>4
  <2> QED BY <1>0, <1>1, <2>3, <2>5, <2>6, <2>7 DEF SinkInv, N!SinkMatchesRecords, Counted
<1> QED BY <1>4, <1>5

\* SendNotification, ReplayNotification and the switch keep sink and records together.
LEMMA SinkStep == SinkInv /\ [N!Next]_(N!vars) => SinkInv'
<1> SUFFICES ASSUME SinkInv, [N!Next]_(N!vars) PROVE SinkInv'
  OBVIOUS
<1>0. /\ N!TypeOK /\ MaxAttempts \in Nat \ {0}
      /\ \A q \in Request : /\ notifications[q] \in N!Notification /\ replays[q] \in Nat
                            /\ Counted(notifications[q], replays[q])
  BY DeliveryAssumption DEF SinkInv, N!SinkMatchesRecords, N!TypeOK, Counted,
                            N!NotificationSinkAssumption
<1>1. ASSUME NEW q \in Request, NEW tenant \in Tenant, N!SendNotification(q, tenant)
      PROVE  SinkInv'
  <2> DEFINE m == notifications[q]
             owner == IF m.status = "ABSENT" THEN tenant ELSE m.tenant
             n == N!Attempted(m, tenant)
             failed == [n EXCEPT !.status = N!FailureStatus(n.attempts)]
             sent == [n EXCEPT !.status = "DELIVERED"]
  <2>1. /\ m.status \in {"ABSENT", "RETRYING"} /\ m.attempts \in Nat /\ owner \in Tenant
        /\ m.attempts < MaxAttempts /\ replays[q] = 0
    BY <1>0, <1>1 DEF N!SendNotification, N!Sendable, N!Notification, Counted
  <2>2. /\ n \in N!Notification /\ n.tenant = owner /\ n.attempts = m.attempts + 1
        /\ n.status = m.status
    <3> DEFINE half == [m EXCEPT !.tenant = owner]
    <3>1. /\ half \in N!Notification /\ half.tenant = owner /\ half.attempts = m.attempts
          /\ half.status = m.status
      BY <1>0, <2>1 DEF N!Notification
    <3>2. n = [half EXCEPT !.attempts = @ + 1]
      BY <1>0 DEF N!Attempted, N!Notification
    <3> HIDE DEF half, n, m, owner
    <3> QED BY <2>1, <3>1, <3>2 DEF N!Notification
  <2>3. replays' = [replays EXCEPT ![q] = replays[q]]
    BY <1>0, <1>1 DEF N!SendNotification, N!TypeOK
  <2>4. CASE simulatedSinkFailure
    <3>1. /\ notifications' = [notifications EXCEPT ![q] = failed]
          /\ UNCHANGED <<localSinkDeliveries, simulatedSinkFailure>>
      BY <1>1, <2>4 DEF N!SendNotification
    <3> HIDE DEF n, m, owner
    <3>2. /\ failed \in N!Notification /\ failed.tenant = owner
          /\ failed.attempts = m.attempts + 1
          /\ failed.status = N!FailureStatus(m.attempts + 1)
      BY <2>2 DEF N!Notification, N!FailureStatus
    <3> HIDE DEF failed
    <3>3. Counted(failed, replays[q]) /\ failed.status # "DELIVERED"
      BY <1>0, <2>1, <3>2 DEF Counted, N!FailureStatus
    <3>4. m.status # "DELIVERED"
      BY <2>1
    <3> QED BY <1>0, <2>3, <3>1, <3>2, <3>3, <3>4, RecordStep DEF m
  <2>5. CASE ~simulatedSinkFailure
    <3>1. /\ notifications' = [notifications EXCEPT ![q] = sent]
          /\ localSinkDeliveries' = Append(localSinkDeliveries, <<q, n.tenant>>)
          /\ UNCHANGED simulatedSinkFailure
      BY <1>1, <2>5 DEF N!SendNotification, N!Deliver
    <3> HIDE DEF n, m, owner
    <3>2. /\ sent \in N!Notification /\ sent.tenant = owner /\ sent.tenant = n.tenant
          /\ sent.attempts = m.attempts + 1 /\ sent.status = "DELIVERED"
      BY <2>2 DEF N!Notification
    <3> HIDE DEF sent
    <3>3. Counted(sent, replays[q])
      BY <1>0, <2>1, <3>2 DEF Counted
    <3>4. m.status # "DELIVERED"
      BY <2>1
    <3> QED BY <1>0, <2>3, <3>1, <3>2, <3>3, <3>4, RecordStep DEF m
  <2> QED BY <2>4, <2>5
<1>2. ASSUME NEW q \in Request, NEW tenant \in Tenant, N!ReplayNotification(q, tenant)
      PROVE  SinkInv'
  <2> DEFINE m == notifications[q]
             n == [m EXCEPT !.attempts = @ + 1]
             sent == [n EXCEPT !.status = "DELIVERED"]
  <2>1. /\ m.status = "QUARANTINED" /\ m.attempts \in Nat /\ m.tenant \in Tenant
        /\ m.attempts = MaxAttempts + replays[q]
    BY <1>0, <1>2 DEF N!ReplayNotification, N!Notification, Counted
  <2>2. /\ n \in N!Notification /\ n.tenant = m.tenant /\ n.attempts = m.attempts + 1
        /\ n.status = m.status
    BY <1>0, <2>1 DEF N!Notification
  <2>3. /\ replays' = [replays EXCEPT ![q] = replays[q] + 1] /\ UNCHANGED simulatedSinkFailure
        /\ replays[q] + 1 \in Nat
    BY <1>0, <1>2 DEF N!ReplayNotification, N!TypeOK
  <2>4. CASE simulatedSinkFailure
    <3>1. notifications' = [notifications EXCEPT ![q] = n] /\ UNCHANGED localSinkDeliveries
      BY <1>2, <2>4 DEF N!ReplayNotification
    <3>2. m.status # "DELIVERED"
      BY <2>1
    <3> HIDE DEF n, m
    <3>3. Counted(n, replays[q] + 1) /\ n.status # "DELIVERED"
      BY <1>0, <2>1, <2>2 DEF Counted
    <3> QED BY <1>0, <2>2, <2>3, <3>1, <3>2, <3>3, RecordStep DEF m
  <2>5. CASE ~simulatedSinkFailure
    <3>1. /\ notifications' = [notifications EXCEPT ![q] = sent]
          /\ localSinkDeliveries' = Append(localSinkDeliveries, <<q, n.tenant>>)
      BY <1>2, <2>5 DEF N!ReplayNotification, N!Deliver
    <3>2. m.status # "DELIVERED"
      BY <2>1
    <3> HIDE DEF n, m
    <3>3. /\ sent \in N!Notification /\ sent.tenant = n.tenant
          /\ sent.attempts = n.attempts /\ sent.status = "DELIVERED"
      BY <2>2 DEF N!Notification
    <3> HIDE DEF sent
    <3>4. Counted(sent, replays[q] + 1)
      BY <1>0, <2>1, <2>2, <3>3 DEF Counted
    <3> QED BY <1>0, <2>3, <3>1, <3>2, <3>3, <3>4, RecordStep DEF m
  <2> QED BY <2>4, <2>5
<1>3. ASSUME NEW failing \in BOOLEAN, N!SetLocalSinkFailure(failing)
      PROVE  SinkInv'
  BY <1>0, <1>3 DEF N!SetLocalSinkFailure, SinkInv, N!SinkMatchesRecords, N!TypeOK
<1>4. CASE UNCHANGED N!vars
  BY <1>0, <1>4 DEF N!vars, SinkInv, N!SinkMatchesRecords, N!TypeOK
<1> QED BY <1>1, <1>2, <1>3, <1>4 DEF N!Next

\* The invariant contains SinkMatchesRecords.
LEMMA SinkAgrees == SinkInv => SinkMatchesRecords
  BY DEF SinkInv, SinkMatchesRecords

\* Scheduler.SendNotification and ReplayNotification alone: sink and records agree.
THEOREM NotificationsReachOnce == N!Spec => []SinkMatchesRecords
<1>1. N!Init => SinkInv
  BY SinkInitially
<1> QED BY <1>1, SinkStep, SinkAgrees, PTL DEF N!Spec

\* The property of the run delivery about notifications: each reaches the sink once, for
\* its owner, within the attempts that sends and replays account for.
THEOREM SinkMatchesRecordsHolds == Spec => []SinkMatchesRecords
<1>1. Init => SinkInv
  BY SinkInitially DEF Init
<1>2. SinkInv /\ [Next]_vars => SinkInv'
  BY SinkSees, SinkStep
<1> QED BY <1>1, <1>2, SinkAgrees, PTL DEF Spec
=============================================================================
