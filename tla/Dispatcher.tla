----------------------------- MODULE Dispatcher -----------------------------
(***************************************************************************)
(* Event dispatch, bounded retry, quarantine and replay:                   *)
(* modules/events-outbox-jobs/event_dispatcher.go.                         *)
(*                                                                         *)
(* Every method runs under Dispatcher.mu, the consumer's handler included, *)
(* so a call is one step; the handler's outcome is the environment's.      *)
(* Records live in memory: ExportState copies them out, a crash discards   *)
(* them, RestoreState writes a copy, however old, over what is there.      *)
(* An event ID belongs to one tenant (the outbox publishes an ID once), and *)
(* Replay's caller passes the envelope of the event it names: the code     *)
(* compares neither.                                                       *)
(***************************************************************************)
EXTENDS Naturals

CONSTANTS
    Consumer, Event, Tenant,
    EventTenant,   \* [Event -> Tenant]: EventEnvelope.TenantID
    None,          \* no tenant binding
    Limits,        \* values of DispatcherConfig.MaxAttempts in use
    MaxCalls,      \* bound on handler invocations
    MaxCrashes     \* bound on crashes

DispatcherAssumption ==
    /\ EventTenant \in [Event -> Tenant] /\ None \notin Tenant
    /\ Limits \subseteq Nat \ {0}

VARIABLES
    handlers,         \* Dispatcher.handlers: the registered consumers
    consumerTenants,  \* Dispatcher.consumerTenants
    maxAttempts,      \* Dispatcher.maxAttempts
    records,          \* Dispatcher.records: [Key -> Record]
    exported,         \* the last ExportState copy, kept outside the process
    calls,            \* observer: handler invocations so far
    accepted,         \* observer: [Key -> handler runs that returned nil]
    panics,           \* observer: [Key -> handler runs that panicked]
    lost,             \* observer: keys whose delivered record was discarded
    crashes           \* crashes so far

vars == <<handlers, consumerTenants, maxAttempts, records, exported, calls,
          accepted, panics, lost, crashes>>
observers == <<calls, accepted, panics, lost, crashes>>

Key == Consumer \X Event

\* What a handler does: returns nil or an error, or panics.
Outcomes == {"ok", "fail", "panic"}

\* DeliveryRecord; quarantinedAt says whether the timestamp is set.  "ABSENT" is
\* a key with no record.
Record == [status : {"ABSENT", "PENDING", "DELIVERED", "RETRYING", "QUARANTINED"},
           tenant : Tenant \cup {None}, attempts : Nat, max : Nat,
           replayed : Nat, quarantinedAt : BOOLEAN]

NoRecord == [status |-> "ABSENT", tenant |-> None, attempts |-> 0, max |-> 0,
             replayed |-> 0, quarantinedAt |-> FALSE]

TypeOK ==
    /\ handlers \subseteq Consumer
    /\ consumerTenants \in [Consumer -> Tenant \cup {None}]
    /\ maxAttempts \in Limits
    /\ records \in [Key -> Record]
    /\ exported \in [Key -> Record]
    /\ calls \in Nat /\ crashes \in Nat
    /\ accepted \in [Key -> Nat] /\ panics \in [Key -> Nat]
    /\ lost \subseteq Key

Init ==
    /\ handlers = {}
    /\ consumerTenants = [c \in Consumer |-> None]
    /\ maxAttempts \in Limits
    /\ records = [k \in Key |-> NoRecord]
    /\ exported = [k \in Key |-> NoRecord]
    /\ calls = 0 /\ crashes = 0
    /\ accepted = [k \in Key |-> 0] /\ panics = [k \in Key |-> 0]
    /\ lost = {}

-----------------------------------------------------------------------------
\* Deliberate faults, used only to show that the properties can fail.
Dispatchable_Delivered(r) == r.status # "QUARANTINED"
Dispatchable_Quarantined(r) == r.status # "DELIVERED"
Exhausted_OffByOne(r) == r.attempts > r.max
RegisterConsumer_Forgives(c, tenant) ==
    /\ handlers' = handlers \cup {c}
    /\ consumerTenants' = IF tenant = None THEN consumerTenants
                          ELSE [consumerTenants EXCEPT ![c] = tenant]
    /\ records' = [k \in Key |-> IF k[1] = c /\ records[k].status = "QUARANTINED"
                                 THEN [records[k] EXCEPT !.status = "RETRYING"]
                                 ELSE records[k]]
    /\ UNCHANGED <<maxAttempts, exported, observers>>
-----------------------------------------------------------------------------

\* Dispatch refuses delivered (ErrAlreadyDelivered) and quarantined records.
Dispatchable(r) == r.status \notin {"DELIVERED", "QUARANTINED"}

\* Replay refuses every record that is not quarantined.
Replayable(r) == r.status = "QUARANTINED"

\* A tenant-bound consumer is only given that tenant's events.
BindingAllows(c, e) == consumerTenants[c] \in {None, EventTenant[e]}

\* The attempt limit of the record, set when it was created.
Exhausted(r) == r.attempts >= r.max

AfterSuccess(r) == [r EXCEPT !.status = "DELIVERED"]

AfterFailure(r) ==
    IF Exhausted(r)
    THEN [r EXCEPT !.status = "QUARANTINED", !.quarantinedAt = TRUE]
    ELSE [r EXCEPT !.status = "RETRYING"]

\* A replay's bookkeeping before the handler runs.
Replayed(r) == [r EXCEPT !.replayed = @ + 1, !.attempts = @ + 1]

\* The handler is called for record k.
Invoke(k, outcome) ==
    /\ calls < MaxCalls
    /\ calls' = calls + 1
    /\ accepted' = [accepted EXCEPT ![k] = @ + (IF outcome = "ok" THEN 1 ELSE 0)]
    /\ panics' = [panics EXCEPT ![k] = @ + (IF outcome = "panic" THEN 1 ELSE 0)]

\* Dispatcher.RegisterConsumer; a blank tenant leaves an earlier binding in place.
RegisterConsumer(c, tenant) ==
    /\ handlers' = handlers \cup {c}
    /\ consumerTenants' = IF tenant = None THEN consumerTenants
                          ELSE [consumerTenants EXCEPT ![c] = tenant]
    /\ UNCHANGED <<maxAttempts, records, exported, observers>>

\* Dispatcher.Dispatch.  A panicking handler leaves the record as it was before
\* the outcome is booked: the attempt counted, the status untouched.
Dispatch(c, e, outcome) ==
    LET k == <<c, e>>
        r == IF records[k].status = "ABSENT"
             THEN [NoRecord EXCEPT !.status = "PENDING", !.max = maxAttempts,
                                   !.tenant = EventTenant[e]]
             ELSE records[k]
        tried == [r EXCEPT !.attempts = @ + 1]
    IN  /\ c \in handlers
        /\ BindingAllows(c, e)
        /\ Dispatchable(r)
        /\ Invoke(k, outcome)
        /\ records' = [records EXCEPT ![k] =
                          CASE outcome = "ok"    -> AfterSuccess(tried)
                            [] outcome = "fail"  -> AfterFailure(tried)
                            [] outcome = "panic" -> tried]
        /\ UNCHANGED <<handlers, consumerTenants, maxAttempts, exported, lost, crashes>>

\* Dispatcher.Replay; a consumer's tenant binding is not consulted.
Replay(c, e, caller, outcome) ==
    LET k == <<c, e>>
        tried == Replayed(records[k])
    IN  /\ Replayable(records[k])
        /\ caller = records[k].tenant
        /\ c \in handlers
        /\ Invoke(k, outcome)
        /\ records' = [records EXCEPT ![k] =
                          CASE outcome = "ok"    -> AfterSuccess(tried)
                            [] outcome = "fail"  -> [tried EXCEPT
                                                       !.status = "QUARANTINED",
                                                       !.quarantinedAt = TRUE]
                            [] outcome = "panic" -> tried]
        /\ UNCHANGED <<handlers, consumerTenants, maxAttempts, exported, lost, crashes>>

\* Dispatcher.ExportState, kept by the caller.
ExportState ==
    /\ exported' = records
    /\ UNCHANGED <<handlers, consumerTenants, maxAttempts, records, observers>>

\* Keys delivered now and not in the records that replace the present ones.
Forgotten(new) ==
    {k \in Key : records[k].status = "DELIVERED" /\ new[k].status # "DELIVERED"}

\* Dispatcher.RestoreState: exported records replace those in memory, key by key.
RestoreState ==
    LET new == [k \in Key |-> IF exported[k].status = "ABSENT" THEN records[k]
                              ELSE exported[k]]
    IN  /\ records' = new
        /\ lost' = lost \cup Forgotten(new)
        /\ UNCHANGED <<handlers, consumerTenants, maxAttempts, exported, calls,
                       accepted, panics, crashes>>

\* The process dies and NewDispatcher starts empty, perhaps with a new limit.
Crash(limit) ==
    /\ crashes < MaxCrashes
    /\ crashes' = crashes + 1
    /\ handlers' = {}
    /\ consumerTenants' = [c \in Consumer |-> None]
    /\ maxAttempts' = limit
    /\ records' = [k \in Key |-> NoRecord]
    /\ lost' = lost \cup Forgotten(records')
    /\ UNCHANGED <<exported, calls, accepted, panics>>

Next ==
    \/ \E c \in Consumer, tenant \in Tenant \cup {None} : RegisterConsumer(c, tenant)
    \/ \E c \in Consumer, e \in Event, o \in Outcomes : Dispatch(c, e, o)
    \/ \E c \in Consumer, e \in Event, t \in Tenant, o \in Outcomes : Replay(c, e, t, o)
    \/ ExportState
    \/ RestoreState
    \/ \E limit \in Limits : Crash(limit)

Spec == Init /\ [][Next]_vars

-----------------------------------------------------------------------------
\* A record says DELIVERED only if the consumer accepted that event, and a consumer
\* accepts an event twice only if the record of the first delivery was discarded
\* by a crash or overwritten by an older export (Dispatch's idempotency check):
\* retries, panics, replays and re-registrations never redeliver.
DeliveryAccounted ==
    TypeOK /\
    \A k \in Key :
        /\ records[k].status = "DELIVERED" => accepted[k] > 0
        /\ accepted[k] > 1 => k \in lost

\* The attempt budget, across replays, exports, crashes and changes of the
\* configured limit: below the record's own limit while retrying, and in
\* quarantine the limit plus one attempt per replay, where each panic may cost
\* one attempt more, since it skips the comparison with the limit.
AttemptBudget(rs) ==
    \A k \in Key :
        LET r == rs[k]
            least == r.max + r.replayed
            most == least + panics[k]
        IN  /\ r.status \in {"PENDING", "RETRYING"} => r.attempts < most /\ r.replayed = 0
            /\ r.status = "QUARANTINED" => r.attempts \in least .. most
            /\ r.status = "DELIVERED" => /\ r.attempts \in 1 .. most
                                         /\ r.replayed > 0 => r.attempts >= least

BudgetKept == AttemptBudget(records) /\ AttemptBudget(exported)

\* What may become of a quarantined record in a step: Replay calls the handler and
\* counts itself, and the record leaves quarantine exactly if the consumer accepted;
\* RestoreState writes the exported copy over it; a crash discards it.
MayReplace(k) ==
    \/ /\ calls' = calls + 1
       /\ records'[k].replayed = records[k].replayed + 1
       /\ records'[k].status = IF accepted'[k] = accepted[k] THEN "QUARANTINED"
                               ELSE "DELIVERED"
    \/ /\ UNCHANGED <<handlers, consumerTenants, calls>>
       /\ exported[k].status # "ABSENT" /\ records'[k] = exported[k]
    \/ crashes' = crashes + 1 /\ records'[k] = NoRecord

\* No step touches a quarantined record but Replay, RestoreState and a crash: Dispatch of
\* its event, dispatches of other events, an export and above all the registration of its
\* consumer again, under whatever tenant, leave it as it is.
QuarantineLeftByReplay ==
    [][\A k \in Key :
          records[k].status = "QUARANTINED" /\ records'[k] # records[k] => MayReplace(k)]_vars
=============================================================================
