----------------------------- MODULE MCDelivery -----------------------------
(***************************************************************************)
(* Small instances of the delivery services of modules/events-outbox-jobs: *)
(* Dispatcher, JobScheduler and NotificationSink.  They share no state (the *)
(* dispatcher is an object of its own; jobs and notifications are separate *)
(* maps of Scheduler), so each is explored with the others at rest.        *)
(*                                                                         *)
(* Dispatcher: one consumer that may be rebound, two events of two tenants.*)
(* Jobs: two of two types, so that one may lack a handler while the other's*)
(* panics.  Notifications: two requests contended for by two tenants.      *)
(***************************************************************************)
EXTENDS Naturals, Sequences

CONSTANTS c1, e1, e2, ten_a, ten_b, None,
          Consumer, Event, Tenant, EventTenant, Limits, MaxCalls, MaxCrashes,
          Job, JobType, MaxTime, Panics, CallerTimes,
          Request, MaxAttempts, MaxReplays

\* The value of EventTenant in the run.
TenantOfEvent == [e \in Event |-> IF e = e1 THEN ten_a ELSE ten_b]

VARIABLES handlers, consumerTenants, maxAttempts, records, exported, calls, accepted,
          panics, lost, crashes,
          now, jobHandlers, jobs,
          notifications, localSinkDeliveries, simulatedSinkFailure, replays

D == INSTANCE Dispatcher
J == INSTANCE JobScheduler
N == INSTANCE NotificationSink

ASSUME DeliveryAssumption ==
    D!DispatcherAssumption /\ J!JobSchedulerAssumption /\ N!NotificationSinkAssumption

dVars == <<handlers, consumerTenants, maxAttempts, records, exported, calls, accepted,
           panics, lost, crashes>>
jVars == <<now, jobHandlers, jobs>>
nVars == <<notifications, localSinkDeliveries, simulatedSinkFailure, replays>>
vars == <<dVars, jVars, nVars>>

Init == D!Init /\ J!Init /\ N!Init

Next ==
    \/ J!Init /\ N!Init /\ D!Next /\ UNCHANGED <<jVars, nVars>>
    \/ D!Init /\ N!Init /\ J!Next /\ UNCHANGED <<dVars, nVars>>
    \/ D!Init /\ J!Init /\ N!Next /\ UNCHANGED <<dVars, jVars>>

\* A step of the scheduler, the others at rest.
Alone(step) == D!Init /\ N!Init /\ step /\ UNCHANGED <<dVars, nVars>>

\* The clock runs and somebody keeps calling ExecuteDueJobs (JobScheduler!FairSpec).
Spec == Init /\ [][Next]_vars /\ WF_vars(Alone(J!Tick)) /\ WF_vars(Alone(J!Scan))

\* Dispatch and Replay: delivered means accepted, and accepted once unless the record of
\* it was lost; the attempt budget is kept across crashes and restores.
DeliveryAccounted == D!DeliveryAccounted /\ D!BudgetKept

\* A quarantined record is changed by Replay, RestoreState and a crash only, and a replay
\* takes it out of quarantine exactly if the consumer accepts: RegisterConsumer never does.
QuarantineLeftByReplay == D!QuarantineLeftByReplay

\* ExecuteDueJobs runs a handler at most once per job, and not before it is due.
RunOnceWhenDue == J!RunOnceWhenDue

\* ExecuteDueJobs takes up every scheduled job, panicking handlers or not.
EveryJobTakenUp == J!EveryJobTakenUp

\* SendNotification and ReplayNotification reach the sink once, for the owner, within
\* the attempt budget.
SinkMatchesRecords == N!SinkMatchesRecords
=============================================================================
