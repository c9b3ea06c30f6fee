-------------------------- MODULE NotificationSink --------------------------
(***************************************************************************)
(* Local notification delivery with bounded retry, quarantine and replay:  *)
(* the notification half of                                                *)
(* modules/events-outbox-jobs/scheduler_notifications.go.                  *)
(*                                                                         *)
(* Several senders may use one request ID; the record belongs to whoever   *)
(* came first, and later sends drive that record on.  Each method is one   *)
(* step under Scheduler.mu.                                                *)
(***************************************************************************)
EXTENDS Naturals, Sequences

CONSTANTS
    Request, Tenant,
    None,           \* the tenant of a request never sent
    MaxAttempts,    \* SchedulerConfig.MaxNotificationAttempts
    MaxReplays      \* bound on the attempts made by ReplayNotification

NotificationSinkAssumption ==
    MaxAttempts \in Nat \ {0} /\ MaxReplays \in Nat /\ None \notin Tenant

VARIABLES
    notifications,         \* Scheduler.notifications
    localSinkDeliveries,   \* Scheduler.localSinkDeliveries: <<request, tenant>>
    simulatedSinkFailure,  \* Scheduler.simulatedSinkFailure # nil
    replays                \* observer: [Request -> replay attempts]

vars == <<notifications, localSinkDeliveries, simulatedSinkFailure, replays>>

Notification == [status : {"ABSENT", "DELIVERED", "RETRYING", "QUARANTINED"},
                 tenant : Tenant \cup {None}, attempts : Nat]

NotSent == [status |-> "ABSENT", tenant |-> None, attempts |-> 0]

TypeOK ==
    /\ notifications \in [Request -> Notification]
    /\ localSinkDeliveries \in Seq(Request \X Tenant)
    /\ simulatedSinkFailure \in BOOLEAN
    /\ replays \in [Request -> Nat]

Init ==
    /\ notifications = [q \in Request |-> NotSent]
    /\ localSinkDeliveries = <<>>
    /\ simulatedSinkFailure = FALSE
    /\ replays = [q \in Request |-> 0]

-----------------------------------------------------------------------------
\* Deliberate faults, used only to show that the properties can fail.
Sendable_Delivered(n) == n.status # "QUARANTINED"
FailureStatus_OffByOne(attempts) == IF attempts > MaxAttempts THEN "QUARANTINED" ELSE "RETRYING"
-----------------------------------------------------------------------------

\* SendNotification refuses delivered and quarantined requests.
Sendable(n) == n.status \notin {"DELIVERED", "QUARANTINED"}

\* One more attempt on the record; a first send creates it for the sender's tenant.
Attempted(n, tenant) ==
    [n EXCEPT !.tenant = IF n.status = "ABSENT" THEN tenant ELSE @, !.attempts = @ + 1]

\* The status of a record whose delivery failed.
FailureStatus(attempts) == IF attempts >= MaxAttempts THEN "QUARANTINED" ELSE "RETRYING"

\* ReplayNotification and GetNotification answer only the record's tenant.
OwnedBy(n, tenant) == n.status # "ABSENT" /\ n.tenant = tenant

\* The record n of request q reaches the local sink.
Deliver(q, n) ==
    /\ notifications' = [notifications EXCEPT ![q] = [n EXCEPT !.status = "DELIVERED"]]
    /\ localSinkDeliveries' = Append(localSinkDeliveries, <<q, n.tenant>>)

\* Scheduler.SendNotification.
SendNotification(q, tenant) ==
    LET n == Attempted(notifications[q], tenant) IN
    /\ Sendable(notifications[q])
    /\ IF simulatedSinkFailure
       THEN /\ notifications' =
                  [notifications EXCEPT ![q] = [n EXCEPT !.status = FailureStatus(n.attempts)]]
            /\ UNCHANGED localSinkDeliveries
       ELSE Deliver(q, n)
    /\ UNCHANGED <<simulatedSinkFailure, replays>>

\* Scheduler.ReplayNotification by an identified caller of tenant.
ReplayNotification(q, tenant) ==
    LET n == [notifications[q] EXCEPT !.attempts = @ + 1] IN
    /\ replays[q] < MaxReplays
    /\ OwnedBy(notifications[q], tenant)
    /\ notifications[q].status = "QUARANTINED"
    /\ IF simulatedSinkFailure
       THEN /\ notifications' = [notifications EXCEPT ![q] = n]
            /\ UNCHANGED localSinkDeliveries
       ELSE Deliver(q, n)
    /\ replays' = [replays EXCEPT ![q] = @ + 1]
    /\ UNCHANGED simulatedSinkFailure

\* Scheduler.SetLocalSinkFailure.
SetLocalSinkFailure(failing) ==
    /\ simulatedSinkFailure' = failing
    /\ UNCHANGED <<notifications, localSinkDeliveries, replays>>

Next ==
    \/ \E q \in Request, tenant \in Tenant : SendNotification(q, tenant)
    \/ \E q \in Request, tenant \in Tenant : ReplayNotification(q, tenant)
    \/ \E failing \in BOOLEAN : SetLocalSinkFailure(failing)

Spec == Init /\ [][Next]_vars

-----------------------------------------------------------------------------
\* The local sink receives a request at most once, however it is resent and
\* replayed, and it has received exactly the requests marked DELIVERED, for the
\* tenant the record belongs to.  Retrying records have attempts left, and only
\* replays, counted one by one, go past the limit.
SinkMatchesRecords ==
    /\ TypeOK
    /\ \A i, j \in DOMAIN localSinkDeliveries :
          localSinkDeliveries[i][1] = localSinkDeliveries[j][1] => i = j
    /\ \A q \in Request :
          notifications[q].status = "DELIVERED"
          <=> \E i \in DOMAIN localSinkDeliveries :
                 localSinkDeliveries[i] = <<q, notifications[q].tenant>>
    /\ \A q \in Request :
          LET n == notifications[q] IN
          /\ n.status = "RETRYING" => n.attempts < MaxAttempts
          /\ n.status = "QUARANTINED" => n.attempts = MaxAttempts + replays[q]
          /\ n.attempts <= MaxAttempts + replays[q]
=============================================================================
