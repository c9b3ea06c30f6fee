---------------------------- MODULE JobScheduler ----------------------------
(***************************************************************************)
(* Deterministic background jobs: the job half of                          *)
(* modules/events-outbox-jobs/scheduler_notifications.go.                  *)
(*                                                                         *)
(* ExecuteDueJobs holds Scheduler.mu over the whole scan, handlers         *)
(* included, so a scan is one step.  The scan follows Go's random map      *)
(* order; a handler that panics ends it there, so an arbitrary part of the *)
(* due jobs has then been handled.                                         *)
(***************************************************************************)
EXTENDS Naturals

CONSTANTS
    Job, JobType,
    MaxTime,       \* bound on the clock
    Panics,        \* TRUE: a handler may panic
    CallerTimes    \* the ScheduledAt and DueAt values callers pass; 0 is time.Time{}

JobSchedulerAssumption ==
    /\ MaxTime \in Nat \ {0}
    /\ Panics \in BOOLEAN
    /\ CallerTimes \subseteq 0 .. MaxTime

VARIABLES
    now,          \* Scheduler.clock
    jobHandlers,  \* Scheduler.jobHandlers: the job types that have a handler
    jobs          \* Scheduler.jobs

vars == <<now, jobHandlers, jobs>>

States == {"ABSENT", "SCHEDULED", "RUNNING", "COMPLETED", "FAILED"}

\* ScheduledJob; executedAt 0 is the nil pointer.
JobRecord == [state : States, type : JobType \cup {"none"}, scheduledAt : 0 .. MaxTime,
              dueAt : 0 .. MaxTime, executedAt : 0 .. MaxTime, attempts : Nat]

NoJob == [state |-> "ABSENT", type |-> "none", scheduledAt |-> 0, dueAt |-> 0,
          executedAt |-> 0, attempts |-> 0]

TypeOK ==
    /\ now \in 1 .. MaxTime
    /\ jobHandlers \subseteq JobType
    /\ jobs \in [Job -> JobRecord]

Init ==
    /\ now = 1
    /\ jobHandlers = {}
    /\ jobs = [j \in Job |-> NoJob]

-----------------------------------------------------------------------------
\* Deliberate faults, used only to show that the properties can fail.
Due_Inverted(j) == jobs[j].state = "SCHEDULED" /\ now <= jobs[j].dueAt
Ran_WaitsForHandler(j, result) ==
    IF jobs[j].type \in jobHandlers
    THEN [jobs[j] EXCEPT !.state = result, !.attempts = @ + 1, !.executedAt = now]
    ELSE jobs[j]
-----------------------------------------------------------------------------

\* A zero time is replaced by the clock.
OrNow(t) == IF t = 0 THEN now ELSE t

\* The jobs a scan at this moment works on.
Due(j) == jobs[j].state = "SCHEDULED" /\ now >= jobs[j].dueAt

\* Running job j, with the result its handler returned.
Ran(j, result) ==
    IF jobs[j].type \in jobHandlers
    THEN [jobs[j] EXCEPT !.state = result, !.attempts = @ + 1, !.executedAt = now]
    ELSE [jobs[j] EXCEPT !.state = "FAILED"]

\* Scheduler.RegisterJobHandler.
RegisterJobHandler(type) ==
    /\ jobHandlers' = jobHandlers \cup {type}
    /\ UNCHANGED <<now, jobs>>

\* Scheduler.ScheduleJob: the skew check compares the caller's own values, before
\* either is defaulted.
ScheduleJob(j, type, scheduledAt, dueAt) ==
    /\ jobs[j].state = "ABSENT"
    /\ dueAt >= scheduledAt
    /\ jobs' = [jobs EXCEPT ![j] =
                   [NoJob EXCEPT !.state = "SCHEDULED", !.type = type,
                                 !.scheduledAt = OrNow(scheduledAt),
                                 !.dueAt = OrNow(dueAt)]]
    /\ UNCHANGED <<now, jobHandlers>>

\* Scheduler.ExecuteDueJobs, every handler returning: failing is the set of jobs
\* whose handler returned an error.
ExecuteDueJobs(failing) ==
    LET due == {j \in Job : Due(j)} IN
    /\ due # {}
    /\ failing \subseteq due
    /\ jobs' = [j \in Job |->
                  IF j \notin due THEN jobs[j]
                  ELSE Ran(j, IF j \in failing THEN "FAILED" ELSE "COMPLETED")]
    /\ UNCHANGED <<now, jobHandlers>>

\* Scheduler.ExecuteDueJobs, the handler of job p panicking after the scan has
\* handled the jobs in before.  The deferred unlock runs; p stays RUNNING.
ExecuteUntilPanic(p, before, failing) ==
    LET due == {j \in Job : Due(j)} IN
    /\ Panics
    /\ p \in due /\ jobs[p].type \in jobHandlers
    /\ before \subseteq due \ {p} /\ failing \subseteq before
    /\ jobs' = [j \in Job |->
                  CASE j = p -> Ran(j, "RUNNING")
                    [] j \in before -> Ran(j, IF j \in failing THEN "FAILED" ELSE "COMPLETED")
                    [] OTHER -> jobs[j]]
    /\ UNCHANGED <<now, jobHandlers>>

\* The clock advances (environment).
Tick ==
    /\ now < MaxTime
    /\ now' = now + 1
    /\ UNCHANGED <<jobHandlers, jobs>>

Scan ==
    \/ \E failing \in SUBSET Job : ExecuteDueJobs(failing)
    \/ \E p \in Job, before, failing \in SUBSET Job : ExecuteUntilPanic(p, before, failing)

Next ==
    \/ \E type \in JobType : RegisterJobHandler(type)
    \/ \E j \in Job, type \in JobType, s, d \in CallerTimes : ScheduleJob(j, type, s, d)
    \/ Scan
    \/ Tick

Spec == Init /\ [][Next]_vars

\* The clock runs and somebody keeps calling ExecuteDueJobs: the package starts no
\* goroutine of its own, so this is an obligation on its caller.
FairSpec == Spec /\ WF_vars(Tick) /\ WF_vars(Scan)

-----------------------------------------------------------------------------
\* ExecuteDueJobs runs a handler at most once per job and never before DueAt.  A
\* job without an execution time was never handed to a handler: it failed for want
\* of one.
RunOnceWhenDue ==
    TypeOK /\
    \A j \in Job :
        LET r == jobs[j] IN
        /\ r.attempts <= 1
        /\ r.attempts = 1 <=> r.executedAt # 0
        /\ r.executedAt # 0 => r.executedAt >= r.dueAt /\ r.executedAt <= now
        /\ r.state \in {"RUNNING", "COMPLETED"} => r.attempts = 1

\* Every scheduled job is eventually taken up by a scan, handlers of other jobs
\* panicking or not: a poison job costs the others at most one scan.
EveryJobTakenUp ==
    \A j \in Job : (jobs[j].state = "SCHEDULED") ~> (jobs[j].state # "SCHEDULED")
=============================================================================
