SPECIFICATION Spec
CONSTANTS
    c1 = c1
    e1 = e1
    e2 = e2
    ten_a = ten_a
    ten_b = ten_b
    None = None
    Consumer = {c1}
    Event = {e1, e2}
    Tenant = {ten_a, ten_b}
    EventTenant <- TenantOfEvent
    Limits = {1, 2}
    MaxCalls = 4
    MaxCrashes = 1
    Job = {"j1", "j2"}
    JobType = {"report", "purge"}
    MaxTime = 3
    Panics = TRUE
    CallerTimes = {0, 2, 3}
    Request = {"q1", "q2"}
    MaxAttempts = 2
    MaxReplays = 2
INVARIANTS
    DeliveryAccounted
    RunOnceWhenDue
    SinkMatchesRecords
PROPERTIES
    QuarantineLeftByReplay
    EveryJobTakenUp
