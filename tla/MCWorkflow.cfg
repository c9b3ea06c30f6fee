SPECIFICATION Spec
CONSTANTS
    None = None
    Timer = Timer
    Nobody = Nobody
    Idle = Idle
    a1 = a1
    f1 = f1
    t1 = t1
    insp = insp
    sup = sup
    bot = bot
    padded = padded
    Focus = {"workflow", "actions"}
    Workflow = {w1, w2}
    Client = {c1, c2}
    Request = {q1, q2, q3, q4}
    MaxAudit = 5
    Action = {a1}
    Staff = {p1, p2}
    Evidence = {e1, e2}
    Needed <- OneEach
    DueDate <- OneEach
    MaxTime = 2
    MaxHistory = 8
    Ask = {k1, k2}
    Dates = {1, 2, 3}
    MaxChanges = 5
    Order = {o1}
    ActionOf <- TheAction
    Inspector <- TheInspector
    Person = {insp, sup}
    DueDates = {1}
    MaxVersion = 3
    Spelling = {insp, sup}
    TrimSpace <- Trimmed
    Supervisor = {sup}
    Closer = {sup}
    Auditor = {sup}
    Rules = {"DIFFERENT_INSPECTOR_REQUIRED", "THIRD_PARTY_REQUIRED"}
    Required = 1
    Finding = {f1, f2}
    Rule = {r1}
    AI = {}
    RuleSet <- RuleDefinitions
    Severities = {2, 4}
    MaxRules = 1
    MaxCreates = 3
    Section = {"A", "B"}
    Graded = {"q1", "q2", "q3"}
    SectionOf <- Sections
    MaxPoints <- Points
    Weight <- Weights
    NotScored = {}
    MaxEarned = 1
    Target = {t1}
    CriticalFinding = {f1}
    Question = {"u1"}
    Actor = {sup, bot}
    Bot = {bot}
    Role = {"AI", "SUPERVISOR", "REVIEWER"}
    AIRole = {"AI"}
    SupervisorRole = {"SUPERVISOR"}
    NewRule = {"OPEN"}
    Rebound <- Rebindings
    Query <- Queries
    MaxLedger = 3
SYMMETRY WorkflowSymmetry
INVARIANTS
    AuditReplays
    HistoryReplays
PROPERTY AppliedToWhatWasRead
CHECK_DEADLOCK FALSE
