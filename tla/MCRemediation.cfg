SPECIFICATION Spec
CONSTANTS
    None = None
    Timer = Timer
    Nobody = Nobody
    Idle = Idle
    a1 = a1
    f1 = f1
    t1 = t1
    insp = insp
    sup = sup
    bot = bot
    padded = padded
    Focus = {"governance", "reinspection"}
    Workflow = {w1, w2}
    Client = {c1, c2}
    Request = {q1}
    MaxAudit = 5
    Action = {a1}
    Staff = {p1, p2, p3}
    Evidence = {e1}
    Needed <- OneEach
    DueDate <- OneEach
    MaxTime = 2
    MaxHistory = 5
    Ask = {k1, k2}
    Dates = {1, 2, 3}
    MaxChanges = 5
    Order = {o1}
    ActionOf <- TheAction
    Inspector <- TheInspector
    Person = {insp, sup}
    DueDates = {1}
    MaxVersion = 3
    Spelling = {insp, sup, padded}
    TrimSpace <- Trimmed
    Supervisor = {sup}
    Closer = {sup}
    Auditor = {insp}
    Rules = {"THIRD_PARTY_REQUIRED"}
    Required = 1
    Finding = {f1, f2}
    Rule = {r1}
    AI = {}
    RuleSet <- RuleDefinitions
    Severities = {2, 4}
    MaxRules = 1
    MaxCreates = 3
    Section = {"A", "B"}
    Graded = {"q1", "q2", "q3"}
    SectionOf <- Sections
    MaxPoints <- Points
    Weight <- Weights
    NotScored = {}
    MaxEarned = 1
    Target = {t1}
    CriticalFinding = {f1}
    Question = {"u1"}
    Actor = {sup, bot}
    Bot = {bot}
    Role = {"AI", "SUPERVISOR", "REVIEWER"}
    AIRole = {"AI"}
    SupervisorRole = {"SUPERVISOR"}
    NewRule = {"OPEN"}
    Rebound <- Rebindings
    Query <- Queries
    MaxLedger = 3
SYMMETRY RemediationSymmetry
INVARIANTS
    OneActiveCustodian
    VerifiedOnAccepted
PROPERTY DueDateIsApproved
CHECK_DEADLOCK FALSE
