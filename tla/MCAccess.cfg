CONSTANTS
    None = None
    Blank = Blank
    Tenant = {t1}
    Subject = {u1, u2}
    Moment = {0, 1, 8}
    Token = {k1}
    TTL = {2}
    MaxEvents = 3
    Condition = {c1}
    Sponsor = {p, q}
    Session = {e1}
    Span <- Spans
    Extension = {0, 7, 8}
    MaxLedger = 4
    AssignmentID = {a1, a2}
    Target <- Targets
    Scope <- Scopes
    Window <- Windows
    Direct <- DirectGrants
    HeldRole = {"INSPECTOR", "AUDITOR"}
    DelegationID = {d1}
    Claim <- Claims
    Term <- Terms
    Project = {"p1", "p2"}
    Within <- Withins
    Engagement = {a1, a2}
    GivenRole = {"PROJECT_MANAGER", "CONTRACTOR", "AUDITOR"}
    Deed = {x1}
    Post <- Posts
    Viewer <- Viewers
    Filter <- Filters
    Attribute = {y1, y2}
    MaxCalls = 4
    LabelTenant = {"t1", "t2"}
    LabelSite = {"s1", "s2"}
    ObjectID = {"obj"}
    OtherID = {"odd"}
    Label <- Labels
    Context <- Callers
    MaxScans = 1
    Proposed = {"usr_1", "usr_ext_1"}
    Internal = {"usr_1"}
    Stay <- Stays
    ScopeSet <- ScopeSets
    Visited <- VisitedTargets
SPECIFICATION Spec
INVARIANTS
    RevokedStaysOut
    StaleAfterChange
    AccessFollowsLedger
    DelegationAmplifiesNothing
    AccessStaysInProject
    VisibilityNested
    RefusalsTellNothing
    ExternalsBounded
CHECK_DEADLOCK FALSE
SYMMETRY Symmetry
