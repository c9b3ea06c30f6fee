CONSTANTS
    None = None
    Blank = Blank
    Tenant = {t1}
    User = {n1, n2}
    TemplateID = {tp}
    InstanceID = {i1}
    EvidenceID = {e1}
    ActionID = {a1}
    Version = {v1}
    Export = {m1, m2}
    MaxWrites = 4
    CompanyID = {c1}
    BusinessUnitID = {b1}
    ProjectID = {n1, n2}
    SiteID = {m1, m2}
    AreaID = {r1}
    SponsoredID = {sp}
    MaxHistory = 7
    PartyID = {y1}
    ParticipationID = {m1, m2, g3}
    Sponsor = {n1, n2}
    Works = {j1, j2}
    Place = {}
    MaxEvents = 1
    Window <- Windows
    Moment = {0, 2}
    IdemKey = {n1, n2}
    Digest = {m1, m2}
    Resource = {o1, o2, o3}
    ExternalID = {m1, m2}
    InternalID = {w1, w2}
    LookupToken = {f1, f2}
    Contract = {m1, m2}
    SemanticVersion <- SemanticVersions
    SchemaDigest = {"d"}
    Direction = {"BACKWARD", "BREAKING"}
    MaxEntries = 3
    FlagID = {q1}
    Audience = {"x"}
    Role = {"r"}
    Percentage = {0, 1, 50, 100, 101}
SPECIFICATION Spec
SYMMETRY Symmetry
INVARIANT TrailMonotonic
CHECK_DEADLOCK FALSE
