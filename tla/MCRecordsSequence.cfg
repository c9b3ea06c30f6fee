SPECIFICATION Spec
CONSTANTS
    None = None
    Record = {"r1"}
    Version = {"v1", "v2"}
    Digest = {"d1", "d2"}
    Hold = {"h1"}
    Period = {1}
    MaxTime = 2
    MaxAudit = 3
    MaxCrashes = 1
    Object = {"o1", "o2", "o3"}
    Evidence = {"e1", "e2"}
    Payload <- Payloads
    Length <- Lengths
    MaxEvents = 4
    Template = {"t1", "t2"}
    Content = {"c1", "c2"}
    Checklist = {"i1"}
    Snapshot = {"s1"}
    Chain = {"s1", "s2"}
    MaxVersion = 3
    Field = {"name", "score", "token"}
    Prohibited = {"token"}
    Allowlist = {{"name"}, {"name", "score"}}
    Subject = {"ann"}
    MaxExports = 1
    Role = {"AUDITOR", "OPERATOR"}
    AuthorizedRole = {"AUDITOR"}
    MaxWindow = 2
    ApprovalAges = {1}
    MaxDays = 4
    MaxLinks = 1
CHECK_DEADLOCK FALSE
INVARIANT SequenceIncreases
