SPECIFICATION Spec
CONSTANTS
    Tx = {t1, t2, t3}
    EventID = {e1, e2}
    Tenant = {a, b}
    None = None
INVARIANTS
    UniqueEvents
    OnlyCommittedVisible
    OutboxInv
PROPERTY ImplementsAtomicLog
CHECK_DEADLOCK FALSE
