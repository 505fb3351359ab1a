SPECIFICATION Spec
CONSTANTS
    e1 = e1
    e2 = e2
    e3 = e3
    x1 = x1
    x2 = x2
    r1 = r1
    r2 = r2
    r3 = r3
    l1 = l1
    l2 = l2
    None = None
    t1 = t1
    t2 = t2
    t3 = t3
    p1 = p1
    p2 = p2
    Event = {e1, e3, x1}
    Ingest = {x1}
    Run = {r1, r2, r3}
    Lookup = {l1, l2}
    Task = {t1, t2, t3}
    Poller = {p1, p2}
    RunOf <- MCRunOf
    LookupOf <- MCLookupOf
    MaxRetries = 0
    MaxDeaths = 0
    MaxRollbacks = 1
    MaxExpiries = 1
    PostTries = 1
SYMMETRY Messages
VIEW WithoutAlerts
INVARIANTS
    TypeOK
    RefBacked
    ReusedRowStays
    DeadlocksArePairs
PROPERTIES
    RefSurvives
    IntakeRefined
    LedgerRefined
CHECK_DEADLOCK FALSE
