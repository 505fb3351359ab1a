SPECIFICATION Spec
CONSTANTS
    e1 = e1
    e2 = e2
    e3 = e3
    x1 = x1
    x2 = x2
    r1 = r1
    r2 = r2
    r3 = r3
    l1 = l1
    l2 = l2
    None = None
    t1 = t1
    t2 = t2
    p1 = p1
    Event = {e1}
    Ingest = {}
    Run = {r1}
    Lookup = {l1}
    Task = {t1, t2}
    Poller = {p1}
    RunOf <- MCRunOf
    LookupOf <- MCLookupOf
    MaxRetries = 1
    MaxDeaths = 1
    MaxRollbacks = 1
    MaxExpiries = 1
    PostTries = 1
PROPERTIES
    NoSilentLoss
    MessagesSettle
CHECK_DEADLOCK FALSE
