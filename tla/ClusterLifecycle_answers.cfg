SPECIFICATION Spec
CONSTANTS
    None = None
    e1 = e1
    e2 = e2
    t1 = t1
    t2 = t2
    t3 = t3
    u1 = u1
    low = low
    high = high
    Task = {t1, t3}
    Event = {e1, e2}
    EventOf <- MCEventOf
    User = {u1}
    Severity = {low, high}
    TTL = 1
    MaxTime = 2
PROPERTIES
    AnswerSticks
CHECK_DEADLOCK FALSE
