SPECIFICATION Spec
CONSTANTS
    None = None
    Msg = {m1, m2}
    Admin = {a1}
    Workers = 2
    MaxFailures = 2
    MaxRetries = 1
    MaxCrashes = 1
INVARIANTS
    TypeOK
    FailsBounded
PROPERTIES
    OffStaysOff
    DisabledForCause
    DeliveriesEnd
CHECK_DEADLOCK FALSE
