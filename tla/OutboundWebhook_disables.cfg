SPECIFICATION Spec
CONSTANTS
    None = None
    Msg = {m1, m2}
    Admin = {}
    Workers = 2
    MaxFailures = 2
    MaxRetries = 1
    MaxCrashes = 1
SYMMETRY Symmetry
INVARIANTS
    AutoDisables
CHECK_DEADLOCK FALSE
