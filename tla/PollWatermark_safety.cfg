SPECIFICATION Spec
CONSTANTS
    None = None
    c1 = c1
    c2 = c2
    Providers = {"gitlab", "github", "gitflic", "bitbucket"}
    Last = 3
    Run <- MCRun
    RunsOf <- MCRunsOf
    PageSize <- TwoPerPage
    Cycle = {c1, c2}
    MaxRollbacks = 1
    MaxFaults = 1
    MaxExpiries = 0
SYMMETRY Cycles
INVARIANTS
    TypeOK
    WatermarkBacked
    NoReplayById
PROPERTIES
    IntakeRefined
