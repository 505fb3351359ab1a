SPECIFICATION Spec
CONSTANTS
    None = None
    c1 = c1
    Providers = {"bitbucket"}
    Last = 2
    Run <- MCRun
    RunsOf <- MCRunsOf
    PageSize <- TwoPerPage
    Cycle = {c1}
    MaxRollbacks = 0
    MaxFaults = 0
    MaxExpiries = 0
INVARIANTS
    NoReplay
