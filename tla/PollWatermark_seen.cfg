SPECIFICATION Spec
CONSTANTS
    None = None
    c1 = c1
    c2 = c2
    Providers = {"github", "bitbucket"}
    Last = 2
    Run <- MCRun
    RunsOf <- MCRunsOf
    PageSize <- ShortPages
    Cycle = {c1, c2}
    MaxRollbacks = 1
    MaxFaults = 1
    MaxExpiries = 1
PROPERTIES
    FailuresSeen
