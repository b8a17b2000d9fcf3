CONSTANTS
    Ports = {1, 2}
    Expected = {1}
    CVEs = {"kev", "epss"}
    KEV = {"kev"}
    Percentile <- Percentiles
    Stacks <- AllStacks
    Wanted = {{}}
    Hosts <- AllHosts
    Others <- AllOthers
    Sensitive = {2}
    Web = {}
SPECIFICATION Spec
INVARIANT NeverSafer
INVARIANT ExposedFatalIsRed
INVARIANT NotBelowWorstGroup
INVARIANT CapExplained
CHECK_DEADLOCK FALSE
