SPECIFICATION Spec
CHECK_DEADLOCK FALSE
CONSTANTS
    Mods = {"edhm"}
    Nvidia = TRUE
    MaxBuild = 1
    MaxRuns = 2
    MaxFaults = 0
    MaxChanges = 1
    MaxEvents = 9
    Outside = {"mod"}
    Landing = {}
    Recurring = {"mod"}
INVARIANT KeptChainIsWired
