SPECIFICATION Spec
CHECK_DEADLOCK FALSE
CONSTANTS
    Mods = {"edhm"}
    Nvidia = TRUE
    MaxBuild = 2
    MaxRuns = 2
    MaxFaults = 0
    MaxChanges = 0
    MaxEvents = 9
    Outside = {}
    Landing = {}
    Recurring = {}
INVARIANT MirrorHasOriginal
