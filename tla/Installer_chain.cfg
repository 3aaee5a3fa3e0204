SPECIFICATION Spec
CHECK_DEADLOCK FALSE
CONSTANTS
    Mods = {"edhm"}
    Nvidia = TRUE
    MaxBuild = 1
    MaxRuns = 3
    MaxFaults = 0
    MaxChanges = 2
    MaxEvents = 9
    Outside = {"mod", "del"}
    Landing = {}
    Recurring = {"mod", "del"}
INVARIANT RealDllNamesAFile
