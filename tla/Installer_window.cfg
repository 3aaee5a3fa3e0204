SPECIFICATION Spec
CHECK_DEADLOCK FALSE
CONSTANTS
    Mods = {"edhm"}
    Nvidia = TRUE
    MaxBuild = 1
    MaxRuns = 1
    MaxFaults = 0
    MaxChanges = 1
    MaxEvents = 9
    Outside = {}
    Landing = {"mod"}
    Recurring = {}
INVARIANT ReplacedIsKept
