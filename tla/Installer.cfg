\* Three runs; with 2 faults no change, with 1 fault 2 changes, with none 3; in two
\* runs 2 faults and a change.
SPECIFICATION Spec
CHECK_DEADLOCK FALSE
CONSTANTS
    Mods = {"edhm"}
    Nvidia = TRUE
    MaxBuild = 1
    MaxRuns = 3
    MaxFaults = 2
    MaxChanges = 3
    MaxEvents = 7
    Outside = {"game", "lose", "wipe", "mod", "park", "edit", "ngx", "del"}
    Landing = {"game", "mod", "park", "del", "lose", "ngx", "edit", "wipe"}
    Recurring = {"game", "lose", "wipe"}
INVARIANTS Consistent RolledBackIsAsFound KeepsOriginals UninstallRestores
