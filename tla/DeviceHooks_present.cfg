\* The fixes switched off, one device with its swap chain, one Present.
SPECIFICATION Spec
CONSTANTS
    MaxLaunches = 1
    ConfirmAfter = 1
    FaultLimit = 1
INVARIANT OffSwitchIsSafe
CHECK_DEADLOCK FALSE
