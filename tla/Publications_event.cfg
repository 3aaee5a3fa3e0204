SPECIFICATION Spec
CONSTANTS
    MaxTime = 2
    MaxFrames = 2
    MaxSessions = 2
    MaxChanges = 3
    MaxSpaces = 2
    EventCapacity = 2
    ChangeCapacity = 2
INVARIANT
    EventPoseIsCurrent
CHECK_DEADLOCK FALSE
