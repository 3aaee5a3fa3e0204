\* Two sessions of two frames; three announced changes, two held at a time.
SPECIFICATION FairSpec
CONSTANTS
    MaxTime = 2
    MaxFrames = 2
    MaxSessions = 2
    MaxChanges = 3
    MaxSpaces = 2
    EventCapacity = 1
    ChangeCapacity = 2
INVARIANTS Consistent OriginContract FramesAreAccepted
PROPERTY RetiredPolicyQuits
CHECK_DEADLOCK FALSE
