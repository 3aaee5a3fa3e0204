\* Three frames, two sizes; a skybox of two faces that is set three times; three
\* launches, two credited frames and two faults; five lines of one or two bytes
\* into buffers of two, a size cap of three.
SPECIFICATION PartsSpec
CONSTANTS
    MaxFrames = 3
    Sizes = {1, 2}
    NumFaces = 2
    MaxSets = 3
    MaxLaunches = 3
    ConfirmAfter = 2
    FaultLimit = 2
    MaxLines = 5
    LineSizes = {1, 2}
    BufferCap = 2
    MaxBytes = 3
INVARIANTS Consistent PairContract SkyboxIsWhole SentinelContract LogContract
\* A released capture takes no more steps; the game is started and lines are
\* noted only so often.
CHECK_DEADLOCK FALSE
