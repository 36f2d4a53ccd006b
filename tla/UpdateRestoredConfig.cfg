SPECIFICATION Spec
CONSTANTS
    MaxVersion = 1
    Bad = {}
    Foreign = Foreign
    Registrations <- Never
    Outsiders <- Never
    LateErrors <- Never
    MaxJobs = 1
    MaxWrites = 0
    MaxFaults = 1
    MaxMoves = 1
INVARIANT RestoredReadable
\* The instance may be stopped and nobody may want to start it again.
CHECK_DEADLOCK FALSE
