SPECIFICATION Spec
CONSTANTS
    MaxVersion = 1
    Bad = {}
    Foreign = Foreign
    Registrations <- Always
    Outsiders <- Never
    LateErrors <- Always
    MaxJobs = 1
    MaxWrites = 1
    MaxFaults = 3
    MaxMoves = 0
INVARIANT NothingUndone
\* The instance may be stopped and nobody may want to start it again.
CHECK_DEADLOCK FALSE
