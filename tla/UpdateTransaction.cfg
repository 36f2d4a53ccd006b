SPECIFICATION FairSpec
CONSTANTS
    MaxVersion = 2
    Bad = {2}
    Foreign = Foreign
    Registrations <- Either
    Outsiders <- Always
    LateErrors <- Never
    MaxJobs = 2
    MaxWrites = 1
    MaxFaults = 2
    MaxMoves = 1
INVARIANTS
    TypeOK
    NoLostWrite
    FrozenWhileBusy
    Quiescent
    OutcomeTrue
    Recoverable
PROPERTIES
    NeverReplacedInUse
    RollbackIsFinal
    ImplementsPromise
    EventuallyUnfrozen
\* The instance may be stopped and nobody may want to start it again.
CHECK_DEADLOCK FALSE
