SPECIFICATION FairSpec
CONSTANTS
    Delays <- MCDelays
    IdSpan = 4
    MaxAdds = 3
    MaxTime = 3
INVARIANTS
    TypeOK
    NoLostWakeUp
    NeverEarlyNorRemoved
PROPERTIES
    CalledInOrder
    EveryTimerEnds
CHECK_DEADLOCK FALSE
