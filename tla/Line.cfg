SPECIFICATION FairSpec
CONSTANTS
    MaxCalls = 2
    MaxCommands = 3
    Handles = {1, 2, 3, 4}
    Troubles = {"glare", "lost", "refused", "no_media", "crossed", "hasty", "late", "overtaken", "again", "stale"}
INVARIANTS
    TypeOK
    InService
PROPERTIES
    ImplementsCall
    OperationEnds
CHECK_DEADLOCK FALSE
