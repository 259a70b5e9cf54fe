SPECIFICATION FairSpec
CONSTANTS
    a = a
    b = b
    none = none
    Lines = 2
    Clients <- MCClients
    NoClient <- none
    MaxListens = 2
    MaxDials = 1
    MaxCalls = 1
    MaxSends = 1
    Troubles = {"deadlock", "gone", "raced", "dropped", "mistaken", "late"}
INVARIANTS
    Sound
    ListensConserved
    CallsKnown
PROPERTIES
    CallsSettled
CHECK_DEADLOCK FALSE
