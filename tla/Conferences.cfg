SPECIFICATION Spec
CONSTANTS
    Handles = {h1, h2}
    NoHandle = NoHandle
    Parties = {1, 2, 3, 4}
    Modes <- MCModes
    MaxParty = 3
SYMMETRY Symmetry
INVARIANTS
    Sound
    HearsSpeakers
    CountsAgree
CHECK_DEADLOCK FALSE
