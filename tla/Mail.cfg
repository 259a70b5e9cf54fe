SPECIFICATION Spec
CONSTANTS
    c1 = c1
    c2 = c2
    fabian = fabian
    lars = lars
    Callers = {c1, c2}
    Numbers = {fabian, lars}
    MaxCalls = 4
    MaxMails = 3
    MaxKeys = 4
    Troubles = {"overwritten", "arriving", "twins", "beyond", "wrapped", "abandoned"}
INVARIANTS
    Sound
    NothingLost
SYMMETRY Symmetry
CHECK_DEADLOCK FALSE
