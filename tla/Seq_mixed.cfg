SPECIFICATION Spec
CONSTANTS
    Ids = {m1, m2}
    NoId = NoId
    HasTrunk = TRUE
    Offers <- Mixed
    Stimuli <- InCall
    MaxAtoms = 2
SYMMETRY Symmetry
INVARIANTS
    TypeOK
    Linked
PROPERTIES
    NothingStartsLate
CHECK_DEADLOCK FALSE
