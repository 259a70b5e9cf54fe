SPECIFICATION Spec
CONSTANTS
    Ids = {m1, m2}
    NoId = NoId
    HasTrunk = TRUE
    Offers <- Resumable
    Stimuli <- RemoteHangup
    MaxAtoms = 2
SYMMETRY Symmetry
PROPERTIES
    NothingStartsAfterRdis
CHECK_DEADLOCK FALSE
