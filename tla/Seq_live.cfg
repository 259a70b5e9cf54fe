SPECIFICATION FairSpec
CONSTANTS
    Ids = {m1, m2}
    NoId = NoId
    HasTrunk = TRUE
    Offers <- Finite
    Stimuli <- LocalHangup
    MaxAtoms = 2
PROPERTIES
    EveryMoleculeEnds
    DiscHangsUp
CHECK_DEADLOCK FALSE
