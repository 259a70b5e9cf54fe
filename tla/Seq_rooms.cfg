SPECIFICATION Spec
CONSTANTS
    Ids = {m1, m2, m3}
    NoId = NoId
    HasTrunk = TRUE
    Offers <- Rooms
    Stimuli <- CallByCall
    MaxAtoms = 2
SYMMETRY Symmetry
INVARIANTS
    AnsweredOnce
    NoFault
    HangsUpSilent
CHECK_DEADLOCK FALSE
