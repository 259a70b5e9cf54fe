SPECIFICATION Spec
CONSTANTS
    Ids = {m1, m2}
    NoId = NoId
    HasTrunk = FALSE
    Offers <- Prompts
    Stimuli <- InBackground
    MaxAtoms = 2
SYMMETRY Symmetry
INVARIANTS
    ByPriority
    OneActive
    HeadPreempts
    
CHECK_DEADLOCK FALSE
