SPECIFICATION FairSpec
CONSTANTS
    f = f
    b = b
    d = d
    u = u
    r = r
    Samples = {f, b, d, u, r}
    KindOf <- MCKindOf
    NoSample = NoSample
    Chunks = 2
    BeepChunks = 1
    Beeps = 2
    Buffers = 1
    Room = 1
    MaxStarts = 2
    Troubles = {"both", "hasty", "tones", "beeps", "replayed", "waiting", "hungry", "relabelled", "remembered"}
INVARIANTS
    Sound
    CompletedOnce
    NotForgotten
PROPERTIES
    StopEnds
CHECK_DEADLOCK FALSE
