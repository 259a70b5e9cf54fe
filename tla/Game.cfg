SPECIFICATION FairSpec
CONSTANTS
    se = se
    sw = sw
    lounge = lounge
    none = none
    Lines = 2
    Rooms = {se, sw, lounge}
    ConferenceRooms = {lounge}
    Entry = se
    Doors <- MCDoors
    Shortcuts = {lounge}
    MaxCalls = 3
    MaxInputs = 8
    MaxTalks = 1
    MaxOpened = 2
    NoRoom = none
    Troubles = {"busy", "crossed", "refused", "timeout", "doubled", "empty", "closing"}
INVARIANTS
    Sound
    AlwaysListens
    Present
PROPERTIES
    LinesClear
CHECK_DEADLOCK FALSE
