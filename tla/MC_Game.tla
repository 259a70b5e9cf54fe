-------------------------------- MODULE MC_Game --------------------------------
EXTENDS Game

CONSTANTS se, sw, lounge, none \* rooms of World, with the names they have there

MCDoors == {<<se, sw>>, <<sw, se>>, <<se, lounge>>, <<lounge, se>>}
=============================================================================
