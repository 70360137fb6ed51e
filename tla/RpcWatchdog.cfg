SPECIFICATION FairSpec
CONSTANTS
    DecodeSilence = 2
    LongSilence = 5
    LoadWall = 3
    FirstTokenHop = 6
    DecodeWall = 7
    Deadline = 9
    StallTimer = 2
    LongLines = {"noise"}
    MaxStall = 2
    MaxTalk = 2
INVARIANTS TypeOK WallsHold CloudHears KilledOnlyWhenSilent
 
CHECK_DEADLOCK FALSE
