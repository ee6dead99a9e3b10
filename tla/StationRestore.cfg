SPECIFICATION FairSpec
CONSTANTS
    FcMod = 1
    ByteMod = 256
    Restore = 1800
    CfgErrorLimit = 0
    SendErrorLimit = 0
PROPERTY RestoreWaitEnds
