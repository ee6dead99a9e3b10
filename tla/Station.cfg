SPECIFICATION FairSpec
CONSTANTS
    FcMod = 3
    ByteMod = 4
    Restore = 2
    CfgErrorLimit = 1
    SendErrorLimit = 1
INVARIANTS OkAnswersThisCommand OkMeansQuiet StickReady CountedWasAired ExchangeInv
PROPERTIES LostRowsStayLost KeepsLinkRule DeadStickExits ResumesUplinks
