SPECIFICATION Spec
CONSTANTS
    N = 2
    Alphasense = {1}
    AmbGap = 4
    GasGap = 3
    AdcGap = 2
    Sampling = 5
    VisitMax = 2
    CycleMax = 4
    Start = 5
    MaxTime = 17
INVARIANTS AmbientIsWhole VoltagesOfConcentration FlagJudgesTheRow RowIsOfThisCycle ColumnsInOrder GatesInv
CHECK_DEADLOCK FALSE
