CONSTANTS
    MaxRow = 3
    MaxFlight = 2
    MaxPress = 2
    MaxLost = 1
    MaxAsks = 3
    MaxPage = 1
    Selections = {"a", "b"}
    MaxSelects = 2
    MaxShifts = 2
    MaxRuns = 4
    DashTabs = {1, 2}
    MaxMoves = 2
    MaxDialogs = 1
SPECIFICATION McSpec
INVARIANTS NoRowTakesAnothersForm  ChartIsOfTheRun
CHECK_DEADLOCK FALSE
