CONSTANTS
    Tabs = {t1, t2}
    BudgetYears = {1, 2}
    ExpenseCats = {1}
    OtherCats = {2}
    PlanLines <- McLines
    Cents = {30}
    EditMonths = {1, 12}
    Fillers = {t1}
    Opening <- McOpening
    MaxOps = 2
    Visitors = {v1, v2}
    Dimensions = {"category", "month", "account"}
    Metrics = {"sum", "avg"}
    Charts = {"bar", "pie", "line", "table"}
    ReportTypes = {"expense", "income"}
    Presets = {"this_year", "all_time"}
    Tops = {0, 1, 10}
    ReportLedgers <- McLedgers
    ReportMonth = 26
    NoAxis = NoAxis
    MaxEdits = 3
    MaxRuns = 2
    Bundles <- McBundles
    FigureCats = {1, 2, 3, 4, 5}
    CatParent <- McParent
    CatName <- McName
    MonthBudgets <- McBudgets
    FigureAccounts = {1, 2, 3}
    Liabilities = {3}
    Rate <- McRate
    OpeningOf <- McOpen
    Now = 26
    HistoryMonths = 3
    FlowTops = {1, 12}
    Charges <- McCharges
    MaxCommitments = 3
    RateDays = {1, 2, 3, 4, 5}
    MaxRates = 5
    LastDay = 3
    Horizons = {2}
    HistoryDays = 3
    MinDays = 2
    Drift = 1
    Moves <- McMoves
    Plans <- McPlans
    Whatifs <- McWhatifs
    MonthDays = 2
    TrailingIncome = 80
    FundBalance = 60
    Burn = 7
    Askers = {1, 2}
    MaxMoved = 4
    RateDates = {1, 2}
    Foreign = {"EUR"}
    National = "PLN"
    Fractions <- McFractions
    MaxRecorded = 3
    SalaryMonths = {1, 2, 3, 4}
    Takings = {4, 20}
    Overrides = {0, 12}
    MinHistoryMonths = 3
    MaxRecords = 2
    MaxLines = 4
    PairRows = {1, 2, 3}
    PairDays = {1, 2}
    MaxDaysApart = 0
    Tolerance = 1
    MaxPatterns = 2
    Files <- McFiles
    RuleAccount <- McRules
    ImportAccounts = {1}
    MaxDrops = 2
    MaxSettings = 1
SPECIFICATION McSpec
INVARIANTS NoRowTwice FiguresAgree LookupsAgree PlansAreOnTheLine
CHECK_DEADLOCK FALSE
