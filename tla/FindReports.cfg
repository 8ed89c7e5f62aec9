CONSTANTS
    Visitors = {v1, v2}
    Dimensions = {"category", "month", "account"}
    Metrics = {"sum", "avg"}
    Charts = {"bar", "pie", "line", "table"}
    ReportTypes = {"expense", "income"}
    Presets = {"this_year", "all_time"}
    Tops = {0, 1, 10}
    ReportLedgers = {{}}
    ReportMonth = 26
    NoAxis = NoAxis
    MaxEdits = 3
    MaxRuns = 2
SPECIFICATION ReportSpec
INVARIANTS OpensOnExpenses
CHECK_DEADLOCK FALSE
