CONSTANTS
    FirstYear = 2023
    LastYear = 2026
    Starts <- McStarts
    Todays <- McTodays
    PlanIds = {1}
    Horizon = 1
    MaxPosted = 3
    Posters = {s1, s2}
    Ledgers <- McLedgers
    Arrivals <- McArrivals
    KeyOfPayee <- McKeys
    NowDay = 800
    MaxCharges = 5
    UserTables = {"accounts", "categories", "transactions", "budgets", "payees", "personal_loans"}
    MaxSteps = 2
    MaxId = 4
    RaceRows = 4
    Clerks = {c1, c2}
    LoanIds = {1, 2}
    LedgerRows = {1}
    Principals = {1, 2}
    MaxRepayments = 2
    MaxRequests = 4
    Goals <- McGoals
    Irregulars <- McIrregulars
    FundAccounts = {"w", "g", "i", "j"}
    Wallet = "w"
    Callers = {1, 2}
    MaxMoves = 5
    Presses = {1, 2}
    Bills = {a, b}
    MaxPresses = 5
    AuditSessions = {s1, s2}
    Records = {1, 2}
    Values = {1, 2}
    MaxAudited = 2
    MaxAuditSteps = 5
SPECIFICATION McSpec
INVARIANTS WindowsSplit PostedOnce LinkedOnce GoalMoneyKept NewestEntryTells
PROPERTIES RestoredIsExported
CHECK_DEADLOCK FALSE
