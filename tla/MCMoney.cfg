CONSTANTS
    Accounts = {1, 2}
    Abroad = {}
    MaxTx = 3
    Amounts = {1, 2}
    Members = {m1, m2}
    Pairers = {p1}
    MaxRow = 3
    Days = {0, 1, 2}
    PageSize = 2
    ScanLimit = 2
    MaxPayee = 3
    MaxIdent = 4
    Names = {a, b}
    Alike = {{a, b}}
    RowIds = {r1}
    Letters = {1, 2}
    MaxWord = 3
    MaxCat = 3
    Entries = {1, 2, 3}
    Rules = {1}
    Months = {1}
    Plans = {1, 2}
    DupWindow = 1
SPECIFICATION McSpec
INVARIANTS LinksMutual GroupNetsAddUp PruningSound
PROPERTIES UndoneStayApart CategoryMergeLosesNothing
CHECK_DEADLOCK FALSE
