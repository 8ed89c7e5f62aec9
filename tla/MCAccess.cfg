CONSTANTS
    Browsers = {b1, b2}
    MaxId = 4
    MaxNow = 3
    CacheTtl = 2
    NonceTtl = 1
    SessionTtl = 3
    IdleTtl = 1
    TouchInterval = 0
    Attempts = {a1, a2}
    MaxFailures = 2
    Window = 2
    Interval = 1
    MaxMissed = 2
    Clock = 3
    Logins = {1, 2}
    MaxPassword = 1
    Tabs = {t1, t2}
    MaxFactor = 3
    Faults = TRUE
    Addresses = {"a", "b"}
    OwnerTabs = {o1}
    Joiners = {j1, j2}
    MaxMembers = 2
    InviteTtl = 1
    MaxInvites = 2
    LastHour = 2
SPECIFICATION McSpec
INVARIANTS GuessesBounded UserNeedsSchema RecoveredOnce NoStrayLogins
PROPERTIES SignInStartsLocked RevocationSeenInTime AdminsNeverRunOut
CHECK_DEADLOCK FALSE
