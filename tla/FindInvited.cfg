CONSTANTS
    Addresses = {"a", "b"}
    OwnerTabs = {o1}
    Joiners = {j1}
    MaxMembers = 2
    InviteTtl = 1
    MaxInvites = 1
    LastHour = 1
SPECIFICATION InviteSpec
PROPERTIES SigningInAccepts
CHECK_DEADLOCK FALSE
