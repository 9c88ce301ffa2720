CONSTANTS
    a1 = a1
    a2 = a2
    a3 = a3
    bad = bad
    Address = {a1, a2, a3, bad}
    Valid = {a1, a2, a3}
    Lists <- MCLists
    MaxPerSend = 2
    MaxPerResend = 1
    MaxTransactions = 4
    FaultKind = {"crash", "send", "query", "settle"}
    MaxFaults = 2
SPECIFICATION PatientSpec
INVARIANTS
    PaidTwiceOnlyIfLost
    FileIsCurrent
PROPERTIES
    EveryonePaid
CHECK_DEADLOCK FALSE
