SPECIFICATION FairSpec
CONSTANTS
    MaxRevs = 2
    MaxEvents = 2
    MaxTime = 2
    Dues = {1}
    Clients = {c1, c2}
    ReminderBuffer = 1
    NoTime = NoTime
    NoRow = NoRow
INVARIANTS TypeOK AtMostOnce SingleCopy NoReminderLost
PROPERTIES ArchivedIsFinal FirstMarkWins EventuallyAnnounced
CHECK_DEADLOCK FALSE
