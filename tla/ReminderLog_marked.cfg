SPECIFICATION LoggedSpec
CONSTANTS
    MaxRevs = 1
    MaxEvents = 1
    MaxTime = 1
    Dues = {1}
    Clients = {c1}
    ReminderBuffer = 1
    NoTime = NoTime
    NoRow = NoRow
    LogBuffer = 1
    PerCaller = 1
INVARIANT MarkedIsWritten
CHECK_DEADLOCK FALSE
