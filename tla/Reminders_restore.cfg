SPECIFICATION Spec
CONSTANTS
    MaxRevs = 2
    MaxEvents = 1
    MaxTime = 3
    Dues = {2}
    Clients = {c1}
    ReminderBuffer = 1
    NoTime = NoTime
    NoRow = NoRow
INVARIANT FutureRemindersRestored
CHECK_DEADLOCK FALSE
