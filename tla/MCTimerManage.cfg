CONSTANTS
    Clients = {c1}
    Requests <- MCRequests
    Always = 3
    MaxActions = 3
    MaxTicks = 5
SPECIFICATION TimerSpec
INVARIANTS FiresOnSchedule RemovedIsGone
PROPERTY StopEndsLoop
CHECK_DEADLOCK FALSE
