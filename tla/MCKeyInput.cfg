CONSTANTS
    Levels = {2, 5}
    Readings = {dark, bright}
    NoReading = none
    MaxCommands = 2
    MaxPending = 2
    KEY_ENTER = 28
    KEY_NUM = 11
    MaxEvents = 2
SPECIFICATION KeySpec
INVARIANTS AppliedAsSent LineReported
PROPERTY ChangeReported
