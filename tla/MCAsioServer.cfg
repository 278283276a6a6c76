CONSTANTS
    MaxSessions = 2
    MaxChunks = 2
    MaxMessages = 1
SPECIFICATION Spec
INVARIANTS OneSession ClientsKeptApart NoSocketLeak
PROPERTY ClientAccepted
CHECK_DEADLOCK FALSE
