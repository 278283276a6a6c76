CONSTANTS
    MaxBytes = 4
    FifoSize = 2
    RxSize = 2
    MaxBreaks = 2
SPECIFICATION BridgeSpec
INVARIANT BytesDelivered
PROPERTY Reconnects
CHECK_DEADLOCK FALSE
