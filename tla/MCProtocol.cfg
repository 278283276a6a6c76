CONSTANTS
    MaxByte = 4
    Head0 = 3
    Head1 = 4
    FunctionAck = 2
    Crc <- MCCrc
    RxBufferSize = 13
    Frames <- MCFrames
    Fragments <- MCFragments
    MaxArrivals = 2
    MaxTime = 1
SPECIFICATION Spec
INVARIANTS FrameInBuffer AlignedFrame CleanStreamAcked
PROPERTY RequestsAnswered
CHECK_DEADLOCK FALSE
