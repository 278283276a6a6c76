CONSTANTS
    Threads <- MCThreads
    Process <- MCProcess
    Lengths = {2, 4, 6, 7}
    BufferSize = 7
    ReadSize = 5
    PipeSize = 9
    MaxCalls = 3
SPECIFICATION Spec
INVARIANTS LineInBuffer TornOnlyByPeers LossOnlyWhenFull
CHECK_DEADLOCK FALSE
